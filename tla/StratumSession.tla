---------------------------- MODULE StratumSession ----------------------------
(***************************************************************************)
(* The conversation with a stratum pool (stratum_thread and                *)
(* stratum_handle_response in cpu-miner.c, stratum_* in util.c).           *)
(*                                                                         *)
(* The stratum thread connects, subscribes, authorizes and then reads      *)
(* lines.  Workio sends shares on the same connection at any time.  The    *)
(* pool answers requests in order and sends calls of its own in between.   *)
(* Until the thread reads lines in its main loop it takes an answer for    *)
(* that of its last request by its place in the stream, whatever its id.   *)
(* The api thread changes the url and asks for a reset.  A thread that     *)
(* failed to connect too often ends workio, and the program with it.       *)
(*                                                                         *)
(* Abstractions.  StratumMining shows what jobs and difficulties do; here  *)
(* a notify is a line that is handled.  xnonce1 is numbered in the order   *)
(* in which the pool gives it out.  The workers' name and the session id   *)
(* are left out.  A share sent to a closed connection fails: that its file *)
(* descriptor may be in use again is not modelled.                         *)
(***************************************************************************)
EXTENDS Naturals, Sequences, FiniteSets

CONSTANTS
  Url,        \* the pools
  Dead,       \* those that accept no connection
  Unlimited,  \* opt_retries is negative: try for ever (the default)
  Retries,    \* opt_retries, if not
  Extranonce, \* opt_extranonce
  MaxShares,  \* bound: shares found
  MaxLines,   \* bound: calls the pool makes
  MaxXn,      \* bound: values of xnonce1
  MaxFail,    \* bound: connections that fail or break, lines that do not come
  MaxSet      \* bound: changes of the url by the api

ASSUME UrlAssumption == Dead \subseteq Url
ASSUME OptionsAssumption == Retries \in Nat /\ {Unlimited, Extranonce} \subseteq BOOLEAN
ASSUME BoundsAssumption ==
  {MaxShares, MaxLines, MaxXn, MaxFail, MaxSet} \subseteq Nat /\ MaxXn > 0

VARIABLES
  at,         \* where the stratum thread is
  open,       \* stratum.curl # NULL
  up, down,   \* what is on its way to the pool and from it
  url,        \* stratum.url
  xn,         \* stratum.xnonce1
  again,      \* retry in stratum_subscribe; history until the next connection
  failures,   \* failed connections since the last top of the loop
  rpcUrl,     \* rpc_url
  needReset,  \* stratum_need_reset
  api,        \* the api thread: "idle", "free" (rpc_url is freed), "flag"
  queue,      \* workio's queue
  io, ioFails,\* where workio is, failures of its present command
  count,      \* accepted_count and rejected_count
  poolXn,     \* the pool: the xnonce1 it gave out last
  poolAuth,   \* the pool: has it authorized this connection
  answered,   \* history: its answers to shares, less those lost with a connection
  early,      \* history: a share was sent before the main loop read a line
  used        \* what the bounds have used up

thread == <<at, open, url, xn, again, failures>>
resets == <<rpcUrl, needReset, api>>
workio == <<queue, io, ioFails>>
pool   == <<poolXn, poolAuth>>
ledger == <<count, answered>>
vars   == <<thread, up, down, resets, workio, pool, ledger, early, used>>

Requests == {"subscribe", "authorize", "extranonce", "share"}
Id(request) == CASE request = "subscribe" -> 1 [] request = "authorize" -> 2
                 [] request = "extranonce" -> 3 [] request = "share" -> 4

\* A line of the pool: an answer, a call that is handled, one that is not (or
\* no JSON), mining.set_extranonce, client.reconnect.
Answer(request, ok, x) == [kind |-> "answer", id |-> Id(request), ok |-> ok, xn |-> x]
Call(kind, x) == [kind |-> kind, id |-> 0, ok |-> FALSE, xn |-> x]
Lines == [kind : {"answer", "call", "unknown", "set_extranonce", "reconnect"},
          id : 0..4, ok : BOOLEAN, xn : 0..MaxXn]

Place == {"top", "reset", "connect", "pause", "subscribe", "subscribed", "authorize",
          "authorizing", "extranonce", "extra", "recv", "gone"}

Bounds == [shares : 0..MaxShares, lines : 0..MaxLines, fail : 0..MaxFail, set : 0..MaxSet]

TypeOK ==
  /\ at \in Place /\ open \in BOOLEAN
  /\ up \in Seq(Requests) /\ down \in Seq(Lines)
  /\ url \in Url /\ xn \in 0..MaxXn /\ again \in BOOLEAN /\ failures \in Nat
  /\ rpcUrl \in Url /\ needReset \in BOOLEAN /\ api \in {"idle", "free", "flag"}
  /\ queue \in Seq({"share", "NULL"}) /\ io \in {"pop", "send", "dead"} /\ ioFails \in Nat
  /\ count \in [BOOLEAN -> Nat] /\ answered \in [BOOLEAN -> Nat]
  /\ poolXn \in 0..MaxXn /\ poolAuth \in BOOLEAN /\ early \in BOOLEAN
  /\ used \in Bounds

Init ==
  /\ at = "top" /\ open = FALSE /\ up = <<>> /\ down = <<>>
  /\ url \in Url /\ xn = 0 /\ again = FALSE /\ failures = 0
  /\ rpcUrl = url /\ needReset = FALSE /\ api = "idle"
  /\ queue = <<>> /\ io = "pop" /\ ioFails = 0
  /\ count = [ok \in BOOLEAN |-> 0] /\ answered = count
  /\ poolXn = 0 /\ poolAuth = FALSE /\ early = FALSE
  /\ used = [shares |-> 0, lines |-> 0, fail |-> 0, set |-> 0]

Use(bound, max) == used[bound] < max /\ used' = [used EXCEPT ![bound] = @ + 1]

-----------------------------------------------------------------------------
(***************************************************************************)
(* stratum_thread                                                          *)
(***************************************************************************)

\* stratum_disconnect; what was under way is lost.
Disconnect == open' = FALSE /\ up' = <<>> /\ down' = <<>> /\ answered' = count

\* The top of the loop, with a reset asked for: the flag is cleared first ...
Reset ==
  /\ at = "top" /\ needReset
  /\ needReset' = FALSE
  /\ Disconnect
  /\ failures' = 0
  /\ at' = "reset"
  /\ UNCHANGED <<url, xn, again, rpcUrl, api, workio, pool, count, early, used>>

\* ... then rpc_url is read, freed memory while the api thread replaces it.
ResetUrl ==
  /\ at = "reset"
  /\ url' \in (IF api = "free" THEN Url ELSE {rpcUrl})
  /\ at' = "connect"
  /\ UNCHANGED <<open, xn, again, failures, up, down, resets, workio, pool, ledger,
                 early, used>>

Top ==
  /\ at = "top" /\ ~needReset
  /\ failures' = 0
  /\ at' = IF open THEN "recv" ELSE "connect"
  /\ UNCHANGED <<open, url, xn, again, up, down, resets, workio, pool, ledger, early, used>>

\* A fault for the checks: a new connection takes the reset for done.
FlagCleared == FALSE

FlagAtConnect == needReset

\* stratum_connect, to the url read before: a reset asked for since then is
\* still to come.
Connect ==
  /\ at = "connect" /\ url \notin Dead
  /\ open' = TRUE
  /\ up' = <<>> /\ down' = <<>>
  /\ again' = FALSE /\ early' = FALSE /\ poolAuth' = FALSE
  /\ needReset' = FlagAtConnect
  /\ at' = "subscribe"
  /\ UNCHANGED <<url, xn, failures, rpcUrl, api, workio, poolXn, ledger, used>>

\* A fault for the checks: workio is not told.
QueueLeft == queue

QueueAtEnd == Append(queue, "NULL")

\* The connection failed, or one of its three requests: try again, or tell
\* workio to end.
GiveUpOrRetry ==
  /\ Disconnect
  /\ failures' = IF Unlimited THEN failures ELSE failures + 1
  /\ IF ~Unlimited /\ failures + 1 > Retries
     THEN at' = "gone" /\ queue' = (IF io = "dead" THEN queue ELSE QueueAtEnd)
     ELSE at' = "pause" /\ UNCHANGED queue
  /\ UNCHANGED <<url, xn, resets, io, ioFails, pool, count, early>>

Starting == {"subscribe", "subscribed", "authorize", "authorizing"}

\* No connection, nothing sent, or no line in time: always with a dead pool,
\* and after client.reconnect closed the connection in stratum_authorize.
ConnectFails ==
  /\ at \in Starting \cup {"connect"}
  /\ IF (at = "connect" /\ url \in Dead) \/ (at # "connect" /\ ~open)
     THEN UNCHANGED used ELSE Use("fail", MaxFail)
  /\ UNCHANGED again
  /\ GiveUpOrRetry

\* A second stratum_subscribe that gets no line frees the first one's answer
\* once more: it may go well (ConnectFails), or end the program.
FreedTwice ==
  /\ at \in {"subscribe", "subscribed"} /\ again
  /\ Use("fail", MaxFail)
  /\ Disconnect
  /\ at' = "gone"
  /\ io' = "dead"
  /\ UNCHANGED <<url, xn, again, failures, resets, queue, ioFails, pool, count, early>>

\* sleep( opt_fail_pause ); the reset flag is not looked at.
Pause ==
  /\ at = "pause"
  /\ at' = "connect"
  /\ UNCHANGED <<open, url, xn, again, failures, up, down, resets, workio, pool, ledger, early,
                 used>>

SendRequest(request, next) ==
  /\ open
  /\ up' = Append(up, request)
  /\ at' = next
  /\ UNCHANGED <<open, url, xn, again, failures, down, resets, workio, pool, ledger, early,
                 used>>

Subscribe == at = "subscribe" /\ SendRequest("subscribe", "subscribed")
Authorize == at = "authorize" /\ SendRequest("authorize", "authorizing")
AskExtranonce == at = "extranonce" /\ SendRequest("extranonce", "extra")

Line == Head(down)
HasLine == open /\ down # <<>>

\* A fault for the checks: a parameter is taken that is not xnonce1.
OtherAsXn(line) == MaxXn + 1

SubscribedXn(line) == line.xn

\* stratum_subscribe takes the first line for its answer.  Only an answer to
\* mining.subscribe has the right shape; with any other it subscribes again,
\* once.
ReadSubscribed ==
  /\ at = "subscribed" /\ HasLine
  /\ IF Line.kind = "answer" /\ Line.id = Id("subscribe") /\ Line.ok
     THEN /\ xn' = SubscribedXn(Line) /\ at' = "authorize" /\ down' = Tail(down)
          /\ UNCHANGED <<open, url, again, failures, up, resets, workio, pool, ledger, early,
                         used>>
     ELSE IF ~again
     THEN /\ again' = TRUE /\ at' = "subscribe" /\ down' = Tail(down)
          /\ UNCHANGED <<open, url, xn, failures, up, resets, workio, pool, ledger, early, used>>
     ELSE GiveUpOrRetry /\ UNCHANGED <<again, used>>

\* A fault for the checks: a call that changes extranonce is dropped.
HandlesAllBut(line) == line.kind \in {"call", "reconnect"}

\* stratum_handle_method returns true.
Handled(line) == line.kind \in {"call", "set_extranonce", "reconnect"}

\* What it does.
Handle(line) ==
  /\ xn' = IF Handled(line) /\ line.kind = "set_extranonce" THEN line.xn ELSE xn
  /\ IF line.kind = "reconnect"
     THEN Disconnect /\ url' \in Url
     ELSE down' = Tail(down) /\ UNCHANGED <<open, up, url, answered>>

\* A fault for the checks: the result is not looked at.
NeverRefused(line) == line.kind # "answer"

\* A line that is no call ends stratum_authorize, well or not.
Refused(line) == line.kind # "answer" \/ ~line.ok

ReadAuthorizing ==
  /\ at = "authorizing" /\ HasLine
  /\ IF Handled(Line)
     THEN /\ Handle(Line)
          /\ UNCHANGED <<at, again, failures, resets, workio, pool, count, early, used>>
     ELSE IF Refused(Line)
     THEN GiveUpOrRetry /\ UNCHANGED <<again, used>>
     ELSE /\ down' = Tail(down)
          /\ at' = IF Extranonce THEN "extranonce" ELSE "recv"
          /\ UNCHANGED <<open, url, xn, again, failures, up, resets, workio, pool, ledger,
                         early, used>>

\* The answer to mining.extranonce.subscribe, or whatever line comes first, is
\* read and, if a call, handled.  It need not come: then it is read later.
ReadExtra ==
  /\ at = "extra" /\ HasLine
  /\ Handle(Line)
  /\ at' = IF open' THEN "recv" ELSE "connect"
  /\ UNCHANGED <<again, failures, resets, workio, pool, count, early, used>>
SkipExtra ==
  /\ at \in {"extranonce", "extra"}
  /\ Use("fail", MaxFail)
  /\ at' = "recv"
  /\ UNCHANGED <<open, url, xn, again, failures, up, down, resets, workio, pool, ledger, early>>

\* A fault for the checks: the answer to mining.extranonce.subscribe counts.
OfShareOrExtra(line) == line.kind = "answer" /\ line.id >= 3

\* stratum_handle_response tells answers to shares by their id.
OfShare(line) == line.kind = "answer" /\ line.id >= 4

\* share_result
Count(line) == count' = [count EXCEPT ![line.ok] = @ + 1]

\* The main loop.
Read ==
  /\ at = "recv" /\ HasLine
  /\ Handle(Line)
  /\ IF OfShare(Line) THEN Count(Line) ELSE UNCHANGED count
  /\ at' = "top"
  /\ UNCHANGED <<again, failures, resets, workio, pool, early, used>>

\* opt_timeout with no line, or the connection is lost.
Timeout ==
  /\ at = "recv"
  /\ HasLine => Use("fail", MaxFail)
  /\ ~HasLine => UNCHANGED used
  /\ Disconnect
  /\ at' = "top"
  /\ UNCHANGED <<url, xn, again, failures, resets, workio, pool, count, early>>

-----------------------------------------------------------------------------
(***************************************************************************)
(* The miner threads, workio_thread and the api thread.                    *)
(***************************************************************************)
FindShare ==
  /\ io # "dead"
  /\ Use("shares", MaxShares)
  /\ queue' = Append(queue, "share")
  /\ UNCHANGED <<thread, up, down, resets, io, ioFails, pool, ledger, early>>

Pop ==
  /\ io = "pop" /\ queue # <<>>
  /\ io' = IF Head(queue) = "NULL" THEN "dead" ELSE "send"
  /\ queue' = Tail(queue)
  /\ ioFails' = 0
  /\ UNCHANGED <<thread, up, down, resets, pool, ledger, early, used>>

\* submit_upstream_work: the share is stale, or sent.
Discard ==
  /\ io = "send"
  /\ io' = "pop"
  /\ UNCHANGED <<thread, up, down, resets, queue, ioFails, pool, ledger, early, used>>

Send ==
  /\ io = "send" /\ open
  /\ up' = Append(up, "share")
  /\ early' = (early \/ at \notin {"top", "reset", "recv"})
  /\ io' = "pop"
  /\ UNCHANGED <<thread, down, resets, queue, ioFails, pool, ledger, used>>

SendFails ==
  /\ io = "send"
  /\ IF open THEN Use("fail", MaxFail) ELSE UNCHANGED used
  /\ IF Unlimited
     THEN UNCHANGED <<ioFails, io>>
     ELSE /\ ioFails' = ioFails + 1
          /\ io' = IF ioFails + 1 > Retries THEN "dead" ELSE "send"
  /\ UNCHANGED <<thread, up, down, resets, queue, pool, ledger, early>>

\* remote_seturl: parse_arg frees rpc_url and sets it, then the flag is set.
SetUrl ==
  /\ api = "idle"
  /\ Use("set", MaxSet)
  /\ api' = "free"
  /\ UNCHANGED <<thread, up, down, rpcUrl, needReset, workio, pool, ledger, early>>
NewUrl ==
  /\ api = "free"
  /\ rpcUrl' \in Url
  /\ api' = "flag"
  /\ UNCHANGED <<thread, up, down, needReset, workio, pool, ledger, early, used>>
AskReset ==
  /\ api = "flag"
  /\ needReset' = TRUE
  /\ api' = "idle"
  /\ UNCHANGED <<thread, up, down, rpcUrl, workio, pool, ledger, early, used>>

(***************************************************************************)
(* The pool.                                                               *)
(***************************************************************************)
NextXn == {poolXn, poolXn + 1} \cap 1..MaxXn

PoolAnswers ==
  /\ open /\ up # <<>>
  /\ up' = Tail(up)
  /\ \E ok \in BOOLEAN, x \in NextXn :
       LET request == Head(up) IN
       /\ down' = Append(down, Answer(request, ok, IF request = "subscribe" THEN x ELSE 0))
       /\ poolXn' = IF request = "subscribe" /\ ok THEN x ELSE poolXn
       /\ poolAuth' = IF request = "authorize" THEN ok ELSE poolAuth
       /\ answered' = IF request = "share" THEN [answered EXCEPT ![ok] = @ + 1] ELSE answered
  /\ UNCHANGED <<thread, resets, workio, count, early, used>>

PoolCalls ==
  /\ open
  /\ Use("lines", MaxLines)
  /\ \/ /\ \E kind \in {"call", "unknown", "reconnect"} : down' = Append(down, Call(kind, 0))
        /\ UNCHANGED poolXn
     \/ /\ poolXn' \in NextXn
        /\ down' = Append(down, Call("set_extranonce", poolXn'))
  /\ UNCHANGED <<thread, up, resets, workio, poolAuth, ledger, early>>

-----------------------------------------------------------------------------

StratumStep == \/ Reset \/ ResetUrl \/ Top \/ Connect \/ ConnectFails \/ FreedTwice \/ Pause \/ Subscribe
               \/ ReadSubscribed \/ Authorize \/ ReadAuthorizing \/ AskExtranonce
               \/ ReadExtra \/ SkipExtra \/ Read \/ Timeout
Workio == Pop \/ Discard \/ Send \/ SendFails
Api == NewUrl \/ AskReset
Next == StratumStep \/ Workio \/ Api \/ SetUrl \/ FindShare \/ PoolAnswers \/ PoolCalls

Safety == Init /\ [][Next]_vars

\* The threads keep running, and each wait of the stratum thread is bounded in
\* time.  The pool answers; the connection fails only so often (MaxFail).
Fairness == WF_vars(StratumStep) /\ WF_vars(Workio) /\ WF_vars(Api) /\ WF_vars(PoolAnswers)
Spec == Safety /\ Fairness

-----------------------------------------------------------------------------

\* The miner takes itself for authorized only if the pool has authorized it,
\* though stratum_authorize does not look at the id of its answer; except that
\* a second mining.subscribe, or a share sent too early, has an answer that is
\* taken for it.
AuthorizedByPool ==
  at \in {"extranonce", "extra", "recv"} /\ ~again /\ ~early => poolAuth

\* When all it was sent is read, a miner that subscribed once mines with the
\* xnonce1 the pool gave out last, over mining.set_extranonce at any moment.
XnonceIsPools ==
  at = "recv" /\ open /\ down = <<>> /\ ~again => xn = poolXn

\* No answer is counted as a share's that is none, and each answer to a share
\* is counted once, unless the share was sent before the main loop or the
\* answer was lost with its connection.
InFlight(ok) ==
  Cardinality({i \in DOMAIN down : down[i].id = Id("share") /\ down[i].ok = ok})
Ledger ==
  \A ok \in BOOLEAN :
    /\ count[ok] + InFlight(ok) <= answered[ok]
    /\ ~early => count[ok] + InFlight(ok) = answered[ok]

\* "Change pool url": once the api has asked for it, the miner turns to the
\* new url, unless the miner has given up.
UrlFollows == needReset ~> url = rpcUrl \/ at = "gone"

\* When the stratum thread has given up, workio ends, and the program with it,
\* whatever shares are queued before the order.
GivingUpEnds == at = "gone" ~> io = "dead"
=============================================================================
