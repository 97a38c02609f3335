------------------------ MODULE StratumSession_proof ------------------------
(***************************************************************************)
(* Proofs about StratumSession, for any pools, options and bounds: whose   *)
(* answer a line is taken for, which xnonce1 the miner mines with, and the *)
(* ledger of shares.                                                       *)
(***************************************************************************)
EXTENDS StratumSession, FiniteSetTheorems, SequenceTheorems, TLAPS

(***************************************************************************)
(* The inductive invariant.  It says which requests and answers may be     *)
(* under way while the thread is at each of its places.                    *)
(***************************************************************************)

\* A request is nowhere on its way, nor is an answer to it.
NoneIn(r, u, d) ==
  /\ \A i \in 1..Len(u) : u[i] # r
  /\ \A i \in 1..Len(d) : d[i].id # Id(r)

\* It is under way once at most, as a request or as an answer.
OnceIn(r, u, d) ==
  /\ \A i, j \in 1..Len(u) : u[i] = r /\ u[j] = r => i = j
  /\ \A i, j \in 1..Len(d) : d[i].id = Id(r) /\ d[j].id = Id(r) => i = j
  /\ \A i \in 1..Len(u), j \in 1..Len(d) : ~(u[i] = r /\ d[j].id = Id(r))

\* Lines that bring an xnonce1.
Carrier(l) == l.kind = "set_extranonce" \/ (l.id = Id("subscribe") /\ l.ok)

\* The last of them in d brings p.
Carried(d, p) ==
  \E i \in 1..Len(d) :
    /\ Carrier(d[i]) /\ d[i].xn = p
    /\ \A j \in 1..Len(d) : i < j => ~Carrier(d[j])

\* When all lines of d are read, p has taken the place of x.
Becomes(d, x, p) == Carried(d, p) \/ (x = p /\ \A i \in 1..Len(d) : ~Carrier(d[i]))

Authorized == {"extranonce", "extra", "recv", "top"}
Subscribed == {"authorize", "authorizing"} \cup Authorized

\* Where the thread has a connection.  Without one nothing is under way, and
\* what the last one lost is settled.
Connected ==
  /\ at \in {"reset", "connect", "pause", "gone"} => ~open
  /\ at \in {"subscribe", "subscribed", "authorize", "extranonce", "extra", "recv"} => open
  /\ ~open => up = <<>> /\ down = <<>> /\ answered = count

\* Answers have the id of a request, calls have none.
WellFormed == \A i \in 1..Len(down) : down[i].kind = "answer" <=> down[i].id # 0

\* mining.subscribe was sent once at most, and not before its time.
SubscribesOnce ==
  open /\ ~again =>
    /\ at = "subscribe" => NoneIn("subscribe", up, down)
    /\ at = "subscribed" => OnceIn("subscribe", up, down)
    /\ at \in Subscribed => NoneIn("subscribe", up, down)

\* While no share has been sent too early, no answer but that of mining.authorize
\* can be read when it is waited for.
AuthorizesOnce ==
  open /\ ~again /\ ~early =>
    /\ at \in {"subscribe", "subscribed", "authorize"} \cup Authorized
         => NoneIn("authorize", up, down)
    /\ at = "authorizing" => OnceIn("authorize", up, down)
    /\ at \in Starting \cup {"extranonce"} => NoneIn("extranonce", up, down)

NoEarlyShare ==
  open /\ ~early /\ at \in Starting \cup {"extranonce", "extra"} => NoneIn("share", up, down)

\* What the pool has answered to mining.authorize is still to be read, or was read.
Verdict ==
  open /\ ~again /\ ~early =>
    /\ at = "authorizing" =>
         \A i \in 1..Len(down) : down[i].id = Id("authorize") => down[i].ok = poolAuth
    /\ at \in Authorized => poolAuth

\* The xnonce1 of the pool is the miner's, or is on its way to it.
XnonceOnItsWay ==
  open /\ ~again =>
    /\ at = "subscribed"
       /\ (\E i \in 1..Len(down) : down[i].id = Id("subscribe") /\ down[i].ok)
         => Carried(down, poolXn)
    /\ at \in Subscribed => Becomes(down, xn, poolXn)

Stream == /\ Connected /\ WellFormed /\ SubscribesOnce /\ AuthorizesOnce
          /\ NoEarlyShare /\ Verdict /\ XnonceOnItsWay /\ Ledger

IInv == TypeOK /\ Stream

-----------------------------------------------------------------------------
(***************************************************************************)
(* Types                                                                   *)
(***************************************************************************)
LEMMA Constants ==
  /\ MaxXn \in Nat \ {0} /\ MaxShares \in Nat /\ MaxLines \in Nat /\ MaxFail \in Nat
  /\ MaxSet \in Nat /\ Retries \in Nat
BY BoundsAssumption, OptionsAssumption

LEMMA IdFacts ==
  /\ Id("subscribe") = 1 /\ Id("authorize") = 2 /\ Id("extranonce") = 3 /\ Id("share") = 4
  /\ \A r \in Requests : Id(r) \in 1..4
  /\ \A r, q \in Requests : Id(r) = Id(q) => r = q
<1>1. /\ Id("subscribe") = 1 /\ Id("authorize") = 2 /\ Id("extranonce") = 3
      /\ Id("share") = 4
  BY DEF Id
<1> QED BY <1>1 DEF Requests

LEMMA TailFacts ==
  ASSUME NEW S, NEW s \in Seq(S), s # <<>>
  PROVE  /\ Head(s) = s[1] /\ Head(s) \in S /\ Tail(s) \in Seq(S)
         /\ Len(s) \in Nat \ {0} /\ Len(Tail(s)) = Len(s) - 1 /\ 1 \in 1..Len(s)
         /\ \A i \in 1..Len(Tail(s)) : Tail(s)[i] = s[i + 1] /\ i + 1 \in 1..Len(s)
<1>1. /\ Head(s) \in S /\ Tail(s) \in Seq(S) /\ Len(Tail(s)) = Len(s) - 1
      /\ \A i \in 1..Len(Tail(s)) : Tail(s)[i] = s[i + 1]
  BY HeadTailProperties
<1>2. Len(s) \in Nat \ {0}
  BY EmptySeq
<1>3. Head(s) = s[1]
  OBVIOUS
<1> QED BY <1>1, <1>2, <1>3

LEMMA AppendFacts ==
  ASSUME NEW S, NEW s \in Seq(S), NEW e \in S
  PROVE  /\ Append(s, e) \in Seq(S) /\ Len(s) \in Nat /\ Len(Append(s, e)) = Len(s) + 1
         /\ \A i \in 1..Len(s) : Append(s, e)[i] = s[i] /\ i \in 1..Len(Append(s, e))
         /\ Append(s, e)[Len(s) + 1] = e
         /\ \A i \in 1..Len(Append(s, e)) : i = Len(s) + 1 \/ i \in 1..Len(s)
BY AppendProperties, LenProperties

\* A count of good and bad answers is increased.
LEMMA Increment ==
  ASSUME NEW f \in [BOOLEAN -> Nat], NEW ok \in BOOLEAN
  PROVE  /\ [f EXCEPT ![ok] = @ + 1] \in [BOOLEAN -> Nat]
         /\ \A b \in BOOLEAN : [f EXCEPT ![ok] = @ + 1][b] = IF b = ok THEN f[b] + 1 ELSE f[b]
<1>1. f[ok] \in Nat
  BY Zenon
<1>2. f[ok] + 1 \in Nat
  BY <1>1
<1> DEFINE n == f[ok] + 1
<1> HIDE DEF n
<1>3. [f EXCEPT ![ok] = n] \in [BOOLEAN -> Nat]
  BY <1>2, Zenon DEF n
<1>4. \A b \in BOOLEAN : [f EXCEPT ![ok] = n][b] = IF b = ok THEN n ELSE f[b]
  BY Zenon
<1>5. \A b \in BOOLEAN : b = ok => n = f[b] + 1
  BY Zenon DEF n
<1> QED BY <1>3, <1>4, <1>5, Zenon DEF n

LEMMA EmptyFacts ==
  /\ Len(<<>>) = 0 /\ <<>> \in Seq(Requests) /\ <<>> \in Seq(Lines)
  /\ <<>> \in Seq({"share", "NULL"})
BY EmptySeq

LEMMA UseFacts ==
  ASSUME used \in Bounds,
         \/ UNCHANGED used
         \/ Use("shares", MaxShares) \/ Use("lines", MaxLines)
         \/ Use("fail", MaxFail) \/ Use("set", MaxSet)
  PROVE  used' \in Bounds
BY Constants DEF Use, Bounds

\* Lines the pool sends.
LEMMA LineFacts ==
  /\ \A r \in Requests, ok \in BOOLEAN, x \in 0..MaxXn : Answer(r, ok, x) \in Lines
  /\ \A k \in {"call", "unknown", "set_extranonce", "reconnect"}, x \in 0..MaxXn :
       Call(k, x) \in Lines
  /\ 0 \in 0..MaxXn
<1>1. 0 \in 0..MaxXn /\ 0 \in 0..4
  BY Constants
<1>2. \A r \in Requests : Id(r) \in 0..4
  BY IdFacts
<1> QED BY <1>1, <1>2 DEF Answer, Call, Lines

LEMMA HeardLine ==
  ASSUME TypeOK, HasLine
  PROVE  /\ down # <<>> /\ open /\ Line \in Lines /\ Line = down[1] /\ Tail(down) \in Seq(Lines)
         /\ Line.kind \in {"answer", "call", "unknown", "set_extranonce", "reconnect"}
         /\ Line.id \in 0..4 /\ Line.ok \in BOOLEAN /\ Line.xn \in 0..MaxXn
<1>1. down \in Seq(Lines) /\ down # <<>> /\ open
  BY DEF TypeOK, HasLine
<1>2. Line \in Lines /\ Line = down[1] /\ Tail(down) \in Seq(Lines)
  BY <1>1, TailFacts DEF Line
<1> HIDE DEF Line
<1> QED BY <1>1, <1>2 DEF Lines

LEMMA DisconnectType ==
  ASSUME TypeOK, Disconnect
  PROVE  /\ open' \in BOOLEAN /\ up' \in Seq(Requests) /\ down' \in Seq(Lines)
         /\ answered' \in [BOOLEAN -> Nat]
BY EmptyFacts DEF TypeOK, Disconnect

LEMMA GiveUpType ==
  ASSUME TypeOK, GiveUpOrRetry, UNCHANGED again, used' \in Bounds
  PROVE  TypeOK'
<1>1. /\ failures' \in Nat /\ at' \in Place /\ queue' \in Seq({"share", "NULL"})
  <2>1. "NULL" \in {"share", "NULL"} /\ queue \in Seq({"share", "NULL"})
    BY DEF TypeOK
  <2>2. Append(queue, "NULL") \in Seq({"share", "NULL"})
    BY <2>1, AppendProperties
  <2>3. queue' \in {queue, Append(queue, "NULL")}
    BY DEF GiveUpOrRetry, QueueAtEnd
  <2>4. failures' \in Nat /\ at' \in {"gone", "pause"}
    BY DEF GiveUpOrRetry, TypeOK
  <2>5. queue' \in Seq({"share", "NULL"})
    BY <2>1, <2>2, <2>3
  <2> QED BY <2>4, <2>5 DEF Place
<1>2. /\ open' \in BOOLEAN /\ up' \in Seq(Requests) /\ down' \in Seq(Lines)
      /\ answered' \in [BOOLEAN -> Nat]
  BY DisconnectType DEF GiveUpOrRetry
<1> QED BY <1>1, <1>2 DEF GiveUpOrRetry, TypeOK, resets, pool

LEMMA HandleType ==
  ASSUME TypeOK, HasLine, Handle(Line)
  PROVE  /\ xn' \in 0..MaxXn /\ url' \in Url /\ open' \in BOOLEAN
         /\ up' \in Seq(Requests) /\ down' \in Seq(Lines) /\ answered' \in [BOOLEAN -> Nat]
<1>1. Line.xn \in 0..MaxXn /\ Tail(down) \in Seq(Lines)
  BY HeardLine
<1> HIDE DEF Line
<1>2. xn' \in 0..MaxXn
  BY <1>1 DEF Handle, TypeOK
<1>3. CASE Line.kind = "reconnect"
  BY <1>2, <1>3, DisconnectType DEF Handle
<1>4. CASE Line.kind # "reconnect"
  BY <1>1, <1>2, <1>4 DEF Handle, TypeOK
<1> QED BY <1>3, <1>4

LEMMA TypeInit == Init => TypeOK
<1> SUFFICES ASSUME Init PROVE TypeOK
  OBVIOUS
<1>1. used \in Bounds
  BY Constants DEF Init, Bounds
<1>2. up \in Seq(Requests) /\ down \in Seq(Lines) /\ queue \in Seq({"share", "NULL"})
  BY EmptyFacts DEF Init
<1>3. xn \in 0..MaxXn /\ poolXn \in 0..MaxXn
  BY Constants DEF Init
<1>4. count \in [BOOLEAN -> Nat] /\ answered \in [BOOLEAN -> Nat]
  BY DEF Init
<1> QED BY <1>1, <1>2, <1>3, <1>4 DEF Init, TypeOK, Place

\* The steps that leave the two directions of the connection alone.
LEMMA TypeQuiet ==
  ASSUME TypeOK,
         ResetUrl \/ Top \/ Pause \/ SkipExtra \/ FindShare \/ Pop \/ Discard
         \/ SendFails \/ SetUrl \/ NewUrl \/ AskReset
  PROVE  TypeOK'
<1>1. used' \in Bounds
  BY UseFacts DEF TypeOK, ResetUrl, Top, Pause, SkipExtra, FindShare, Pop, Discard, SendFails,
                  SetUrl, NewUrl, AskReset
<1>2. queue' \in Seq({"share", "NULL"})
  <2>1. CASE FindShare
    <3>1. "share" \in {"share", "NULL"} /\ queue \in Seq({"share", "NULL"})
      BY DEF TypeOK
    <3> QED BY <2>1, <3>1, AppendProperties DEF FindShare
  <2>2. CASE Pop
    BY <2>2, TailFacts DEF Pop, TypeOK
  <2> QED BY <2>1, <2>2 DEF TypeOK, ResetUrl, Top, Pause, SkipExtra, Discard, SendFails,
             SetUrl, NewUrl, AskReset, workio
<1>3. CASE ResetUrl \/ Top \/ Pause \/ SkipExtra
  <2>1. url' \in Url /\ failures' \in Nat /\ at' \in Place
    BY <1>3 DEF TypeOK, Place, ResetUrl, Top, Pause, SkipExtra, resets
  <2>2. UNCHANGED <<open, xn, again, up, down, resets, workio, pool, ledger, early>>
    BY <1>3 DEF ResetUrl, Top, Pause, SkipExtra
  <2> QED BY <1>1, <2>1, <2>2 DEF TypeOK, resets, workio, pool, ledger
<1>4. CASE FindShare \/ Pop \/ Discard \/ SendFails
  <2>1. ioFails' \in Nat /\ io' \in {"pop", "send", "dead"}
    <3>1. ioFails \in Nat /\ io \in {"pop", "send", "dead"}
      BY DEF TypeOK
    <3>2. CASE FindShare \/ Discard
      BY <3>1, <3>2 DEF FindShare, Discard
    <3>3. CASE Pop
      BY <3>1, <3>3 DEF Pop
    <3>4. CASE SendFails
      BY <3>1, <3>4 DEF SendFails
    <3> QED BY <1>4, <3>2, <3>3, <3>4
  <2>2. UNCHANGED <<thread, up, down, resets, pool, ledger, early>>
    BY <1>4 DEF FindShare, Pop, Discard, SendFails
  <2> QED BY <1>1, <1>2, <2>1, <2>2 DEF TypeOK, thread, resets, pool, ledger
<1>5. CASE SetUrl \/ NewUrl \/ AskReset
  BY <1>1, <1>2, <1>5 DEF TypeOK, SetUrl, NewUrl, AskReset, thread, workio, pool, ledger
<1> QED BY <1>3, <1>4, <1>5

\* The steps that connect and disconnect.
LEMMA TypeConnect ==
  ASSUME TypeOK, Reset \/ Connect \/ ConnectFails \/ FreedTwice \/ Timeout
  PROVE  TypeOK'
<1>1. used' \in Bounds
  BY UseFacts DEF TypeOK, Reset, Connect, ConnectFails, FreedTwice, Timeout
<1>2. CASE Reset
  BY <1>1, <1>2, DisconnectType DEF TypeOK, Reset, Place, workio, pool
<1>3. CASE Connect
  BY <1>1, <1>3, EmptyFacts DEF TypeOK, Connect, FlagAtConnect, Place, workio, ledger
<1>4. CASE ConnectFails
  BY <1>1, <1>4, GiveUpType DEF ConnectFails
<1>5. CASE FreedTwice
  BY <1>1, <1>5, DisconnectType DEF TypeOK, FreedTwice, Place, resets, pool
<1>6. CASE Timeout
  BY <1>1, <1>6, DisconnectType DEF TypeOK, Timeout, Place, resets, workio, pool
<1> QED BY <1>2, <1>3, <1>4, <1>5, <1>6

\* The steps that read a line.
LEMMA TypeRead ==
  ASSUME TypeOK, ReadSubscribed \/ ReadAuthorizing \/ ReadExtra \/ Read
  PROVE  TypeOK'
<1>1. HasLine /\ used' \in Bounds
  BY UseFacts DEF TypeOK, ReadSubscribed, ReadAuthorizing, ReadExtra, Read, GiveUpOrRetry
<1>2. Line.xn \in 0..MaxXn /\ Line.ok \in BOOLEAN /\ Tail(down) \in Seq(Lines)
  BY <1>1, HeardLine
<1>3. ASSUME GiveUpOrRetry, UNCHANGED <<again, used>> PROVE TypeOK'
  BY <1>1, <1>3, GiveUpType
<1> HIDE DEF Line
<1>4. CASE ReadSubscribed
  BY <1>1, <1>2, <1>3, <1>4 DEF TypeOK, ReadSubscribed, SubscribedXn, Place, resets, workio,
         pool, ledger
<1>5. CASE ReadAuthorizing
  <2>1. CASE Handled(Line)
    BY <1>1, <1>5, <2>1, HandleType DEF TypeOK, ReadAuthorizing, resets, workio, pool
  <2>2. CASE ~Handled(Line)
    BY <1>1, <1>2, <1>3, <1>5, <2>2 DEF TypeOK, ReadAuthorizing, Place, resets, workio, pool,
           ledger
  <2> QED BY <2>1, <2>2
<1>6. CASE ReadExtra
  BY <1>1, <1>6, HandleType DEF TypeOK, ReadExtra, Place, resets, workio, pool
<1>7. CASE Read
  <2>1. count' \in [BOOLEAN -> Nat]
    <3>1. [count EXCEPT ![Line.ok] = @ + 1] \in [BOOLEAN -> Nat]
      BY <1>2, Increment DEF TypeOK
    <3> QED BY <1>7, <3>1 DEF Read, Count, TypeOK
  <2> QED BY <1>1, <1>7, <2>1, HandleType DEF TypeOK, Read, Place, resets, workio, pool
<1> QED BY <1>4, <1>5, <1>6, <1>7

\* The steps that send, and those of the pool.
LEMMA TypeSend ==
  ASSUME TypeOK, Subscribe \/ Authorize \/ AskExtranonce \/ Send \/ PoolAnswers \/ PoolCalls
  PROVE  TypeOK'
<1>1. used' \in Bounds
  BY UseFacts DEF TypeOK, Subscribe, Authorize, AskExtranonce, SendRequest, Send, PoolAnswers,
                  PoolCalls
<1>2. ASSUME NEW r \in Requests PROVE Append(up, r) \in Seq(Requests)
  BY AppendProperties DEF TypeOK
<1>3. ASSUME NEW l \in Lines PROVE Append(down, l) \in Seq(Lines)
  BY AppendProperties DEF TypeOK
<1>4. {"subscribe", "authorize", "extranonce", "share"} = Requests
  BY DEF Requests
<1>5. CASE Subscribe \/ Authorize \/ AskExtranonce
  BY <1>1, <1>2, <1>4, <1>5 DEF TypeOK, Subscribe, Authorize, AskExtranonce, SendRequest, Place,
         resets, workio, pool, ledger
<1>6. CASE Send
  BY <1>1, <1>2, <1>4, <1>6 DEF TypeOK, Send, thread, resets, pool, ledger
<1>7. CASE PoolAnswers
  <2>1. PICK ok \in BOOLEAN, x \in NextXn :
          /\ down' = Append(down, Answer(Head(up), ok, IF Head(up) = "subscribe" THEN x ELSE 0))
          /\ poolXn' = IF Head(up) = "subscribe" /\ ok THEN x ELSE poolXn
          /\ poolAuth' = IF Head(up) = "authorize" THEN ok ELSE poolAuth
          /\ answered' = IF Head(up) = "share" THEN [answered EXCEPT ![ok] = @ + 1] ELSE answered
    BY <1>7 DEF PoolAnswers
  <2>2. Head(up) \in Requests /\ up' \in Seq(Requests)
    BY <1>7, TailFacts DEF PoolAnswers, TypeOK
  <2>3. x \in 0..MaxXn
    BY Constants DEF NextXn
  <2>4. down' \in Seq(Lines)
    BY <1>3, <2>1, <2>2, <2>3, LineFacts
  <2>5. answered' \in [BOOLEAN -> Nat]
    <3>1. [answered EXCEPT ![ok] = @ + 1] \in [BOOLEAN -> Nat]
      BY Increment DEF TypeOK
    <3> QED BY <2>1, <3>1 DEF TypeOK
  <2>6. poolXn' \in 0..MaxXn
    BY <2>1, <2>3 DEF TypeOK
  <2>7. poolAuth' \in BOOLEAN
    BY <2>1 DEF TypeOK
  <2> QED BY <1>1, <1>7, <2>2, <2>4, <2>5, <2>6, <2>7 DEF TypeOK, PoolAnswers, thread, resets, workio
<1>8. CASE PoolCalls
  <2>1. poolXn' \in 0..MaxXn
    BY <1>8, Constants DEF PoolCalls, NextXn, TypeOK
  <2>2. down' \in Seq(Lines)
    BY <1>3, <1>8, <2>1, LineFacts DEF PoolCalls
  <2> QED BY <1>1, <1>8, <2>1, <2>2 DEF TypeOK, PoolCalls, thread, resets, workio, ledger
<1> QED BY <1>5, <1>6, <1>7, <1>8

\* The variables of the session keep their types (TypeOK).
THEOREM SessionTypeCorrect == Spec => []TypeOK
<1>1. TypeOK /\ UNCHANGED vars => TypeOK'
  BY DEF TypeOK, vars, thread, resets, workio, pool, ledger
<1>2. TypeOK /\ Next => TypeOK'
  BY TypeQuiet, TypeConnect, TypeRead, TypeSend DEF Next, StratumStep, Workio, Api
<1> QED BY <1>1, <1>2, TypeInit, PTL DEF Spec, Safety

-----------------------------------------------------------------------------
(***************************************************************************)
(* What becomes of requests and answers when something is put at the end   *)
(* of a direction, or taken from its head.                                 *)
(***************************************************************************)
LEMMA AskOther ==
  ASSUME NEW u \in Seq(Requests), NEW d \in Seq(Lines), NEW q \in Requests,
         NEW r \in Requests, r # q
  PROVE  /\ NoneIn(r, u, d) => NoneIn(r, Append(u, q), d)
         /\ OnceIn(r, u, d) => OnceIn(r, Append(u, q), d)
<1> DEFINE v == Append(u, q)
<1>1. /\ \A i \in 1..Len(v) : i \in 1..Len(u) \/ v[i] # r
      /\ \A i \in 1..Len(u) : v[i] = u[i]
  BY AppendFacts
<1> HIDE DEF v
<1>2. NoneIn(r, u, d) => NoneIn(r, v, d)
  BY <1>1 DEF NoneIn
<1>3. OnceIn(r, u, d) => OnceIn(r, v, d)
  BY <1>1 DEF OnceIn
<1> QED BY <1>2, <1>3 DEF v

LEMMA AskFirst ==
  ASSUME NEW u \in Seq(Requests), NEW d \in Seq(Lines), NEW r \in Requests,
         NoneIn(r, u, d)
  PROVE  OnceIn(r, Append(u, r), d)
<1> DEFINE v == Append(u, r)
<1>1. /\ \A i \in 1..Len(v) : i = Len(u) + 1 \/ i \in 1..Len(u)
      /\ \A i \in 1..Len(u) : v[i] = u[i]
  BY AppendFacts
<1> HIDE DEF v
<1>2. OnceIn(r, v, d)
  BY <1>1 DEF NoneIn, OnceIn
<1> QED BY <1>2 DEF v

LEMMA Replied ==
  ASSUME NEW u \in Seq(Requests), NEW d \in Seq(Lines), u # <<>>,
         NEW l \in Lines, l.id = Id(Head(u)), NEW r \in Requests
  PROVE  /\ NoneIn(r, u, d) => NoneIn(r, Tail(u), Append(d, l))
         /\ OnceIn(r, u, d) => OnceIn(r, Tail(u), Append(d, l))
<1> DEFINE v == Tail(u)
           e == Append(d, l)
<1>1. /\ \A i \in 1..Len(v) : v[i] = u[i + 1] /\ i + 1 \in 1..Len(u)
      /\ Head(u) = u[1] /\ u[1] \in Requests /\ 1 \in 1..Len(u)
  BY TailFacts
<1>2. /\ \A i \in 1..Len(e) : i = Len(d) + 1 \/ i \in 1..Len(d)
      /\ \A i \in 1..Len(d) : e[i] = d[i]
      /\ e[Len(d) + 1] = l
  BY AppendFacts
<1>3. l.id = Id(r) <=> u[1] = r
  BY <1>1, IdFacts
<1> HIDE DEF v, e
<1>4. NoneIn(r, u, d) => NoneIn(r, v, e)
  BY <1>1, <1>2, <1>3 DEF NoneIn
<1>5. ASSUME OnceIn(r, u, d) PROVE OnceIn(r, v, e)
  <2>1. \A i, j \in 1..Len(v) : v[i] = r /\ v[j] = r => i = j
    <3> SUFFICES ASSUME NEW i \in 1..Len(v), NEW j \in 1..Len(v), v[i] = r, v[j] = r
                 PROVE  i = j
      OBVIOUS
    <3>1. i + 1 = j + 1
      BY <1>1, <1>5 DEF OnceIn
    <3> QED BY <3>1
  <2>2. \A i \in 1..Len(d) : u[1] = r => d[i].id # Id(r)
    BY <1>1, <1>5 DEF OnceIn
  <2>3. \A i, j \in 1..Len(e) : e[i].id = Id(r) /\ e[j].id = Id(r) => i = j
    BY <1>2, <1>3, <1>5, <2>2 DEF OnceIn
  <2>4. \A i \in 1..Len(v) : v[i] = r => u[1] # r
    <3> SUFFICES ASSUME NEW i \in 1..Len(v), v[i] = r, u[1] = r PROVE FALSE
      OBVIOUS
    <3>1. i + 1 = 1
      BY <1>1, <1>5 DEF OnceIn
    <3> QED BY <3>1
  <2>5. \A i \in 1..Len(v), j \in 1..Len(e) : ~(v[i] = r /\ e[j].id = Id(r))
    BY <1>1, <1>2, <1>3, <1>5, <2>4 DEF OnceIn
  <2> QED BY <2>1, <2>3, <2>5 DEF OnceIn
<1> QED BY <1>4, <1>5 DEF v, e

LEMMA Called ==
  ASSUME NEW u \in Seq(Requests), NEW d \in Seq(Lines),
         NEW l \in Lines, l.id = 0, NEW r \in Requests
  PROVE  /\ NoneIn(r, u, d) => NoneIn(r, u, Append(d, l))
         /\ OnceIn(r, u, d) => OnceIn(r, u, Append(d, l))
<1> DEFINE e == Append(d, l)
<1>1. /\ \A i \in 1..Len(e) : i = Len(d) + 1 \/ i \in 1..Len(d)
      /\ \A i \in 1..Len(d) : e[i] = d[i]
      /\ e[Len(d) + 1] = l
  BY AppendFacts
<1>2. l.id # Id(r)
  BY IdFacts
<1> HIDE DEF e
<1>3. NoneIn(r, u, d) => NoneIn(r, u, e)
  BY <1>1, <1>2 DEF NoneIn
<1>4. OnceIn(r, u, d) => OnceIn(r, u, e)
  BY <1>1, <1>2 DEF OnceIn
<1> QED BY <1>3, <1>4 DEF e

LEMMA Heard ==
  ASSUME NEW u \in Seq(Requests), NEW d \in Seq(Lines), d # <<>>, NEW r \in Requests
  PROVE  /\ NoneIn(r, u, d) => NoneIn(r, u, Tail(d)) /\ d[1].id # Id(r)
         /\ OnceIn(r, u, d) => OnceIn(r, u, Tail(d))
         /\ OnceIn(r, u, d) /\ d[1].id = Id(r) => NoneIn(r, u, Tail(d))
<1> DEFINE e == Tail(d)
<1>1. \A i \in 1..Len(e) : e[i] = d[i + 1] /\ i + 1 \in 1..Len(d)
  BY TailFacts
<1>2. 1 \in 1..Len(d)
  BY TailFacts
<1> HIDE DEF e
<1>3. NoneIn(r, u, d) => NoneIn(r, u, e) /\ d[1].id # Id(r)
  BY <1>1, <1>2 DEF NoneIn
<1>4. ASSUME OnceIn(r, u, d) PROVE OnceIn(r, u, e)
  <2>1. \A i, j \in 1..Len(e) : e[i].id = Id(r) /\ e[j].id = Id(r) => i = j
    <3> SUFFICES ASSUME NEW i \in 1..Len(e), NEW j \in 1..Len(e),
                        e[i].id = Id(r), e[j].id = Id(r)
                 PROVE  i = j
      OBVIOUS
    <3>1. i + 1 = j + 1
      BY <1>1, <1>4 DEF OnceIn
    <3> QED BY <3>1
  <2> QED BY <1>1, <1>4, <2>1 DEF OnceIn
<1>5. ASSUME OnceIn(r, u, d), d[1].id = Id(r) PROVE NoneIn(r, u, e)
  <2>1. \A i \in 1..Len(e) : e[i].id # Id(r)
    <3> SUFFICES ASSUME NEW i \in 1..Len(e), e[i].id = Id(r) PROVE FALSE
      OBVIOUS
    <3>1. i + 1 = 1
      BY <1>1, <1>2, <1>5 DEF OnceIn
    <3> QED BY <3>1
  <2> QED BY <1>2, <1>5, <2>1 DEF OnceIn, NoneIn
<1> QED BY <1>3, <1>4, <1>5 DEF e

LEMMA NothingIn == \A r \in Requests : NoneIn(r, <<>>, <<>>)
BY EmptyFacts DEF NoneIn

(***************************************************************************)
(* The same for the xnonce1 that lines bring.                              *)
(***************************************************************************)
LEMMA BecomesAfterAppend ==
  ASSUME NEW d \in Seq(Lines), NEW l \in Lines, NEW x, NEW p
  PROVE  /\ Carrier(l) => Carried(Append(d, l), l.xn)
         /\ ~Carrier(l) => (Carried(d, p) => Carried(Append(d, l), p))
         /\ ~Carrier(l) => (Becomes(d, x, p) => Becomes(Append(d, l), x, p))
<1> DEFINE e == Append(d, l)
<1>1. /\ \A i \in 1..Len(e) : i = Len(d) + 1 \/ i \in 1..Len(d)
      /\ \A i \in 1..Len(d) : e[i] = d[i] /\ i \in 1..Len(e)
      /\ e[Len(d) + 1] = l /\ Len(d) \in Nat /\ Len(e) = Len(d) + 1
  BY AppendFacts
<1> HIDE DEF e
<1>2. ASSUME Carrier(l) PROVE Carried(e, l.xn)
  <2>1. Len(d) + 1 \in 1..Len(e) /\ \A j \in 1..Len(e) : ~(Len(d) + 1 < j)
    BY <1>1
  <2> QED BY <1>1, <1>2, <2>1 DEF Carried
<1>3. ASSUME ~Carrier(l), Carried(d, p) PROVE Carried(e, p)
  <2>1. PICK i \in 1..Len(d) : /\ Carrier(d[i]) /\ d[i].xn = p
                               /\ \A j \in 1..Len(d) : i < j => ~Carrier(d[j])
    BY <1>3 DEF Carried
  <2>2. i \in 1..Len(e) /\ e[i] = d[i]
    BY <1>1
  <2>3. \A j \in 1..Len(e) : i < j => ~Carrier(e[j])
    BY <1>1, <1>3, <2>1
  <2> QED BY <2>1, <2>2, <2>3 DEF Carried
<1>4. ASSUME ~Carrier(l), \A i \in 1..Len(d) : ~Carrier(d[i])
      PROVE  \A i \in 1..Len(e) : ~Carrier(e[i])
  BY <1>1, <1>4
<1> QED BY <1>2, <1>3, <1>4 DEF e, Becomes

LEMMA BecomesAfterTail ==
  ASSUME NEW d \in Seq(Lines), d # <<>>, NEW x, NEW p, Becomes(d, x, p)
  PROVE  Becomes(Tail(d), IF Carrier(d[1]) THEN d[1].xn ELSE x, p)
<1> DEFINE e == Tail(d)
<1>1. /\ \A i \in 1..Len(e) : e[i] = d[i + 1] /\ i + 1 \in 1..Len(d)
      /\ Len(d) \in Nat \ {0} /\ Len(e) = Len(d) - 1 /\ 1 \in 1..Len(d)
  BY TailFacts
<1> HIDE DEF e
<1>2. CASE \A i \in 1..Len(d) : ~Carrier(d[i])
  <2>1. x = p
    BY <1>2 DEF Becomes, Carried
  <2>2. \A i \in 1..Len(e) : ~Carrier(e[i])
    BY <1>1, <1>2
  <2> QED BY <1>1, <1>2, <2>1, <2>2 DEF Becomes, e
<1>3. CASE Carried(d, p)
  <2>1. PICK i \in 1..Len(d) : /\ Carrier(d[i]) /\ d[i].xn = p
                               /\ \A j \in 1..Len(d) : i < j => ~Carrier(d[j])
    BY <1>3 DEF Carried
  <2>2. CASE i = 1
    <3>1. \A j \in 1..Len(e) : ~Carrier(e[j])
      BY <1>1, <2>1, <2>2
    <3> QED BY <2>1, <2>2, <3>1 DEF Becomes, e
  <2>3. CASE i # 1
    <3>1. i - 1 \in 1..Len(e) /\ e[i - 1] = d[i]
      BY <1>1, <2>1, <2>3
    <3>2. \A j \in 1..Len(e) : i - 1 < j => ~Carrier(e[j])
      BY <1>1, <2>1
    <3>3. Carried(e, p)
      BY <2>1, <3>1, <3>2 DEF Carried
    <3> QED BY <3>3 DEF Becomes, e
  <2> QED BY <2>2, <2>3
<1> QED BY <1>2, <1>3 DEF Becomes

LEMMA NothingBecomes == \A x : Becomes(<<>>, x, x)
BY EmptyFacts DEF Becomes

(***************************************************************************)
(* The answers to shares that are on their way.                            *)
(***************************************************************************)
OfShares(d, ok) == {i \in DOMAIN d : d[i].id = Id("share") /\ d[i].ok = ok}

LEMMA FlightFinite ==
  ASSUME NEW d \in Seq(Lines), NEW ok
  PROVE  IsFiniteSet(OfShares(d, ok)) /\ Cardinality(OfShares(d, ok)) \in Nat
<1>1. DOMAIN d = 1..Len(d) /\ Len(d) \in Nat
  BY LenProperties
<1>2. IsFiniteSet(1..Len(d)) /\ OfShares(d, ok) \subseteq 1..Len(d)
  BY <1>1, FS_Interval DEF OfShares
<1> QED BY <1>2, FS_Subset, FS_CardinalityType

LEMMA FlightAfterAppend ==
  ASSUME NEW d \in Seq(Lines), NEW l \in Lines, NEW ok
  PROVE  Cardinality(OfShares(Append(d, l), ok)) =
           IF l.id = Id("share") /\ l.ok = ok THEN Cardinality(OfShares(d, ok)) + 1
                                              ELSE Cardinality(OfShares(d, ok))
<1> DEFINE e == Append(d, l)
           n == Len(d) + 1
<1>1. /\ Len(d) \in Nat /\ DOMAIN d = 1..Len(d) /\ DOMAIN e = 1..n
      /\ \A i \in 1..Len(d) : e[i] = d[i] /\ e[n] = l
  BY AppendFacts, LenProperties
<1>2. e[n] = l /\ n \notin DOMAIN d /\ DOMAIN e = DOMAIN d \cup {n}
  <2>1. e[n] = l
    BY AppendFacts
  <2> HIDE DEF e
  <2> QED BY <1>1, <2>1
<1> HIDE DEF e, n
<1>3. CASE l.id = Id("share") /\ l.ok = ok
  <2>1. OfShares(e, ok) = OfShares(d, ok) \cup {n} /\ n \notin OfShares(d, ok)
    BY <1>1, <1>2, <1>3 DEF OfShares
  <2>2. IsFiniteSet(OfShares(d, ok))
    BY FlightFinite
  <2> QED BY <1>3, <2>1, <2>2, FS_AddElement DEF e
<1>4. CASE ~(l.id = Id("share") /\ l.ok = ok)
  <2>1. OfShares(e, ok) = OfShares(d, ok)
    BY <1>1, <1>2, <1>4 DEF OfShares
  <2> QED BY <1>4, <2>1 DEF e
<1> QED BY <1>3, <1>4

LEMMA FlightAfterTail ==
  ASSUME NEW d \in Seq(Lines), d # <<>>, NEW ok
  PROVE  Cardinality(OfShares(Tail(d), ok)) =
           IF d[1].id = Id("share") /\ d[1].ok = ok THEN Cardinality(OfShares(d, ok)) - 1
                                                    ELSE Cardinality(OfShares(d, ok))
<1> DEFINE e == Tail(d)
           A == OfShares(e, ok)
           B == OfShares(d, ok) \ {1}
           f == [i \in A |-> i + 1]
<1>1. /\ \A i \in 1..Len(e) : e[i] = d[i + 1]
      /\ Len(d) \in Nat \ {0} /\ Len(e) = Len(d) - 1
      /\ DOMAIN d = 1..Len(d) /\ DOMAIN e = 1..Len(e)
  BY TailFacts, LenProperties
<1> HIDE DEF e
<1>2. \A i \in A : i \in 1..Len(e) /\ i + 1 \in B
  BY <1>1 DEF OfShares
<1>3. \A j \in B : j - 1 \in A
  BY <1>1 DEF OfShares
<1>4. f \in Bijection(A, B)
  <2>1. f \in [A -> B]
    BY <1>2
  <2>2. \A i, j \in A : f[i] = f[j] => i = j
    BY <1>2
  <2>3. \A j \in B : \E i \in A : f[i] = j
    <3> SUFFICES ASSUME NEW j \in B PROVE \E i \in A : f[i] = j
      OBVIOUS
    <3>1. j - 1 \in A /\ j \in Int
      BY <1>1, <1>3 DEF OfShares
    <3> QED BY <3>1
  <2> HIDE DEF f, A, B
  <2> QED BY <2>1, <2>2, <2>3 DEF Bijection, Injection, Surjection, IsInjective
<1>5. IsFiniteSet(A) /\ IsFiniteSet(OfShares(d, ok)) /\ Cardinality(OfShares(d, ok)) \in Nat
  <2>1. e \in Seq(Lines)
    BY TailFacts DEF e
  <2> QED BY <2>1, FlightFinite
<1>6. Cardinality(A) = Cardinality(B)
  BY <1>4, <1>5, FS_Bijection DEF ExistsBijection
<1>7. Cardinality(B) = IF 1 \in OfShares(d, ok) THEN Cardinality(OfShares(d, ok)) - 1
                                                ELSE Cardinality(OfShares(d, ok))
  BY <1>5, FS_RemoveElement
<1>8. 1 \in OfShares(d, ok) <=> d[1].id = Id("share") /\ d[1].ok = ok
  BY <1>1 DEF OfShares
<1> QED BY <1>6, <1>7, <1>8 DEF e

LEMMA NoFlight == \A ok : Cardinality(OfShares(<<>>, ok)) = 0
<1>1. \A ok : OfShares(<<>>, ok) = {}
  BY DEF OfShares
<1> QED BY <1>1, FS_EmptySet

-----------------------------------------------------------------------------
(***************************************************************************)
(* The steps                                                               *)
(***************************************************************************)
LEMMA StreamInit == Init => Stream
<1> SUFFICES ASSUME Init PROVE Stream
  OBVIOUS
<1>1. at = "top" /\ ~open /\ up = <<>> /\ down = <<>> /\ ~early
  BY DEF Init
<1>2. WellFormed
  BY <1>1, EmptyFacts DEF WellFormed
<1>3. Ledger
  <2>1. \A ok \in BOOLEAN : InFlight(ok) = 0
    BY <1>1, NoFlight DEF InFlight, OfShares
  <2>2. \A ok \in BOOLEAN : count[ok] = 0 /\ answered[ok] = 0
    BY DEF Init
  <2> QED BY <2>1, <2>2 DEF Ledger
<1>4. Connected
  BY <1>1 DEF Connected, Init
<1>5. SubscribesOnce /\ AuthorizesOnce /\ NoEarlyShare /\ Verdict /\ XnonceOnItsWay
  BY <1>1 DEF SubscribesOnce, AuthorizesOnce, NoEarlyShare, Verdict, XnonceOnItsWay
<1> QED BY <1>2, <1>3, <1>4, <1>5 DEF Stream

\* The steps that leave the connection and the two directions alone.
LEMMA StreamQuiet ==
  ASSUME TypeOK, Stream,
         ResetUrl \/ Top \/ Pause \/ SkipExtra \/ FindShare \/ Pop \/ Discard
         \/ SendFails \/ SetUrl \/ NewUrl \/ AskReset
  PROVE  Stream'
<1>1. UNCHANGED <<open, up, down, xn, again, early, pool, ledger>>
  BY DEF ResetUrl, Top, Pause, SkipExtra, FindShare, Pop, Discard, SendFails, SetUrl, NewUrl,
         AskReset, thread
<1>2. \/ at' = at
      \/ at \in {"reset", "pause"} /\ at' = "connect"
      \/ at = "top" /\ at' = IF open THEN "recv" ELSE "connect"
      \/ at \in {"extranonce", "extra"} /\ at' = "recv"
  BY DEF ResetUrl, Top, Pause, SkipExtra, FindShare, Pop, Discard, SendFails, SetUrl, NewUrl,
         AskReset, thread
<1>3. Connected'
  BY <1>1, <1>2 DEF Stream, Connected, ledger
<1>4. WellFormed' /\ Ledger'
  BY <1>1 DEF Stream, WellFormed, Ledger, InFlight, ledger
<1>5. SubscribesOnce'
  BY <1>1, <1>2 DEF Stream, SubscribesOnce, Subscribed, Authorized
<1>6. AuthorizesOnce'
  BY <1>1, <1>2 DEF Stream, AuthorizesOnce, Authorized, Starting
<1>7. NoEarlyShare'
  BY <1>1, <1>2 DEF Stream, NoEarlyShare, Starting
<1>8. Verdict'
  BY <1>1, <1>2 DEF Stream, Verdict, Authorized, pool
<1>9. XnonceOnItsWay'
  BY <1>1, <1>2 DEF Stream, XnonceOnItsWay, Subscribed, Authorized, pool
<1> QED BY <1>3, <1>4, <1>5, <1>6, <1>7, <1>8, <1>9 DEF Stream

\* Nothing is under way in a closed connection, and every answer is counted.
LEMMA StreamClosed ==
  ASSUME TypeOK', Disconnect, UNCHANGED count,
         at' \in {"top", "reset", "connect", "pause", "gone", "authorizing"}
  PROVE  Stream'
<1>1. ~open' /\ up' = <<>> /\ down' = <<>> /\ answered' = count'
  BY DEF Disconnect
<1>2. WellFormed'
  BY <1>1, EmptyFacts DEF WellFormed
<1>3. Ledger'
  <2>1. \A ok \in BOOLEAN : Cardinality(OfShares(down', ok)) = 0
    BY <1>1, NoFlight
  <2>2. \A ok \in BOOLEAN : InFlight(ok)' = 0
    BY <2>1 DEF InFlight, OfShares
  <2>3. \A ok \in BOOLEAN : count'[ok] \in Nat /\ answered'[ok] = count'[ok]
    BY <1>1 DEF TypeOK
  <2> QED BY <2>2, <2>3 DEF Ledger
<1>4. Connected'
  BY <1>1 DEF Connected
<1>5. SubscribesOnce' /\ AuthorizesOnce' /\ NoEarlyShare' /\ Verdict' /\ XnonceOnItsWay'
  BY <1>1 DEF SubscribesOnce, AuthorizesOnce, NoEarlyShare, Verdict, XnonceOnItsWay
<1> QED BY <1>2, <1>3, <1>4, <1>5 DEF Stream

LEMMA StreamDisconnects ==
  ASSUME TypeOK', Reset \/ ConnectFails \/ FreedTwice \/ Timeout
  PROVE  Stream'
<1>1. Disconnect /\ UNCHANGED count /\ at' \in {"top", "reset", "pause", "gone"}
  BY DEF Reset, ConnectFails, GiveUpOrRetry, FreedTwice, Timeout
<1> QED BY <1>1, StreamClosed

\* A new connection: nothing has been sent on it.
LEMMA StreamConnects ==
  ASSUME TypeOK, Stream, TypeOK', Connect
  PROVE  Stream'
<1>1. /\ at = "connect" /\ at' = "subscribe" /\ open' = TRUE /\ up' = <<>> /\ down' = <<>>
      /\ ~early' /\ ~again' /\ UNCHANGED <<count, answered>>
  BY DEF Connect, ledger
<1>2. \A r \in Requests : NoneIn(r, up', down')
  BY <1>1, NothingIn
<1>3. Connected'
  BY <1>1 DEF Connected
<1>4. WellFormed'
  BY <1>1, EmptyFacts DEF WellFormed
<1>5. Ledger'
  <2>1. answered' = count'
    BY <1>1 DEF Stream, Connected
  <2>2. \A ok \in BOOLEAN : InFlight(ok)' = 0
    BY <1>1, NoFlight DEF InFlight, OfShares
  <2>3. \A ok \in BOOLEAN : count'[ok] \in Nat
    BY DEF TypeOK
  <2> QED BY <2>1, <2>2, <2>3 DEF Ledger
<1>6. SubscribesOnce'
  BY <1>1, <1>2 DEF SubscribesOnce, Subscribed, Authorized, Requests
<1>7. AuthorizesOnce'
  BY <1>1, <1>2 DEF AuthorizesOnce, Authorized, Requests
<1>8. NoEarlyShare'
  BY <1>1, <1>2 DEF NoEarlyShare, Requests
<1>9. Verdict' /\ XnonceOnItsWay'
  BY <1>1 DEF Verdict, XnonceOnItsWay, Subscribed, Authorized
<1> QED BY <1>3, <1>4, <1>5, <1>6, <1>7, <1>8, <1>9 DEF Stream

\* A request of the stratum thread.
LEMMA StreamAsks ==
  ASSUME TypeOK, Stream, TypeOK', Subscribe \/ Authorize \/ AskExtranonce
  PROVE  Stream'
<1>1. PICK q \in {"subscribe", "authorize", "extranonce"} :
        /\ at = q /\ up' = Append(up, q)
        /\ at' = CASE q = "subscribe" -> "subscribed" [] q = "authorize" -> "authorizing"
                   [] q = "extranonce" -> "extra"
  BY DEF Subscribe, Authorize, AskExtranonce, SendRequest
<1>2. open /\ UNCHANGED <<open, xn, again, down, pool, ledger, early>>
  BY DEF Subscribe, Authorize, AskExtranonce, SendRequest
<1>3. up \in Seq(Requests) /\ down \in Seq(Lines) /\ q \in Requests
  BY DEF TypeOK, Requests
<1>4. \A r \in Requests :
        /\ r # q /\ NoneIn(r, up, down) => NoneIn(r, up', down')
        /\ r # q /\ OnceIn(r, up, down) => OnceIn(r, up', down')
        /\ r = q /\ NoneIn(r, up, down) => OnceIn(r, up', down')
  BY <1>1, <1>2, <1>3, AskOther, AskFirst
<1>5. Connected'
  BY <1>1, <1>2 DEF Connected
<1>6. WellFormed' /\ Ledger'
  BY <1>2 DEF Stream, WellFormed, Ledger, InFlight, ledger
<1>7. SubscribesOnce'
  BY <1>1, <1>2, <1>4 DEF Stream, SubscribesOnce, Subscribed, Authorized, Requests
<1>8. AuthorizesOnce'
  BY <1>1, <1>2, <1>4 DEF Stream, AuthorizesOnce, Authorized, Starting, Requests
<1>9. NoEarlyShare'
  BY <1>1, <1>2, <1>4 DEF Stream, NoEarlyShare, Starting, Requests
<1>10. Verdict'
  BY <1>1, <1>2 DEF Stream, Verdict, AuthorizesOnce, NoneIn, Authorized, pool
<1>11. XnonceOnItsWay'
  BY <1>1, <1>2 DEF Stream, XnonceOnItsWay, SubscribesOnce, NoneIn, Subscribed, Authorized, pool
<1> QED BY <1>5, <1>6, <1>7, <1>8, <1>9, <1>10, <1>11 DEF Stream

\* A share is sent.
LEMMA StreamSends ==
  ASSUME TypeOK, Stream, TypeOK', Send
  PROVE  Stream'
<1>1. /\ open /\ UNCHANGED <<thread, down, pool, ledger>>
      /\ up' = Append(up, "share")
      /\ early' = (early \/ at \notin {"top", "reset", "recv"})
  BY DEF Send
<1>2. up \in Seq(Requests) /\ down \in Seq(Lines) /\ "share" \in Requests
  BY DEF TypeOK, Requests
<1>3. \A r \in Requests \ {"share"} :
        /\ NoneIn(r, up, down) => NoneIn(r, up', down')
        /\ OnceIn(r, up, down) => OnceIn(r, up', down')
  BY <1>1, <1>2, AskOther
<1>4. UNCHANGED <<at, open, xn, again, poolXn, poolAuth, count, answered>>
  BY <1>1 DEF thread, pool, ledger
<1>5. "subscribe" \in Requests \ {"share"} /\ "authorize" \in Requests \ {"share"}
      /\ "extranonce" \in Requests \ {"share"}
  BY DEF Requests
<1>6. Connected'
  BY <1>1, <1>4 DEF Stream, Connected
<1>7. WellFormed' /\ Ledger'
  BY <1>1, <1>4 DEF Stream, WellFormed, Ledger, InFlight
<1>8. SubscribesOnce'
  BY <1>1, <1>3, <1>4, <1>5 DEF Stream, SubscribesOnce
<1>9. AuthorizesOnce'
  BY <1>1, <1>3, <1>4, <1>5 DEF Stream, AuthorizesOnce
<1>10. NoEarlyShare'
  BY <1>1, <1>4 DEF NoEarlyShare, Starting
<1>11. Verdict' /\ XnonceOnItsWay'
  BY <1>1, <1>4 DEF Stream, Verdict, XnonceOnItsWay
<1> QED BY <1>6, <1>7, <1>8, <1>9, <1>10, <1>11 DEF Stream

\* The pool answers the request it has read.
LEMMA StreamAnswers ==
  ASSUME TypeOK, Stream, TypeOK', PoolAnswers
  PROVE  Stream'
<1> DEFINE request == Head(up)
<1>1. PICK ok \in BOOLEAN, x \in NextXn :
        /\ down' = Append(down, Answer(request, ok, IF request = "subscribe" THEN x ELSE 0))
        /\ poolXn' = IF request = "subscribe" /\ ok THEN x ELSE poolXn
        /\ poolAuth' = IF request = "authorize" THEN ok ELSE poolAuth
        /\ answered' = IF request = "share" THEN [answered EXCEPT ![ok] = @ + 1] ELSE answered
  BY DEF PoolAnswers
<1>2. /\ up # <<>> /\ open /\ up' = Tail(up)
      /\ UNCHANGED <<at, open, xn, again, count, early>>
  BY DEF PoolAnswers, thread
<1>3. /\ up \in Seq(Requests) /\ down \in Seq(Lines) /\ request \in Requests
      /\ request = up[1] /\ 1 \in 1..Len(up)
  BY <1>2, TailFacts DEF TypeOK
<1> DEFINE y == IF request = "subscribe" THEN x ELSE 0
           l == Answer(request, ok, y)
<1>4. y \in 0..MaxXn
  BY Constants DEF NextXn
<1> HIDE DEF y
<1>5. l \in Lines /\ l.kind = "answer" /\ l.id = Id(request) /\ l.ok = ok /\ l.xn = y
  BY <1>3, <1>4, LineFacts DEF Answer
<1>6. down' = Append(down, l)
  BY <1>1 DEF y
<1> HIDE DEF request, l
<1>7. \A r \in Requests : /\ NoneIn(r, up, down) => NoneIn(r, up', down') /\ request # r
                          /\ OnceIn(r, up, down) => OnceIn(r, up', down')
  <2>1. \A r \in Requests : /\ NoneIn(r, up, down) => NoneIn(r, up', down')
                            /\ OnceIn(r, up, down) => OnceIn(r, up', down')
    BY <1>2, <1>3, <1>5, <1>6, Replied DEF request
  <2>2. \A r \in Requests : NoneIn(r, up, down) => request # r
    BY <1>3 DEF NoneIn
  <2> QED BY <2>1, <2>2
<1>8. /\ \A i \in 1..Len(down') : i = Len(down) + 1 \/ i \in 1..Len(down)
      /\ \A i \in 1..Len(down) : down'[i] = down[i]
      /\ down'[Len(down) + 1] = l
  BY <1>3, <1>5, <1>6, AppendFacts
<1>9. {"subscribe", "authorize", "extranonce", "share"} = Requests
  BY DEF Requests
<1>10. Connected'
  BY <1>2 DEF Stream, Connected
<1>11. WellFormed'
  <2>1. l.id # 0
    BY <1>3, <1>5, IdFacts
  <2> QED BY <1>5, <1>8, <2>1 DEF Stream, WellFormed
<1>12. Ledger'
  <2>1. \A b \in BOOLEAN : InFlight(b)' = IF request = "share" /\ b = ok THEN InFlight(b) + 1
                                                                        ELSE InFlight(b)
    <3>1. request = "share" <=> Id(request) = Id("share")
      BY <1>3, <1>9, IdFacts
    <3>2. \A b \in BOOLEAN :
            Cardinality(OfShares(down', b)) =
              IF l.id = Id("share") /\ l.ok = b THEN Cardinality(OfShares(down, b)) + 1
                                                ELSE Cardinality(OfShares(down, b))
      BY <1>3, <1>5, <1>6, FlightAfterAppend
    <3>3. \A b \in BOOLEAN : /\ InFlight(b)' = Cardinality(OfShares(down', b))
                             /\ InFlight(b) = Cardinality(OfShares(down, b))
      BY DEF InFlight, OfShares
    <3> QED BY <1>5, <3>1, <3>2, <3>3
  <2>2. \A b \in BOOLEAN : answered'[b] = IF request = "share" /\ b = ok THEN answered[b] + 1
                                                                        ELSE answered[b]
    BY <1>1, Increment DEF TypeOK
  <2>3. \A b \in BOOLEAN : count[b] \in Nat /\ answered[b] \in Nat /\ InFlight(b) \in Nat
    BY <1>3, FlightFinite DEF TypeOK, InFlight, OfShares
  <2> QED BY <1>2, <2>1, <2>2, <2>3 DEF Stream, Ledger
<1>13. SubscribesOnce'
  BY <1>2, <1>7, <1>9 DEF Stream, SubscribesOnce
<1>14. AuthorizesOnce'
  BY <1>2, <1>7, <1>9 DEF Stream, AuthorizesOnce
<1>15. NoEarlyShare'
  BY <1>2, <1>7, <1>9 DEF Stream, NoEarlyShare
<1>16. Verdict'
  <2> SUFFICES ASSUME open, ~again, ~early
               PROVE  /\ at = "authorizing" =>
                           \A i \in 1..Len(down') :
                             down'[i].id = Id("authorize") => down'[i].ok = poolAuth'
                      /\ at \in Authorized => poolAuth'
    BY <1>2 DEF Verdict
  <2>1. CASE request = "authorize"
    <3>1. at \notin Authorized
      BY <1>7, <1>9, <2>1 DEF Stream, AuthorizesOnce
    <3>2. ASSUME at = "authorizing" PROVE \A i \in 1..Len(down) : down[i].id # Id("authorize")
      BY <1>3, <2>1, <3>2 DEF Stream, AuthorizesOnce, OnceIn
    <3> QED BY <1>1, <1>5, <1>8, <2>1, <3>1, <3>2
  <2>2. CASE request # "authorize"
    <3>1. l.id # Id("authorize") /\ poolAuth' = poolAuth
      BY <1>1, <1>3, <1>5, <1>9, <2>2, IdFacts
    <3> QED BY <1>8, <3>1 DEF Stream, Verdict
  <2> QED BY <2>1, <2>2
<1>17. XnonceOnItsWay'
  <2> SUFFICES ASSUME open, ~again
               PROVE  /\ at = "subscribed"
                         /\ (\E i \in 1..Len(down') : down'[i].id = Id("subscribe") /\ down'[i].ok)
                           => Carried(down', poolXn')
                      /\ at \in Subscribed => Becomes(down', xn, poolXn')
    BY <1>2 DEF XnonceOnItsWay
  <2>1. CASE request = "subscribe" /\ ok
    <3>1. Carrier(l) /\ l.xn = poolXn'
      BY <1>1, <1>5, <2>1 DEF Carrier, y
    <3>2. Carried(down', poolXn')
      BY <1>3, <1>5, <1>6, <3>1, BecomesAfterAppend
    <3> QED BY <3>2 DEF Becomes
  <2>2. CASE ~(request = "subscribe" /\ ok)
    <3>1. ~(l.id = Id("subscribe") /\ l.ok) /\ ~Carrier(l) /\ poolXn' = poolXn
      BY <1>1, <1>3, <1>5, <1>9, <2>2, IdFacts DEF Carrier
    <3>2. /\ Carried(down, poolXn) => Carried(down', poolXn)
          /\ Becomes(down, xn, poolXn) => Becomes(down', xn, poolXn)
      BY <1>3, <1>5, <1>6, <3>1, BecomesAfterAppend
    <3> QED BY <1>8, <3>1, <3>2 DEF Stream, XnonceOnItsWay
  <2> QED BY <2>1, <2>2
<1> QED BY <1>10, <1>11, <1>12, <1>13, <1>14, <1>15, <1>16, <1>17 DEF Stream

\* The pool makes a call.
LEMMA StreamCalls ==
  ASSUME TypeOK, Stream, TypeOK', PoolCalls
  PROVE  Stream'
<1>1. PICK l \in Lines :
        /\ down' = Append(down, l) /\ l.id = 0 /\ l.kind # "answer"
        /\ IF l.kind = "set_extranonce" THEN poolXn' = l.xn ELSE poolXn' = poolXn
  <2>1. CASE \E kind \in {"call", "unknown", "reconnect"} :
               down' = Append(down, Call(kind, 0)) /\ UNCHANGED poolXn
    <3>1. PICK kind \in {"call", "unknown", "reconnect"} :
            down' = Append(down, Call(kind, 0)) /\ UNCHANGED poolXn
      BY <2>1
    <3>2. Call(kind, 0) \in Lines
      BY LineFacts
    <3>3. Call(kind, 0).id = 0 /\ Call(kind, 0).kind = kind
      BY DEF Call
    <3> QED BY <3>1, <3>2, <3>3
  <2>2. CASE down' = Append(down, Call("set_extranonce", poolXn'))
    <3>1. Call("set_extranonce", poolXn') \in Lines
      BY LineFacts DEF TypeOK
    <3>2. /\ Call("set_extranonce", poolXn').id = 0
          /\ Call("set_extranonce", poolXn').kind = "set_extranonce"
          /\ Call("set_extranonce", poolXn').xn = poolXn'
      BY DEF Call
    <3> QED BY <2>2, <3>1, <3>2
  <2> QED BY <2>1, <2>2 DEF PoolCalls
<1>2. /\ open
      /\ UNCHANGED <<at, open, xn, again, up, poolAuth, count, answered, early>>
  BY DEF PoolCalls, thread, ledger
<1>3. up \in Seq(Requests) /\ down \in Seq(Lines)
  BY DEF TypeOK
<1>4. \A r \in Requests : /\ NoneIn(r, up, down) => NoneIn(r, up', down')
                          /\ OnceIn(r, up, down) => OnceIn(r, up', down')
  BY <1>1, <1>2, <1>3, Called
<1>5. /\ \A i \in 1..Len(down') : i = Len(down) + 1 \/ i \in 1..Len(down)
      /\ \A i \in 1..Len(down) : down'[i] = down[i]
      /\ down'[Len(down) + 1] = l
  BY <1>1, <1>3, AppendFacts
<1>6. {"subscribe", "authorize", "extranonce", "share"} = Requests
  BY DEF Requests
<1>7. \A r \in Requests : l.id # Id(r)
  BY <1>1, IdFacts
<1>8. Connected'
  BY <1>2 DEF Stream, Connected
<1>9. WellFormed'
  BY <1>1, <1>5 DEF Stream, WellFormed
<1>10. Ledger'
  <2>1. \A b \in BOOLEAN : InFlight(b)' = InFlight(b)
    <3>1. l.id # Id("share")
      BY <1>6, <1>7
    <3>2. \A b \in BOOLEAN : Cardinality(OfShares(down', b)) = Cardinality(OfShares(down, b))
      BY <1>1, <1>3, <3>1, FlightAfterAppend
    <3>3. \A b \in BOOLEAN : /\ InFlight(b)' = Cardinality(OfShares(down', b))
                             /\ InFlight(b) = Cardinality(OfShares(down, b))
      BY DEF InFlight, OfShares
    <3> QED BY <3>2, <3>3
  <2> QED BY <1>2, <2>1 DEF Stream, Ledger
<1>11. SubscribesOnce' /\ AuthorizesOnce' /\ NoEarlyShare'
  BY <1>2, <1>4, <1>6 DEF Stream, SubscribesOnce, AuthorizesOnce, NoEarlyShare
<1>12. Verdict'
  BY <1>2, <1>5, <1>6, <1>7 DEF Stream, Verdict
<1>13. XnonceOnItsWay'
  <2>1. CASE l.kind = "set_extranonce"
    <3>1. Carried(down', poolXn')
      BY <1>1, <1>3, <2>1, BecomesAfterAppend DEF Carrier
    <3> QED BY <3>1 DEF XnonceOnItsWay, Becomes
  <2>2. CASE l.kind # "set_extranonce"
    <3>1. ~Carrier(l) /\ poolXn' = poolXn
      BY <1>1, <1>6, <1>7, <2>2 DEF Carrier
    <3>2. /\ Carried(down, poolXn) => Carried(down', poolXn')
          /\ Becomes(down, xn, poolXn) => Becomes(down', xn', poolXn')
      BY <1>1, <1>2, <1>3, <3>1, BecomesAfterAppend
    <3> QED BY <1>2, <1>5, <1>6, <1>7, <3>2 DEF Stream, XnonceOnItsWay
  <2> QED BY <2>1, <2>2
<1> QED BY <1>8, <1>9, <1>10, <1>11, <1>12, <1>13 DEF Stream

\* The line that is read, if the connection stays open.
Taken == /\ open /\ down # <<>> /\ down' = Tail(down)
         /\ UNCHANGED <<open, up, pool, answered, early>>

LEMMA TakenFacts ==
  ASSUME TypeOK, Stream, TypeOK', Taken
  PROVE  /\ \A r \in Requests :
              /\ NoneIn(r, up, down) => NoneIn(r, up', down') /\ down[1].id # Id(r)
              /\ OnceIn(r, up, down) => OnceIn(r, up', down')
              /\ OnceIn(r, up, down) /\ down[1].id = Id(r) => NoneIn(r, up', down')
         /\ \A i \in 1..Len(down') : down'[i] = down[i + 1] /\ i + 1 \in 1..Len(down)
         /\ 1 \in 1..Len(down) /\ Line = down[1] /\ Line \in Lines
         /\ WellFormed'
         /\ \A ok \in BOOLEAN :
              /\ InFlight(ok) \in Nat
              /\ InFlight(ok)' = IF Line.id = 4 /\ Line.ok = ok THEN InFlight(ok) - 1
                                                                ELSE InFlight(ok)
<1>1. /\ up \in Seq(Requests) /\ down \in Seq(Lines) /\ down # <<>>
      /\ down' = Tail(down) /\ up' = up
  BY DEF Taken, TypeOK
<1>2. \A r \in Requests :
        /\ NoneIn(r, up, down) => NoneIn(r, up', down') /\ down[1].id # Id(r)
        /\ OnceIn(r, up, down) => OnceIn(r, up', down')
        /\ OnceIn(r, up, down) /\ down[1].id = Id(r) => NoneIn(r, up', down')
  BY <1>1, Heard
<1>3. /\ \A i \in 1..Len(down') : down'[i] = down[i + 1] /\ i + 1 \in 1..Len(down)
      /\ 1 \in 1..Len(down)
  BY <1>1, TailFacts
<1>4. Line = down[1] /\ Line \in Lines
  BY HeardLine DEF Taken, HasLine
<1>5. WellFormed'
  BY <1>3 DEF Stream, WellFormed
<1>6. \A ok \in BOOLEAN :
        /\ InFlight(ok) = Cardinality(OfShares(down, ok))
        /\ InFlight(ok)' = Cardinality(OfShares(down', ok))
  BY DEF InFlight, OfShares
<1>7. \A ok \in BOOLEAN :
        /\ Cardinality(OfShares(down, ok)) \in Nat
        /\ Cardinality(OfShares(down', ok)) =
             IF down[1].id = 4 /\ down[1].ok = ok THEN Cardinality(OfShares(down, ok)) - 1
                                                  ELSE Cardinality(OfShares(down, ok))
  BY <1>1, FlightFinite, FlightAfterTail, IdFacts
<1> QED BY <1>2, <1>3, <1>4, <1>5, <1>6, <1>7

\* A line that is no answer to a share sent in the main loop, or one that is
\* counted.
LEMMA TakenLedger ==
  ASSUME TypeOK, Stream, TypeOK', Taken,
         \/ at = "recv" /\ IF OfShare(Line) THEN Count(Line) ELSE UNCHANGED count
         \/ at \in Starting \cup {"extranonce", "extra"} /\ UNCHANGED count
  PROVE  Ledger'
<1>1. /\ Line = down[1] /\ Line \in Lines /\ 1 \in 1..Len(down)
      /\ \A ok \in BOOLEAN :
           /\ InFlight(ok) \in Nat
           /\ InFlight(ok)' = IF Line.id = 4 /\ Line.ok = ok THEN InFlight(ok) - 1
                                                             ELSE InFlight(ok)
  BY TakenFacts
<1>2. Line.id \in 0..4 /\ Line.ok \in BOOLEAN
  <2> HIDE DEF Line
  <2> QED BY <1>1 DEF Lines
<1>3. Line.kind = "answer" <=> Line.id # 0
  BY <1>1 DEF Stream, WellFormed
<1>4. UNCHANGED <<answered, early>> /\ open
  BY DEF Taken
<1>5. \A ok \in BOOLEAN : count[ok] \in Nat /\ answered[ok] \in Nat
  BY DEF TypeOK
<1>6. CASE at = "recv"
  <2>1. OfShare(Line) <=> Line.id = 4
    BY <1>2, <1>3 DEF OfShare
  <2>2. \A ok \in BOOLEAN : count'[ok] = IF Line.id = 4 /\ Line.ok = ok THEN count[ok] + 1
                                                                        ELSE count[ok]
    <3>1. CASE Line.id = 4
      <4>1. count' = [count EXCEPT ![Line.ok] = @ + 1]
        BY <1>6, <2>1, <3>1 DEF Count, Starting
      <4>2. \A ok \in BOOLEAN : [count EXCEPT ![Line.ok] = @ + 1][ok] =
                                  IF ok = Line.ok THEN count[ok] + 1 ELSE count[ok]
        BY <1>2, Increment DEF TypeOK
      <4> QED BY <3>1, <4>1, <4>2
    <3>2. CASE Line.id # 4
      BY <1>6, <2>1, <3>2 DEF Starting
    <3> QED BY <3>1, <3>2
  <2> HIDE DEF Line
  <2> QED BY <1>1, <1>4, <1>5, <2>2 DEF Stream, Ledger
<1>7. CASE at # "recv"
  <2>1. UNCHANGED count /\ at \in Starting \cup {"extranonce", "extra"}
    BY <1>7
  <2>2. ~early => Line.id # 4
    BY <1>1, <1>4, <2>1, IdFacts DEF Stream, NoEarlyShare, NoneIn
  <2> HIDE DEF Line
  <2> QED BY <1>1, <1>4, <1>5, <2>1, <2>2 DEF Stream, Ledger
<1> QED BY <1>6, <1>7

\* The answer that stratum_subscribe waits for, or a line taken for it.
LEMMA StreamReadsSubscribed ==
  ASSUME TypeOK, Stream, TypeOK', ReadSubscribed
  PROVE  Stream'
<1>1. CASE GiveUpOrRetry
  <2>1. Disconnect /\ UNCHANGED count /\ at' \in {"pause", "gone"}
    BY <1>1 DEF GiveUpOrRetry
  <2> QED BY <2>1, StreamClosed
<1>2. ASSUME Taken, UNCHANGED count, at = "subscribed"
      PROVE  /\ WellFormed' /\ Ledger'
             /\ \A r \in Requests :
                  /\ NoneIn(r, up, down) => NoneIn(r, up', down') /\ down[1].id # Id(r)
                  /\ OnceIn(r, up, down) /\ down[1].id = Id(r) => NoneIn(r, up', down')
             /\ Line = down[1] /\ 1 \in 1..Len(down)
  BY <1>2, TakenFacts, TakenLedger DEF Starting
<1>3. {"subscribe", "authorize", "extranonce", "share"} = Requests
  BY DEF Requests
<1>4. CASE /\ Line.kind = "answer" /\ Line.id = Id("subscribe") /\ Line.ok
           /\ xn' = Line.xn /\ at' = "authorize" /\ UNCHANGED again /\ Taken /\ UNCHANGED count
  <2>1. at = "subscribed" /\ UNCHANGED <<open, poolXn, poolAuth, early>> /\ open
    BY <1>4 DEF ReadSubscribed, Taken, pool
  <2>2. Connected'
    BY <1>4, <2>1 DEF Connected
  <2>3. SubscribesOnce'
    BY <1>2, <1>3, <1>4, <2>1 DEF Stream, SubscribesOnce
  <2>4. AuthorizesOnce'
    BY <1>2, <1>3, <1>4, <2>1 DEF Stream, AuthorizesOnce, Authorized, Starting
  <2>5. NoEarlyShare'
    BY <1>2, <1>3, <1>4, <2>1 DEF Stream, NoEarlyShare, Starting
  <2>6. Verdict'
    BY <1>4 DEF Verdict, Authorized
  <2>7. XnonceOnItsWay'
    <3> SUFFICES ASSUME ~again PROVE Becomes(down', xn', poolXn')
      BY <1>4 DEF XnonceOnItsWay
    <3>1. Carrier(down[1]) /\ down[1].xn = xn' /\ down[1].id = Id("subscribe") /\ down[1].ok
      BY <1>2, <1>4, <2>1 DEF Carrier
    <3>2. Becomes(down, xn, poolXn)
      BY <1>2, <1>4, <2>1, <3>1 DEF Stream, XnonceOnItsWay, Becomes
    <3>3. down \in Seq(Lines) /\ down # <<>> /\ down' = Tail(down)
      BY <1>4 DEF Taken, TypeOK
    <3> QED BY <2>1, <3>1, <3>2, <3>3, BecomesAfterTail
  <2> QED BY <1>2, <1>4, <2>1, <2>2, <2>3, <2>4, <2>5, <2>6, <2>7 DEF Stream
<1>5. CASE again' = TRUE /\ at' = "subscribe" /\ Taken /\ UNCHANGED count
  <2>1. at = "subscribed" /\ UNCHANGED <<open, early>> /\ open
    BY <1>5 DEF ReadSubscribed, Taken
  <2>2. Connected'
    BY <1>5, <2>1 DEF Connected
  <2>3. NoEarlyShare'
    BY <1>2, <1>3, <1>5, <2>1 DEF Stream, NoEarlyShare, Starting
  <2>4. SubscribesOnce' /\ AuthorizesOnce' /\ Verdict' /\ XnonceOnItsWay'
    BY <1>5 DEF SubscribesOnce, AuthorizesOnce, Verdict, XnonceOnItsWay
  <2> QED BY <1>2, <1>5, <2>1, <2>2, <2>3, <2>4 DEF Stream
<1> HIDE DEF Line
<1> QED BY <1>1, <1>4, <1>5 DEF ReadSubscribed, SubscribedXn, HasLine, Taken, ledger, pool

\* Each line that is read later: nothing the invariant forbids appears in the
\* stream, and the miner's xnonce1 comes nearer to the pool's.
LEMMA StreamTakes ==
  ASSUME TypeOK, Stream, TypeOK', Taken, UNCHANGED again,
         xn' = IF Line.kind = "set_extranonce" THEN Line.xn ELSE xn,
         \/ /\ at = "authorizing" /\ at' = "authorizing" /\ Line.kind # "answer"
            /\ UNCHANGED count
         \/ /\ at = "authorizing" /\ at' \in {"extranonce", "recv"}
            /\ Line.kind = "answer" /\ Line.ok /\ UNCHANGED count
         \/ at = "extra" /\ at' = "recv" /\ UNCHANGED count
         \/ /\ at = "recv" /\ at' = "top"
            /\ IF OfShare(Line) THEN Count(Line) ELSE UNCHANGED count
  PROVE  Stream'
<1>1. /\ \A r \in Requests :
           /\ NoneIn(r, up, down) => NoneIn(r, up', down') /\ down[1].id # Id(r)
           /\ OnceIn(r, up, down) => OnceIn(r, up', down')
           /\ OnceIn(r, up, down) /\ down[1].id = Id(r) => NoneIn(r, up', down')
      /\ \A i \in 1..Len(down') : down'[i] = down[i + 1] /\ i + 1 \in 1..Len(down)
      /\ 1 \in 1..Len(down) /\ Line = down[1] /\ Line \in Lines
      /\ WellFormed'
  BY TakenFacts
<1>2. Ledger'
  <2>1. \/ at = "recv" /\ IF OfShare(Line) THEN Count(Line) ELSE UNCHANGED count
        \/ at \in Starting \cup {"extranonce", "extra"} /\ UNCHANGED count
    BY DEF Starting
  <2> QED BY <2>1, TakenLedger
<1>3. open /\ UNCHANGED <<open, up, poolXn, poolAuth, early, again>>
  BY DEF Taken, pool
<1>4. {"subscribe", "authorize", "extranonce", "share"} = Requests
  BY DEF Requests
<1>5. Line.id \in 0..4 /\ (Line.kind = "answer" <=> Line.id # 0)
  <2>1. Line.kind = "answer" <=> Line.id # 0
    BY <1>1 DEF Stream, WellFormed
  <2> HIDE DEF Line
  <2> QED BY <1>1, <2>1 DEF Lines
<1>6. ASSUME ~again PROVE NoneIn("subscribe", up, down)
  BY <1>3, <1>6 DEF Stream, SubscribesOnce, Subscribed, Authorized
\* The answer that ends stratum_authorize is its own.
<1>7. ASSUME ~again, ~early, at = "authorizing", Line.kind = "answer"
      PROVE  Line.id = Id("authorize")
  <2>1. /\ NoneIn("extranonce", up, down) /\ NoneIn("share", up, down)
    BY <1>3, <1>7 DEF Stream, AuthorizesOnce, NoEarlyShare, Starting
  <2>2. Line.id # 1 /\ Line.id # 3 /\ Line.id # 4
    BY <1>1, <1>4, <1>6, <1>7, <2>1, IdFacts
  <2>3. Line.id \in 0..4 /\ Line.id # 0
    BY <1>5, <1>7
  <2> HIDE DEF Line
  <2>4. Line.id = 2
    BY <2>2, <2>3
  <2> QED BY <2>4, IdFacts
<1> HIDE DEF Line
<1>8. Connected'
  BY <1>3 DEF Connected
<1>9. SubscribesOnce'
  BY <1>1, <1>3, <1>4, <1>6 DEF SubscribesOnce, Subscribed, Authorized
<1>10. AuthorizesOnce'
  <2> SUFFICES ASSUME ~again, ~early
               PROVE  /\ at' \in Authorized => NoneIn("authorize", up', down')
                      /\ at' = "authorizing" => OnceIn("authorize", up', down')
                      /\ at' \in Starting \cup {"extranonce"} => NoneIn("extranonce", up', down')
    BY <1>3 DEF AuthorizesOnce
  <2>1. CASE at = "authorizing"
    BY <1>1, <1>3, <1>4, <1>7, <2>1 DEF Stream, AuthorizesOnce, Authorized, Starting
  <2>2. CASE at \in {"extra", "recv"}
    BY <1>1, <1>3, <1>4, <2>2 DEF Stream, AuthorizesOnce, Authorized, Starting
  <2> QED BY <2>1, <2>2
<1>11. NoEarlyShare'
  BY <1>1, <1>3, <1>4 DEF Stream, NoEarlyShare, Starting
<1>12. Verdict'
  <2> SUFFICES ASSUME ~again, ~early
               PROVE  /\ at' = "authorizing" =>
                           \A i \in 1..Len(down') :
                             down'[i].id = Id("authorize") => down'[i].ok = poolAuth
                      /\ at' \in Authorized => poolAuth
    BY <1>3 DEF Verdict
  <2>1. CASE at = "authorizing"
    BY <1>1, <1>3, <1>7, <2>1 DEF Stream, Verdict, Authorized
  <2>2. CASE at \in {"extra", "recv"}
    BY <1>3, <2>2 DEF Stream, Verdict, Authorized
  <2> QED BY <2>1, <2>2
<1>13. XnonceOnItsWay'
  <2> SUFFICES ASSUME ~again PROVE Becomes(down', xn', poolXn)
    BY <1>3 DEF XnonceOnItsWay
  <2>1. Becomes(down, xn, poolXn)
    BY <1>3 DEF Stream, XnonceOnItsWay, Subscribed, Authorized
  <2>2. xn' = IF Carrier(down[1]) THEN down[1].xn ELSE xn
    BY <1>1, <1>4, <1>6 DEF Carrier
  <2>3. down \in Seq(Lines) /\ down # <<>> /\ down' = Tail(down)
    BY DEF Taken, TypeOK
  <2> QED BY <2>1, <2>2, <2>3, BecomesAfterTail
<1> QED BY <1>1, <1>2, <1>8, <1>9, <1>10, <1>11, <1>12, <1>13 DEF Stream

LEMMA StreamReads ==
  ASSUME TypeOK, Stream, TypeOK', ReadAuthorizing \/ ReadExtra \/ Read
  PROVE  Stream'
<1> HIDE DEF Line
<1>1. HasLine
  BY DEF ReadAuthorizing, ReadExtra, Read
<1>2. Line.kind \in {"answer", "call", "unknown", "set_extranonce", "reconnect"}
  BY <1>1, HeardLine
<1>3. CASE GiveUpOrRetry
  <2>1. Disconnect /\ UNCHANGED count /\ at' \in {"pause", "gone"}
    BY <1>3 DEF GiveUpOrRetry
  <2> QED BY <2>1, StreamClosed
<1>4. CASE Handle(Line) /\ Line.kind = "reconnect"
  <2>1. Disconnect
    BY <1>4 DEF Handle
  <2>2. UNCHANGED count
    BY <1>4 DEF ReadAuthorizing, ReadExtra, Read, OfShare, Handled
  <2>3. at' \in {"top", "authorizing", "connect", "recv"}
    BY <1>4 DEF ReadAuthorizing, ReadExtra, Read, Handled
  <2>4. at' # "recv"
    BY <1>4, <2>1 DEF ReadAuthorizing, ReadExtra, Read, Handled, Disconnect
  <2> QED BY <2>1, <2>2, <2>3, <2>4, StreamClosed
<1>5. CASE /\ Taken /\ UNCHANGED again
           /\ xn' = IF Line.kind = "set_extranonce" THEN Line.xn ELSE xn
           /\ \/ at = "authorizing" /\ at' = at /\ Line.kind # "answer" /\ UNCHANGED count
              \/ /\ at = "authorizing" /\ at' \in {"extranonce", "recv"}
                 /\ Line.kind = "answer" /\ Line.ok /\ UNCHANGED count
              \/ at = "extra" /\ at' = "recv" /\ UNCHANGED count
              \/ /\ at = "recv" /\ at' = "top"
                 /\ IF OfShare(Line) THEN Count(Line) ELSE UNCHANGED count
  BY <1>5, StreamTakes
<1>6. ASSUME Handle(Line), Line.kind # "reconnect", UNCHANGED <<early, pool>>
      PROVE  Taken /\ xn' = IF Line.kind = "set_extranonce" THEN Line.xn ELSE xn
  BY <1>1, <1>6 DEF Handle, Handled, HasLine, Taken
<1>7. CASE ReadAuthorizing
  <2>1. CASE Handled(Line)
    BY <1>4, <1>5, <1>6, <1>7, <2>1 DEF ReadAuthorizing, Handled
  <2>2. CASE ~Handled(Line) /\ Refused(Line)
    BY <1>3, <1>7, <2>2 DEF ReadAuthorizing
  <2>3. CASE ~Handled(Line) /\ ~Refused(Line)
    BY <1>1, <1>5, <1>7, <2>3 DEF ReadAuthorizing, Refused, Taken, HasLine, ledger
  <2> QED BY <2>1, <2>2, <2>3
<1>8. CASE ReadExtra
  <2>1. CASE Line.kind # "reconnect"
    <3>1. open' = open /\ open
      BY <1>1, <1>8, <2>1 DEF ReadExtra, Handle, HasLine
    <3> QED BY <1>5, <1>6, <1>8, <2>1, <3>1 DEF ReadExtra
  <2> QED BY <1>4, <1>8, <2>1 DEF ReadExtra
<1>9. CASE Read
  BY <1>4, <1>5, <1>6, <1>9 DEF Read
<1> QED BY <1>7, <1>8, <1>9

-----------------------------------------------------------------------------

\* The invariant holds: whatever the pool answers and calls, and whenever
\* workio sends a share, the lines under way are those IInv allows at the place
\* where the stratum thread is (stratum_thread, cpu-miner.c).
THEOREM SessionInvariant == Spec => []IInv
<1>1. Init => IInv
  BY TypeInit, StreamInit DEF IInv
<1>2. IInv /\ Next => IInv'
  <2> SUFFICES ASSUME TypeOK, Stream, Next PROVE TypeOK' /\ Stream'
    BY DEF IInv
  <2>1. TypeOK'
    BY TypeQuiet, TypeConnect, TypeRead, TypeSend DEF Next, StratumStep, Workio, Api
  <2>2. Stream'
    BY <2>1, StreamQuiet, StreamDisconnects, StreamConnects, StreamAsks, StreamSends,
       StreamAnswers, StreamCalls, StreamReadsSubscribed, StreamReads
       DEF Next, StratumStep, Workio, Api
  <2> QED BY <2>1, <2>2
<1>3. IInv /\ UNCHANGED vars => IInv'
  <2> SUFFICES ASSUME TypeOK, Stream, UNCHANGED vars PROVE TypeOK' /\ Stream'
    BY DEF IInv
  <2>1. TypeOK'
    BY DEF TypeOK, vars, thread, resets, workio, pool, ledger
  <2>2. Stream'
    BY DEF Stream, vars, thread, pool, ledger, Connected, WellFormed, SubscribesOnce,
           AuthorizesOnce, NoEarlyShare, Verdict, XnonceOnItsWay, Ledger, InFlight
  <2> QED BY <2>1, <2>2
<1> QED BY <1>1, <1>2, <1>3, PTL DEF Spec, Safety

\* AuthorizedByPool: stratum_authorize takes the first answer it reads for its
\* own, and is right, unless it subscribed twice or a share was sent too early.
THEOREM AuthorizedIsByPool == Spec => []AuthorizedByPool
<1>1. IInv => AuthorizedByPool
  <2> SUFFICES ASSUME IInv, at \in {"extranonce", "extra", "recv"}, ~again, ~early
               PROVE  poolAuth
    BY DEF AuthorizedByPool
  <2> QED BY DEF IInv, Stream, Connected, Verdict, Authorized
<1> QED BY <1>1, SessionInvariant, PTL

\* XnonceIsPools: a miner that has read all it was sent mines with the xnonce1
\* that the pool gave out last, if it subscribed once.
THEOREM XnonceIsThePools == Spec => []XnonceIsPools
<1>1. IInv => XnonceIsPools
  <2> SUFFICES ASSUME IInv, at = "recv", open, down = <<>>, ~again PROVE xn = poolXn
    BY DEF XnonceIsPools
  <2>1. Becomes(<<>>, xn, poolXn)
    BY DEF IInv, Stream, XnonceOnItsWay, Subscribed, Authorized
  <2> QED BY <2>1, EmptyFacts DEF Becomes, Carried
<1> QED BY <1>1, SessionInvariant, PTL

\* Ledger: share_result counts the answers to shares, each once, and nothing
\* else, for any number of shares, connections and calls of the pool.
THEOREM LedgerIsKept == Spec => []Ledger
<1>1. IInv => Ledger
  BY DEF IInv, Stream
<1> QED BY <1>1, SessionInvariant, PTL
=============================================================================
