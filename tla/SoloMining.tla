------------------------------ MODULE SoloMining ------------------------------
(***************************************************************************)
(* Mining against a node of the coin by getblocktemplate or getwork        *)
(* (cpu-miner.c), with no stratum pool.                                    *)
(*                                                                         *)
(* A miner thread that wants new work takes g_work_lock, sends the workio  *)
(* thread a WC_GET_WORK command and keeps the lock until the answer is in  *)
(* its own queue.  A thread that finds a block sends it to workio as a     *)
(* WC_SUBMIT_WORK command.  Workio serves one command at a time, retrying  *)
(* a call of the node that fails; it compares a block with g_work and with *)
(* the node's block count before it submits it.  The longpoll thread waits *)
(* for an answer of the node and writes it into g_work itself.  Both start *)
(* with getblocktemplate and fall back to getwork for good if the node has *)
(* no template for them.                                                   *)
(*                                                                         *)
(* Abstractions.  Previous hashes are numbered by the height of the block  *)
(* they name, so that a block on previous hash p has height p + 1.  Of the *)
(* transactions only matters whether a work has some, and the header's     *)
(* own.  Nonces are left out: a block may be found in any scan.  A scan    *)
(* may end at any time, so the restart flags are left out as well.         *)
(* ThreadQueue shows what the queues do; here a queue is a sequence.  The  *)
(* node's chain only grows, and its answers are well formed.               *)
(***************************************************************************)
EXTENDS Integers, Sequences

CONSTANTS
  Miner,      \* the miner threads
  Modes,      \* how the miner is started, and against which node: see ModesAssumption
  AllowInfo,  \* allow_mininginfo: the node knows getmininginfo
  Retries,    \* opt_retries, negative: for ever
  MaxTip      \* the largest bound on the height of the chain

\* A mode: the miner threads that are started; have_gbt and allow_getwork; the node
\* offers long polling (and want_longpoll); its getmininginfo may fail; and three
\* bounds, the height of the chain, blocks found and not yet served, and calls of
\* the node that fail.
ASSUME ModesAssumption ==
  Modes \subseteq [threads : SUBSET Miner, gbt : BOOLEAN, getwork : BOOLEAN, longpoll : BOOLEAN,
                  infoFails : BOOLEAN, chain : 0..MaxTip, shares : Nat, failures : Nat]
ASSUME InfoAssumption == AllowInfo \in BOOLEAN
ASSUME RetriesAssumption == Retries \in Int
ASSUME BoundAssumption == MaxTip \in Nat

Longpoll == "longpoll_thread"
Free == "free"
ASSUME ThreadsAreDistinct == Longpoll \notin Miner /\ Free \notin Miner

VARIABLES
  mode,      \* the element of Modes
  gbt,       \* have_gbt: "on", or "off" and by whom
  tip,       \* the node: height of its best block
  credit,    \* history: who of this miner found the block at each height, else Free
  gwork,     \* g_work
  torn,      \* the longpoll thread is rebuilding g_work
  gtime,     \* g_work_time: "zero", "fresh", or "old" (scan time is over)
  gLock,     \* who holds g_work_lock
  work,      \* the miner threads' own struct work
  pc,        \* where the miner threads are
  reply,     \* what is in their queues: at most one answer, or NoWork
  queue,     \* workio's queue
  io,        \* where workio is
  cur,       \* the command it serves
  got,       \* ret_work: the answer it is preparing
  fails,     \* failed calls for this command
  netBlocks, \* net_blocks
  lp,        \* where the longpoll thread is
  lpAsked,   \* it asked for a template
  lpGot,     \* the answer it holds
  haveLp,    \* have_longpoll
  submitOld, \* submit_old
  nfail      \* calls that failed so far (bound)

node    == <<mode, tip, credit>>
globals == <<gwork, torn, gtime, gLock>>
miners  == <<work, pc>>
workio  == <<io, cur, got, fails, netBlocks>>
longpl  == <<lp, lpAsked, lpGot, submitOld>>
vars == <<node, gbt, globals, miners, reply, queue, workio, longpl, haveLp, nfail>>

\* txs: work->txs has no transactions, the header's own, or others.  mixed: history,
\* the height was read from another answer of the node than the header.
NoWork == [prev |-> -1, height |-> 0, txs |-> "none", mixed |-> FALSE]
WorkType == [prev : -1..MaxTip, height : 0..MaxTip + 1, txs : {"none", "own", "other"},
             mixed : BOOLEAN]

\* enc: work->data is in the byte order of the request.
GetCmd(m) == [cmd |-> "get", thr |-> m, work |-> NoWork, enc |-> FALSE]
SubmitCmd(m) == [cmd |-> "submit", thr |-> m, work |-> work[m], enc |-> FALSE]
NoCmd == [cmd |-> "none", thr |-> Free, work |-> NoWork, enc |-> FALSE]
CmdType == [cmd : {"none", "get", "submit"}, thr : Miner \cup {Free}, work : WorkType,
            enc : BOOLEAN]

TypeOK ==
  /\ mode \in Modes /\ gbt \in {"on", "off", "offByLongpoll"}
  /\ tip \in 0..MaxTip /\ credit \in [1..MaxTip -> Miner \cup {Free}]
  /\ gwork \in WorkType /\ torn \in BOOLEAN
  /\ gtime \in {"zero", "fresh", "old"}
  /\ gLock \in Miner \cup {Longpoll, Free}
  /\ work \in [Miner -> WorkType]
  /\ pc \in [Miner -> {"lock", "await", "scan", "found", "zero", "gone"}]
  /\ reply \in [Miner -> WorkType]
  /\ queue \in Seq(CmdType)
  /\ io \in {"pop", "fetch", "info", "stale", "solved", "send", "dead"}
  /\ cur \in CmdType /\ got \in WorkType /\ fails \in Nat
  /\ netBlocks \in 0..MaxTip
  /\ lp \in {"off", "ask", "poll", "lock", "decode"}
  /\ lpAsked \in BOOLEAN /\ lpGot \in 0..MaxTip
  /\ haveLp \in BOOLEAN /\ submitOld \in BOOLEAN /\ nfail \in 0..mode.failures

Init ==
  /\ mode \in Modes /\ gbt = IF mode.gbt THEN "on" ELSE "off"
  /\ tip = 0 /\ credit = [h \in 1..MaxTip |-> Free]
  /\ gwork = NoWork /\ torn = FALSE /\ gtime = "zero" /\ gLock = Free
  /\ work = [m \in Miner |-> NoWork]
  /\ pc = [m \in Miner |-> IF m \in mode.threads THEN "lock" ELSE "gone"]
  /\ reply = [m \in Miner |-> NoWork]
  /\ queue = <<>>
  /\ io = "pop" /\ cur = NoCmd /\ got = NoWork /\ fails = 0
  /\ netBlocks = 0
  /\ lp = "off" /\ lpAsked = FALSE /\ lpGot = 0 /\ haveLp = FALSE /\ submitOld = FALSE /\ nfail = 0

\* tq_push to workio's queue.
Pushed(c) == Append(queue, c)

HaveGbt == gbt = "on"

GoTo(m, l) == pc' = [pc EXCEPT ![m] = l]

(***************************************************************************)
(* The node.                                                               *)
(***************************************************************************)
Extend(who) ==
  /\ tip < mode.chain
  /\ tip' = tip + 1
  /\ credit' = [credit EXCEPT ![tip + 1] = who]
  /\ UNCHANGED mode

OtherBlock ==
  /\ Extend(Free)
  /\ UNCHANGED <<globals, miners, reply, queue, workio, longpl, haveLp, gbt, nfail>>

\* A call that fails: the caller has no answer.
CallFails == nfail < mode.failures /\ nfail' = nfail + 1

(***************************************************************************)
(* miner_thread m                                                          *)
(***************************************************************************)

\* get_new_work with g in g_work: the thread keeps its own work if the two
\* headers are equal.
GetNewWork(m, g) ==
  \/ work' = [work EXCEPT ![m] = g]
  \/ work[m].prev = g.prev /\ UNCHANGED work

\* end_nonce is 0 until the thread first copies g_work.
HasWork(m) == work[m] # NoWork

\* A fault for the checks: no work is ever too old.
NeverTooOld == FALSE

TooOld == gtime # "fresh"

TakeWork(m) ==
  /\ pc[m] = "lock" /\ gLock = Free
  /\ ~TooOld /\ HasWork(m)
  /\ GetNewWork(m, gwork)
  /\ GoTo(m, "scan")
  /\ UNCHANGED <<node, globals, reply, queue, workio, longpl, haveLp, gbt, nfail>>

\* A fault for the checks: the lock is released while the answer is awaited.
NoHolder(m) == Free

\* g_work_lock stays locked across get_work.
Holder(m) == m

\* The work is too old, or the thread has used up its part of the nonce range:
\* get_work, up to tq_pop.
Request(m) ==
  /\ pc[m] = "lock" /\ gLock = Free
  /\ IF io # "dead"
     THEN queue' = Pushed(GetCmd(m)) /\ gLock' = Holder(m)
          /\ GoTo(m, "await")
     ELSE GoTo(m, "gone") /\ UNCHANGED <<queue, gLock>>
  /\ UNCHANGED <<node, gwork, torn, gtime, work, reply, workio, longpl, haveLp, gbt, nfail>>

\* A fault for the checks: the lock is not released.
NotReleased(m) == m

Released(m) == Free

\* The rest of get_work, g_work_time = time(NULL), get_new_work, unlock.
Receive(m) ==
  /\ pc[m] = "await" /\ reply[m] # NoWork
  /\ reply' = [reply EXCEPT ![m] = NoWork]
  /\ gwork' = reply[m]
  /\ gtime' = "fresh"
  /\ GetNewWork(m, reply[m])
  /\ gLock' = Released(m)
  /\ GoTo(m, "scan")
  /\ UNCHANGED <<node, torn, queue, workio, longpl, haveLp, gbt, nfail>>

\* scanhash finds nothing, or wanna_mine says no.
FindNothing(m) ==
  /\ pc[m] = "scan"
  /\ GoTo(m, "lock")
  /\ UNCHANGED <<node, globals, work, reply, queue, workio, longpl, haveLp, gbt, nfail>>

\* The blocks that wait for workio (bound).
BlocksWaiting == Len(SelectSeq(queue, LAMBDA c : c.cmd = "submit"))

\* scanhash finds a block, submit_work sends a copy of the work.
Find(m) ==
  /\ pc[m] = "scan" /\ work[m].prev < mode.chain
  /\ BlocksWaiting < mode.shares
  /\ IF io # "dead"
     THEN queue' = Pushed(SubmitCmd(m)) /\ GoTo(m, "found")
     ELSE GoTo(m, "gone") /\ UNCHANGED queue
  /\ UNCHANGED <<node, globals, work, reply, workio, longpl, haveLp, gbt, nfail>>

\* A fault for the checks: the thread that found a block goes on with its work.
AfterFindNever(m) == "lock"

\* if ( !have_stratum && !have_longpoll ) ...
AfterFind(m) == IF haveLp THEN "lock" ELSE "zero"

Found(m) ==
  /\ pc[m] = "found"
  /\ GoTo(m, AfterFind(m))
  /\ UNCHANGED <<node, globals, work, reply, queue, workio, longpl, haveLp, gbt, nfail>>

\* ... g_work_time = 0, under g_work_lock.
ZeroTime(m) ==
  /\ pc[m] = "zero" /\ gLock = Free
  /\ gtime' = "zero"
  /\ GoTo(m, "lock")
  /\ UNCHANGED <<node, gwork, torn, gLock, work, reply, queue, workio, longpl, haveLp, gbt, nfail>>

(***************************************************************************)
(* workio_thread                                                           *)
(***************************************************************************)
Pop ==
  /\ io = "pop" /\ queue # <<>>
  /\ cur' = Head(queue)
  /\ queue' = Tail(queue)
  /\ io' = IF Head(queue).cmd = "get" THEN "fetch" ELSE "stale"
  /\ UNCHANGED <<node, globals, miners, reply, got, fails, netBlocks, longpl, haveLp, gbt,
                 nfail>>

\* workio_cmd_free, on to the next command or to the end.
Finish(next) == io' = next /\ cur' = NoCmd /\ got' = NoWork /\ fails' = 0

\* A failed call is tried again from here, with the command as it is then; or
\* workio freezes its queue and ends (and main with it).
Retry(again, c) ==
  /\ CallFails
  /\ \/ Retries >= 0 /\ fails + 1 > Retries /\ Finish("dead")
     \/ ~(Retries >= 0 /\ fails + 1 > Retries)
        /\ fails' = fails + 1 /\ io' = again /\ cur' = c /\ UNCHANGED got

\* What gbt_work_decode or work_decode makes of an answer with previous hash t
\* and the struct work w: a getwork holds neither a height nor transactions, and
\* those of w stay.
Decoded(t, w) ==
  IF HaveGbt
  THEN [prev |-> t, height |-> t + 1, txs |-> "own", mixed |-> FALSE]
  ELSE [prev |-> t, height |-> w.height, txs |-> IF w.txs = "none" THEN "none" ELSE "other",
        mixed |-> w.height # 0]

\* What gbt_work_decode makes of a template on previous hash t it cannot use: it
\* gives up after it has read the height.
Unusable(t, w) == [w EXCEPT !.height = t + 1, !.mixed = TRUE]

\* A node that offers long polling does so in its answer, which sends the
\* longpoll thread the path.
OfferLongpoll ==
  /\ haveLp' = (haveLp \/ mode.longpoll)
  /\ lp' = IF mode.longpoll /\ ~haveLp THEN "ask" ELSE lp

\* get_upstream_work, up to get_mininginfo: an answer; no template, or one it
\* cannot use, after which it starts again with getwork and the same ret_work; or
\* a failed call.
Fetch ==
  /\ io = "fetch"
  /\ \/ /\ got' = Decoded(tip, got)
        /\ io' = "info"
        /\ OfferLongpoll
        /\ UNCHANGED <<gbt, cur, fails, nfail>>
     \/ /\ HaveGbt /\ mode.getwork
        /\ gbt' = "off"
        /\ \/ UNCHANGED <<got, haveLp, lp>>
           \/ got' = Unusable(tip, got) /\ (OfferLongpoll \/ UNCHANGED <<haveLp, lp>>)
        /\ UNCHANGED <<io, cur, fails, nfail>>
     \/ Retry("fetch", cur) /\ UNCHANGED <<gbt, haveLp, lp>>
  /\ UNCHANGED <<node, globals, miners, reply, queue, netBlocks, lpAsked, lpGot, submitOld>>

\* A fault for the checks: net_blocks taken for the height before the last.
HeightAfterTwo(blocks) == blocks + 2

HeightAfter(blocks) == blocks + 1

\* get_mininginfo refreshes net_blocks and supplies the height h a getwork
\* lacks, unless its call fails.
MiningInfo(h, result) ==
  \/ /\ AllowInfo
     /\ netBlocks' = tip
     /\ result = (IF h = 0 THEN HeightAfter(tip) ELSE h)
     /\ UNCHANGED nfail
  \/ /\ AllowInfo => mode.infoFails /\ CallFails
     /\ ~AllowInfo => UNCHANGED nfail
     /\ result = h
     /\ UNCHANGED netBlocks

\* The answer is sent to the thread that asked.
Recipient(c) == c.thr
Answer ==
  /\ io = "info"
  /\ \E h \in {got.height, HeightAfter(tip)} :
       /\ MiningInfo(got.height, h)
       /\ reply' = [reply EXCEPT ![Recipient(cur)] = [got EXCEPT !.height = h]]
  /\ Finish("pop")
  /\ UNCHANGED <<node, globals, miners, queue, longpl, haveLp, gbt>>

\* submit_upstream_work compares the previous hashes, with no lock.  While the
\* longpoll thread rebuilds g_work it may see anything.  While a miner thread
\* copies a newer answer over g_work it sees a hash no block in the queue has,
\* as it does after the copy.  A block in the byte order of the request never
\* looks like g_work.
LooksStale == torn \/ cur.enc \/ cur.work.prev # gwork.prev
LooksCurrent == ~cur.enc /\ (torn \/ cur.work.prev = gwork.prev)

CompareHash ==
  /\ io = "stale"
  /\ \/ (submitOld \/ LooksCurrent) /\ io' = "solved" /\ UNCHANGED <<cur, got, fails>>
     \/ ~submitOld /\ LooksStale /\ Finish("pop")
  /\ UNCHANGED <<node, globals, miners, reply, queue, netBlocks, longpl, haveLp, gbt, nfail>>

\* Faults for the checks: a height too early, and one too late.
AlreadySolvedEarly(blocks) == cur.work.height > 0 /\ cur.work.height <= blocks + 1
AlreadySolvedLate(blocks) == cur.work.height > 0 /\ cur.work.height < blocks

AlreadySolved(blocks) == AllowInfo /\ cur.work.height > 0 /\ cur.work.height <= blocks

CompareHeight ==
  /\ io = "solved"
  /\ \E h \in {0, HeightAfter(tip)} : MiningInfo(0, h)
  /\ \/ AlreadySolved(netBlocks') /\ Finish("pop")
     \/ ~AlreadySolved(netBlocks') /\ io' = "send" /\ UNCHANGED <<cur, got, fails>>
  /\ UNCHANGED <<node, globals, miners, reply, queue, longpl, haveLp, gbt>>

\* A fault for the checks: getwork's data is turned over too (be32enc).
AlwaysEncoded == ~cur.enc

BySubmitblock == cur.work.txs # "none"

\* submitblock is called with work->data turned over to its byte order in
\* place (be32enc), getwork with le32enc, which changes nothing here.
Encoded == BySubmitblock /\ ~cur.enc

\* The node takes a block that extends its chain and is encoded right.
Judge == IF cur.work.prev = tip /\ cur.work.txs # "other" /\ Encoded = BySubmitblock
         THEN Extend(cur.thr) ELSE UNCHANGED node

\* The call is made and answered; or fails before, or after, the node got it.
Send ==
  /\ io = "send"
  /\ \/ Judge /\ Finish("pop") /\ UNCHANGED nfail
     \/ (Judge \/ UNCHANGED node) /\ Retry("stale", [cur EXCEPT !.enc = Encoded])
  /\ UNCHANGED <<globals, miners, reply, queue, netBlocks, longpl, haveLp, gbt>>

(***************************************************************************)
(* longpoll_thread                                                         *)
(***************************************************************************)

\* longpoll_rpc_call builds its request.
LpAsk ==
  /\ lp = "ask"
  /\ lpAsked' = HaveGbt
  /\ lp' = "poll"
  /\ UNCHANGED <<node, globals, miners, reply, queue, workio, lpGot, submitOld, haveLp, gbt,
                 nfail>>

\* The node answers, and a template may hold "submitold"; the thread waits for g_work_lock with the answer.
LpAnswer ==
  /\ lp = "poll"
  /\ lpGot' = tip
  /\ submitOld' \in {FALSE, lpAsked}
  /\ lp' = "lock"
  /\ UNCHANGED <<node, globals, miners, reply, queue, workio, lpAsked, haveLp, gbt, nfail>>

\* gbt_work_decode clears and rebuilds the header in g_work.
LpLock ==
  /\ lp = "lock" /\ gLock = Free
  /\ gLock' = Longpoll
  /\ torn' = TRUE
  /\ lp' = "decode"
  /\ UNCHANGED <<node, gwork, gtime, miners, reply, queue, workio, lpAsked, lpGot, submitOld,
                 haveLp, gbt, nfail>>

\* The answer is decoded, and the scan time starts again unless the network
\* difficulty is not known (start_diff is 0); it was asked for before have_gbt
\* fell and cannot be decoded; or it is decoded as a template the miner cannot
\* use, whose height comes to stand beside the header in g_work.
LpDecode ==
  /\ lp = "decode"
  /\ \/ /\ lpAsked = HaveGbt
        /\ gwork' = Decoded(lpGot, gwork)
        /\ gtime' \in {"fresh", gtime}
        /\ UNCHANGED gbt
     \/ /\ lpAsked /\ ~HaveGbt
        /\ UNCHANGED <<gwork, gtime, gbt>>
     \/ /\ HaveGbt /\ mode.getwork
        /\ gbt' = "offByLongpoll"
        /\ gwork' = Unusable(lpGot, gwork)
        /\ UNCHANGED gtime
  /\ torn' = FALSE
  /\ gLock' = Free
  /\ lp' = "ask" /\ lpAsked' = FALSE /\ lpGot' = 0
  /\ UNCHANGED <<node, miners, reply, queue, workio, submitOld, haveLp, nfail>>

\* g_work_time -= LP_SCANTIME.
EarlierTime == IF gtime = "fresh" THEN "old" ELSE gtime

\* The call times out, or fails and the thread waits for another path.
LpFail ==
  /\ lp = "poll" /\ gLock = Free
  /\ CallFails
  /\ gtime' = EarlierTime
  /\ lpAsked' = FALSE
  /\ \/ lp' = "ask" /\ UNCHANGED haveLp
     \/ lp' = "off" /\ haveLp' = FALSE
  /\ UNCHANGED <<node, gwork, torn, gLock, miners, reply, queue, workio, lpGot, submitOld, gbt>>

\* The scan time is over.
Age ==
  /\ gtime = "fresh"
  /\ gtime' = "old"
  /\ UNCHANGED <<node, gwork, torn, gLock, miners, reply, queue, workio, longpl, haveLp, gbt, nfail>>

-----------------------------------------------------------------------------

MinerStep(m) == \/ TakeWork(m) \/ Request(m) \/ Receive(m) \/ FindNothing(m) \/ Find(m)
                \/ Found(m) \/ ZeroTime(m)
Workio == Pop \/ Fetch \/ Answer \/ CompareHash \/ CompareHeight \/ Send
LpStep == LpAsk \/ LpAnswer \/ LpLock \/ LpDecode \/ LpFail
Next == OtherBlock \/ Workio \/ LpStep \/ Age \/ \E m \in Miner : MinerStep(m)

Safety == Init /\ [][Next]_vars

(***************************************************************************)
(* Each thread keeps running and gets g_work_lock in the end, and time     *)
(* passes.  The node need not answer a long poll.  A call of the node      *)
(* fails only so often.                                                    *)
(***************************************************************************)
Fairness == /\ WF_vars(Workio) /\ WF_vars(Age)
            /\ WF_vars(LpAsk) /\ SF_vars(LpLock) /\ WF_vars(LpDecode)
            /\ \A m \in Miner : SF_vars(MinerStep(m))
Spec == Safety /\ Fairness

-----------------------------------------------------------------------------

\* A thread that asks for work gets the answer to its own question: there is
\* never a second question, and no answer nobody waits for.
Outstanding(m) == \/ reply[m] # NoWork
                  \/ io \in {"fetch", "info"} /\ cur.thr = m
                  \/ \E k \in 1..Len(queue) : queue[k] = GetCmd(m)
OneQuestion ==
  /\ \A m \in Miner : Outstanding(m) => pc[m] = "await" /\ gLock = m
  /\ \A j, k \in 1..Len(queue) : queue[j].cmd = "get" /\ queue[k].cmd = "get" => j = k

\* "we can't submit twice a block!": with no long polling, a thread never scans
\* on a previous hash on which a block of its own was accepted, since its
\* question reaches workio after its block.
LeavesOwnBlock ==
  ~mode.longpoll => \A m \in Miner :
    pc[m] = "scan" /\ work[m].prev < tip => credit[work[m].prev + 1] # m

\* After a fall-back to getwork no thread mines on a header with the transactions
\* of another: g_work_lock stays locked from the question until the answer
\* without transactions is in g_work.  Not so if longpoll_thread found out.
OwnTransactions ==
  gbt # "offByLongpoll" => \A m \in Miner : work[m].txs # "other"

\* The same as LeavesOwnBlock of all threads, with long polling too, while the
\* node answers getmininginfo: workio submits no block at a height at which one
\* of this miner's was accepted, though several threads find blocks from one
\* template, and calls are retried.  Not so of a work whose height is another
\* answer's.
SubmitsOnce ==
  [][(~mode.infoFails /\ ~cur.work.mixed /\ io = "send" /\ io' # "send"
      /\ cur.work.prev < tip)
       => ~(credit[cur.work.prev + 1] \in Miner)]_vars

\* submit_upstream_work discards a block because "the previous hash is not the
\* current previous hash" only if the node's chain has moved on.
StaleIsStale ==
  [][(io = "stale" /\ io' = "pop") => cur.work.prev < tip]_vars

\* The same while no long poll writes g_work, of the first try and of a getwork
\* that is tried again.
StaleUnlessEncoded ==
  [][(~mode.longpoll /\ ~(BySubmitblock /\ cur.enc) /\ io = "stale" /\ io' = "pop")
       => cur.work.prev < tip]_vars

\* It discards a block because it "was already solved" only if the node has a
\* block on the same previous hash.
SolvedIsSolved ==
  [][(io = "solved" /\ io' = "pop") => cur.work.prev < tip]_vars

\* The same of every block whose height and header are of one answer, or whose
\* height get_mininginfo supplied: by templates or getwork, from workio or by long
\* polling.
SolvedIfAnswered ==
  [][(io = "solved" /\ io' = "pop" /\ ~cur.work.mixed)
       => cur.work.prev < tip]_vars

\* A thread that waits for work, holding g_work_lock, or for the lock, gets it,
\* unless workio has given up.
Answered ==
  \A m \in Miner : pc[m] \in {"lock", "await"} ~> pc[m] = "scan" \/ io = "dead"

\* When the chain grows no more, g_work comes to stand on it and stays there,
\* though getwork's answers and the long poll's come in any order, and the long
\* poll fails.
CatchesUp == <>[](gwork.prev = tip \/ io = "dead")
=============================================================================
