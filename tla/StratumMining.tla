---------------------------- MODULE StratumMining ----------------------------
(***************************************************************************)
(* Mining from a stratum pool (cpu-miner.c, util.c).                       *)
(*                                                                         *)
(* The stratum thread reads the pool's lines into sctx->job and rebuilds   *)
(* the shared g_work when the job id changes; the miner threads copy       *)
(* g_work, hash their own part of the nonce range, rebuild g_work          *)
(* themselves when they have used that part up, and queue the shares they  *)
(* find; the workio thread compares each share with g_work and sends or    *)
(* discards it.  What the threads share:                                   *)
(*   job            under work_lock (sctx->work_lock), except that job_id, *)
(*                  diff and clean are also read without it;               *)
(*   g_work         under g_work_lock, except that the stratum thread      *)
(*                  reads job_id and workio reads the previous hash        *)
(*                  without it;                                            *)
(*   g_work_time    written under g_work_lock, read without;               *)
(*   work_restart   no lock, one flag for each miner thread.               *)
(*                                                                         *)
(* A step is a stretch of code in which the thread touches shared state    *)
(* once, or that it runs under a lock the other parties take as well.      *)
(*                                                                         *)
(* Abstractions.  What a notify carries, apart from job id, previous hash  *)
(* and clean flag, is its body; bodies, previous hashes and difficulties   *)
(* are numbered in the order in which the pool introduces them.  A block   *)
(* header is a body and an extranonce2 (xnonce1 is part of the body).  The *)
(* sizes of the coinbase and of extranonce2 are taken to stay the same     *)
(* while a job id is repeated, so that stratum_notify finds the old        *)
(* xnonce2 where it left it (mining.set_extranonce changes the size).      *)
(* Nonces count from the start of the thread's own part of the range;      *)
(* NonceRange shows that the parts are disjoint.  The hash and its target  *)
(* test are a free choice of which nonces are shares.                      *)
(***************************************************************************)
EXTENDS Naturals, Sequences

CONSTANTS
  Miner,       \* the miner threads
  JobId,       \* job ids the pool uses
  NoJobId,     \* job_id == NULL
  EndNonce,    \* length of a thread's part of the nonce range
  NonceValues, \* where a thread's nonce wraps round (uint32_t)
  Xn2Wraps,    \* explore the wrap of extranonce2, or stop short of it
  Xn2Values,   \* number of extranonce2 values (2^(8*xnonce2_size))
  MaxBody,     \* bound: job bodies the pool sends
  MaxPrev,     \* bound: blocks found on the network meanwhile
  MaxDiff,     \* bound: difficulties the pool sets
  MaxShares,   \* bound: shares in workio's queue
  MaxLost      \* bound: connections lost

Stratum == "stratum_thread"
Workio == "workio_thread"
Thread == Miner \cup {Stratum, Workio}

ASSUME ThreadsAreDistinct == Stratum \notin Miner /\ Workio \notin Miner
ASSUME NoJobIdIsNoJobId == NoJobId \notin JobId
ASSUME NumbersAreNat ==
  /\ EndNonce \in Nat \ {0} /\ Xn2Values \in Nat \ {0}
  /\ NonceValues \in Nat /\ NonceValues > EndNonce + 2
  /\ \A max \in {MaxBody, MaxPrev, MaxDiff, MaxShares, MaxLost} : max \in Nat
ASSUME WrapIsBoolean == Xn2Wraps \in BOOLEAN

VARIABLES
  job,        \* sctx->job; body 0: no notify yet (job_id NULL)
  nextDiff,   \* sctx->next_diff
  gwork,      \* g_work
  torn,       \* g_work is between the free and the end of its rebuilding
  gtime,      \* g_work_time: "zero", "fresh", or "old" (120 s ago or more)
  gLock,      \* who holds g_work_lock
  wLock,      \* who holds sctx->work_lock
  restart,    \* work_restart[].restart
  work,       \* the miner threads' own struct work
  nonce,      \* the nonce in it, from the start of the thread's part
  pc,         \* where each thread is
  hashed,     \* history: has the thread hashed the nonce it stands at
  shareQ,     \* workio's queue, the share it is busy with at the head; of a
              \* share only the previous hash is read
  lost        \* connections lost so far (bound)

shared == <<job, nextDiff, gwork, torn, gtime, gLock, wLock, restart>>
own    == <<work, nonce, hashed>>
vars   == <<shared, own, pc, shareQ, lost>>

Free == "free"

JobType == [body: Nat, id: JobId \cup {NoJobId}, prev: Nat, clean: BOOLEAN,
            diff: Nat, xn2: Nat]
\* want is history: job.diff at the moment the header was built.
WorkType == [body: Nat, id: JobId \cup {NoJobId}, prev: Nat, xn2: Nat,
             want: Nat, diff: Nat]

StratumPC == {"down", "connect", "authorize", "check", "lock", "gen", "build",
              "target", "restart", "recv"}
MinerPC == {"wait", "lock", "gen", "build", "target", "clear", "scan", "submit"}
WorkioPC == {"pop", "send"}

PcOK ==
  /\ pc \in [Thread -> StratumPC \cup MinerPC \cup WorkioPC]
  /\ pc[Stratum] \in StratumPC /\ pc[Workio] \in WorkioPC
  /\ \A m \in Miner : pc[m] \in MinerPC

TypeOK ==
  /\ job \in JobType /\ nextDiff \in Nat
  /\ gwork \in WorkType /\ torn \in BOOLEAN
  /\ gtime \in {"zero", "fresh", "old"}
  /\ gLock \in Thread \cup {Free} /\ wLock \in Thread \cup {Free}
  /\ restart \in [Miner -> BOOLEAN]
  /\ work \in [Miner -> WorkType]
  /\ nonce \in [Miner -> Nat]
  /\ hashed \in [Miner -> BOOLEAN]
  /\ PcOK
  /\ shareQ \in Seq(Nat)
  /\ lost \in Nat

ASSUME FreeIsNoThread == Free \notin Thread

NoWork == [body |-> 0, id |-> NoJobId, prev |-> 0, xn2 |-> 0, want |-> 0, diff |-> 0]

\* The globals at start, the memset of work in miner_thread, and a stratum
\* thread that has taken the pool's url from its queue.
Init ==
  /\ job = [body |-> 0, id |-> NoJobId, prev |-> 0, clean |-> FALSE,
            diff |-> 0, xn2 |-> 0]
  /\ nextDiff = 0
  /\ gwork = NoWork
  /\ torn = FALSE
  /\ gtime = "zero"
  /\ gLock = Free /\ wLock = Free
  /\ restart = [m \in Miner |-> FALSE]
  /\ work = [m \in Miner |-> NoWork]
  /\ nonce = [m \in Miner |-> 0]
  /\ pc = [t \in Thread |-> CASE t = Stratum -> "down"
                            [] t = Workio -> "pop"
                            [] OTHER -> "wait"]
  /\ hashed = [m \in Miner |-> FALSE]
  /\ shareQ = <<>>
  /\ lost = 0

At(t, l) == pc[t] = l
GoTo(t, l) == pc' = [pc EXCEPT ![t] = l]

(***************************************************************************)
(* stratum_gen_work, by whichever thread t holds g_work_lock.              *)
(***************************************************************************)

\* Takes work_lock, frees the old job_id, clears g_work->data.
GenBegin(t) ==
  /\ At(t, "gen")
  /\ wLock = Free
  /\ wLock' = t
  /\ torn' = TRUE
  /\ GoTo(t, "build")
  /\ UNCHANGED <<job, nextDiff, gwork, gtime, gLock, restart, own, shareQ, lost>>

\* A fault for the checks: the increment is forgotten.
SameXn2 == job.xn2

\* for ( t = 0; t < xnonce2_size && !( ++xnonce2[t] ); t++ )
NextXn2 == (job.xn2 + 1) % Xn2Values

\* Copies job_id and xnonce2, builds the header from the job, increments the
\* job's xnonce2 and releases work_lock.  The target is not set yet.
GenBuild(t) ==
  /\ At(t, "build")
  /\ Xn2Wraps \/ job.xn2 + 1 < Xn2Values
  /\ gwork' = [body |-> job.body, id |-> job.id, prev |-> job.prev,
               xn2 |-> job.xn2, want |-> job.diff, diff |-> gwork.diff]
  /\ job' = [job EXCEPT !.xn2 = NextXn2]
  /\ torn' = FALSE
  /\ wLock' = Free
  /\ GoTo(t, "target")
  /\ UNCHANGED <<nextDiff, gtime, gLock, restart, own, shareQ, lost>>

\* Faults for the checks: a target that is no number; the difficulty for the
\* next job in place of the job's own.
TargetedNaN == [gwork EXCEPT !.diff = NoJobId]
TargetedNext == [gwork EXCEPT !.diff = nextDiff]

\* set_target( g_work, sctx->job.diff ), after work_lock was released.
Targeted == [gwork EXCEPT !.diff = job.diff]

(***************************************************************************)
(* stratum_thread                                                          *)
(***************************************************************************)

\* while (!stratum.curl): g_work_time = 0 under g_work_lock, restart_threads.
\* restart_threads sets the flags one after the other; each is read by its own
\* thread only.
ZeroTime ==
  /\ At(Stratum, "down")
  /\ gLock = Free
  /\ gtime' = "zero"
  /\ restart' = [m \in Miner |-> TRUE]
  /\ GoTo(Stratum, "connect")
  /\ UNCHANGED <<job, nextDiff, gwork, torn, gLock, wLock, own, shareQ, lost>>

\* stratum_connect and stratum_subscribe succeed; next_diff is reset.
Connect ==
  /\ At(Stratum, "connect")
  /\ wLock = Free
  /\ nextDiff < MaxDiff
  /\ nextDiff' = nextDiff + 1
  /\ GoTo(Stratum, "authorize")
  /\ UNCHANGED <<job, gwork, torn, gtime, gLock, wLock, restart, own, shareQ, lost>>

\* The first line of the pool that is no method call ends stratum_authorize.
Authorized ==
  /\ At(Stratum, "authorize")
  /\ GoTo(Stratum, "check")
  /\ UNCHANGED <<shared, own, shareQ, lost>>

\* stratum_connect, stratum_subscribe or stratum_authorize fails, or the
\* connection is lost: stratum_disconnect.  The job stays as it is.
Disconnect ==
  /\ pc[Stratum] \in {"connect", "authorize", "recv"}
  /\ lost < MaxLost
  /\ lost' = lost + 1
  /\ GoTo(Stratum, "down")
  /\ UNCHANGED <<shared, own, shareQ>>

\* A line that leads nowhere else, e.g. the answer to a share.
OtherLine ==
  /\ At(Stratum, "recv")
  /\ GoTo(Stratum, "check")
  /\ UNCHANGED <<shared, own, shareQ, lost>>

\* Where the stratum thread goes on after a line that was a method call.
AfterLine == IF At(Stratum, "recv") THEN "check" ELSE "authorize"

\* stratum_set_difficulty
SetDifficulty ==
  /\ pc[Stratum] \in {"recv", "authorize"}
  /\ wLock = Free
  /\ nextDiff < MaxDiff
  /\ nextDiff' = nextDiff + 1
  /\ GoTo(Stratum, AfterLine)
  /\ UNCHANGED <<job, gwork, torn, gtime, gLock, wLock, restart, own, shareQ, lost>>

\* A fault for the checks: xnonce2 is cleared for every notify.
ClearedXn2(i) == 0

\* stratum_notify clears xnonce2 only if the job id differs.
Xn2OfJob(i) == IF i = job.id THEN job.xn2 ELSE 0

TakeJob(b, i, p, c) ==
  job' = [body |-> b, id |-> i, prev |-> p, clean |-> c, diff |-> nextDiff,
          xn2 |-> Xn2OfJob(i)]

Notify ==
  /\ pc[Stratum] \in {"recv", "authorize"}
  /\ wLock = Free
  /\ \E c \in BOOLEAN :
       \/ /\ job.body < MaxBody
          /\ \E i \in JobId, p \in {job.prev, job.prev + 1} \cap 0..MaxPrev :
               TakeJob(job.body + 1, i, p, c)
       \/ /\ job.body > 0                      \* the same job once more
          /\ TakeJob(job.body, job.id, job.prev, c)
  /\ GoTo(Stratum, AfterLine)
  /\ UNCHANGED <<nextDiff, gwork, torn, gtime, gLock, wLock, restart, own, shareQ, lost>>

WantsWork(differs) == job.id # NoJobId /\ (gtime = "zero" \/ differs)

\* The test at the top of the loop, which holds no lock: while another thread
\* rebuilds g_work its job_id is freed memory and strcmp may say anything.
Check ==
  /\ At(Stratum, "check")
  /\ \E differs \in (IF torn THEN BOOLEAN ELSE {job.id # gwork.id}) :
       GoTo(Stratum, IF WantsWork(differs) THEN "lock" ELSE "recv")
  /\ UNCHANGED <<shared, own, shareQ, lost>>

LockForJob ==
  /\ At(Stratum, "lock")
  /\ gLock = Free
  /\ gLock' = Stratum
  /\ GoTo(Stratum, "gen")
  /\ UNCHANGED <<job, nextDiff, gwork, torn, gtime, wLock, restart, own, shareQ, lost>>

\* set_target, time(&g_work_time), unlock.
Stamp ==
  /\ At(Stratum, "target")
  /\ gwork' = Targeted
  /\ gtime' = "fresh"
  /\ gLock' = Free
  /\ GoTo(Stratum, IF job.clean THEN "restart" ELSE "recv")
  /\ UNCHANGED <<job, nextDiff, torn, wLock, restart, own, shareQ, lost>>

RestartThreads ==
  /\ At(Stratum, "restart")
  /\ restart' = [m \in Miner |-> TRUE]
  /\ GoTo(Stratum, "recv")
  /\ UNCHANGED <<job, nextDiff, gwork, torn, gtime, gLock, wLock, own, shareQ, lost>>

(***************************************************************************)
(* miner_thread m                                                          *)
(***************************************************************************)

\* A fault for the checks: off by one.
RangeOverrun(m) == work[m].body = 0 \/ nonce[m] > EndNonce

\* end_nonce is 0 until the thread first copies g_work.
RangeUsedUp(m) == work[m].body = 0 \/ nonce[m] >= EndNonce

\* wait_for_diff: sleep until g_work_time is less than 120 s old.
WaitForDiff(m) ==
  /\ At(m, "wait")
  /\ gtime = "fresh"
  /\ GoTo(m, "lock")
  /\ UNCHANGED <<shared, own, shareQ, lost>>

\* A fault for the checks: the nonce is left where it is.
SameNonce(m) == nonce[m]

NextNonce(m) == (nonce[m] + 1) % NonceValues

\* A fault for the checks: the comparison misses what a new job changes.
SameXn2Only(v, w) == v.xn2 = w.xn2

SameHeader(v, w) == v.body = w.body /\ v.xn2 = w.xn2

\* get_new_work with g the contents of g_work.  Its test of the job_id
\* pointers is always true here: each struct work has a string of its own.
GetNewWork(m, g) ==
  IF SameHeader(work[m], g)
  THEN /\ nonce' = [nonce EXCEPT ![m] = NextNonce(m)]
       /\ hashed' = [hashed EXCEPT ![m] = hashed[m] /\ NextNonce(m) = nonce[m]]
       /\ UNCHANGED work
  ELSE /\ work' = [work EXCEPT ![m] = g]
       /\ nonce' = [nonce EXCEPT ![m] = 0]
       /\ hashed' = [hashed EXCEPT ![m] = FALSE]

\* Lock, copy and unlock when there is no need to rebuild.
TakeWork(m) ==
  /\ At(m, "lock")
  /\ gLock = Free
  /\ ~RangeUsedUp(m)
  /\ GetNewWork(m, gwork)
  /\ GoTo(m, "clear")
  /\ UNCHANGED <<shared, shareQ, lost>>

LockToRebuild(m) ==
  /\ At(m, "lock")
  /\ gLock = Free
  /\ RangeUsedUp(m)
  /\ gLock' = m
  /\ GoTo(m, "gen")
  /\ UNCHANGED <<job, nextDiff, gwork, torn, gtime, wLock, restart, own, shareQ, lost>>

\* The end of stratum_gen_work, get_new_work, unlock.
TargetAndTake(m) ==
  /\ At(m, "target")
  /\ gwork' = Targeted
  /\ GetNewWork(m, Targeted)
  /\ gLock' = Free
  /\ GoTo(m, "clear")
  /\ UNCHANGED <<job, nextDiff, torn, gtime, wLock, restart, shareQ, lost>>

\* wanna_mine says no.
Pause(m) ==
  /\ At(m, "clear")
  /\ GoTo(m, "wait")
  /\ UNCHANGED <<shared, own, shareQ, lost>>

\* work_restart[thr_id].restart = 0, long after the copy.
ClearRestart(m) ==
  /\ At(m, "clear")
  /\ restart' = [restart EXCEPT ![m] = FALSE]
  /\ GoTo(m, "scan")
  /\ UNCHANGED <<job, nextDiff, gwork, torn, gtime, gLock, wLock, own, shareQ, lost>>

\* One turn of scanhash, no share: go on while the nonce is below max_nonce,
\* which lies anywhere up to end_nonce, and no restart is asked for.
HashMiss(m) ==
  /\ At(m, "scan")
  /\ nonce' = [nonce EXCEPT ![m] = NextNonce(m)]
  /\ hashed' = [hashed EXCEPT ![m] = NextNonce(m) = nonce[m]]
  /\ \/ GoTo(m, "wait")
     \/ /\ NextNonce(m) < EndNonce
        /\ ~restart[m]
        /\ GoTo(m, "scan")
  /\ UNCHANGED <<shared, work, shareQ, lost>>

\* One turn of scanhash, a share: the nonce stays the one hashed.
HashHit(m) ==
  /\ At(m, "scan")
  /\ Len(shareQ) < MaxShares
  /\ hashed' = [hashed EXCEPT ![m] = TRUE]
  /\ GoTo(m, "submit")
  /\ UNCHANGED <<shared, work, nonce, shareQ, lost>>

\* submit_work: a copy of the work to workio's queue.
SubmitWork(m) ==
  /\ At(m, "submit")
  /\ shareQ' = Append(shareQ, work[m].prev)
  /\ GoTo(m, "wait")
  /\ UNCHANGED <<shared, own, lost>>

(***************************************************************************)
(* workio_thread: submit_upstream_work.  It reads the previous hash in     *)
(* g_work without a lock: while g_work is rebuilt it may see anything.     *)
(***************************************************************************)
LooksStale(prev) == torn \/ prev # gwork.prev
LooksCurrent(prev) == torn \/ prev = gwork.prev

CompareShare ==
  /\ At(Workio, "pop")
  /\ shareQ # <<>>
  /\ \/ LooksCurrent(Head(shareQ)) /\ GoTo(Workio, "send") /\ UNCHANGED shareQ
     \/ LooksStale(Head(shareQ)) /\ shareQ' = Tail(shareQ) /\ UNCHANGED pc
  /\ UNCHANGED <<shared, own, lost>>

\* stratum_send_line succeeds, or fails and workio starts over.
SendShare ==
  /\ At(Workio, "send")
  /\ shareQ # <<>>
  /\ shareQ' \in {shareQ, Tail(shareQ)}
  /\ GoTo(Workio, "pop")
  /\ UNCHANGED <<shared, own, lost>>

\* 120 s without time(&g_work_time).
Age ==
  /\ gtime = "fresh"
  /\ gtime' = "old"
  /\ UNCHANGED <<job, nextDiff, gwork, torn, gLock, wLock, restart, own, pc, shareQ, lost>>

-----------------------------------------------------------------------------

GenWork(t) == GenBegin(t) \/ GenBuild(t)

PoolLine == SetDifficulty \/ Notify \/ OtherLine
StratumStep == GenWork(Stratum) \/ ZeroTime \/ Connect \/ Authorized \/ Check
               \/ LockForJob \/ Stamp \/ RestartThreads
MinerStep(m) == GenWork(m) \/ WaitForDiff(m) \/ TakeWork(m) \/ LockToRebuild(m)
                \/ TargetAndTake(m) \/ Pause(m) \/ ClearRestart(m) \/ HashMiss(m)
                \/ HashHit(m) \/ SubmitWork(m)
WorkioStep == CompareShare \/ SendShare

Next == StratumStep \/ PoolLine \/ Disconnect \/ WorkioStep \/ Age
        \/ \E m \in Miner : MinerStep(m)

Safety == Init /\ [][Next]_vars

(***************************************************************************)
(* Each thread keeps running, and one that asks for a lock again and again *)
(* gets it (hence strong fairness: a lock is free only now and then).      *)
(* Nothing is assumed of the pool and of the connection.                   *)
(***************************************************************************)
Fairness == /\ SF_vars(StratumStep)
            /\ \A m \in Miner : SF_vars(MinerStep(m))
Spec == Safety /\ Fairness

-----------------------------------------------------------------------------

\* The order in which headers are built.
Before(v, w) == \/ v.body < w.body
                \/ v.body = w.body /\ v.xn2 < w.xn2

\* Rebuilding g_work always yields a header that no thread has had yet,
\* whichever thread rebuilds it and whatever the pool sent meanwhile: a job
\* sent once more does not set extranonce2 back.
FreshHeader == [][torn /\ ~torn' => Before(gwork, gwork')]_vars

\* No thread hashes a nonce of a header twice, over restarts, found shares,
\* jobs sent once more and lost connections: it only ever moves to a later
\* header or a later nonce, and has moved on before it hashes again.
MovesForward ==
  [][\A m \in Miner :
       \/ UNCHANGED <<work[m], nonce[m]>>
       \/ Before(work[m], work'[m])
       \/ UNCHANGED work[m] /\ nonce[m] < nonce'[m]]_vars
HashedOnce == \A m \in Miner : At(m, "scan") => ~hashed[m]

\* A thread leaves its part of the nonce range by one nonce at most (the loop
\* of scanhash tests after hashing), far less than the 0x20 nonces that
\* get_new_work leaves free between two parts: no two threads hash the same
\* nonce of a header.
StaysInPart == \A m \in Miner : At(m, "scan") => nonce[m] <= EndNonce

\* A thread tests its hashes against the target of the job they belong to, or
\* of one the pool sent later (set_target reads job.diff after work_lock is
\* released); never against one still to come, or one g_work had before.
TargetOfThisOrLaterJob ==
  \A m \in Miner : work[m].body > 0 =>
    work[m].want <= work[m].diff /\ work[m].diff <= job.diff

\* What makes these hold, when extranonce2 does not wrap.  A thread is inside
\* stratum_gen_work exactly while it holds g_work_lock ...
Rebuilding == {"gen", "build", "target"}
LockInv ==
  /\ \A t \in Thread : gLock = t <=> pc[t] \in Rebuilding
  /\ \A t \in Thread : wLock = t <=> At(t, "build")
  /\ torn <=> wLock # Free

\* ... and only once there is a job ...
JobInv ==
  /\ job.body = 0 <=> job.id = NoJobId
  /\ job.body = 0 => /\ gtime = "zero" /\ gwork.body = 0
                     /\ pc[Stratum] \notin Rebuilding \cup {"lock"}
  /\ \A m \in Miner : job.body = 0 => At(m, "wait")

\* ... headers are built in order: no thread has one later than g_work, and
\* the next one comes after g_work ...
OrderInv ==
  /\ job.body > 0 => Before(gwork, job)
  /\ \A m \in Miner : SameHeader(work[m], gwork) \/ Before(work[m], gwork)
  /\ \A m \in Miner : At(m, "target") => Before(work[m], gwork)

\* ... a thread that has left its part rebuilds before it hashes again ...
NonceInv ==
  \A m \in Miner :
    /\ nonce[m] <= EndNonce + 1
    /\ pc[m] \in {"clear", "scan", "submit"} => nonce[m] <= EndNonce
    /\ pc[m] \in {"clear", "scan"} => ~hashed[m]

\* ... and difficulties only grow in number.
DiffInv ==
  /\ job.diff <= nextDiff
  /\ gwork.want <= job.diff /\ gwork.diff <= job.diff
  /\ gwork.want <= gwork.diff \/ \E t \in Thread : At(t, "target")
  /\ \A m \in Miner : work[m].want <= work[m].diff /\ work[m].diff <= job.diff

IInv == LockInv /\ JobInv /\ OrderInv /\ NonceInv /\ DiffInv

\* submit_upstream_work discards a share "if the previous hash is not the
\* current previous hash": neither the one of g_work nor of the job that is
\* being put there.
DiscardsOnlyStale ==
  [][Len(shareQ') < Len(shareQ) /\ At(Workio, "pop") =>
       Head(shareQ) # gwork.prev \/ Head(shareQ) # job.prev]_vars

\* The latest job reaches every miner thread and stays with it, however the
\* threads that rebuild g_work race with the stratum thread: after the pool's
\* last new job, provided g_work_time is again and again less than 120 s old
\* (wait_for_diff holds the threads otherwise), all threads end on that job.
LatestJobReachesAll ==
  []<>(gtime = "fresh") => <>[](\A m \in Miner : work[m].body = job.body)
=============================================================================
