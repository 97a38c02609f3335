------------------------- MODULE StratumMining_proof -------------------------
(***************************************************************************)
(* Proofs about StratumMining, for any number of miner threads, job ids,   *)
(* nonces and any bounds.                                                  *)
(***************************************************************************)
EXTENDS StratumMining, TLAPS

LEMMA InitTypeOK == Init => TypeOK
<1> SUFFICES ASSUME Init PROVE TypeOK
  OBVIOUS
<1>1. job \in JobType /\ gwork \in WorkType
  BY DEF Init, NoWork, JobType, WorkType
<1>2. nextDiff \in Nat /\ torn \in BOOLEAN /\ gtime \in {"zero", "fresh", "old"} /\ lost \in Nat
  BY DEF Init
<1>3. gLock \in Thread \cup {Free} /\ wLock \in Thread \cup {Free}
  BY DEF Init
<1>4. restart \in [Miner -> BOOLEAN] /\ hashed \in [Miner -> BOOLEAN]
  BY DEF Init
<1>5. work \in [Miner -> WorkType]
  BY DEF Init, NoWork, WorkType
<1>6. nonce \in [Miner -> Nat]
  BY DEF Init
<1>7. PcOK
  BY ThreadsAreDistinct
  DEF Init, PcOK, Thread, StratumPC, MinerPC, WorkioPC, Stratum, Workio
<1>8. shareQ \in Seq(Nat)
  BY DEF Init
<1>9. QED
  BY <1>1, <1>2, <1>3, <1>4, <1>5, <1>6, <1>7, <1>8 DEF TypeOK

\* A thread that goes to a place of its own kind leaves PcOK true.
LEMMA GoToOK ==
  ASSUME PcOK, NEW t \in Thread, NEW l, GoTo(t, l),
         t = Stratum => l \in StratumPC,
         t = Workio => l \in WorkioPC,
         t \in Miner => l \in MinerPC
  PROVE  PcOK'
  BY ThreadsAreDistinct DEF PcOK, GoTo, Thread, Stratum, Workio

LEMMA GenTypeOK ==
  ASSUME TypeOK, NEW t \in Thread, GenBegin(t) \/ GenBuild(t)
  PROVE  TypeOK'
<1> USE DEF TypeOK
<1>1. t # Workio
  BY DEF GenBegin, GenBuild, At, PcOK, WorkioPC
<1>2. CASE GenBegin(t)
  <2>1. PcOK'
    BY <1>1, <1>2, GoToOK DEF GenBegin, StratumPC, MinerPC
  <2>2. QED
    BY <1>2, <2>1 DEF GenBegin, own
<1>3. CASE GenBuild(t)
  <2>1. PcOK'
    BY <1>1, <1>3, GoToOK DEF GenBuild, StratumPC, MinerPC
  <2>2. (job.xn2 + 1) % Xn2Values \in Nat
    BY NumbersAreNat DEF JobType
  <2>3. job' \in JobType /\ gwork' \in WorkType
    BY <1>3, <2>2 DEF GenBuild, NextXn2, JobType, WorkType
  <2>4. QED
    BY <1>3, <2>1, <2>3 DEF GenBuild, own
<1>4. QED
  BY <1>2, <1>3

LEMMA TargetedType == ASSUME TypeOK PROVE Targeted \in WorkType
  BY DEF TypeOK, Targeted, WorkType, JobType

LEMMA StratumTypeOK ==
  ASSUME TypeOK, StratumStep \/ PoolLine \/ Disconnect
  PROVE  TypeOK'
<1> USE DEF TypeOK
<1>1. Stratum \in Thread /\ Stratum \notin Miner /\ Stratum # Workio
  BY ThreadsAreDistinct DEF Thread, Stratum, Workio
<1>2. CASE GenWork(Stratum)
  BY <1>1, <1>2, GenTypeOK DEF GenWork
<1>3. CASE ZeroTime
  <2>1. PcOK'
    BY <1>1, <1>3, GoToOK DEF ZeroTime, StratumPC
  <2>2. QED
    BY <1>3, <2>1 DEF ZeroTime, own
<1>4. CASE Connect
  <2>1. PcOK'
    BY <1>1, <1>4, GoToOK DEF Connect, StratumPC
  <2>2. QED
    BY <1>4, <2>1 DEF Connect, own
<1>5. CASE Authorized
  <2>1. PcOK'
    BY <1>1, <1>5, GoToOK DEF Authorized, StratumPC
  <2>2. QED
    BY <1>5, <2>1 DEF Authorized, own, shared
<1>6. CASE Check
  <2>1. PcOK'
    <3>1. PICK l \in {"lock", "recv"} : GoTo(Stratum, l)
      BY <1>6 DEF Check
    <3>2. QED
      BY <1>1, <3>1, GoToOK DEF StratumPC
  <2>2. QED
    BY <1>6, <2>1 DEF Check, own, shared
<1>7. CASE LockForJob
  <2>1. PcOK'
    BY <1>1, <1>7, GoToOK DEF LockForJob, StratumPC
  <2>2. QED
    BY <1>1, <1>7, <2>1 DEF LockForJob, own
<1>8. CASE Stamp
  <2>1. PcOK'
    BY <1>1, <1>8, GoToOK DEF Stamp, StratumPC
  <2>2. QED
    BY <1>8, <2>1, TargetedType DEF Stamp, own
<1>9. CASE RestartThreads
  <2>1. PcOK'
    BY <1>1, <1>9, GoToOK DEF RestartThreads, StratumPC
  <2>2. QED
    BY <1>9, <2>1 DEF RestartThreads, own
<1>10. CASE SetDifficulty
  <2>1. PcOK'
    BY <1>1, <1>10, GoToOK DEF SetDifficulty, AfterLine, StratumPC
  <2>2. QED
    BY <1>10, <2>1 DEF SetDifficulty, own
<1>11. CASE Notify
  <2>1. PcOK'
    BY <1>1, <1>11, GoToOK DEF Notify, AfterLine, StratumPC
  <2>2. job' \in JobType
    BY <1>11, NumbersAreNat DEF Notify, TakeJob, Xn2OfJob, JobType
  <2>3. QED
    BY <1>11, <2>1, <2>2 DEF Notify, own
<1>12. CASE OtherLine
  <2>1. PcOK'
    BY <1>1, <1>12, GoToOK DEF OtherLine, StratumPC
  <2>2. QED
    BY <1>12, <2>1 DEF OtherLine, own, shared
<1>13. CASE Disconnect
  <2>1. PcOK'
    BY <1>1, <1>13, GoToOK DEF Disconnect, StratumPC
  <2>2. QED
    BY <1>13, <2>1 DEF Disconnect, own, shared
<1>14. QED
  BY <1>2, <1>3, <1>4, <1>5, <1>6, <1>7, <1>8, <1>9, <1>10, <1>11, <1>12, <1>13
  DEF StratumStep, PoolLine
LEMMA GetNewWorkType ==
  ASSUME TypeOK, NEW m \in Miner, NEW g \in WorkType, GetNewWork(m, g)
  PROVE  /\ work' \in [Miner -> WorkType]
         /\ nonce' \in [Miner -> Nat]
         /\ hashed' \in [Miner -> BOOLEAN]
<1>1. NextNonce(m) \in Nat
  BY NumbersAreNat DEF NextNonce, TypeOK
<1> USE DEF TypeOK
<1>2. hashed' \in [Miner -> BOOLEAN]
  BY DEF GetNewWork
<1>3. CASE SameHeader(work[m], g)
  <2>1. work' = work /\ nonce' = [nonce EXCEPT ![m] = NextNonce(m)]
    BY <1>3 DEF GetNewWork
  <2>2. QED
    BY <1>1, <1>2, <2>1
<1>4. CASE ~SameHeader(work[m], g)
  <2>1. work' = [work EXCEPT ![m] = g] /\ nonce' = [nonce EXCEPT ![m] = 0]
    BY <1>4 DEF GetNewWork
  <2>2. QED
    BY <1>2, <2>1
<1>5. QED
  BY <1>3, <1>4

LEMMA MinerTypeOK ==
  ASSUME TypeOK, NEW m \in Miner, MinerStep(m)
  PROVE  TypeOK'
<1> USE DEF TypeOK
<1>1. m \in Thread /\ m # Stratum /\ m # Workio
  BY ThreadsAreDistinct DEF Thread
<1>2. CASE GenWork(m)
  BY <1>1, <1>2, GenTypeOK DEF GenWork
<1>3. CASE WaitForDiff(m)
  <2>1. PcOK'
    BY <1>1, <1>3, GoToOK DEF WaitForDiff, MinerPC
  <2>2. QED
    BY <1>3, <2>1 DEF WaitForDiff, shared, own
<1>4. CASE TakeWork(m)
  <2>1. PcOK'
    BY <1>1, <1>4, GoToOK DEF TakeWork, MinerPC
  <2>2. QED
    BY <1>4, <2>1, GetNewWorkType DEF TakeWork, shared
<1>5. CASE LockToRebuild(m)
  <2>1. PcOK'
    BY <1>1, <1>5, GoToOK DEF LockToRebuild, MinerPC
  <2>2. QED
    BY <1>1, <1>5, <2>1 DEF LockToRebuild, own
<1>6. CASE TargetAndTake(m)
  <2>1. PcOK'
    BY <1>1, <1>6, GoToOK DEF TargetAndTake, MinerPC
  <2>2. QED
    BY <1>6, <2>1, GetNewWorkType, TargetedType DEF TargetAndTake
<1>7. CASE Pause(m)
  <2>1. PcOK'
    BY <1>1, <1>7, GoToOK DEF Pause, MinerPC
  <2>2. QED
    BY <1>7, <2>1 DEF Pause, shared, own
<1>8. CASE ClearRestart(m)
  <2>1. PcOK'
    BY <1>1, <1>8, GoToOK DEF ClearRestart, MinerPC
  <2>2. QED
    BY <1>8, <2>1 DEF ClearRestart, own
<1>9. CASE HashMiss(m)
  <2>1. PcOK'
    BY <1>1, <1>9, GoToOK DEF HashMiss, MinerPC
  <2>2. NextNonce(m) \in Nat
    BY NumbersAreNat DEF NextNonce
  <2>3. QED
    BY <1>9, <2>1, <2>2 DEF HashMiss, shared
<1>10. CASE HashHit(m)
  <2>1. PcOK'
    BY <1>1, <1>10, GoToOK DEF HashHit, MinerPC
  <2>2. QED
    BY <1>10, <2>1 DEF HashHit, shared
<1>11. CASE SubmitWork(m)
  <2>1. PcOK'
    BY <1>1, <1>11, GoToOK DEF SubmitWork, MinerPC
  <2>2. shareQ' \in Seq(Nat)
    BY <1>11 DEF SubmitWork, WorkType
  <2>3. QED
    BY <1>11, <2>1, <2>2 DEF SubmitWork, shared, own
<1>12. QED
  BY <1>2, <1>3, <1>4, <1>5, <1>6, <1>7, <1>8, <1>9, <1>10, <1>11 DEF MinerStep

LEMMA TailType == shareQ \in Seq(Nat) /\ shareQ # <<>> => Tail(shareQ) \in Seq(Nat)
  OBVIOUS

LEMMA OtherTypeOK ==
  ASSUME TypeOK, WorkioStep \/ Age
  PROVE  TypeOK'
<1> USE DEF TypeOK
<1>1. Workio \in Thread /\ Workio \notin Miner /\ Workio # Stratum
  BY ThreadsAreDistinct DEF Thread, Stratum, Workio
<1>2. CASE CompareShare
  <2>1. PcOK'
    BY <1>1, <1>2, GoToOK DEF CompareShare, WorkioPC, PcOK
  <2>2. shareQ' \in Seq(Nat)
    BY <1>2, TailType DEF CompareShare
  <2>3. QED
    BY <1>2, <2>1, <2>2 DEF CompareShare, shared, own
<1>3. CASE SendShare
  <2>1. PcOK'
    BY <1>1, <1>3, GoToOK DEF SendShare, WorkioPC
  <2>2. shareQ' \in Seq(Nat)
    BY <1>3, TailType DEF SendShare
  <2>3. QED
    BY <1>3, <2>1, <2>2 DEF SendShare, shared, own
<1>4. CASE Age
  BY <1>4 DEF Age, own, PcOK
<1>5. QED
  BY <1>2, <1>3, <1>4 DEF WorkioStep

LEMMA NextTypeOK == TypeOK /\ [Next]_vars => TypeOK'
<1> SUFFICES ASSUME TypeOK, [Next]_vars PROVE TypeOK'
  OBVIOUS
<1>1. CASE UNCHANGED vars
  BY <1>1 DEF vars, shared, own, TypeOK, PcOK
<1>2. QED
  BY <1>1, StratumTypeOK, MinerTypeOK, OtherTypeOK DEF Next

\* The state of the program keeps its types.
THEOREM TypeCorrect == Safety => []TypeOK
  BY InitTypeOK, NextTypeOK, PTL DEF Safety
-----------------------------------------------------------------------------
(***************************************************************************)
(* The invariant of the two locks.  As far as they are concerned a step is *)
(* one of six kinds.                                                       *)
(***************************************************************************)
locks == <<gLock, wLock, torn>>

Move(t)    == /\ pc[t] \notin Rebuilding
              /\ \E l : l \notin Rebuilding /\ GoTo(t, l)
              /\ UNCHANGED locks
Acquire(t) == /\ pc[t] \notin Rebuilding /\ gLock = Free /\ gLock' = t
              /\ GoTo(t, "gen") /\ UNCHANGED <<wLock, torn>>
Release(t) == /\ At(t, "target") /\ gLock' = Free /\ gwork' = Targeted
              /\ \E l : l \notin Rebuilding /\ GoTo(t, l)
              /\ UNCHANGED <<wLock, torn>>

LEMMA KindsOfStep ==
  ASSUME TypeOK, [Next]_vars
  PROVE  \/ UNCHANGED <<pc, locks>>
         \/ \E t \in Thread : \/ Move(t) \/ Acquire(t) \/ Release(t)
                              \/ GenBegin(t) \/ GenBuild(t)
<1>1. Stratum \in Thread /\ Workio \in Thread /\ Miner \subseteq Thread
  BY DEF Thread
<1>2. CASE UNCHANGED vars \/ Age
  BY <1>2 DEF vars, shared, Age, locks
<1>3. CASE WorkioStep
  <2>1. CASE CompareShare
    BY <1>1, <2>1 DEF CompareShare, Move, At, Rebuilding, shared, locks
  <2>2. CASE SendShare
    <3>1. GoTo(Workio, "pop") /\ At(Workio, "send") /\ UNCHANGED shared
      BY <2>2 DEF SendShare
    <3>2. Move(Workio)
      BY <3>1 DEF Move, At, Rebuilding, shared, locks
    <3>3. QED
      BY <1>1, <3>2
  <2>3. QED
    BY <1>3, <2>1, <2>2 DEF WorkioStep
<1>4. CASE StratumStep \/ PoolLine \/ Disconnect
  <2> USE DEF Rebuilding, At
  <2>1. CASE ZeroTime \/ RestartThreads
    <3>1. Move(Stratum)
      BY <2>1 DEF ZeroTime, RestartThreads, Move, locks
    <3>2. QED
      BY <1>1, <3>1
  <2>2. CASE Connect \/ SetDifficulty \/ Notify
    <3>1. Move(Stratum)
      BY <2>2 DEF Connect, SetDifficulty, Notify, AfterLine, Move, locks
    <3>2. QED
      BY <1>1, <3>1
  <2>3. CASE Authorized \/ Check \/ OtherLine \/ Disconnect
    <3>1. Move(Stratum)
      BY <2>3 DEF Authorized, Check, OtherLine, Disconnect, Move, locks, shared
    <3>2. QED
      BY <1>1, <3>1
  <2>4. CASE LockForJob
    <3>1. Acquire(Stratum)
      BY <2>4 DEF LockForJob, Acquire
    <3>2. QED
      BY <1>1, <3>1
  <2>5. CASE Stamp
    <3>1. Release(Stratum)
      BY <2>5 DEF Stamp, Release
    <3>2. QED
      BY <1>1, <3>1
  <2>6. QED
    BY <1>1, <1>4, <2>1, <2>2, <2>3, <2>4, <2>5 DEF StratumStep, PoolLine, GenWork
<1>5. ASSUME NEW m \in Miner, MinerStep(m)
      PROVE  \E t \in Thread : \/ Move(t) \/ Acquire(t) \/ Release(t)
                               \/ GenBegin(t) \/ GenBuild(t)
  <2> USE DEF Rebuilding, At
  <2>1. CASE WaitForDiff(m) \/ Pause(m) \/ ClearRestart(m) \/ SubmitWork(m)
    <3>1. Move(m)
      BY <2>1 DEF WaitForDiff, Pause, ClearRestart, SubmitWork, Move, locks, shared
    <3>2. QED
      BY <1>1, <3>1
  <2>2. CASE TakeWork(m) \/ HashMiss(m) \/ HashHit(m)
    <3>1. Move(m)
      BY <2>2 DEF TakeWork, HashMiss, HashHit, Move, locks, shared
    <3>2. QED
      BY <1>1, <3>1
  <2>3. CASE LockToRebuild(m)
    <3>1. Acquire(m)
      BY <2>3 DEF LockToRebuild, Acquire
    <3>2. QED
      BY <1>1, <3>1
  <2>4. CASE TargetAndTake(m)
    <3>1. Release(m)
      BY <2>4 DEF TargetAndTake, Release
    <3>2. QED
      BY <1>1, <3>1
  <2>5. QED
    BY <1>1, <1>5, <2>1, <2>2, <2>3, <2>4 DEF MinerStep, GenWork
<1>6. QED
  BY <1>2, <1>3, <1>4, <1>5 DEF Next

LEMMA LockInvStep == TypeOK /\ LockInv /\ [Next]_vars => LockInv'
<1> SUFFICES ASSUME TypeOK, LockInv, [Next]_vars PROVE LockInv'
  OBVIOUS
<1> USE FreeIsNoThread DEF LockInv, Rebuilding, At
<1>1. pc \in [Thread -> StratumPC \cup MinerPC \cup WorkioPC]
  BY DEF TypeOK, PcOK
<1>2. CASE UNCHANGED <<pc, locks>>
  BY <1>2 DEF locks
<1>3. ASSUME NEW t \in Thread, Move(t) PROVE LockInv'
  BY <1>1, <1>3 DEF Move, GoTo, locks
<1>4. ASSUME NEW t \in Thread, Acquire(t) PROVE LockInv'
  BY <1>1, <1>4 DEF Acquire, GoTo
<1>5. ASSUME NEW t \in Thread, Release(t) PROVE LockInv'
  BY <1>1, <1>5 DEF Release, GoTo
<1>6. ASSUME NEW t \in Thread, GenBegin(t) PROVE LockInv'
  BY <1>1, <1>6 DEF GenBegin, GoTo
<1>7. ASSUME NEW t \in Thread, GenBuild(t) PROVE LockInv'
  BY <1>1, <1>7 DEF GenBuild, GoTo
<1>8. QED
  BY <1>2, <1>3, <1>4, <1>5, <1>6, <1>7, KindsOfStep
-----------------------------------------------------------------------------
(***************************************************************************)
(* The job, g_work and the threads' copies of it.                          *)
(***************************************************************************)

\* The remainder of a number below the divisor.
LEMMA SmallRemainder ==
  ASSUME NEW a \in Nat, NEW b \in Nat, a < b
  PROVE  a % b = a
  OBVIOUS

\* A step that copies nothing and brings no miner to the end of stratum_gen_work.
Quiet == /\ UNCHANGED <<job, gwork, work>>
         /\ \A m \in Miner : pc'[m] = "target" => At(m, "target")

LEMMA KindsOfData ==
  ASSUME TypeOK, [Next]_vars
  PROVE  \/ Quiet \/ Notify \/ Stamp
         \/ \E t \in Thread : GenBuild(t)
         \/ \E m \in Miner : TakeWork(m) \/ TargetAndTake(m)
<1>1. pc \in [Thread -> StratumPC \cup MinerPC \cup WorkioPC]
  BY DEF TypeOK, PcOK
<1>2. Stratum \in Thread /\ Workio \in Thread /\ Miner \subseteq Thread
  BY DEF Thread
<1> USE <1>1, <1>2 DEF Quiet, At, GoTo, shared, own
<1>3. CASE UNCHANGED vars \/ Age
  BY <1>3 DEF vars, Age
<1>4. CASE WorkioStep
  BY <1>4 DEF WorkioStep, CompareShare, SendShare
<1>5. CASE PoolLine \/ Disconnect
  BY <1>5, ThreadsAreDistinct
  DEF PoolLine, SetDifficulty, OtherLine, Disconnect, AfterLine
<1>6. CASE StratumStep
  <2>1. CASE ZeroTime \/ Connect \/ Authorized \/ LockForJob \/ RestartThreads
    BY <2>1 DEF ZeroTime, Connect, Authorized, LockForJob, RestartThreads
  <2>2. CASE Check
    BY <2>2, ThreadsAreDistinct DEF Check
  <2>3. CASE GenBegin(Stratum)
    BY <2>3 DEF GenBegin
  <2>4. QED
    BY <1>6, <2>1, <2>2, <2>3 DEF StratumStep, GenWork
<1>7. ASSUME NEW m \in Miner, MinerStep(m)
      PROVE Quiet \/ GenBuild(m) \/ TakeWork(m) \/ TargetAndTake(m)
  <2>1. CASE GenBegin(m) \/ WaitForDiff(m) \/ LockToRebuild(m) \/ Pause(m)
    BY <2>1 DEF GenBegin, WaitForDiff, LockToRebuild, Pause
  <2>2. CASE ClearRestart(m) \/ HashMiss(m) \/ HashHit(m) \/ SubmitWork(m)
    BY <2>2 DEF ClearRestart, HashMiss, HashHit, SubmitWork
  <2>3. QED
    BY <1>7, <2>1, <2>2 DEF MinerStep, GenWork
<1>8. QED
  BY <1>3, <1>4, <1>5, <1>6, <1>7 DEF Next

LEMMA JobInvStep == TypeOK /\ LockInv /\ JobInv /\ [Next]_vars => JobInv'
<1> SUFFICES ASSUME TypeOK, LockInv, JobInv, [Next]_vars PROVE JobInv'
  OBVIOUS
<1>1. /\ job \in JobType /\ gwork \in WorkType /\ PcOK
      /\ gtime \in {"zero", "fresh", "old"}
  BY DEF TypeOK
<1>2. CASE Notify
  <2>1. job.body' > 0 /\ job.id' # NoJobId
    BY <1>1, <1>2, NoJobIdIsNoJobId DEF Notify, TakeJob, JobInv, JobType
  <2>2. QED
    BY <2>1 DEF JobInv
<1>3. ASSUME NEW t \in Thread, GenBuild(t) PROVE JobInv'
  <2>1. job.body > 0
    BY <1>1, <1>3, ThreadsAreDistinct
    DEF JobInv, JobType, GenBuild, At, Rebuilding, Thread, PcOK, WorkioPC, Workio
  <2>2. job.body' = job.body /\ job.id' = job.id
    BY <1>1, <1>3 DEF GenBuild, JobType
  <2>3. QED
    BY <2>1, <2>2 DEF JobInv
<1>4. CASE UNCHANGED job /\ job.body > 0
  BY <1>4 DEF JobInv
<1>5. CASE UNCHANGED job /\ job.body = 0
  <2>1. /\ job.id = NoJobId /\ gtime = "zero" /\ gwork.body = 0
        /\ pc[Stratum] \notin Rebuilding \cup {"lock"}
        /\ \A m \in Miner : pc[m] = "wait"
    BY <1>5 DEF JobInv, At
  <2>2. pc[Workio] \notin Rebuilding
    BY <1>1 DEF PcOK, WorkioPC, Rebuilding
  <2>3. ASSUME NEW m \in Miner PROVE ~MinerStep(m)
    BY <2>1, <2>3 DEF MinerStep, GenWork, GenBegin, GenBuild, WaitForDiff,
       TakeWork, LockToRebuild, TargetAndTake, Pause, ClearRestart, HashMiss,
       HashHit, SubmitWork, At
  <2>4. \/ UNCHANGED vars \/ WorkioStep \/ PoolLine \/ Disconnect \/ StratumStep
    BY <2>1, <2>3 DEF Next, Age
  <2> USE ThreadsAreDistinct DEF At, GoTo, PcOK, Thread
  <2>5. UNCHANGED gwork /\ gtime' = "zero"
    BY <2>1, <2>4, <1>2 DEF vars, shared, own, WorkioStep, CompareShare, SendShare,
       PoolLine, SetDifficulty, OtherLine, Notify, Disconnect, StratumStep, GenWork,
       GenBegin, GenBuild, ZeroTime, Connect, Authorized, Check, LockForJob, Stamp,
       RestartThreads, Rebuilding
  <2>6. /\ \A m \in Miner : pc'[m] = "wait"
        /\ pc'[Stratum] \notin Rebuilding \cup {"lock"}
    <3>1. CASE WorkioStep \/ UNCHANGED vars
      BY <1>1, <2>1, <3>1 DEF vars, WorkioStep, CompareShare, SendShare, Stratum, Workio
    <3>2. CASE PoolLine \/ Disconnect
      BY <1>1, <2>1, <3>2 DEF PoolLine, SetDifficulty, OtherLine, Notify, Disconnect,
         AfterLine, Rebuilding
    <3>3. CASE StratumStep
      BY <1>1, <2>1, <3>3 DEF StratumStep, GenWork, GenBegin, GenBuild, ZeroTime,
         Connect, Authorized, Check, WantsWork, LockForJob, Stamp, RestartThreads,
         Rebuilding
    <3>4. QED
      BY <2>4, <3>1, <3>2, <3>3
  <2>7. QED
    BY <1>5, <2>1, <2>5, <2>6 DEF JobInv
<1>6. \/ Notify \/ \E t \in Thread : GenBuild(t)
      \/ UNCHANGED job
  BY KindsOfData DEF Quiet, Stamp, TakeWork, TargetAndTake, shared
<1>7. QED
  BY <1>1, <1>2, <1>3, <1>4, <1>5, <1>6 DEF JobType

\* get_new_work leaves the thread's header as it is, if it is the one of g, or
\* takes the one of g.
LEMMA TakesHeader ==
  ASSUME TypeOK, NEW m \in Miner, NEW g \in WorkType, GetNewWork(m, g)
  PROVE  /\ \A n \in Miner \ {m} : work'[n] = work[n]
         /\ SameHeader(work'[m], g)
         /\ \/ /\ SameHeader(work[m], g) /\ work' = work /\ nonce'[m] = NextNonce(m)
               /\ hashed'[m] => NextNonce(m) = nonce[m]
            \/ work'[m] = g /\ nonce'[m] = 0 /\ ~hashed'[m]
         /\ \A n \in Miner \ {m} : nonce'[n] = nonce[n] /\ hashed'[n] = hashed[n]
  BY DEF GetNewWork, TypeOK, SameHeader

LEMMA OrderInvStep ==
  ASSUME ~Xn2Wraps, TypeOK, LockInv, JobInv, OrderInv, [Next]_vars
  PROVE  OrderInv'
<1>1. /\ job \in JobType /\ gwork \in WorkType /\ work \in [Miner -> WorkType]
      /\ PcOK
  BY DEF TypeOK
<1> USE DEF Before, SameHeader
<1>2. CASE Quiet
  <2>1. (job.body > 0 => Before(gwork, job))'
    BY <1>2 DEF Quiet, OrderInv
  <2>2. ASSUME NEW m \in Miner
        PROVE  /\ (SameHeader(work[m], gwork) \/ Before(work[m], gwork))'
               /\ (At(m, "target") => Before(work[m], gwork))'
    BY <1>2, <2>2 DEF Quiet, OrderInv, At
  <2>3. QED
    BY <2>1, <2>2 DEF OrderInv
<1>3. CASE Notify
  <2>1. UNCHANGED <<gwork, work>> /\ \A m \in Miner : pc'[m] = pc[m]
    BY <1>1, <1>3, ThreadsAreDistinct DEF Notify, GoTo, PcOK, Thread, own
  <2>2. \/ job.body' = job.body + 1
        \/ job.body' = job.body /\ job.xn2' = job.xn2 /\ job.body > 0
    BY <1>3 DEF Notify, TakeJob, Xn2OfJob
  <2>3. Before(gwork, job')
    BY <1>1, <2>2 DEF OrderInv, JobInv, JobType, WorkType
  <2>4. QED
    BY <2>1, <2>3 DEF OrderInv, At
<1>4. CASE Stamp
  <2>1. UNCHANGED <<job, work>> /\ gwork'.body = gwork.body /\ gwork'.xn2 = gwork.xn2
    BY <1>1, <1>4 DEF Stamp, Targeted, own, WorkType
  <2>2. \A m \in Miner : pc'[m] = pc[m]
    BY <1>1, <1>4, ThreadsAreDistinct DEF Stamp, GoTo, PcOK, Thread
  <2>3. QED
    BY <2>1, <2>2 DEF OrderInv, At
<1>5. ASSUME NEW t \in Thread, GenBuild(t) PROVE OrderInv'
  <2>1. job.body > 0
    BY <1>1, <1>5, ThreadsAreDistinct
    DEF JobInv, JobType, GenBuild, At, Rebuilding, Thread, PcOK, WorkioPC, Workio
  <2>2. job.xn2 + 1 < Xn2Values
    BY <1>5 DEF GenBuild
  <2>3. (job.xn2 + 1) % Xn2Values = job.xn2 + 1
    BY <1>1, <2>2, SmallRemainder, NumbersAreNat DEF JobType
  <2>4. job'.body = job.body /\ job'.xn2 = job.xn2 + 1
    BY <1>1, <1>5, <2>3 DEF GenBuild, NextXn2, JobType
  <2>5. gwork'.body = job.body /\ gwork'.xn2 = job.xn2 /\ work' = work
    BY <1>5 DEF GenBuild, own
  <2>6. \A m \in Miner : Before(work[m], gwork')
    BY <1>1, <2>1, <2>5 DEF OrderInv, JobType, WorkType
  <2>7. Before(gwork', job')
    BY <1>1, <2>4, <2>5 DEF JobType
  <2>8. QED
    BY <2>5, <2>6, <2>7 DEF OrderInv
<1>6. ASSUME NEW m \in Miner, TakeWork(m) \/ TargetAndTake(m) PROVE OrderInv'
  <2>1. PICK g \in WorkType : GetNewWork(m, g) /\ SameHeader(g, gwork)
                              /\ gwork' \in WorkType /\ SameHeader(gwork', gwork)
    BY <1>1, <1>6, TargetedType DEF TakeWork, TargetAndTake, Targeted, shared, WorkType,
       TypeOK
  <2>2. job' = job
    BY <1>6 DEF TakeWork, TargetAndTake, shared
  <2>3. /\ pc'[m] = "clear"
        /\ \A n \in Miner \ {m} : pc'[n] = pc[n] /\ work'[n] = work[n]
    BY <1>1, <1>6, <2>1, TakesHeader DEF TakeWork, TargetAndTake, GoTo, PcOK, Thread
  <2>4. SameHeader(work'[m], gwork')
    BY <2>1, TakesHeader
  <2>5. QED
    BY <2>1, <2>2, <2>3, <2>4 DEF OrderInv, At
<1>7. QED
  BY <1>2, <1>3, <1>4, <1>5, <1>6, KindsOfData

\* A step that leaves the nonces as they are and brings no thread to where it
\* hashes, or on the way there.
Waits == /\ UNCHANGED <<nonce, hashed>>
         /\ \A m \in Miner : \/ pc'[m] = pc[m]
                             \/ pc'[m] \notin {"clear", "scan", "submit"}

LEMMA KindsOfScan ==
  ASSUME TypeOK, [Next]_vars
  PROVE  \/ Waits
         \/ \E m \in Miner : \/ TakeWork(m) \/ TargetAndTake(m) \/ ClearRestart(m)
                             \/ HashMiss(m) \/ HashHit(m)
<1>1. pc \in [Thread -> StratumPC \cup MinerPC \cup WorkioPC]
  BY DEF TypeOK, PcOK
<1>2. Stratum \in Thread /\ Workio \in Thread /\ Miner \subseteq Thread
  BY DEF Thread
<1> USE <1>1, <1>2, ThreadsAreDistinct DEF Waits, At, GoTo, shared, own
<1>3. CASE UNCHANGED vars \/ Age
  BY <1>3 DEF vars, Age
<1>4. CASE WorkioStep
  BY <1>4 DEF WorkioStep, CompareShare, SendShare
<1>5. CASE PoolLine \/ Disconnect
  BY <1>5 DEF PoolLine, SetDifficulty, Notify, OtherLine, Disconnect
<1>6. CASE StratumStep
  <2>1. CASE ZeroTime \/ Connect \/ Authorized \/ LockForJob \/ RestartThreads
    BY <2>1 DEF ZeroTime, Connect, Authorized, LockForJob, RestartThreads
  <2>2. CASE Check \/ GenWork(Stratum) \/ Stamp
    BY <2>2 DEF Check, GenWork, GenBegin, GenBuild, Stamp
  <2>3. QED
    BY <1>6, <2>1, <2>2 DEF StratumStep
<1>7. ASSUME NEW m \in Miner, MinerStep(m)
      PROVE  \/ Waits \/ TakeWork(m) \/ TargetAndTake(m) \/ ClearRestart(m)
             \/ HashMiss(m) \/ HashHit(m)
  <2>1. CASE GenWork(m)
    BY <2>1 DEF GenWork, GenBegin, GenBuild
  <2>2. CASE WaitForDiff(m) \/ LockToRebuild(m) \/ Pause(m) \/ SubmitWork(m)
    BY <2>2 DEF WaitForDiff, LockToRebuild, Pause, SubmitWork
  <2>3. QED
    BY <1>7, <2>1, <2>2 DEF MinerStep
<1>8. QED
  BY <1>3, <1>4, <1>5, <1>6, <1>7 DEF Next

\* The next nonce does not wrap in or just after the thread's part.
LEMMA NextNonceIsNext ==
  ASSUME TypeOK, NonceInv, NEW m \in Miner
  PROVE  NextNonce(m) = nonce[m] + 1
<1>1. nonce[m] \in Nat /\ nonce[m] + 1 < NonceValues
  BY NumbersAreNat DEF TypeOK, NonceInv
<1>2. QED
  BY <1>1, SmallRemainder, NumbersAreNat DEF NextNonce

LEMMA NonceInvStep ==
  ASSUME TypeOK, LockInv, OrderInv, NonceInv, [Next]_vars
  PROVE  NonceInv'
<1>1. /\ nonce \in [Miner -> Nat] /\ hashed \in [Miner -> BOOLEAN] /\ gwork \in WorkType
      /\ work \in [Miner -> WorkType] /\ PcOK /\ EndNonce \in Nat \ {0}
  BY NumbersAreNat DEF TypeOK
<1>2. CASE Waits
  BY <1>2 DEF Waits, NonceInv
<1>3. ASSUME NEW m \in Miner,
             TakeWork(m) \/ TargetAndTake(m) \/ ClearRestart(m) \/ HashMiss(m) \/ HashHit(m)
      PROVE  NonceInv'
  <2>1. \A n \in Miner \ {m} :
           pc'[n] = pc[n] /\ nonce'[n] = nonce[n] /\ hashed'[n] = hashed[n]
    BY <1>1, <1>3 DEF TakeWork, TargetAndTake, ClearRestart, HashMiss, HashHit,
       GetNewWork, GoTo, PcOK, Thread, own
  <2>2. /\ nonce'[m] <= EndNonce + 1
        /\ pc'[m] \in {"clear", "scan", "submit"} => nonce'[m] <= EndNonce
        /\ pc'[m] \in {"clear", "scan"} => ~hashed'[m]
    <3>1. CASE TakeWork(m)
      <4>1. nonce[m] < EndNonce
        BY <1>1, <3>1 DEF TakeWork, RangeUsedUp
      <4>2. ~hashed'[m]
        BY <1>1, <3>1, TakesHeader, NextNonceIsNext DEF TakeWork
      <4>3. nonce'[m] = nonce[m] + 1 \/ nonce'[m] = 0
        BY <1>1, <3>1, TakesHeader, NextNonceIsNext DEF TakeWork
      <4>4. QED
        BY <1>1, <4>1, <4>2, <4>3
    <3>2. CASE TargetAndTake(m)
      <4>1. Targeted \in WorkType /\ ~SameHeader(work[m], Targeted)
        BY <1>1, <3>2, TargetedType DEF TargetAndTake, OrderInv, Before, SameHeader,
           Targeted, WorkType
      <4>2. nonce'[m] = 0 /\ ~hashed'[m]
        BY <3>2, <4>1, TakesHeader DEF TargetAndTake
      <4>3. QED
        BY <1>1, <4>2
    <3>3. CASE ClearRestart(m)
      BY <1>1, <3>3 DEF ClearRestart, NonceInv, At, own
    <3>4. CASE HashMiss(m)
      <4>1. /\ nonce'[m] = nonce[m] + 1 /\ ~hashed'[m] /\ nonce[m] <= EndNonce
        BY <1>1, <3>4, NextNonceIsNext DEF HashMiss, NonceInv, At
      <4>2. pc'[m] = "wait" \/ nonce'[m] < EndNonce
        BY <1>1, <3>4 DEF HashMiss, GoTo, PcOK, Thread
      <4>3. QED
        BY <1>1, <4>1, <4>2
    <3>5. CASE HashHit(m)
      BY <1>1, <3>5 DEF HashHit, NonceInv, GoTo, At, PcOK, Thread
    <3>6. QED
      BY <1>3, <3>1, <3>2, <3>3, <3>4, <3>5
  <2>3. QED
    BY <2>1, <2>2 DEF NonceInv
<1>4. QED
  BY <1>2, <1>3, KindsOfScan

LEMMA DiffInvStep ==
  ASSUME TypeOK, LockInv, DiffInv, [Next]_vars
  PROVE  DiffInv'
<1>1. /\ job \in JobType /\ gwork \in WorkType /\ work \in [Miner -> WorkType]
      /\ nextDiff \in Nat /\ PcOK
  BY DEF TypeOK
<1>2. job.diff \in Nat /\ gwork.want \in Nat /\ gwork.diff \in Nat
  BY <1>1 DEF JobType, WorkType
<1>3. nextDiff' \in Nat /\ nextDiff' >= nextDiff
  BY <1>1 DEF Next, vars, shared, own, StratumStep, PoolLine, Disconnect, WorkioStep, Age,
     MinerStep, GenWork, GenBegin, GenBuild, ZeroTime, Connect, Authorized, Check,
     LockForJob, Stamp, RestartThreads, SetDifficulty, Notify, OtherLine, CompareShare,
     SendShare, WaitForDiff, TakeWork, LockToRebuild, TargetAndTake, Pause, ClearRestart,
     HashMiss, HashHit, SubmitWork
<1>4. job'.diff \in Nat /\ job'.diff >= job.diff /\ job'.diff <= nextDiff'
  <2>1. CASE Notify
    <3>1. job'.diff = nextDiff /\ nextDiff' = nextDiff
      BY <2>1 DEF Notify, TakeJob
    <3>2. QED
      BY <1>1, <1>2, <3>1 DEF DiffInv
  <2>2. CASE \E t \in Thread : GenBuild(t)
    <3>1. job'.diff = job.diff /\ nextDiff' = nextDiff
      BY <1>1, <2>2 DEF GenBuild, JobType
    <3>2. QED
      BY <1>1, <1>2, <3>1 DEF DiffInv
  <2>3. CASE job' = job
    BY <1>1, <1>2, <1>3, <2>3 DEF DiffInv
  <2>4. Notify \/ (\E t \in Thread : GenBuild(t)) \/ job' = job
    BY KindsOfData DEF Quiet, Stamp, TakeWork, TargetAndTake, shared
  <2>5. QED
    BY <2>1, <2>2, <2>3, <2>4
<1>5. gwork.want <= gwork.diff \/ gLock # Free
  BY FreeIsNoThread DEF LockInv, DiffInv, At, Rebuilding
<1>6. \/ gwork'.want <= gwork'.diff /\ gwork'.diff <= job'.diff /\ gwork'.want <= job'.diff
      \/ \E t \in Thread : /\ pc'[t] = "target"
                          /\ gwork'.diff <= job'.diff /\ gwork'.want <= job'.diff
  <2>1. CASE \E t \in Thread : GenBuild(t)
    <3>1. PICK t \in Thread : GenBuild(t)
      BY <2>1
    <3>2. pc'[t] = "target"
      BY <1>1, <3>1 DEF GenBuild, GoTo, PcOK
    <3>3. gwork'.want = job.diff /\ gwork'.diff = gwork.diff
      BY <3>1 DEF GenBuild
    <3>4. QED
      BY <1>2, <1>4, <3>2, <3>3 DEF DiffInv
  <2>2. CASE gwork' = Targeted
    BY <1>1, <1>2, <1>4, <2>2 DEF Targeted, WorkType, DiffInv
  <2>3. CASE gwork' = gwork
    <3>1. gwork'.diff <= job'.diff /\ gwork'.want <= job'.diff
      BY <1>2, <1>4, <2>3 DEF DiffInv
    <3>2. CASE gwork.want <= gwork.diff
      BY <2>3, <3>1, <3>2
    <3>3. CASE \E t \in Thread : pc[t] = "target"
      <4>1. PICK t \in Thread : pc[t] = "target"
        BY <3>3
      <4>2. pc'[t] = "target" \/ gwork' = Targeted \/ \E u \in Thread : GenBuild(u)
        BY <1>1, <4>1, KindsOfStep
        DEF Move, Acquire, Release, GenBegin, GoTo, At, Rebuilding, PcOK
      <4>3. QED
        BY <2>1, <2>2, <3>1, <4>2
    <3>4. QED
      BY <3>2, <3>3 DEF DiffInv, At
  <2>4. QED
    BY <2>1, <2>2, <2>3, KindsOfData
    DEF Quiet, Notify, Stamp, TakeWork, TargetAndTake, shared
<1>7. \A m \in Miner : work'[m].want <= work'[m].diff /\ work'[m].diff <= job'.diff
  <2>1. CASE work' = work
    BY <1>1, <1>2, <1>4, <2>1 DEF WorkType, DiffInv
  <2>2. ASSUME NEW m \in Miner, TakeWork(m) \/ TargetAndTake(m)
        PROVE  \A n \in Miner : work'[n].want <= work'[n].diff /\ work'[n].diff <= job'.diff
    <3>1. PICK g \in WorkType : GetNewWork(m, g) /\ g.want <= g.diff /\ g.diff <= job.diff
      <4>1. CASE TakeWork(m)
        BY <1>1, <1>5, <4>1 DEF TakeWork, DiffInv
      <4>2. CASE TargetAndTake(m)
        <5>1. Targeted.want = gwork.want /\ Targeted.diff = job.diff
          BY <1>1 DEF Targeted, WorkType
        <5>2. QED
          BY <1>2, <4>2, <5>1, TargetedType DEF TargetAndTake, DiffInv
      <4>3. QED
        BY <2>2, <4>1, <4>2
    <3>2. \A n \in Miner : work'[n] = work[n] \/ work'[n] = g
      BY <3>1, TakesHeader
    <3>3. QED
      BY <1>1, <1>2, <1>4, <3>1, <3>2 DEF WorkType, DiffInv
  <2>3. QED
    BY <2>1, <2>2, KindsOfData DEF Quiet, Notify, Stamp, GenBuild, own
<1>8. QED
  BY <1>4, <1>6, <1>7 DEF DiffInv, At
-----------------------------------------------------------------------------
(***************************************************************************)
(* The theorems: as long as extranonce2 does not wrap.                     *)
(***************************************************************************)

LEMMA InitIInv == Init => IInv
<1> SUFFICES ASSUME Init PROVE IInv
  OBVIOUS
<1> USE DEF Init, NoWork
<1>1. pc[Stratum] = "down" /\ pc[Workio] = "pop" /\ \A m \in Miner : pc[m] = "wait"
  BY ThreadsAreDistinct DEF Thread, Stratum, Workio
<1>2. \A t \in Thread : pc[t] \in {"down", "pop", "wait"}
  BY <1>1 DEF Thread
<1>3. LockInv
  BY <1>2, FreeIsNoThread DEF LockInv, Rebuilding, At
<1>4. JobInv
  BY <1>1 DEF JobInv, Rebuilding, At
<1>5. OrderInv
  BY <1>1 DEF OrderInv, SameHeader, At
<1>6. NonceInv
  <2>1. EndNonce \in Nat
    BY NumbersAreNat
  <2>2. \A m \in Miner : nonce[m] <= EndNonce + 1
    <3>1. \A m \in Miner : nonce[m] = 0
      OBVIOUS
    <3>2. 0 <= EndNonce + 1
      BY <2>1
    <3>3. QED
      BY <3>1, <3>2
  <2>3. \A m \in Miner : pc[m] \notin {"clear", "scan", "submit"}
    BY <1>1
  <2>4. QED
    BY <2>2, <2>3 DEF NonceInv
<1>7. DiffInv
  BY DEF DiffInv
<1>8. QED
  BY <1>3, <1>4, <1>5, <1>6, <1>7 DEF IInv

LEMMA IInvStep == ~Xn2Wraps /\ TypeOK /\ IInv /\ [Next]_vars => IInv'
  BY LockInvStep, JobInvStep, OrderInvStep, NonceInvStep, DiffInvStep DEF IInv

\* The inductive invariant: the lock discipline, headers and difficulties in
\* order, no thread hashing outside its part.
THEOREM Invariant == ~Xn2Wraps => (Safety => []IInv)
<1>1. CASE ~Xn2Wraps
  <2>1. TypeOK /\ IInv /\ [Next]_vars => IInv'
    BY <1>1, IInvStep
  <2>2. QED
    BY <2>1, InitIInv, TypeCorrect, PTL DEF Safety
<1>2. QED
  BY <1>1

\* No thread hashes twice where it stands, for any number of miner threads.
THEOREM NonceIsHashedOnce == ~Xn2Wraps => (Safety => []HashedOnce)
<1>1. IInv => HashedOnce
  BY DEF IInv, NonceInv, HashedOnce, At
<1>2. QED
  BY <1>1, Invariant, PTL

\* A thread leaves its part of the nonce range by one nonce at most.
THEOREM ThreadStaysInPart == ~Xn2Wraps => (Safety => []StaysInPart)
<1>1. IInv => StaysInPart
  BY DEF IInv, NonceInv, StaysInPart, At
<1>2. QED
  BY <1>1, Invariant, PTL

\* A header is tested against its own job's target or that of a later one.
THEOREM TargetIsNoEarlier == ~Xn2Wraps => (Safety => []TargetOfThisOrLaterJob)
<1>1. IInv => TargetOfThisOrLaterJob
  BY DEF IInv, DiffInv, TargetOfThisOrLaterJob
<1>2. QED
  BY <1>1, Invariant, PTL

\* Rebuilding g_work yields a later header, whichever thread does it.
THEOREM HeaderIsFresh == ~Xn2Wraps => (Safety => FreshHeader)
<1>1. ASSUME TypeOK, IInv, [Next]_vars, torn, ~torn'
      PROVE  Before(gwork, gwork')
  <2>1. PICK t \in Thread : GenBuild(t)
    BY <1>1, KindsOfStep DEF Move, Acquire, Release, GenBegin, locks
  <2>2. job.body > 0
    BY <1>1, <2>1, ThreadsAreDistinct
    DEF IInv, JobInv, JobType, GenBuild, At, Rebuilding, Thread, TypeOK, PcOK, WorkioPC,
        Workio
  <2>3. QED
    BY <1>1, <2>1, <2>2 DEF IInv, OrderInv, GenBuild, Before
<1>2. TypeOK /\ IInv /\ [Next]_vars => [torn /\ ~torn' => Before(gwork, gwork')]_vars
  BY <1>1
<1>3. QED
  BY <1>2, TypeCorrect, Invariant, PTL DEF Safety, FreshHeader

\* A miner thread only ever moves to a later header or a later nonce.
THEOREM MinersMoveForward == ~Xn2Wraps => (Safety => MovesForward)
<1> DEFINE Forward(m) == \/ UNCHANGED <<work[m], nonce[m]>>
                         \/ Before(work[m], work'[m])
                         \/ UNCHANGED work[m] /\ nonce[m] < nonce'[m]
<1>1. ASSUME TypeOK, IInv, [Next]_vars, NEW m \in Miner PROVE Forward(m)
  <2>1. nonce[m] \in Nat /\ nonce \in [Miner -> Nat] /\ NonceInv /\ PcOK /\ gwork \in WorkType
    BY <1>1 DEF TypeOK, IInv
  <2>2. ASSUME NEW n \in Miner, NEW g \in WorkType, GetNewWork(n, g), SameHeader(g, gwork)
        PROVE  Forward(m)
    <3>1. CASE m # n
      BY <1>1, <2>2, <3>1, TakesHeader
    <3>2. CASE m = n /\ SameHeader(work[n], g) /\ work' = work /\ nonce'[n] = NextNonce(n)
      BY <1>1, <2>1, <3>2, NextNonceIsNext
    <3>3. CASE m = n /\ work'[n] = g
      <4>1. SameHeader(work[n], gwork) \/ Before(work[n], gwork)
        BY <1>1 DEF IInv, OrderInv
      <4>2. CASE Before(work[n], gwork)
        BY <2>2, <3>3, <4>2 DEF SameHeader, Before
      <4>3. CASE SameHeader(work[n], gwork)
        <5>1. SameHeader(work[n], g)
          BY <2>2, <4>3 DEF SameHeader
        <5>2. work' = work /\ nonce' = [nonce EXCEPT ![n] = NextNonce(n)]
          BY <2>2, <5>1 DEF GetNewWork
        <5>3. QED
          BY <2>1, <3>2, <3>3, <5>1, <5>2
      <4>4. QED
        BY <4>1, <4>2, <4>3
    <3>4. QED
      BY <1>1, <2>2, <3>1, <3>2, <3>3, TakesHeader
  <2>3. CASE \E n \in Miner : TakeWork(n) \/ TargetAndTake(n)
    <3>1. SameHeader(gwork, gwork) /\ SameHeader(Targeted, gwork) /\ Targeted \in WorkType
      BY <1>1, <2>1, TargetedType DEF SameHeader, Targeted, WorkType
    <3>2. QED
      BY <2>1, <2>2, <2>3, <3>1 DEF TakeWork, TargetAndTake
  <2>4. CASE UNCHANGED work /\ \E n \in Miner : HashMiss(n)
    BY <1>1, <2>1, <2>4, NextNonceIsNext DEF HashMiss
  <2>5. CASE UNCHANGED <<work, nonce>>
    BY <2>5
  <2>6. UNCHANGED work \/ \E n \in Miner : TakeWork(n) \/ TargetAndTake(n)
    BY <1>1, KindsOfData DEF Quiet, Notify, Stamp, GenBuild, own
  <2>7. \/ UNCHANGED nonce
        \/ \E n \in Miner : TakeWork(n) \/ TargetAndTake(n) \/ HashMiss(n)
    BY <1>1, KindsOfScan DEF Waits, ClearRestart, HashHit, own
  <2>8. QED
    BY <2>3, <2>4, <2>5, <2>6, <2>7
<1>2. TypeOK /\ IInv /\ [Next]_vars => [\A m \in Miner : Forward(m)]_vars
  BY <1>1
<1>3. QED
  BY <1>2, TypeCorrect, Invariant, PTL DEF Safety, MovesForward
=============================================================================
