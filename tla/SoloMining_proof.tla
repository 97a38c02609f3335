-------------------------- MODULE SoloMining_proof --------------------------
(***************************************************************************)
(* Proofs about SoloMining, for any number of miner threads, any chain,    *)
(* any modes and any number of calls that fail: the types, that a thread   *)
(* gets the answer to its own question, that transactions and headers stay *)
(* together, that no block is submitted on one of the miner's own, that a  *)
(* thread leaves the block it found, and that workio discards only blocks  *)
(* that are late.  They follow from the parts of the inductive invariant   *)
(* below, each resting on those before it.                                 *)
(***************************************************************************)
EXTENDS SoloMining, TLAPS

Waiting == DOMAIN queue
IsGet(k) == queue[k].cmd = "get"
IsSubmit(k) == queue[k].cmd = "submit"

(***************************************************************************)
(* Who holds the lock, what waits, and what workio is at.                  *)
(***************************************************************************)
Locks ==
  /\ gLock = Longpoll <=> lp = "decode"
  /\ \A m \in Miner : gLock = m <=> pc[m] = "await"

Serving ==
  /\ \A k \in Waiting : queue[k].thr \in Miner /\ (IsGet(k) \/ IsSubmit(k))
  /\ io \in {"fetch", "info"} => cur.cmd = "get" /\ cur.thr \in Miner
  /\ io \in {"stale", "solved", "send"} => cur.cmd = "submit" /\ cur.thr \in Miner
  /\ io \in {"pop", "dead"} => cur = NoCmd
  /\ io = "fetch" => got.prev = -1 /\ got.txs = "none"
  /\ io \notin {"fetch", "info"} => got = NoWork

\* The longpoll thread works only for a node that offered it.
Offered ==
  /\ lp # "off" => haveLp
  /\ haveLp => mode.longpoll

\* A question is asked by the holder of the lock, and there is one at most.
Questions ==
  /\ \A k \in Waiting : IsGet(k) => gLock = queue[k].thr
  /\ io \in {"fetch", "info"} => gLock = cur.thr
  /\ \A m \in Miner : reply[m] # NoWork => gLock = m
  /\ \A j, k \in Waiting : IsGet(j) /\ IsGet(k) => j = k
  /\ \A k \in Waiting : IsGet(k) => io \notin {"fetch", "info"}
  /\ \A m \in Miner : reply[m] # NoWork =>
       io \notin {"fetch", "info"} /\ \A k \in Waiting : ~IsGet(k)

(***************************************************************************)
(* Where the transactions of another header may be.                        *)
(***************************************************************************)
Transactions ==
  /\ gbt # "offByLongpoll" =>
       /\ gwork.txs # "other" /\ got.txs # "other"
       /\ \A m \in Miner : reply[m].txs # "other" /\ work[m].txs # "other"
  /\ gbt = "off" =>
       /\ got.txs = "none" /\ \A m \in Miner : reply[m].txs = "none"
       /\ gwork.txs = "none" \/ gLock \in Miner

(***************************************************************************)
(* What a work says about the chain.                                       *)
(***************************************************************************)
Informed == AllowInfo /\ ~mode.infoFails

Known(w) == w # NoWork => w.prev \in 0..tip

\* The block on previous hash p, if there is one, was found by somebody else.
NotOurs(p) == p < tip => credit[p + 1] = Free

HeightFits(w) ==
  /\ ~w.mixed =>
       /\ w.txs = "own" => w.height = w.prev + 1
       /\ Informed /\ w # NoWork => w.height = w.prev + 1 \/ (w.prev < tip /\ NotOurs(w.prev))
       /\ w # NoWork => w.height = 0 \/ w.prev < w.height
  /\ Informed /\ w # NoWork => w.height # 0

\* The works the threads and the queue hold; got is one in the making.
Works == {gwork, cur.work} \cup {reply[m] : m \in Miner} \cup {work[m] : m \in Miner}
         \cup {queue[k].work : k \in Waiting}

Chain ==
  /\ \A h \in 1..MaxTip : credit[h] # Free => h <= tip
  /\ lpGot <= tip
  /\ \A w \in Works : Known(w)
  /\ io = "info" => got.prev \in 0..tip

\* Threads scan on, and submit, what they were given, and the longpoll thread writes
\* into g_work what was there before.
Given ==
  /\ gtime # "zero" => gwork # NoWork
  /\ haveLp /\ gLock \notin Miner => gwork # NoWork
  /\ \A m \in Miner : pc[m] = "scan" => work[m] # NoWork
  /\ \A k \in Waiting : IsSubmit(k) => queue[k].work # NoWork
  /\ cur.cmd = "submit" => cur.work # NoWork

Heights ==
  /\ \A w \in Works : HeightFits(w)
  /\ io = "info" => /\ IF got.mixed THEN got.height # 0
                       ELSE got.height = IF got.txs = "own" THEN got.prev + 1 ELSE 0
                    /\ NotOurs(got.prev)
  /\ (io = "send" /\ Informed /\ ~cur.work.mixed) => NotOurs(cur.work.prev)

(***************************************************************************)
(* With no long polling the works follow the chain, and a thread that      *)
(* found a block on its previous hash leaves it.                           *)
(***************************************************************************)
Order ==
  ~mode.longpoll =>
    /\ \A m \in Miner : work[m].prev <= gwork.prev
    /\ io = "info" => gwork.prev <= got.prev
    /\ \A m \in Miner : reply[m] # NoWork => gwork.prev <= reply[m].prev
    /\ \A k \in Waiting : IsSubmit(k) => queue[k].work.prev <= work[queue[k].thr].prev
    /\ cur.cmd = "submit" => cur.work.prev <= work[cur.thr].prev
    /\ \A h \in 1..tip : \A m \in Miner : credit[h] = m => h <= work[m].prev + 1

\* A block of thread m on previous hash p is in the queue, or is served, or is in the chain.
InQueue(m, p, k) == IsSubmit(k) /\ queue[k].thr = m /\ queue[k].work.prev = p
HasFound(m, p) ==
  \/ \E k \in Waiting : InQueue(m, p, k)
  \/ cur.cmd = "submit" /\ cur.thr = m /\ cur.work.prev = p
  \/ p \in 0..tip - 1 /\ credit[p + 1] = m

\* Whatever answer thread m can get before workio has served its block is a later one.
Ahead(m, p) ==
  /\ gtime = "zero" \/ p < gwork.prev
  /\ io = "fetch" => p < tip
  /\ io = "info" => p < got.prev
  /\ \A x \in Miner : reply[x] # NoWork => p < reply[x].prev
  /\ \A j, k \in Waiting : IsGet(j) /\ InQueue(m, p, k) => k < j \/ p < tip

Leaves ==
  ~mode.longpoll => \A m \in Miner : HasFound(m, work[m].prev) =>
    /\ pc[m] # "scan"
    /\ pc[m] \in {"lock", "await"} => Ahead(m, work[m].prev)

(***************************************************************************)
(* What workio compares a block with.                                      *)
(***************************************************************************)
Compared ==
  /\ torn => lp = "decode"
  /\ netBlocks <= tip
  /\ cur.enc => BySubmitblock
  /\ \A k \in Waiting : ~queue[k].enc

IInv == TypeOK /\ Locks /\ Serving /\ Questions /\ Transactions /\ Offered /\ Chain /\ Given
        /\ Heights /\ Order /\ Leaves /\ Compared

-----------------------------------------------------------------------------

LEMMA NoWorkType == NoWork \in WorkType
  BY BoundAssumption DEF NoWork, WorkType

LEMMA NoCmdType == NoCmd \in CmdType
  BY NoWorkType DEF NoCmd, CmdType

LEMMA GetCmdType ==
  ASSUME NEW m \in Miner
  PROVE  GetCmd(m) \in CmdType
  BY NoWorkType DEF GetCmd, CmdType

LEMMA SubmitCmdType ==
  ASSUME NEW m \in Miner, work \in [Miner -> WorkType]
  PROVE  SubmitCmd(m) \in CmdType
  BY DEF SubmitCmd, CmdType

\* A mode's bounds.
LEMMA ModeType ==
  ASSUME TypeOK
  PROVE  /\ mode.chain \in 0..MaxTip /\ mode.failures \in Nat
         /\ mode.gbt \in BOOLEAN /\ mode.longpoll \in BOOLEAN /\ mode.infoFails \in BOOLEAN
  BY ModesAssumption DEF TypeOK

\* What gbt_work_decode and work_decode fill in.
LEMMA DecodedIs ==
  ASSUME NEW t \in 0..MaxTip, NEW w \in WorkType
  PROVE  /\ Decoded(t, w) \in WorkType
         /\ Decoded(t, w).prev = t
         /\ HaveGbt => /\ Decoded(t, w).height = t + 1 /\ Decoded(t, w).txs = "own"
                       /\ ~Decoded(t, w).mixed
         /\ ~HaveGbt => /\ Decoded(t, w).height = w.height
                        /\ Decoded(t, w).txs = IF w.txs = "none" THEN "none" ELSE "other"
                        /\ Decoded(t, w).mixed <=> w.height # 0
<1>1. CASE HaveGbt
  BY <1>1, BoundAssumption DEF Decoded, WorkType
<1>2. CASE ~HaveGbt
  <2> DEFINE d == [prev |-> t, height |-> w.height, txs |-> IF w.txs = "none" THEN "none" ELSE "other",
                   mixed |-> w.height # 0]
  <2>1. Decoded(t, w) = d
    BY <1>2 DEF Decoded
  <2>2. d \in WorkType
    BY BoundAssumption DEF WorkType
  <2>3. d.prev = t /\ d.height = w.height /\ d.txs = IF w.txs = "none" THEN "none" ELSE "other"
    OBVIOUS
  <2>4. d.mixed <=> w.height # 0
    OBVIOUS
  <2> HIDE DEF d
  <2>5. QED
    BY <1>2, <2>1, <2>2, <2>3, <2>4
<1>3. QED
  BY <1>1, <1>2

\* What gbt_work_decode leaves of a template the miner cannot use.
LEMMA UnusableIs ==
  ASSUME NEW t \in 0..MaxTip, NEW w \in WorkType
  PROVE  /\ Unusable(t, w) \in WorkType
         /\ Unusable(t, w).prev = w.prev /\ Unusable(t, w).txs = w.txs
         /\ Unusable(t, w).height = t + 1 /\ Unusable(t, w).mixed
<1>1. /\ Unusable(t, w).prev = w.prev /\ Unusable(t, w).txs = w.txs
      /\ Unusable(t, w).height = t + 1
  BY DEF Unusable, WorkType
<1>2. Unusable(t, w).mixed
  BY DEF Unusable, WorkType
<1>3. t + 1 \in 0..MaxTip + 1
  BY BoundAssumption
<1>4. Unusable(t, w) \in WorkType
  BY <1>3 DEF Unusable, WorkType
<1>5. QED
  BY <1>1, <1>2, <1>4

\* The height of a new answer.
LEMMA MiningInfoType ==
  ASSUME TypeOK, NEW h \in 0..MaxTip + 1, NEW r, MiningInfo(h, r)
  PROVE  /\ r \in 0..MaxTip + 1 /\ netBlocks' \in 0..MaxTip /\ nfail' \in 0..mode.failures
         /\ netBlocks' \in {netBlocks, tip}
         /\ r = (IF h = 0 THEN tip + 1 ELSE h) \/ (r = h /\ ~Informed)
         /\ Informed => netBlocks' = tip
  BY BoundAssumption, ModeType, InfoAssumption DEF MiningInfo, TypeOK, CallFails, HeightAfter, Informed

LEMMA AppendIs ==
  ASSUME NEW S, NEW s \in Seq(S), NEW e \in S
  PROVE  /\ Append(s, e) \in Seq(S) /\ Len(Append(s, e)) = Len(s) + 1
         /\ DOMAIN s = 1..Len(s) /\ DOMAIN Append(s, e) = 1..Len(s) + 1 /\ Len(s) \in Nat
         /\ \A k \in 1..Len(s) : Append(s, e)[k] = s[k]
         /\ Append(s, e)[Len(s) + 1] = e
  OBVIOUS

LEMMA TailIs ==
  ASSUME NEW S, NEW s \in Seq(S), s # <<>>
  PROVE  /\ Tail(s) \in Seq(S) /\ Len(Tail(s)) = Len(s) - 1 /\ Len(s) \in Nat \ {0}
         /\ DOMAIN s = 1..Len(s) /\ DOMAIN Tail(s) = 1..Len(s) - 1
         /\ Head(s) = s[1] /\ Head(s) \in S
         /\ \A k \in 1..Len(s) - 1 : Tail(s)[k] = s[k + 1]
  OBVIOUS

(***************************************************************************)
(* Types.                                                                  *)
(***************************************************************************)
LEMMA RetryType ==
  ASSUME TypeOK, NEW again, NEW c \in CmdType, Retry(again, c)
  PROVE  /\ io' \in {again, "dead"} /\ cur' \in CmdType /\ got' \in WorkType /\ fails' \in Nat
         /\ nfail' \in 0..mode.failures
  BY NoCmdType, NoWorkType, ModeType DEF TypeOK, Retry, Finish, CallFails

LEMMA JudgeType ==
  ASSUME TypeOK, cur.thr \in Miner \cup {Free}, Judge \/ UNCHANGED node
  PROVE  /\ tip' \in 0..MaxTip /\ credit' \in [1..MaxTip -> Miner \cup {Free}] /\ mode' = mode
<1>1. CASE Extend(cur.thr)
  BY <1>1, ModeType, BoundAssumption DEF TypeOK, Extend
<1>2. CASE UNCHANGED node
  BY <1>2 DEF TypeOK, node
<1>3. QED
  BY <1>1, <1>2 DEF Judge

THEOREM TypeCorrect == Safety => []TypeOK
<1>1. Init => TypeOK
  <2> SUFFICES ASSUME Init PROVE TypeOK
    OBVIOUS
  <2>1. mode.failures \in Nat
    BY ModesAssumption DEF Init
  <2>2. /\ mode \in Modes /\ gbt \in {"on", "off", "offByLongpoll"} /\ tip \in 0..MaxTip
        /\ credit \in [1..MaxTip -> Miner \cup {Free}]
    BY BoundAssumption DEF Init
  <2>3. /\ gwork \in WorkType /\ got \in WorkType /\ cur \in CmdType /\ queue \in Seq(CmdType)
        /\ work \in [Miner -> WorkType] /\ reply \in [Miner -> WorkType]
        /\ pc \in [Miner -> {"lock", "await", "scan", "found", "zero", "gone"}]
    BY NoWorkType, NoCmdType DEF Init
  <2>4. /\ netBlocks \in 0..MaxTip /\ lpGot \in 0..MaxTip /\ nfail \in 0..mode.failures
        /\ fails \in Nat
    BY <2>1, BoundAssumption DEF Init
  <2>5. QED
    BY <2>2, <2>3, <2>4 DEF Init, TypeOK
<1>2. TypeOK /\ [Next]_vars => TypeOK'
  <2> SUFFICES ASSUME TypeOK, [Next]_vars PROVE TypeOK'
    OBVIOUS
  <2> USE DEF TypeOK, GoTo
  <2>1. CASE OtherBlock
    BY <2>1, ModeType, BoundAssumption DEF OtherBlock, Extend, globals, miners, workio, longpl
  <2>2. ASSUME NEW m \in Miner, NEW g \in WorkType, GetNewWork(m, g)
        PROVE  work' \in [Miner -> WorkType]
    BY <2>2 DEF GetNewWork
  <2>3. ASSUME NEW m \in Miner, MinerStep(m) PROVE TypeOK'
    <3>1. CASE TakeWork(m)
      BY <3>1, <2>2 DEF TakeWork, node, globals, workio, longpl
    <3>2. CASE Request(m)
      <4>1. Append(queue, GetCmd(m)) \in Seq(CmdType)
        BY GetCmdType
      <4>2. queue' \in Seq(CmdType)
        BY <3>2, <4>1 DEF Request, Pushed
      <4>3. pc' \in [Miner -> {"lock", "await", "scan", "found", "zero", "gone"}]
            /\ gLock' \in Miner \cup {Longpoll, Free}
        BY <3>2 DEF Request, Holder
      <4>4. QED
        BY <3>2, <4>2, <4>3 DEF Request, node, workio, longpl
    <3>3. CASE Receive(m)
      BY <3>3, <2>2, NoWorkType DEF Receive, Released, node, workio, longpl
    <3>4. CASE FindNothing(m)
      BY <3>4 DEF FindNothing, node, globals, workio, longpl
    <3>5. CASE Find(m)
      <4>1. Append(queue, SubmitCmd(m)) \in Seq(CmdType)
        BY SubmitCmdType
      <4>2. queue' \in Seq(CmdType)
        BY <3>5, <4>1 DEF Find, Pushed
      <4>3. QED
        BY <3>5, <4>2 DEF Find, node, globals, workio, longpl
    <3>6. CASE Found(m)
      BY <3>6 DEF Found, AfterFind, node, globals, workio, longpl
    <3>7. CASE ZeroTime(m)
      BY <3>7 DEF ZeroTime, node, workio, longpl
    <3>8. QED
      BY <2>3, <3>1, <3>2, <3>3, <3>4, <3>5, <3>6, <3>7 DEF MinerStep
  <2>4. CASE Workio
    <3>1. CASE Pop
      BY <3>1, TailIs DEF Pop, node, globals, miners, longpl
    <3>2. CASE Fetch
      <4>1. /\ Decoded(tip, got) \in WorkType /\ Unusable(tip, got) \in WorkType
        BY DecodedIs, UnusableIs
      <4>2. io' \in {"fetch", "info", "dead"} /\ cur' \in CmdType /\ got' \in WorkType /\ fails' \in Nat
            /\ nfail' \in 0..mode.failures
        BY <3>2, <4>1, RetryType DEF Fetch
      <4>3. gbt' \in {"on", "off", "offByLongpoll"} /\ haveLp' \in BOOLEAN
            /\ lp' \in {"off", "ask", "poll", "lock", "decode"}
        BY <3>2, ModeType DEF Fetch, OfferLongpoll
      <4>4. QED
        BY <3>2, <4>2, <4>3 DEF Fetch, node, globals, miners
    <3>3. CASE Answer
      <4>1. PICK h : MiningInfo(got.height, h)
                     /\ reply' = [reply EXCEPT ![Recipient(cur)] = [got EXCEPT !.height = h]]
        BY <3>3 DEF Answer
      <4>2. got.height \in 0..MaxTip + 1
        BY DEF WorkType
      <4>3. h \in 0..MaxTip + 1 /\ netBlocks' \in 0..MaxTip /\ nfail' \in 0..mode.failures
        BY <4>1, <4>2, MiningInfoType
      <4>4. [got EXCEPT !.height = h] \in WorkType
        BY <4>3 DEF WorkType
      <4>5. reply' \in [Miner -> WorkType]
        BY <4>1, <4>4
      <4>6. QED
        BY <3>3, <4>3, <4>5, NoCmdType, NoWorkType DEF Answer, Finish, node, globals, miners, longpl
    <3>4. CASE CompareHash
      BY <3>4, NoCmdType, NoWorkType DEF CompareHash, Finish, node, globals, miners, longpl
    <3>5. CASE CompareHeight
      <4>1. netBlocks' \in 0..MaxTip /\ nfail' \in 0..mode.failures
        BY <3>5, MiningInfoType, BoundAssumption DEF CompareHeight
      <4>2. QED
        BY <3>5, <4>1, NoCmdType, NoWorkType DEF CompareHeight, Finish, node, globals, miners, longpl
    <3>6. CASE Send
      <4>1. cur.thr \in Miner \cup {Free}
        BY DEF CmdType
      <4>2. tip' \in 0..MaxTip /\ credit' \in [1..MaxTip -> Miner \cup {Free}] /\ mode' = mode
        BY <3>6, <4>1, JudgeType DEF Send
      <4>3. [cur EXCEPT !.enc = Encoded] \in CmdType
        BY DEF CmdType, Encoded, BySubmitblock
      <4>4. io' \in {"pop", "stale", "dead"} /\ cur' \in CmdType /\ got' \in WorkType /\ fails' \in Nat
            /\ nfail' \in 0..mode.failures
        BY <3>6, <4>3, RetryType, NoCmdType, NoWorkType DEF Send, Finish
      <4>5. QED
        BY <3>6, <4>2, <4>4 DEF Send, globals, miners, longpl
    <3>7. QED
      BY <2>4, <3>1, <3>2, <3>3, <3>4, <3>5, <3>6 DEF Workio
  <2>5. CASE LpStep
    <3>1. CASE LpAsk
      BY <3>1 DEF LpAsk, HaveGbt, node, globals, miners, workio
    <3>2. CASE LpAnswer
      <4>1. lpGot' \in 0..MaxTip /\ submitOld' \in BOOLEAN /\ lp' = "lock"
        BY <3>2 DEF LpAnswer
      <4>2. QED
        BY <3>2, <4>1 DEF LpAnswer, node, globals, miners, workio
    <3>3. CASE LpLock
      BY <3>3 DEF LpLock, node, miners, workio
    <3>4. CASE LpDecode
      <4>1. Decoded(lpGot, gwork) \in WorkType /\ Unusable(lpGot, gwork) \in WorkType
        BY DecodedIs, UnusableIs
      <4>2. gwork' \in WorkType /\ gtime' \in {"zero", "fresh", "old"}
            /\ gbt' \in {"on", "off", "offByLongpoll"} /\ lpGot' \in 0..MaxTip
        BY <3>4, <4>1, BoundAssumption DEF LpDecode
      <4>3. QED
        BY <3>4, <4>2 DEF LpDecode, node, miners, workio
    <3>5. CASE LpFail
      <4>1. nfail' \in 0..mode.failures /\ gtime' \in {"zero", "fresh", "old"}
        BY <3>5, ModeType DEF LpFail, CallFails, EarlierTime
      <4>2. QED
        BY <3>5, <4>1 DEF LpFail, node, miners, workio
    <3>6. QED
      BY <2>5, <3>1, <3>2, <3>3, <3>4, <3>5 DEF LpStep
  <2>6. CASE Age
    BY <2>6 DEF Age, node, miners, workio, longpl
  <2>7. CASE UNCHANGED vars
    BY <2>7 DEF vars, node, globals, miners, workio, longpl
  <2>8. QED
    BY <2>1, <2>3, <2>4, <2>5, <2>6, <2>7 DEF Next
<1>3. QED
  BY <1>1, <1>2, PTL DEF Safety

LEMMA OfferedHolds == Safety => []Offered
<1>1. Init => Offered
  BY DEF Init, Offered
<1>2. TypeOK /\ Offered /\ [Next]_vars => Offered'
  <2> SUFFICES ASSUME TypeOK, Offered, [Next]_vars PROVE Offered'
    OBVIOUS
  <2>1. CASE UNCHANGED <<lp, haveLp, mode>>
    BY <2>1 DEF Offered
  <2>2. CASE Workio
    <3>1. CASE Fetch
      <4>1. mode' = mode /\ (OfferLongpoll \/ UNCHANGED <<haveLp, lp>>)
        BY <3>1 DEF Fetch, node
      <4>2. CASE OfferLongpoll
        BY <4>1, <4>2, ModeType DEF TypeOK, Offered, OfferLongpoll
      <4>3. QED
        BY <4>1, <4>2, <2>1
    <3>2. CASE Send
      BY <2>1, <3>2, JudgeType DEF Send, longpl, TypeOK, CmdType
    <3>3. CASE Pop \/ Answer \/ CompareHash \/ CompareHeight
      BY <2>1, <3>3 DEF Pop, Answer, CompareHash, CompareHeight, longpl, node
    <3>4. QED
      BY <2>2, <3>1, <3>2, <3>3 DEF Workio
  <2>3. CASE LpStep
    BY <2>3 DEF Offered, LpStep, LpAsk, LpAnswer, LpLock, LpDecode, LpFail, node
  <2>4. ASSUME NEW m \in Miner, MinerStep(m) PROVE UNCHANGED <<lp, haveLp, mode>>
    BY <2>4 DEF MinerStep, TakeWork, Request, Receive, FindNothing, Find, Found, ZeroTime, longpl, node
  <2>5. CASE OtherBlock \/ Age \/ UNCHANGED vars
    BY <2>1, <2>5 DEF OtherBlock, Extend, Age, vars, longpl, node
  <2>6. QED
    BY <2>1, <2>2, <2>3, <2>4, <2>5 DEF Next
<1>3. QED
  BY <1>1, <1>2, TypeCorrect, PTL DEF Safety

(***************************************************************************)
(* Questions and answers.  The lock changes hands only when it is free or  *)
(* given back, so a question that is waiting, served or answered is the    *)
(* holder's.                                                               *)
(***************************************************************************)
Asking == Locks /\ Serving /\ Questions

LEMMA RetryServes ==
  ASSUME NEW again, NEW c, Retry(again, c)
  PROVE  \/ io' = again /\ cur' = c /\ got' = got
         \/ io' = "dead" /\ cur' = NoCmd /\ got' = NoWork
  BY DEF Retry, Finish

\* A step that leaves the queue, workio and the answers alone, and moves the lock as Locks wants it.
LEMMA LocksSuffice ==
  ASSUME Asking, UNCHANGED <<queue, io, cur, got, reply>>, gLock \in Miner => gLock' = gLock,
         TypeOK, Locks'
  PROVE  Asking'
<1>1. Serving'
  BY DEF Asking, Serving, Waiting, IsGet, IsSubmit
<1>2. (\E k \in Waiting : IsGet(k)) \/ io \in {"fetch", "info"} \/ (\E m \in Miner : reply[m] # NoWork)
      => gLock \in Miner
  BY DEF Asking, Questions, Serving
<1>3. Questions'
  BY <1>2 DEF Asking, Questions, Serving, Waiting, IsGet
<1>4. QED
  BY <1>1, <1>3 DEF Asking

LEMMA AskingInductive ==
  ASSUME TypeOK, Offered, Asking, [Next]_vars
  PROVE  Asking'
<1>1. CASE UNCHANGED <<gLock, lp, pc, queue, io, cur, got, reply>>
  BY <1>1, LocksSuffice DEF Asking, Locks
<1>2. ASSUME NEW m \in Miner, MinerStep(m) PROVE Asking'
  <2>1. CASE TakeWork(m) \/ FindNothing(m) \/ Found(m) \/ ZeroTime(m)
    <3>1. UNCHANGED <<gLock, lp, queue, io, cur, got, reply>>
      BY <2>1 DEF TakeWork, FindNothing, Found, ZeroTime, globals, workio, longpl
    <3>2. pc[m] # "await" /\ \E l \in {"scan", "lock", "zero"} : pc' = [pc EXCEPT ![m] = l]
      BY <2>1 DEF TakeWork, FindNothing, Found, ZeroTime, GoTo, AfterFind
    <3>3. Locks'
      BY <3>1, <3>2 DEF Asking, Locks, TypeOK
    <3>4. QED
      BY <3>1, <3>3, LocksSuffice
  <2>2. CASE Request(m)
    <3>1. /\ UNCHANGED <<lp, io, cur, got, reply>> /\ gLock = Free
      BY <2>2 DEF Request, workio, longpl
    <3>2. gLock \notin Miner /\ gLock # Longpoll
      BY <3>1, ThreadsAreDistinct DEF Longpoll, Free
    <3>3. /\ \A x \in Miner : pc[x] # "await" /\ reply[x] = NoWork
          /\ io \notin {"fetch", "info"} /\ \A k \in Waiting : ~IsGet(k)
      BY <3>2 DEF Asking, Locks, Questions, Serving
    <3>4. CASE io = "dead"
      <4>1. UNCHANGED <<gLock, queue>> /\ pc' = [pc EXCEPT ![m] = "gone"]
        BY <2>2, <3>4 DEF Request, GoTo
      <4>2. Locks'
        BY <3>1, <3>2, <3>3, <4>1 DEF Asking, Locks, TypeOK
      <4>3. QED
        BY <3>1, <4>1, <4>2, LocksSuffice
    <3>5. CASE io # "dead"
      <4> DEFINE n == Len(queue)
      <4>1. gLock' = m /\ queue' = Append(queue, GetCmd(m)) /\ pc' = [pc EXCEPT ![m] = "await"]
        BY <2>2, <3>5 DEF Request, GoTo, Holder, Pushed
      <4>2. /\ Waiting = 1..n /\ Waiting' = 1..n + 1 /\ n \in Nat
            /\ \A k \in 1..n : queue'[k] = queue[k]
            /\ queue'[n + 1] = GetCmd(m)
        BY <4>1, GetCmdType, AppendIs DEF TypeOK, Waiting
      <4>3. GetCmd(m).cmd = "get" /\ GetCmd(m).thr = m
        BY DEF GetCmd
      <4>4. m # Longpoll
        BY ThreadsAreDistinct
      <4>5. Locks'
        BY <3>1, <3>2, <3>3, <4>1, <4>4 DEF Asking, Locks, TypeOK
      <4> HIDE DEF n
      <4>6. \A k \in Waiting' : k = n + 1 \/ (k \in Waiting /\ queue'[k] = queue[k])
        BY <4>2
      <4>7. Serving'
        BY <3>1, <4>2, <4>3, <4>6 DEF Asking, Serving, IsGet, IsSubmit
      <4>8. \A k \in Waiting' : IsGet(k)' => k = n + 1
        BY <3>3, <4>6 DEF IsGet
      <4>9. Questions'
        BY <3>1, <3>3, <4>1, <4>2, <4>3, <4>8 DEF Questions
      <4>10. QED
        BY <4>5, <4>7, <4>9 DEF Asking
    <3>6. QED
      BY <3>4, <3>5
  <2>3. CASE Receive(m)
    <3>1. /\ UNCHANGED <<lp, queue, io, cur, got>> /\ pc[m] = "await" /\ reply[m] # NoWork
          /\ reply' = [reply EXCEPT ![m] = NoWork] /\ gLock' = Free
          /\ pc' = [pc EXCEPT ![m] = "scan"]
      BY <2>3 DEF Receive, Released, GoTo, workio, longpl
    <3>2. /\ gLock = m /\ \A k \in Waiting : ~IsGet(k)
          /\ io \notin {"fetch", "info"} /\ \A x \in Miner \ {m} : reply[x] = NoWork
      BY <3>1 DEF Asking, Questions
    <3>3. Locks'
      BY <3>1, <3>2, ThreadsAreDistinct DEF Asking, Locks, TypeOK, Free, Longpoll
    <3>4. Serving'
      BY <3>1 DEF Asking, Serving, Waiting, IsGet, IsSubmit
    <3>5. \A x \in Miner : reply'[x] = NoWork
      BY <3>1, <3>2 DEF TypeOK
    <3>6. Questions'
      BY <3>1, <3>2, <3>5 DEF Questions, Waiting, IsGet
    <3>7. QED
      BY <3>3, <3>4, <3>6 DEF Asking
  <2>4. CASE Find(m)
    <3>1. UNCHANGED <<gLock, lp, io, cur, got, reply>> /\ pc[m] = "scan"
      BY <2>4 DEF Find, globals, workio, longpl
    <3>2. \E l \in {"found", "gone"} : pc' = [pc EXCEPT ![m] = l]
      BY <2>4 DEF Find, GoTo
    <3>3. Locks'
      BY <3>1, <3>2 DEF Asking, Locks, TypeOK
    <3>4. CASE UNCHANGED queue
      BY <3>1, <3>3, <3>4, LocksSuffice
    <3>5. CASE queue' = Append(queue, SubmitCmd(m))
      <4> DEFINE n == Len(queue)
      <4>1. /\ Waiting = 1..n /\ Waiting' = 1..n + 1 /\ n \in Nat
            /\ \A k \in 1..n : queue'[k] = queue[k]
            /\ queue'[n + 1] = SubmitCmd(m)
        BY <3>5, SubmitCmdType, AppendIs DEF TypeOK, Waiting
      <4>2. SubmitCmd(m).cmd = "submit" /\ SubmitCmd(m).thr = m
        BY DEF SubmitCmd
      <4> HIDE DEF n
      <4>3. \A k \in Waiting' : k = n + 1 \/ (k \in Waiting /\ queue'[k] = queue[k])
        BY <4>1
      <4>4. Serving'
        BY <3>1, <4>1, <4>2, <4>3 DEF Asking, Serving, IsGet, IsSubmit
      <4>5. \A k \in Waiting' : IsGet(k)' => k \in Waiting /\ queue'[k] = queue[k] /\ IsGet(k)
        BY <4>1, <4>2, <4>3 DEF IsGet
      <4>6. Questions'
        BY <3>1, <4>5 DEF Asking, Questions
      <4>7. QED
        BY <3>3, <4>4, <4>6 DEF Asking
    <3>6. QED
      BY <2>4, <3>4, <3>5 DEF Find, Pushed
  <2>5. QED
    BY <1>2, <2>1, <2>2, <2>3, <2>4 DEF MinerStep
<1>3. CASE Workio
  <2>1. CASE Pop
    <3> DEFINE n == Len(queue)
    <3>1. /\ UNCHANGED <<gLock, lp, pc, got, reply>> /\ io = "pop" /\ cur' = queue[1]
          /\ io' = (IF queue[1].cmd = "get" THEN "fetch" ELSE "stale")
      BY <2>1, TailIs DEF Pop, TypeOK, globals, miners, longpl
    <3>2. /\ Waiting = 1..n /\ Waiting' = 1..n - 1 /\ n \in Nat \ {0}
          /\ \A k \in 1..n - 1 : queue'[k] = queue[k + 1]
      BY <2>1, TailIs DEF Pop, TypeOK, Waiting
    <3> HIDE DEF n
    <3>3. 1 \in Waiting /\ \A k \in Waiting' : k + 1 \in Waiting /\ k + 1 # 1 /\ queue'[k] = queue[k + 1]
      BY <3>2
    <3>4. Locks'
      BY <3>1 DEF Asking, Locks
    <3>5. Serving'
      BY <3>1, <3>3 DEF Asking, Serving, IsGet, IsSubmit, NoWork
    <3>6. \A k \in Waiting' : IsGet(k)' => IsGet(k + 1) /\ ~IsGet(1)
      BY <3>3 DEF Asking, Questions, IsGet
    <3>7. \A j, k \in Waiting' : IsGet(j)' /\ IsGet(k)' => j = k
      <4> SUFFICES ASSUME NEW j \in Waiting', NEW k \in Waiting', IsGet(j)', IsGet(k)'
                   PROVE  j = k
        OBVIOUS
      <4>1. j + 1 = k + 1
        BY <3>3, <3>6 DEF Asking, Questions
      <4>2. QED
        BY <3>2, <4>1
    <3>8. Questions'
      <4>1. \A k \in Waiting' : IsGet(k)' => gLock' = queue'[k].thr
        BY <3>1, <3>3, <3>6 DEF Asking, Questions
      <4>2. io' \in {"fetch", "info"} => gLock' = cur'.thr
        BY <3>1, <3>3 DEF Asking, Questions, IsGet
      <4>3. \A x \in Miner : reply'[x] # NoWork =>
              /\ gLock' = x /\ io' \notin {"fetch", "info"} /\ \A k \in Waiting' : ~IsGet(k)'
        BY <3>1, <3>3, <3>6 DEF Asking, Questions, IsGet
      <4>4. \A k \in Waiting' : IsGet(k)' => io' \notin {"fetch", "info"}
        BY <3>1, <3>6 DEF IsGet
      <4>5. QED
        BY <3>7, <4>1, <4>2, <4>3, <4>4 DEF Questions
    <3>9. QED
      BY <3>4, <3>5, <3>8 DEF Asking
  <2>2. CASE Fetch
    <3>1. /\ UNCHANGED <<gLock, pc, queue, reply>> /\ io = "fetch"
          /\ lp' = "decode" <=> lp = "decode"
      BY <2>2 DEF Fetch, OfferLongpoll, Offered, globals, miners
    <3>2. \/ /\ io' \in {"fetch", "info"} /\ cur' = cur
             /\ io' = "info" \/ (got'.prev = got.prev /\ got'.txs = got.txs)
          \/ io' = "dead" /\ cur' = NoCmd /\ got' = NoWork
      BY <2>2, <3>1, RetryServes, UnusableIs DEF Fetch, TypeOK
    <3>3. Locks'
      BY <3>1 DEF Asking, Locks
    <3>4. Serving'
      BY <3>1, <3>2 DEF Asking, Serving, Waiting, IsGet, IsSubmit
    <3>5. Questions'
      BY <3>1, <3>2 DEF Asking, Questions, Waiting, IsGet
    <3>6. QED
      BY <3>3, <3>4, <3>5 DEF Asking
  <2>3. CASE Answer
    <3>1. /\ UNCHANGED <<gLock, lp, pc, queue>> /\ io = "info"
          /\ io' = "pop" /\ cur' = NoCmd /\ got' = NoWork
          /\ \E w : reply' = [reply EXCEPT ![cur.thr] = w]
      BY <2>3 DEF Answer, Finish, Recipient, globals, miners, longpl
    <3>2. /\ cur.thr \in Miner /\ gLock = cur.thr /\ \A k \in Waiting : ~IsGet(k)
          /\ \A x \in Miner : reply[x] = NoWork
      BY <3>1 DEF Asking, Serving, Questions
    <3>3. Locks'
      BY <3>1 DEF Asking, Locks
    <3>4. Serving'
      BY <3>1 DEF Asking, Serving, Waiting, IsGet, IsSubmit
    <3>5. \A x \in Miner : reply'[x] # NoWork => x = cur.thr
      BY <3>1, <3>2 DEF TypeOK
    <3>6. Questions'
      BY <3>1, <3>2, <3>5 DEF Questions, Waiting, IsGet
    <3>7. QED
      BY <3>3, <3>4, <3>6 DEF Asking
  <2>4. CASE CompareHash \/ CompareHeight \/ Send
    <3>1. UNCHANGED <<gLock, lp, pc, queue, reply>> /\ io \in {"stale", "solved", "send"}
      BY <2>4 DEF CompareHash, CompareHeight, Send, globals, miners, longpl
    <3>2. \/ /\ io' \in {"stale", "solved", "send"} /\ got' = got
             /\ cur'.cmd = cur.cmd /\ cur'.thr = cur.thr
          \/ io' \in {"pop", "dead"} /\ cur' = NoCmd /\ got' = NoWork
      <4>1. CASE CompareHash
        BY <4>1 DEF CompareHash, Finish
      <4>2. CASE CompareHeight
        BY <4>2 DEF CompareHeight, Finish
      <4>3. CASE Send
        BY <4>3, RetryServes DEF Send, Finish, TypeOK, CmdType
      <4>4. QED
        BY <2>4, <4>1, <4>2, <4>3
    <3>3. Locks'
      BY <3>1 DEF Asking, Locks
    <3>4. Serving'
      BY <3>1, <3>2 DEF Asking, Serving, Waiting, IsGet, IsSubmit
    <3>5. Questions'
      BY <3>1, <3>2 DEF Asking, Questions, Waiting, IsGet
    <3>6. QED
      BY <3>3, <3>4, <3>5 DEF Asking
  <2>5. QED
    BY <1>3, <2>1, <2>2, <2>3, <2>4 DEF Workio
<1>4. CASE LpStep
  <2>1. UNCHANGED <<pc, queue, io, cur, got, reply>>
    BY <1>4 DEF LpStep, LpAsk, LpAnswer, LpLock, LpDecode, LpFail, miners, workio
  <2>2. \/ gLock' = gLock /\ (lp' = "decode" <=> lp = "decode")
        \/ gLock = Free /\ gLock' = Longpoll /\ lp' = "decode"
        \/ lp = "decode" /\ gLock' = Free /\ lp' = "ask"
    BY <1>4 DEF LpStep, LpAsk, LpAnswer, LpLock, LpDecode, LpFail, globals
  <2>3. Free # Longpoll /\ Free \notin Miner /\ Longpoll \notin Miner
    BY ThreadsAreDistinct DEF Free, Longpoll
  <2>4. Locks' /\ (gLock \in Miner => gLock' = gLock)
    BY <2>1, <2>2, <2>3 DEF Asking, Locks
  <2>5. QED
    BY <2>1, <2>4, LocksSuffice
<1>5. CASE OtherBlock \/ Age \/ UNCHANGED vars
  BY <1>1, <1>5 DEF OtherBlock, Age, vars, globals, miners, workio, longpl
<1>6. QED
  BY <1>2, <1>3, <1>4, <1>5 DEF Next

LEMMA AskingHolds == Safety => []Asking
<1>1. Init => Asking
  <2> SUFFICES ASSUME Init PROVE Asking
    OBVIOUS
  <2>1. Waiting = {}
    BY DEF Init, Waiting
  <2>2. Locks
    BY ThreadsAreDistinct DEF Init, Locks, Longpoll, Free
  <2>3. Serving /\ Questions
    BY <2>1 DEF Init, Serving, Questions
  <2>4. QED
    BY <2>2, <2>3 DEF Asking
<1>2. QED
  BY <1>1, TypeCorrect, OfferedHolds, AskingInductive, PTL DEF Safety

\* A thread that asks for work gets the answer to its own question.
THEOREM OneQuestionAtATime == Safety => []OneQuestion
<1>1. TypeOK /\ Asking => OneQuestion
  <2> SUFFICES ASSUME TypeOK, Asking PROVE OneQuestion
    OBVIOUS
  <2>1. Waiting = 1..Len(queue)
    BY DEF TypeOK, Waiting
  <2>2. ASSUME NEW m \in Miner, Outstanding(m) PROVE gLock = m
    BY <2>1, <2>2 DEF Outstanding, Asking, Questions, GetCmd, IsGet
  <2>3. QED
    BY <2>1, <2>2 DEF OneQuestion, Asking, Locks, Questions, IsGet
<1>2. QED
  BY <1>1, TypeCorrect, AskingHolds, PTL

(***************************************************************************)
(* Transactions.  Workio falls back while a miner thread holds the lock:   *)
(* until that thread has its answer, which has no transactions, nobody     *)
(* decodes a getwork over the template in g_work.                          *)
(***************************************************************************)
LEMMA TransactionsInductive ==
  ASSUME TypeOK, Asking, Transactions, [Next]_vars
  PROVE  Transactions'
<1>a. Longpoll \notin Miner /\ Free \notin Miner /\ NoWork.txs = "none"
  BY ThreadsAreDistinct DEF NoWork
<1>1. CASE UNCHANGED <<gbt, gwork, got, reply, work>> /\ (gLock \in Miner => gLock' \in Miner)
  BY <1>1 DEF Transactions
<1>2. ASSUME NEW m \in Miner, MinerStep(m) PROVE Transactions'
  <2>1. CASE FindNothing(m) \/ Found(m) \/ ZeroTime(m) \/ Find(m) \/ Request(m)
    <3>1. UNCHANGED <<gbt, gwork, got, reply, work>>
      BY <2>1 DEF FindNothing, Found, ZeroTime, Find, Request, globals, miners, workio
    <3>2. gLock' = gLock \/ (gLock = Free /\ gLock' = m)
      BY <2>1 DEF FindNothing, Found, ZeroTime, Find, Request, Holder, globals
    <3>3. QED
      BY <3>1, <3>2, <1>1
  <2>2. CASE TakeWork(m)
    <3>1. UNCHANGED <<gbt, gwork, got, reply, gLock>> /\ gLock = Free
      BY <2>2 DEF TakeWork, globals, workio
    <3>2. work' \in {work, [work EXCEPT ![m] = gwork]}
      BY <2>2 DEF TakeWork, GetNewWork
    <3>3. QED
      BY <3>1, <3>2 DEF Transactions, TypeOK
  <2>3. CASE Receive(m)
    <3>1. /\ UNCHANGED <<gbt, got>> /\ gwork' = reply[m]
          /\ reply' = [reply EXCEPT ![m] = NoWork]
          /\ work' \in {work, [work EXCEPT ![m] = reply[m]]}
      BY <2>3 DEF Receive, GetNewWork, workio
    <3>2. QED
      BY <1>a, <3>1 DEF Transactions, TypeOK
  <2>4. QED
    BY <1>2, <2>1, <2>2, <2>3 DEF MinerStep
<1>3. CASE Workio
  <2>1. UNCHANGED <<gwork, gLock, work>>
    BY <1>3 DEF Workio, Pop, Fetch, Answer, CompareHash, CompareHeight, Send, globals, miners
  <2>2. CASE Fetch
    <3>0. got.txs = "none"
      BY <2>2 DEF Fetch, Asking, Serving
    <3>1. CASE got' = Decoded(tip, got) /\ UNCHANGED <<gbt, reply>>
      <4>1. got'.txs = IF HaveGbt THEN "own" ELSE "none"
        BY <3>0, <3>1, DecodedIs DEF TypeOK
      <4>2. QED
        BY <2>1, <3>1, <4>1 DEF Transactions, HaveGbt
    <3>2. CASE HaveGbt /\ gbt' = "off" /\ got' \in {got, Unusable(tip, got)} /\ UNCHANGED reply
      <4>1. gLock \in Miner /\ \A x \in Miner : reply[x] = NoWork
        BY <2>2 DEF Fetch, Asking, Serving, Questions
      <4>2. got'.txs = "none"
        BY <3>0, <3>2, UnusableIs DEF TypeOK
      <4>3. QED
        BY <1>a, <2>1, <3>2, <4>1, <4>2 DEF Transactions, HaveGbt
    <3>3. CASE Retry("fetch", cur) /\ UNCHANGED <<gbt, reply>>
      BY <1>a, <2>1, <3>3, RetryServes DEF Transactions
    <3>4. QED
      BY <2>2, <3>1, <3>2, <3>3 DEF Fetch
  <2>3. CASE Answer
    <3>1. /\ UNCHANGED gbt /\ got' = NoWork
          /\ \E h : reply' = [reply EXCEPT ![cur.thr] = [got EXCEPT !.height = h]]
      BY <2>3 DEF Answer, Finish, Recipient
    <3>2. \A x \in Miner : reply'[x].txs \in {reply[x].txs, got.txs}
      BY <3>1 DEF TypeOK, WorkType
    <3>3. QED
      BY <1>a, <2>1, <3>1, <3>2 DEF Transactions
  <2>4. CASE Pop \/ CompareHash \/ CompareHeight \/ Send
    <3>1. UNCHANGED <<gbt, reply>>
      BY <2>4 DEF Pop, CompareHash, CompareHeight, Send
    <3>2. got' \in {got, NoWork}
      BY <2>4, RetryServes DEF Pop, CompareHash, CompareHeight, Send, Finish
    <3>3. QED
      BY <1>a, <2>1, <3>1, <3>2 DEF Transactions
  <2>5. QED
    BY <1>3, <2>2, <2>3, <2>4 DEF Workio
<1>4. CASE LpStep
  <2>1. CASE LpAsk \/ LpAnswer \/ LpLock \/ LpFail
    <3>1. UNCHANGED <<gbt, gwork, got, reply, work>> /\ (gLock' = gLock \/ gLock = Free)
      BY <2>1 DEF LpAsk, LpAnswer, LpLock, LpFail, globals, miners, workio
    <3>2. QED
      BY <1>1, <1>a, <3>1
  <2>2. CASE LpDecode
    <3>1. UNCHANGED <<got, reply, work>> /\ gLock = Longpoll
      BY <2>2 DEF LpDecode, miners, workio, Asking, Locks
    <3>2. CASE gwork' = Decoded(lpGot, gwork) /\ UNCHANGED gbt
      <4>1. gwork'.txs = IF HaveGbt THEN "own" ELSE IF gwork.txs = "none" THEN "none" ELSE "other"
        BY <3>2, DecodedIs DEF TypeOK
      <4>2. QED
        BY <1>a, <3>1, <3>2, <4>1 DEF Transactions, HaveGbt, TypeOK
    <3>3. CASE UNCHANGED <<gwork, gbt>>
      BY <1>a, <3>1, <3>3 DEF Transactions
    <3>4. CASE gbt' = "offByLongpoll"
      BY <3>4 DEF Transactions
    <3>5. QED
      BY <2>2, <3>2, <3>3, <3>4 DEF LpDecode
  <2>3. QED
    BY <1>4, <2>1, <2>2 DEF LpStep
<1>5. CASE OtherBlock \/ Age \/ UNCHANGED vars
  BY <1>1, <1>5 DEF OtherBlock, Age, vars, globals, miners, workio
<1>6. QED
  BY <1>2, <1>3, <1>4, <1>5 DEF Next

LEMMA TransactionsHold == Safety => []Transactions
<1>1. Init => Transactions
  BY ModesAssumption DEF Init, Transactions, NoWork
<1>2. QED
  BY <1>1, TypeCorrect, AskingHolds, TransactionsInductive, PTL DEF Safety

\* After a fall-back to getwork by workio no thread mines on a header with the
\* transactions of another.
THEOREM TransactionsAreOwn == Safety => []OwnTransactions
<1>1. Transactions => OwnTransactions
  BY DEF Transactions, OwnTransactions
<1>2. QED
  BY <1>1, TransactionsHold, PTL

(***************************************************************************)
(* The chain and the works on it.  The chain grows by one block at a time, *)
(* by workio's doing only while it sends one on the last.                  *)
(***************************************************************************)
LEMMA Extended ==
  ASSUME TypeOK, NEW who, Extend(who)
  PROVE  /\ mode' = mode /\ tip' = tip + 1 /\ tip < MaxTip
         /\ credit' = [credit EXCEPT ![tip + 1] = who]
  BY ModeType, BoundAssumption DEF TypeOK, Extend

LEMMA TipGrows ==
  ASSUME TypeOK, Serving, [Next]_vars
  PROVE  /\ mode' = mode
         /\ \/ UNCHANGED <<tip, credit>>
            \/ /\ tip' = tip + 1 /\ tip < MaxTip
               /\ \E who \in Miner \cup {Free} :
                    /\ credit' = [credit EXCEPT ![tip + 1] = who]
                    /\ who = Free \/ (io = "send" /\ io' # "send" /\ cur.work.prev = tip /\ who = cur.thr)
<1>1. CASE UNCHANGED node
  BY <1>1 DEF node
<1>2. CASE OtherBlock
  <2>1. Extend(Free)
    BY <1>2 DEF OtherBlock
  <2>2. QED
    BY <2>1, Extended
<1>3. CASE Workio
  <2>1. CASE Send
    <3>1. io = "send" /\ io' # "send"
      BY <2>1, RetryServes DEF Send, Finish
    <3>2. CASE Judge
      <4>1. cur.thr \in Miner
        BY <3>1 DEF Serving
      <4>2. CASE Extend(cur.thr)
        <5>1. cur.work.prev = tip \/ UNCHANGED node
          BY <3>2 DEF Judge
        <5>2. tip' # tip
          BY <4>2, Extended, BoundAssumption DEF TypeOK
        <5>3. cur.work.prev = tip
          BY <5>1, <5>2 DEF node
        <5>4. QED
          BY <3>1, <4>1, <4>2, <5>3, Extended
      <4>3. QED
        BY <1>1, <3>2, <4>2 DEF Judge
    <3>3. QED
      BY <1>1, <2>1, <3>2 DEF Send
  <2>2. CASE Pop \/ Fetch \/ Answer \/ CompareHash \/ CompareHeight
    BY <1>1, <2>2 DEF Pop, Fetch, Answer, CompareHash, CompareHeight
  <2>3. QED
    BY <1>3, <2>1, <2>2 DEF Workio
<1>4. CASE LpStep
  BY <1>1, <1>4 DEF LpStep, LpAsk, LpAnswer, LpLock, LpDecode, LpFail
<1>5. ASSUME NEW m \in Miner, MinerStep(m) PROVE UNCHANGED node
  BY <1>5 DEF MinerStep, TakeWork, Request, Receive, FindNothing, Find, Found, ZeroTime
<1>6. CASE Age \/ UNCHANGED vars
  BY <1>1, <1>6 DEF Age, vars
<1>7. QED
  BY <1>1, <1>2, <1>3, <1>4, <1>5, <1>6 DEF Next

\* Which actions change a variable.
LEMMA Writers ==
  ASSUME [Next]_vars
  PROVE  /\ gwork' = gwork \/ LpDecode \/ \E m \in Miner : Receive(m)
         /\ gtime' = gtime \/ LpDecode \/ LpFail \/ Age \/ \E m \in Miner : Receive(m) \/ ZeroTime(m)
         /\ UNCHANGED <<io, cur, got>> \/ Workio
         /\ reply' = reply \/ Answer \/ \E m \in Miner : Receive(m)
         /\ work' = work \/ \E m \in Miner : TakeWork(m) \/ Receive(m)
         /\ pc' = pc \/ \E m \in Miner : MinerStep(m)
         /\ queue' = queue \/ Pop \/ \E m \in Miner : Request(m) \/ Find(m)
         /\ lpGot' = lpGot \/ LpAnswer \/ LpDecode
<1>1. CASE Pop \/ Fetch \/ Answer \/ CompareHash \/ CompareHeight \/ Send
  BY <1>1 DEF Workio, Pop, Fetch, Answer, CompareHash, CompareHeight, Send, globals, miners, longpl
<1>2. CASE LpStep
  BY <1>2 DEF LpStep, LpAsk, LpAnswer, LpLock, LpDecode, LpFail, globals, miners, workio
<1>3. ASSUME NEW m \in Miner, MinerStep(m)
      PROVE  /\ gwork' = gwork \/ Receive(m)
             /\ gtime' = gtime \/ Receive(m) \/ ZeroTime(m)
             /\ reply' = reply \/ Receive(m)
             /\ work' = work \/ TakeWork(m) \/ Receive(m)
             /\ queue' = queue \/ Request(m) \/ Find(m)
             /\ UNCHANGED <<io, cur, got, lpGot>>
  <2>1. CASE TakeWork(m) \/ Request(m) \/ Receive(m)
    BY <2>1 DEF TakeWork, Request, Receive, globals, workio, longpl
  <2>2. CASE FindNothing(m) \/ Find(m) \/ Found(m) \/ ZeroTime(m)
    BY <2>2 DEF FindNothing, Find, Found, ZeroTime, globals, workio, longpl
  <2>3. QED
    BY <1>3, <2>1, <2>2 DEF MinerStep
<1>4. CASE OtherBlock \/ Age \/ UNCHANGED vars
  BY <1>4 DEF OtherBlock, Age, vars, globals, miners, workio, longpl
<1>5. QED
  BY <1>1, <1>2, <1>3, <1>4 DEF Next, Workio

\* Where the works of the next state come from.
NewWork(w) ==
  \/ \E h : Answer /\ MiningInfo(got.height, h) /\ w = [got EXCEPT !.height = h]
  \/ LpDecode /\ w \in {Decoded(lpGot, gwork), Unusable(lpGot, gwork)}

LEMMA PushedWorks ==
  ASSUME TypeOK, NEW c \in CmdType, queue' = Append(queue, c), NEW k \in Waiting'
  PROVE  queue'[k] = c \/ (k \in Waiting /\ queue'[k] = queue[k])
  BY AppendIs DEF TypeOK, Waiting

LEMMA PoppedWorks ==
  ASSUME TypeOK, Pop
  PROVE  /\ 1 \in Waiting /\ cur' = queue[1]
         /\ \A k \in Waiting' : k + 1 \in Waiting /\ queue'[k] = queue[k + 1]
<1> DEFINE n == Len(queue)
<1>1. /\ Waiting = 1..n /\ Waiting' = 1..n - 1 /\ n \in Nat \ {0} /\ Head(queue) = queue[1]
      /\ \A k \in 1..n - 1 : queue'[k] = queue[k + 1]
  BY TailIs DEF Pop, TypeOK, Waiting
<1>2. cur' = queue[1]
  BY <1>1 DEF Pop
<1> HIDE DEF n
<1>3. 1 \in Waiting /\ \A k \in Waiting' : k + 1 \in Waiting /\ queue'[k] = queue[k + 1]
  BY <1>1
<1>4. QED
  BY <1>2, <1>3

\* Workio's steps keep the work of the command it serves, or drop it.
LEMMA ServedWork ==
  ASSUME TypeOK, Workio, ~Pop
  PROVE  (cur'.work = cur.work /\ cur'.cmd = cur.cmd /\ cur'.thr = cur.thr) \/ cur' = NoCmd
<1>1. CASE Fetch
  BY <1>1, RetryServes DEF Fetch
<1>2. CASE Answer \/ CompareHash \/ CompareHeight
  BY <1>2 DEF Answer, CompareHash, CompareHeight, Finish
<1>3. CASE Send
  BY <1>3, RetryServes DEF Send, Finish, TypeOK, CmdType
<1>4. QED
  BY <1>1, <1>2, <1>3 DEF Workio

LEMMA WorksFrom ==
  ASSUME TypeOK, [Next]_vars, NEW w \in Works'
  PROVE  w \in Works \/ w = NoWork \/ NewWork(w)
<1>1. gwork' \in Works \/ NewWork(gwork')
  <2>1. CASE LpDecode
    BY <2>1 DEF LpDecode, NewWork, Works
  <2>2. QED
    BY <2>1, Writers DEF Receive, Works
<1>2. cur'.work \in Works \/ cur'.work = NoWork
  <2>1. CASE Pop
    BY <2>1, PoppedWorks DEF Works
  <2>2. CASE Workio /\ ~Pop
    BY <2>2, ServedWork DEF Works, NoCmd
  <2>3. QED
    BY <2>1, <2>2, Writers DEF Works
<1>3. ASSUME NEW m \in Miner PROVE reply'[m] \in Works \/ reply'[m] = NoWork \/ NewWork(reply'[m])
  <2>1. CASE Answer
    <3>1. PICK h : MiningInfo(got.height, h)
                   /\ reply' = [reply EXCEPT ![cur.thr] = [got EXCEPT !.height = h]]
      BY <2>1 DEF Answer, Recipient
    <3>2. reply'[m] = reply[m] \/ reply'[m] = [got EXCEPT !.height = h]
      BY <3>1 DEF TypeOK
    <3>3. QED
      BY <2>1, <3>1, <3>2 DEF NewWork, Works
  <2>2. CASE \E x \in Miner : Receive(x)
    BY <2>2 DEF Receive, Works, TypeOK
  <2>3. QED
    BY <2>1, <2>2, Writers DEF Works
<1>4. ASSUME NEW m \in Miner PROVE work'[m] \in Works
  <2>1. CASE \E x \in Miner : TakeWork(x) \/ Receive(x)
    <3>1. PICK x \in Miner, g \in Works : work' = work \/ work' = [work EXCEPT ![x] = g]
      BY <2>1 DEF TakeWork, Receive, GetNewWork, Works
    <3>2. QED
      BY <3>1 DEF TypeOK, Works
  <2>2. QED
    BY <2>1, Writers DEF Works
<1>5. ASSUME NEW k \in Waiting' PROVE queue'[k].work \in Works \/ queue'[k].work = NoWork
  <2>1. CASE Pop
    BY <2>1, PoppedWorks DEF Works
  <2>2. ASSUME NEW m \in Miner, Request(m) \/ Find(m)
        PROVE  queue'[k].work \in Works \/ queue'[k].work = NoWork
    <3>1. CASE queue' = queue
      BY <3>1 DEF Works, Waiting
    <3>2. CASE queue' = Append(queue, GetCmd(m))
      <4>1. queue'[k] = GetCmd(m) \/ (k \in Waiting /\ queue'[k] = queue[k])
        BY <3>2, GetCmdType, PushedWorks
      <4>2. QED
        BY <4>1 DEF GetCmd, Works
    <3>3. CASE queue' = Append(queue, SubmitCmd(m))
      <4>1. queue'[k] = SubmitCmd(m) \/ (k \in Waiting /\ queue'[k] = queue[k])
        BY <3>3, SubmitCmdType, PushedWorks DEF TypeOK
      <4>2. QED
        BY <4>1 DEF SubmitCmd, Works
    <3>4. QED
      BY <2>2, <3>1, <3>2, <3>3 DEF Request, Find, Pushed
  <2>3. CASE queue' = queue
    BY <2>3 DEF Works, Waiting
  <2>4. QED
    BY <2>1, <2>2, <2>3, Writers
<1>6. \/ w = gwork' \/ w = cur'.work
      \/ \E m \in Miner : w = reply'[m] \/ w = work'[m]
      \/ \E k \in Waiting' : w = queue'[k].work
  BY DEF Works
<1>7. QED
  BY <1>1, <1>2, <1>3, <1>4, <1>5, <1>6

LEMMA WorksType ==
  ASSUME TypeOK
  PROVE  \A w \in Works : w \in WorkType
<1>1. \A k \in Waiting : queue[k] \in CmdType
  BY DEF TypeOK, Waiting
<1>2. QED
  BY <1>1 DEF TypeOK, CmdType, Works

\* A new work has its previous hash from an answer of the node, and a height that fits.
LEMMA NewWorkIs ==
  ASSUME TypeOK, Offered, Asking, Chain, Given, Heights, NEW w, NewWork(w)
  PROVE  w.prev \in 0..tip /\ HeightFits(w)
<1>0. tip \in Nat /\ lpGot \in 0..tip
  BY BoundAssumption DEF TypeOK, Chain
<1>1. CASE LpDecode /\ w \in {Decoded(lpGot, gwork), Unusable(lpGot, gwork)}
  <2>1. gwork \in WorkType /\ gwork.height \in Nat /\ lpGot \in 0..MaxTip
    BY BoundAssumption DEF TypeOK, WorkType
  <2>2. gLock = Longpoll /\ haveLp
    BY <1>1 DEF LpDecode, Asking, Locks, Offered
  <2>3. gwork # NoWork /\ gwork.prev \in 0..tip /\ HeightFits(gwork)
    BY <2>2, ThreadsAreDistinct DEF Given, Chain, Heights, Works, Known
  <2>4. CASE w = Unusable(lpGot, gwork)
    <3>1. w.prev = gwork.prev /\ w.height = lpGot + 1 /\ w.mixed
      BY <2>1, <2>4, UnusableIs
    <3>2. QED
      BY <1>0, <2>3, <3>1 DEF HeightFits
  <2>5. CASE w = Decoded(lpGot, gwork) /\ HaveGbt
    <3>1. w.prev = lpGot /\ w.height = lpGot + 1
      BY <2>1, <2>5, DecodedIs
    <3>2. QED
      BY <1>0, <3>1 DEF HeightFits
  <2>6. CASE w = Decoded(lpGot, gwork) /\ ~HaveGbt
    <3>1. /\ w.prev = lpGot /\ w.height = gwork.height /\ w.txs # "own"
          /\ w.mixed <=> w.height # 0
      BY <2>1, <2>6, DecodedIs
    <3>2. Informed => w.height # 0
      BY <2>3, <3>1 DEF HeightFits
    <3>3. QED
      BY <1>0, <3>1, <3>2 DEF HeightFits
  <2>7. QED
    BY <1>1, <2>4, <2>5, <2>6
<1>2. ASSUME NEW h, Answer, MiningInfo(got.height, h), w = [got EXCEPT !.height = h]
      PROVE  w.prev \in 0..tip /\ HeightFits(w)
  <2>1. got \in WorkType /\ got.height \in 0..MaxTip + 1
    BY DEF TypeOK, WorkType
  <2>2. w.prev = got.prev /\ w.txs = got.txs /\ w.height = h /\ w.mixed = got.mixed
    BY <1>2, <2>1 DEF WorkType
  <2>3. got.prev \in 0..tip /\ NotOurs(got.prev)
        /\ IF got.mixed THEN got.height # 0
           ELSE got.height = IF got.txs = "own" THEN got.prev + 1 ELSE 0
    BY <1>2 DEF Answer, Chain, Heights
  <2>4. /\ got.height # 0 => h = got.height
        /\ got.height = 0 => h = tip + 1 \/ (h = 0 /\ ~Informed)
    BY <1>2, <2>1, MiningInfoType
  <2>5. CASE got.mixed
    BY <2>2, <2>3, <2>4, <2>5 DEF HeightFits
  <2>6. CASE ~got.mixed
    BY <1>0, <2>2, <2>3, <2>4, <2>6 DEF HeightFits
  <2>7. QED
    BY <2>5, <2>6
<1>3. QED
  BY <1>1, <1>2 DEF NewWork

LEMMA ChainInductive ==
  ASSUME TypeOK, TypeOK', Offered, Asking, Chain, Given, Heights, [Next]_vars
  PROVE  Chain'
<1>0. NoWork.prev = -1
  BY DEF NoWork
<1>1. tip \in 0..MaxTip /\ tip' \in 0..MaxTip /\ tip' \in tip..tip + 1
  BY TipGrows, BoundAssumption DEF TypeOK, Asking
<1>2. ASSUME NEW h \in 1..MaxTip, credit'[h] # Free PROVE h <= tip'
  <2>1. CASE UNCHANGED <<tip, credit>>
    BY <1>2, <2>1 DEF Chain
  <2>2. CASE tip' = tip + 1
    <3>1. PICK who : tip < MaxTip /\ credit' = [credit EXCEPT ![tip + 1] = who]
      BY <1>1, <2>2, TipGrows DEF Asking
    <3>2. h = tip + 1 \/ credit'[h] = credit[h]
      BY <3>1 DEF TypeOK
    <3>3. h = tip + 1 \/ h <= tip
      BY <1>2, <3>2 DEF Chain
    <3>4. QED
      BY <1>1, <2>2, <3>3
  <2>3. QED
    BY <2>1, <2>2, TipGrows DEF Asking
<1>3. lpGot' <= tip'
  <2>1. lpGot \in Nat /\ lpGot <= tip /\ tip \in Nat
    BY BoundAssumption DEF Chain, TypeOK
  <2>2. CASE LpAnswer
    BY <2>1, <2>2 DEF LpAnswer, node
  <2>3. CASE LpDecode
    BY <1>1, <2>1, <2>3 DEF LpDecode
  <2>4. CASE lpGot' = lpGot
    BY <1>1, <2>1, <2>4
  <2>5. QED
    BY <2>2, <2>3, <2>4, Writers
<1>4. \A w \in Works' : Known(w)'
  BY <1>1, WorksFrom, NewWorkIs DEF Chain, Known
<1>5. io' = "info" => got'.prev \in 0..tip'
  <2>1. CASE UNCHANGED <<io, got>>
    BY <1>1, <2>1 DEF Chain
  <2>2. CASE Fetch
    <3>1. CASE got' = Decoded(tip, got)
      BY <1>1, <3>1, DecodedIs DEF TypeOK
    <3>2. CASE io' # "info"
      BY <3>2
    <3>3. QED
      BY <2>2, <3>1, <3>2, RetryServes DEF Fetch
  <2>3. CASE Pop \/ Answer \/ CompareHash \/ CompareHeight \/ Send
    BY <2>3, RetryServes DEF Pop, Answer, CompareHash, CompareHeight, Send, Finish
  <2>4. QED
    BY <2>1, <2>2, <2>3, Writers DEF Workio
<1>6. QED
  BY <1>2, <1>3, <1>4, <1>5 DEF Chain

LEMMA GivenInductive ==
  ASSUME TypeOK, Offered, Asking, Chain, Given, [Next]_vars
  PROVE  Given'
<1>0. NoWork.prev = -1
  BY DEF NoWork
<1>1. \A m \in Miner : reply[m] # NoWork => reply[m].prev \in 0..tip
  BY DEF Chain, Works, Known
<1>a. LpDecode \/ (\E m \in Miner : Receive(m)) => gwork' # NoWork
  <2>1. CASE LpDecode
    <3>1. gLock = Longpoll /\ haveLp
      BY <2>1 DEF LpDecode, Asking, Locks, Offered
    <3>2. gwork # NoWork /\ gwork.prev # -1
      BY <3>1, ThreadsAreDistinct DEF Given, Chain, Works, Known
    <3>3. gwork'.prev # -1 \/ gwork' = gwork
      BY <2>1, <3>2, DecodedIs, UnusableIs DEF LpDecode, TypeOK
    <3>4. QED
      BY <1>0, <3>2, <3>3
  <2>2. ASSUME NEW m \in Miner, Receive(m) PROVE gwork' # NoWork
    BY <2>2 DEF Receive
  <2>3. QED
    BY <2>1, <2>2
<1>b. haveLp' /\ gLock' \notin Miner => gwork' # NoWork
  <2>1. CASE gwork' = gwork
    <3>1. gLock' = gLock \/ gLock \notin Miner \/ \E m \in Miner : Receive(m)
      <4>1. CASE Workio
        BY <4>1 DEF Workio, Pop, Fetch, Answer, CompareHash, CompareHeight, Send, globals
      <4>2. CASE LpStep
        BY <4>2, ThreadsAreDistinct
           DEF LpStep, LpAsk, LpAnswer, LpLock, LpDecode, LpFail, globals, Asking, Locks
      <4>3. ASSUME NEW m \in Miner, MinerStep(m), ~Receive(m)
            PROVE  gLock' = gLock \/ gLock \notin Miner
        BY <4>3, ThreadsAreDistinct
           DEF MinerStep, TakeWork, Request, FindNothing, Find, Found, ZeroTime, globals
      <4>4. CASE OtherBlock \/ Age \/ UNCHANGED vars
        BY <4>4 DEF OtherBlock, Age, vars, globals
      <4>5. QED
        BY <4>1, <4>2, <4>3, <4>4 DEF Next
    <3>2. haveLp' = haveLp \/ haveLp' = FALSE \/ (Fetch /\ gLock \in Miner /\ gLock' = gLock)
      <4>1. CASE Workio
        BY <4>1 DEF Workio, Pop, Fetch, Answer, CompareHash, CompareHeight, Send, globals,
                    Asking, Serving, Questions
      <4>2. CASE LpStep
        BY <4>2 DEF LpStep, LpAsk, LpAnswer, LpLock, LpDecode, LpFail
      <4>3. ASSUME NEW m \in Miner, MinerStep(m) PROVE haveLp' = haveLp
        BY <4>3 DEF MinerStep, TakeWork, Request, Receive, FindNothing, Find, Found, ZeroTime
      <4>4. CASE OtherBlock \/ Age \/ UNCHANGED vars
        BY <4>4 DEF OtherBlock, Age, vars
      <4>5. QED
        BY <4>1, <4>2, <4>3, <4>4 DEF Next
    <3>3. QED
      BY <1>a, <2>1, <3>1, <3>2 DEF Given
  <2>2. QED
    BY <1>a, <2>1, Writers
<1>2. gtime' # "zero" => gwork' # NoWork
  <2>3. CASE gwork' = gwork /\ (gtime' = gtime \/ LpFail \/ Age \/ \E m \in Miner : ZeroTime(m))
    BY <2>3 DEF Given, LpFail, EarlierTime, Age, ZeroTime
  <2>4. QED
    BY <1>a, <2>3, Writers
<1>3. ASSUME NEW m \in Miner, pc'[m] = "scan" PROVE work'[m] # NoWork
  <2>1. CASE \E x \in Miner : TakeWork(x)
    <3>1. PICK x \in Miner : TakeWork(x)
      BY <2>1
    <3>2. gwork # NoWork /\ work[x] # NoWork
      BY <3>1 DEF TakeWork, TooOld, HasWork, Given
    <3>3. \/ work' = work
          \/ work' = [work EXCEPT ![x] = gwork]
      BY <3>1 DEF TakeWork, GetNewWork
    <3>4. m = x \/ pc[m] = "scan"
      BY <1>3, <3>1 DEF TakeWork, GoTo, TypeOK
    <3>5. QED
      BY <3>2, <3>3, <3>4 DEF Given, TypeOK
  <2>2. CASE \E x \in Miner : Receive(x)
    <3>1. PICK x \in Miner : Receive(x)
      BY <2>2
    <3>2. reply[x] # NoWork /\ reply[x].prev # -1
      BY <1>1, <3>1 DEF Receive
    <3>3. \/ work' = work /\ work[x].prev = reply[x].prev
          \/ work' = [work EXCEPT ![x] = reply[x]]
      BY <3>1 DEF Receive, GetNewWork
    <3>4. m = x \/ pc[m] = "scan"
      BY <1>3, <3>1 DEF Receive, GoTo, TypeOK
    <3>5. QED
      BY <1>0, <3>2, <3>3, <3>4 DEF Given, TypeOK
  <2>3. CASE work' = work
    <3>1. ASSUME NEW x \in Miner, MinerStep(x), ~TakeWork(x), ~Receive(x)
          PROVE  pc'[m] = pc[m]
      BY <1>3, <3>1 DEF MinerStep, Request, FindNothing, Find, Found, AfterFind, ZeroTime, GoTo, TypeOK
    <3>2. pc[m] = "scan" \/ \E x \in Miner : TakeWork(x) \/ Receive(x)
      BY <1>3, <3>1, Writers
    <3>3. QED
      BY <2>1, <2>2, <2>3, <3>2 DEF Given
  <2>4. QED
    BY <2>1, <2>2, <2>3, Writers
<1>4. ASSUME NEW k \in Waiting', IsSubmit(k)' PROVE queue'[k].work # NoWork
  <2>1. CASE Pop
    BY <1>4, <2>1, PoppedWorks DEF Given, IsSubmit
  <2>2. ASSUME NEW m \in Miner, Request(m) \/ Find(m) PROVE queue'[k].work # NoWork
    <3>1. CASE queue' = queue
      BY <1>4, <3>1 DEF Given, Waiting, IsSubmit
    <3>2. CASE queue' = Append(queue, GetCmd(m))
      <4>1. queue'[k] = GetCmd(m) \/ (k \in Waiting /\ queue'[k] = queue[k])
        BY <3>2, GetCmdType, PushedWorks
      <4>2. QED
        BY <1>4, <4>1 DEF GetCmd, Given, IsSubmit
    <3>3. CASE Find(m) /\ queue' = Append(queue, SubmitCmd(m))
      <4>1. queue'[k] = SubmitCmd(m) \/ (k \in Waiting /\ queue'[k] = queue[k])
        BY <3>3, SubmitCmdType, PushedWorks DEF TypeOK
      <4>2. work[m] # NoWork
        BY <3>3 DEF Find, Given
      <4>3. QED
        BY <1>4, <4>1, <4>2 DEF SubmitCmd, Given, IsSubmit
    <3>4. QED
      BY <2>2, <3>1, <3>2, <3>3 DEF Request, Find, Pushed
  <2>3. CASE queue' = queue
    BY <1>4, <2>3 DEF Given, Waiting, IsSubmit
  <2>4. QED
    BY <2>1, <2>2, <2>3, Writers
<1>5. cur'.cmd = "submit" => cur'.work # NoWork
  <2>1. CASE Pop
    BY <2>1, PoppedWorks DEF Given, IsSubmit
  <2>2. CASE Workio /\ ~Pop
    BY <2>2, ServedWork DEF Given, NoCmd
  <2>3. QED
    BY <2>1, <2>2, Writers DEF Given
<1>6. QED
  BY <1>b, <1>2, <1>3, <1>4, <1>5 DEF Given

LEMMA HeightsInductive ==
  ASSUME TypeOK, Offered, Asking, Chain, Given, Heights, [Next]_vars
  PROVE  Heights'
<1>1. tip \in 0..MaxTip /\ MaxTip \in Nat /\ mode' = mode /\ Informed' = Informed /\ NoWork \in WorkType
  BY TipGrows, BoundAssumption, NoWorkType DEF TypeOK, Informed, Asking
\* What is known of a block below the tip stays true; of the tip itself, unless workio adds a block.
<1>2. ASSUME NEW p \in 0..tip, NotOurs(p), p < tip \/ io # "send" \/ io' = "send"
      PROVE  NotOurs(p)'
  <2>1. CASE UNCHANGED <<tip, credit>>
    BY <1>2, <2>1 DEF NotOurs
  <2>2. CASE tip' = tip + 1
    <3>1. PICK who \in Miner \cup {Free} :
             /\ tip < MaxTip /\ credit' = [credit EXCEPT ![tip + 1] = who]
             /\ who = Free \/ (io = "send" /\ io' # "send")
      BY <1>1, <2>2, TipGrows DEF Asking
    <3>2. p + 1 \in 1..MaxTip /\ tip + 1 \in 1..MaxTip /\ credit \in [1..MaxTip -> Miner \cup {Free}]
      BY <1>1, <3>1 DEF TypeOK
    <3>3. CASE p = tip
      BY <1>2, <3>1, <3>2, <3>3, <1>1 DEF NotOurs
    <3>4. CASE p # tip
      <4>1. p < tip /\ credit'[p + 1] = credit[p + 1]
        BY <1>1, <3>1, <3>2, <3>4
      <4>2. QED
        BY <1>2, <4>1 DEF NotOurs
    <3>5. QED
      BY <3>3, <3>4
  <2>3. QED
    BY <2>1, <2>2, TipGrows DEF Asking
<1>3. ASSUME NEW w, w.prev \in 0..tip \/ w = NoWork, HeightFits(w) PROVE HeightFits(w)'
  <2>1. tip' \in {tip, tip + 1}
    BY TipGrows DEF Asking
  <2>2. w.prev \in 0..tip /\ w.prev < tip /\ NotOurs(w.prev) => w.prev < tip' /\ NotOurs(w.prev)'
    BY <1>1, <1>2, <2>1
  <2>3. QED
    BY <1>1, <1>3, <2>2 DEF HeightFits
<1>4. \A w \in Works' : HeightFits(w)'
  <2>1. HeightFits(NoWork)
    BY DEF HeightFits, NoWork
  <2>2. ASSUME NEW w \in Works PROVE HeightFits(w)'
    BY <2>2, <1>3 DEF Heights, Chain, Known
  <2>3. ASSUME NEW w, NewWork(w) PROVE HeightFits(w)'
    BY <2>3, <1>3, NewWorkIs
  <2>4. QED
    BY <1>3, <2>1, <2>2, <2>3, WorksFrom
<1>5. ASSUME io' = "info"
      PROVE  /\ IF got'.mixed THEN got'.height # 0
                ELSE got'.height = IF got'.txs = "own" THEN got'.prev + 1 ELSE 0
             /\ NotOurs(got.prev)'
  <2>1. CASE UNCHANGED <<io, got>>
    <3>1. got.prev \in 0..tip /\ io = "info"
      BY <1>5, <2>1 DEF Chain
    <3>2. QED
      BY <1>2, <2>1, <3>1 DEF Heights
  <2>2. CASE Fetch
    <3>1. got' = Decoded(tip, got) /\ UNCHANGED <<tip, credit>>
      BY <1>5, <2>2, RetryServes DEF Fetch, node
    <3>2. /\ got'.prev = tip
          /\ IF got'.mixed THEN got'.height # 0
             ELSE got'.height = IF got'.txs = "own" THEN got'.prev + 1 ELSE 0
      BY <1>1, <3>1, DecodedIs DEF TypeOK
    <3>3. QED
      BY <1>1, <3>1, <3>2 DEF NotOurs
  <2>3. CASE Pop \/ Answer \/ CompareHash \/ CompareHeight \/ Send
    BY <1>5, <2>3, RetryServes DEF Pop, Answer, CompareHash, CompareHeight, Send, Finish
  <2>4. QED
    BY <2>1, <2>2, <2>3, Writers DEF Workio
<1>6. ASSUME io' = "send", Informed, ~cur'.work.mixed
      PROVE  NotOurs(cur.work.prev)'
  <2>1. CASE UNCHANGED <<io, cur>>
    <3>1. cur.work.prev \in 0..tip /\ NotOurs(cur.work.prev)
      BY <1>1, <1>6, <2>1 DEF Heights, Chain, Given, Works, Known, Asking, Serving
    <3>2. QED
      BY <1>2, <1>6, <2>1, <3>1
  <2>2. CASE CompareHeight
    <3>1. UNCHANGED <<tip, credit, cur>> /\ ~AlreadySolved(netBlocks') /\ io = "solved"
      BY <1>6, <2>2 DEF CompareHeight, Finish, node
    <3>2. netBlocks' = tip
      BY <1>1, <1>6, <2>2, MiningInfoType DEF CompareHeight
    <3>3. cur.work # NoWork /\ cur.work.prev \in 0..tip /\ HeightFits(cur.work)
      BY <3>1 DEF Asking, Serving, Given, Chain, Heights, Works, Known
    <3>4. cur.work.height = cur.work.prev + 1 \/ NotOurs(cur.work.prev)
      BY <1>1, <1>6, <3>1, <3>3 DEF HeightFits
    <3>5. CASE cur.work.height = cur.work.prev + 1
      <4>1. ~(cur.work.prev + 1 <= tip)
        BY <1>6, <1>1, <3>1, <3>2, <3>3, <3>5 DEF AlreadySolved, Informed
      <4>2. QED
        BY <1>1, <3>1, <3>3, <4>1 DEF NotOurs
    <3>6. QED
      BY <3>1, <3>4, <3>5 DEF NotOurs
  <2>3. CASE Pop \/ Fetch \/ Answer \/ CompareHash \/ Send
    BY <1>6, <2>3, RetryServes DEF Pop, Fetch, Answer, CompareHash, Send, Finish
  <2>4. QED
    BY <2>1, <2>2, <2>3, Writers DEF Workio
<1>7. QED
  BY <1>1, <1>4, <1>5, <1>6 DEF Heights

LEMMA ChainHolds == Safety => [](Chain /\ Given /\ Heights)
<1>1. Init => Chain /\ Given /\ Heights
  <2> SUFFICES ASSUME Init PROVE Chain /\ Given /\ Heights
    OBVIOUS
  <2>1. Waiting = {} /\ \A w \in Works : w = NoWork
    BY DEF Init, Waiting, Works, NoCmd
  <2>2. HeightFits(NoWork) /\ Known(NoWork)
    BY DEF HeightFits, Known, NoWork
  <2>3. Chain
    BY <2>1, <2>2 DEF Init, Chain
  <2>4. Given
    BY <2>1 DEF Init, Given, NoCmd
  <2>5. Heights
    BY <2>1, <2>2 DEF Init, Heights
  <2>6. QED
    BY <2>3, <2>4, <2>5
<1>2. TypeOK /\ TypeOK' /\ Offered /\ Asking /\ Chain /\ Given /\ Heights /\ [Next]_vars
      => (Chain /\ Given /\ Heights)'
  BY ChainInductive, GivenInductive, HeightsInductive
<1>3. QED
  BY <1>1, <1>2, TypeCorrect, OfferedHolds, AskingHolds, PTL DEF Safety

\* While the node answers getmininginfo, workio submits no block at a height at
\* which one of this miner's was accepted, but of works whose height is another
\* answer's.
THEOREM BlocksAreSubmittedOnce ==
  ASSUME AllowInfo
  PROVE  Safety => SubmitsOnce
<1>1. TypeOK /\ Asking /\ Chain /\ Given /\ Heights /\ [Next]_vars
      => [(~mode.infoFails /\ ~cur.work.mixed /\ io = "send" /\ io' # "send"
           /\ cur.work.prev < tip)
           => ~(credit[cur.work.prev + 1] \in Miner)]_vars
  BY ThreadsAreDistinct DEF Heights, Informed, NotOurs, Free
<1>2. QED
  BY <1>1, TypeCorrect, AskingHolds, ChainHolds, PTL DEF SubmitsOnce, Safety

(***************************************************************************)
(* With no long polling.  Answers are given in the order of the chain.     *)
(***************************************************************************)
LEMMA Prevs ==
  ASSUME TypeOK
  PROVE  /\ tip \in Nat /\ gwork.prev \in Int /\ got.prev \in Int /\ cur.work.prev \in Int
         /\ \A m \in Miner : work[m].prev \in Int /\ reply[m].prev \in Int
         /\ \A k \in Waiting : queue[k].work.prev \in Int
<1>1. \A w \in Works \cup {got} : w.prev \in -1..MaxTip
  BY WorksType DEF TypeOK, WorkType
<1>2. tip \in Nat /\ MaxTip \in Nat
  BY BoundAssumption DEF TypeOK
<1>3. QED
  BY <1>1, <1>2 DEF Works

LEMMA PrevsNext ==
  ASSUME TypeOK'
  PROVE  gwork'.prev \in Int /\ \A m \in Miner : work'[m].prev \in Int
<1>1. \A w \in WorkType : w.prev \in Int
  BY DEF WorkType
<1>2. gwork' \in WorkType /\ \A m \in Miner : work'[m] \in WorkType
  BY DEF TypeOK
<1>3. QED
  BY <1>1, <1>2

\* g_work and the threads' works never go back.
LEMMA WorksMoveOn ==
  ASSUME TypeOK, TypeOK', Offered, Asking, Chain, Given, Order, [Next]_vars, ~mode.longpoll
  PROVE  /\ gwork.prev <= gwork'.prev
         /\ \A m \in Miner : work[m].prev <= work'[m].prev /\ work'[m].prev <= gwork'.prev
<1>1. ~LpDecode
  BY DEF LpDecode, Offered
<1>2. CASE \E x \in Miner : Receive(x)
  <2>1. PICK x \in Miner : Receive(x)
    BY <1>2
  <2>2. gwork' = reply[x] /\ gwork.prev <= reply[x].prev
    BY <2>1 DEF Receive, Order
  <2>3. \A m \in Miner : work'[m] = work[m] \/ (m = x /\ work'[m] = reply[x])
    BY <2>1 DEF Receive, GetNewWork, TypeOK
  <2>4. QED
    BY <2>2, <2>3, Prevs DEF Order
<1>3. CASE gwork' = gwork
  <2>1. CASE \E x \in Miner : TakeWork(x)
    <3>1. PICK x \in Miner : TakeWork(x)
      BY <2>1
    <3>2. \A m \in Miner : work'[m] = work[m] \/ (m = x /\ work'[m] = gwork)
      BY <3>1 DEF TakeWork, GetNewWork, TypeOK
    <3>3. QED
      BY <1>3, <3>2, Prevs DEF Order
  <2>2. CASE work' = work
    BY <1>3, <2>2, Prevs DEF Order
  <2>3. QED
    BY <1>2, <2>1, <2>2, Writers
<1>4. QED
  BY <1>1, <1>2, <1>3, Writers

LEMMA OrderInductive ==
  ASSUME TypeOK, TypeOK', Offered, Asking, Chain, Given, Order, [Next]_vars
  PROVE  Order'
<1> SUFFICES ASSUME ~mode.longpoll PROVE Order'
  BY TipGrows DEF Order, Asking
<1>0. mode' = mode /\ NoWork.prev = -1 /\ tip' \in {tip, tip + 1}
  BY TipGrows DEF Asking, NoWork
<1>1. /\ gwork.prev <= gwork'.prev
      /\ \A m \in Miner : work[m].prev <= work'[m].prev /\ work'[m].prev <= gwork'.prev
  BY WorksMoveOn
<1>2. gwork.prev <= tip
  BY <1>0, Prevs DEF Chain, Works, Known
<1>3. io' = "info" => gwork'.prev <= got'.prev
  <2>1. CASE UNCHANGED <<io, got>>
    <3>1. io = "info" => ~\E x \in Miner : Receive(x)
      BY DEF Asking, Questions, Receive
    <3>2. io = "info" => gwork' = gwork
      BY <3>1, Writers DEF LpDecode, Offered
    <3>3. QED
      BY <2>1, <3>2 DEF Order
  <2>2. CASE Fetch
    <3>1. gwork' = gwork /\ (io' = "info" => got' = Decoded(tip, got))
      BY <2>2, RetryServes DEF Fetch, globals
    <3>2. Decoded(tip, got).prev = tip
      BY DecodedIs DEF TypeOK
    <3>3. QED
      BY <1>2, <3>1, <3>2
  <2>3. CASE Pop \/ Answer \/ CompareHash \/ CompareHeight \/ Send
    BY <2>3, RetryServes DEF Pop, Answer, CompareHash, CompareHeight, Send, Finish
  <2>4. QED
    BY <2>1, <2>2, <2>3, Writers DEF Workio
<1>4. ASSUME NEW m \in Miner, reply'[m] # NoWork PROVE gwork'.prev <= reply'[m].prev
  <2>1. CASE Answer
    <3>1. gwork' = gwork /\ io = "info" /\ \E h : reply' = [reply EXCEPT ![cur.thr] = [got EXCEPT !.height = h]]
      BY <2>1 DEF Answer, Recipient, globals
    <3>2. reply'[m] = reply[m] \/ reply'[m].prev = got.prev
      BY <3>1 DEF TypeOK, WorkType
    <3>3. QED
      BY <1>4, <3>1, <3>2 DEF Order
  <2>2. CASE \E x \in Miner : Receive(x)
    BY <1>4, <2>2 DEF Receive, Asking, Questions, TypeOK
  <2>3. CASE reply' = reply
    <3>1. (\E x \in Miner : Receive(x)) \/ gwork' = gwork
      BY Writers DEF LpDecode, Offered
    <3>2. QED
      BY <1>4, <2>2, <2>3, <3>1 DEF Order
  <2>4. QED
    BY <2>1, <2>2, <2>3, Writers
<1>5. ASSUME NEW k \in Waiting', IsSubmit(k)' PROVE queue'[k].work.prev <= work'[queue'[k].thr].prev
  <2>1. ASSUME NEW j \in Waiting, queue'[k] = queue[j] PROVE queue'[k].work.prev <= work'[queue'[k].thr].prev
    <3>1. queue[j].thr \in Miner /\ queue[j].work.prev <= work[queue[j].thr].prev
      BY <1>5, <2>1 DEF Order, IsSubmit, Asking, Serving
    <3>2. work'[queue[j].thr].prev \in Int
      BY <3>1, PrevsNext
    <3>3. work[queue[j].thr].prev \in Int /\ queue[j].work.prev \in Int
      BY <3>1, Prevs
    <3>4. QED
      BY <1>1, <2>1, <3>1, <3>2, <3>3
  <2>2. CASE Pop
    BY <2>1, <2>2, PoppedWorks
  <2>3. ASSUME NEW m \in Miner, Request(m) \/ Find(m)
        PROVE  queue'[k].work.prev <= work'[queue'[k].thr].prev
    <3>1. CASE queue' = queue
      BY <2>1, <3>1 DEF Waiting
    <3>2. CASE queue' = Append(queue, GetCmd(m))
      <4>1. queue'[k] = GetCmd(m) \/ (k \in Waiting /\ queue'[k] = queue[k])
        BY <3>2, GetCmdType, PushedWorks
      <4>2. QED
        BY <1>5, <2>1, <4>1 DEF GetCmd, IsSubmit
    <3>3. CASE Find(m) /\ queue' = Append(queue, SubmitCmd(m))
      <4>1. queue'[k] = SubmitCmd(m) \/ (k \in Waiting /\ queue'[k] = queue[k])
        BY <3>3, SubmitCmdType, PushedWorks DEF TypeOK
      <4>2. SubmitCmd(m).work = work[m] /\ SubmitCmd(m).thr = m
        BY DEF SubmitCmd
      <4>3. QED
        BY <1>1, <2>1, <4>1, <4>2
    <3>4. QED
      BY <2>3, <3>1, <3>2, <3>3 DEF Request, Find, Pushed
  <2>4. CASE queue' = queue
    BY <2>1, <2>4 DEF Waiting
  <2>5. QED
    BY <2>2, <2>3, <2>4, Writers
<1>6. cur'.cmd = "submit" => cur'.work.prev <= work'[cur'.thr].prev
  <2>1. CASE Pop
    <3>1. work' = work /\ 1 \in Waiting /\ cur' = queue[1]
      BY <2>1, PoppedWorks DEF Pop, miners
    <3>2. QED
      BY <3>1 DEF Order, IsSubmit
  <2>2. CASE Workio /\ ~Pop
    <3>1. work' = work
      BY <2>2 DEF Workio, Fetch, Answer, CompareHash, CompareHeight, Send, miners
    <3>2. QED
      BY <2>2, <3>1, ServedWork DEF Order, NoCmd
  <2>3. CASE cur' = cur
    <3>1. cur.cmd = "submit" => cur.thr \in Miner /\ cur.work.prev <= work[cur.thr].prev
      BY DEF Order, Asking, Serving, TypeOK, NoCmd
    <3>2. cur.thr \in Miner => work'[cur.thr].prev \in Int
      BY PrevsNext
    <3>3. QED
      BY <1>1, <2>3, <3>1, <3>2, Prevs
  <2>4. QED
    BY <2>1, <2>2, <2>3, Writers
<1>7. ASSUME NEW h \in 1..tip', NEW m \in Miner, credit'[h] = m PROVE h <= work'[m].prev + 1
  <2>1. work'[m].prev \in Int /\ work[m].prev \in Int /\ work[m].prev <= work'[m].prev
    BY <1>1, Prevs, PrevsNext
  <2>2. CASE h \in 1..tip /\ credit[h] = m
    BY <2>1, <2>2 DEF Order
  <2>3. CASE h = tip + 1 /\ io = "send" /\ cur.work.prev = tip /\ cur.thr = m
    BY <2>1, <2>3, Prevs DEF Order, Asking, Serving
  <2>4. QED
    <3>1. CASE UNCHANGED <<tip, credit>>
      BY <1>7, <2>2, <3>1
    <3>2. CASE tip' = tip + 1
      <4>1. PICK who \in Miner \cup {Free} :
               /\ tip < MaxTip /\ credit' = [credit EXCEPT ![tip + 1] = who]
               /\ who = Free \/ (io = "send" /\ cur.work.prev = tip /\ who = cur.thr)
        BY <3>2, TipGrows, Prevs DEF Asking
      <4>2. h \in 1..MaxTip /\ tip + 1 \in 1..MaxTip /\ (h = tip + 1 \/ h \in 1..tip)
        BY <3>2, <4>1, Prevs, BoundAssumption
      <4>3. credit'[h] = IF h = tip + 1 THEN who ELSE credit[h]
        BY <4>1, <4>2 DEF TypeOK
      <4>4. m # Free
        BY ThreadsAreDistinct
      <4>5. QED
        BY <1>7, <2>2, <2>3, <4>1, <4>2, <4>3, <4>4
    <3>3. QED
      BY <3>1, <3>2, TipGrows DEF Asking
<1>8. QED
  BY <1>0, <1>1, <1>3, <1>4, <1>5, <1>6, <1>7 DEF Order

\* A thread's block on its present previous hash is an old one, or it finds it now.
LEMMA FoundBefore ==
  ASSUME TypeOK, TypeOK', Offered, Asking, Chain, Given, Order, [Next]_vars, ~mode.longpoll,
         NEW m \in Miner, HasFound(m, work[m].prev)', ~Find(m)
  PROVE  work'[m].prev = work[m].prev /\ HasFound(m, work[m].prev)
<1>0. PICK q \in Int : q = work'[m].prev
  BY PrevsNext
<1> SUFFICES q = work[m].prev /\ HasFound(m, work[m].prev)
  BY <1>0
<1>1. work[m].prev \in Int /\ work[m].prev <= q
  BY <1>0, WorksMoveOn, Prevs
<1>2. \/ \E k \in Waiting' : IsSubmit(k)' /\ queue'[k].thr = m /\ queue'[k].work.prev = q
      \/ cur'.cmd = "submit" /\ cur'.thr = m /\ cur'.work.prev = q
      \/ q \in 0..tip' - 1 /\ credit'[q + 1] = m
  BY <1>0 DEF HasFound, InQueue
<1>3. ASSUME NEW k \in Waiting, InQueue(m, q, k) PROVE q = work[m].prev /\ HasFound(m, work[m].prev)
  <2>1. q <= work[m].prev
    BY <1>3 DEF InQueue, Order
  <2>2. QED
    BY <1>1, <1>3, <2>1 DEF HasFound
<1>4. ASSUME cur.cmd = "submit", cur.thr = m, cur.work.prev = q
      PROVE  q = work[m].prev /\ HasFound(m, work[m].prev)
  <2>1. q <= work[m].prev
    BY <1>4 DEF Order
  <2>2. QED
    BY <1>1, <1>4, <2>1 DEF HasFound
<1>5. ASSUME NEW k \in Waiting', IsSubmit(k)', queue'[k].thr = m, queue'[k].work.prev = q
      PROVE  \E j \in Waiting : InQueue(m, q, j)
  <2>1. ASSUME NEW j \in Waiting, queue'[k] = queue[j] PROVE InQueue(m, q, j)
    BY <1>5, <2>1 DEF InQueue, IsSubmit
  <2>2. CASE Pop
    BY <2>1, <2>2, PoppedWorks
  <2>3. CASE queue' = queue
    BY <2>1, <2>3 DEF Waiting
  <2>4. ASSUME NEW x \in Miner, queue' = Append(queue, GetCmd(x))
        PROVE  \E j \in Waiting : InQueue(m, q, j)
    <3>1. queue'[k] = GetCmd(x) \/ (k \in Waiting /\ queue'[k] = queue[k])
      BY <2>4, GetCmdType, PushedWorks
    <3>2. QED
      BY <1>5, <2>1, <3>1 DEF GetCmd, IsSubmit
  <2>5. ASSUME NEW x \in Miner, Find(x), queue' = Append(queue, SubmitCmd(x))
        PROVE  \E j \in Waiting : InQueue(m, q, j)
    <3>1. queue'[k] = SubmitCmd(x) \/ (k \in Waiting /\ queue'[k] = queue[k])
      BY <2>5, SubmitCmdType, PushedWorks DEF TypeOK
    <3>2. x # m
      BY <2>5
    <3>3. QED
      BY <1>5, <2>1, <3>1, <3>2 DEF SubmitCmd
  <2>6. QED
    BY <2>2, <2>3, <2>4, <2>5, Writers DEF Request, Find, Pushed
<1>6. CASE \E k \in Waiting' : IsSubmit(k)' /\ queue'[k].thr = m /\ queue'[k].work.prev = q
  BY <1>3, <1>5, <1>6
<1>7. CASE cur'.cmd = "submit" /\ cur'.thr = m /\ cur'.work.prev = q
  <2>1. CASE Pop
    <3>1. 1 \in Waiting /\ InQueue(m, q, 1)
      BY <1>7, <2>1, PoppedWorks DEF InQueue, IsSubmit
    <3>2. QED
      BY <1>3, <3>1
  <2>2. CASE Workio /\ ~Pop
    BY <1>4, <1>7, <2>2, ServedWork DEF NoCmd
  <2>3. CASE cur' = cur
    BY <1>4, <1>7, <2>3
  <2>4. QED
    BY <2>1, <2>2, <2>3, Writers
<1>8. CASE q \in 0..tip' - 1 /\ credit'[q + 1] = m
  <2>1. ASSUME q \in 0..tip - 1, credit[q + 1] = m
        PROVE  q = work[m].prev /\ HasFound(m, work[m].prev)
    <3>1. q + 1 \in 1..tip /\ q + 1 <= work[m].prev + 1
      BY <2>1, Prevs DEF Order
    <3>2. q = work[m].prev
      BY <1>1, <3>1
    <3>3. QED
      BY <2>1, <3>2 DEF HasFound
  <2>2. CASE UNCHANGED <<tip, credit>>
    BY <1>8, <2>1, <2>2
  <2>3. CASE tip' = tip + 1
    <3>1. PICK who \in Miner \cup {Free} :
             /\ tip < MaxTip /\ credit' = [credit EXCEPT ![tip + 1] = who]
             /\ who = Free \/ (io = "send" /\ cur.work.prev = tip /\ who = cur.thr)
      BY <2>3, TipGrows, Prevs DEF Asking
    <3>2. q + 1 \in 1..MaxTip /\ tip + 1 \in 1..MaxTip /\ (q = tip \/ q \in 0..tip - 1)
      BY <1>8, <2>3, <3>1, Prevs, BoundAssumption
    <3>3. credit'[q + 1] = IF q = tip THEN who ELSE credit[q + 1]
      BY <3>1, <3>2, <1>1, Prevs DEF TypeOK
    <3>4. m # Free
      BY ThreadsAreDistinct
    <3>5. CASE q = tip
      BY <1>4, <1>8, <3>1, <3>3, <3>4, <3>5 DEF Asking, Serving
    <3>6. QED
      BY <1>8, <2>1, <3>2, <3>3, <3>5
  <2>4. QED
    BY <2>2, <2>3, TipGrows DEF Asking
<1>9. QED
  BY <1>0, <1>2, <1>6, <1>7, <1>8

LEMMA AheadStays ==
  ASSUME TypeOK, TypeOK', Offered, Asking, Chain, Given, Order, [Next]_vars, ~mode.longpoll,
         NEW m \in Miner, NEW p \in Int, HasFound(m, p), Ahead(m, p), ~Find(m)
  PROVE  Ahead(m, p)'
<1>1. /\ tip \in Nat /\ tip' \in {tip, tip + 1}
      /\ gwork.prev \in Int /\ gwork'.prev \in Int /\ gwork.prev <= gwork'.prev
  <2>1. gwork'.prev \in Int
    BY DEF TypeOK, WorkType
  <2>2. QED
    BY <2>1, TipGrows, Prevs, WorksMoveOn DEF Asking
<1>2. gtime' = "zero" \/ p < gwork'.prev
  <2>1. CASE \E x \in Miner : Receive(x)
    BY <2>1 DEF Ahead, Receive
  <2>2. CASE gtime' = gtime \/ Age \/ \E x \in Miner : ZeroTime(x)
    BY <1>1, <2>2 DEF Ahead, Age, ZeroTime
  <2>3. QED
    BY <2>1, <2>2, Writers DEF LpDecode, LpFail, Offered
<1>3. p < tip => p < tip'
  BY <1>1
<1>4. io' = "fetch" => p < tip'
  <2>1. CASE Pop
    <3>1. cur = NoCmd /\ 1 \in Waiting /\ io' = (IF IsGet(1) THEN "fetch" ELSE "stale")
      BY <2>1, PoppedWorks DEF Pop, Asking, Serving, IsGet
    <3>2. CASE IsGet(1)
      <4>1. \A k \in Waiting : k \in Nat \ {0}
        BY DEF TypeOK, Waiting
      <4>2. \A k \in Waiting : InQueue(m, p, k) => p < tip
        BY <3>1, <3>2, <4>1 DEF Ahead
      <4>3. p < tip
        BY <1>1, <3>1, <4>2 DEF HasFound, NoCmd
      <4>4. QED
        BY <1>3, <4>3
    <3>3. QED
      BY <3>1, <3>2
  <2>2. CASE Fetch
    BY <1>3, <2>2 DEF Fetch, Ahead
  <2>3. CASE Answer \/ CompareHash \/ CompareHeight \/ Send
    BY <2>3, RetryServes DEF Answer, CompareHash, CompareHeight, Send, Finish
  <2>4. CASE io' = io
    BY <1>3, <2>4 DEF Ahead
  <2>5. QED
    BY <2>1, <2>2, <2>3, <2>4, Writers DEF Workio
<1>5. io' = "info" => p < got'.prev
  <2>1. CASE UNCHANGED <<io, got>>
    BY <2>1 DEF Ahead
  <2>2. CASE Fetch
    <3>1. p < tip /\ (io' = "info" => got' = Decoded(tip, got))
      BY <2>2, RetryServes DEF Fetch, Ahead
    <3>2. Decoded(tip, got).prev = tip
      BY DecodedIs DEF TypeOK
    <3>3. QED
      BY <3>1, <3>2
  <2>3. CASE Pop \/ Answer \/ CompareHash \/ CompareHeight \/ Send
    BY <2>3, RetryServes DEF Pop, Answer, CompareHash, CompareHeight, Send, Finish
  <2>4. QED
    BY <2>1, <2>2, <2>3, Writers DEF Workio
<1>6. ASSUME NEW x \in Miner, reply'[x] # NoWork PROVE p < reply'[x].prev
  <2>1. CASE Answer
    <3>1. io = "info" /\ \E h : reply' = [reply EXCEPT ![cur.thr] = [got EXCEPT !.height = h]]
      BY <2>1 DEF Answer, Recipient
    <3>2. reply'[x] = reply[x] \/ reply'[x].prev = got.prev
      BY <3>1 DEF TypeOK, WorkType
    <3>3. QED
      BY <1>6, <3>1, <3>2 DEF Ahead
  <2>2. CASE \E y \in Miner : Receive(y)
    BY <1>6, <2>2 DEF Receive, Ahead, TypeOK
  <2>3. CASE reply' = reply
    BY <1>6, <2>3 DEF Ahead
  <2>4. QED
    BY <2>1, <2>2, <2>3, Writers
<1>7. ASSUME NEW j \in Waiting', NEW k \in Waiting', IsGet(j)', InQueue(m, p, k)'
      PROVE  k < j \/ p < tip'
  <2>1. CASE Pop
    <3>1. /\ j + 1 \in Waiting /\ k + 1 \in Waiting /\ IsGet(j + 1) /\ InQueue(m, p, k + 1)
      BY <1>7, <2>1, PoppedWorks DEF IsGet, InQueue, IsSubmit
    <3>2. k + 1 < j + 1 \/ p < tip
      BY <3>1 DEF Ahead
    <3>3. j \in Int /\ k \in Int
      BY DEF TypeOK, Waiting
    <3>4. QED
      BY <1>3, <3>2, <3>3
  <2>2. CASE queue' = queue
    BY <1>3, <1>7, <2>2 DEF Ahead, Waiting, IsGet, InQueue, IsSubmit
  <2>3. ASSUME NEW c \in CmdType, queue' = Append(queue, c), ~(c.cmd = "submit" /\ c.thr = m)
        PROVE  k < j \/ p < tip'
    <3> DEFINE n == Len(queue)
    <3>1. /\ n \in Nat /\ Waiting = 1..n /\ Waiting' = 1..n + 1 /\ queue'[n + 1] = c
          /\ \A i \in 1..n : queue'[i] = queue[i]
      BY <2>3, AppendIs DEF TypeOK, Waiting
    <3> HIDE DEF n
    <3>2. k # n + 1
      BY <1>7, <2>3, <3>1 DEF InQueue, IsSubmit
    <3>3. CASE j = n + 1
      BY <3>1, <3>2, <3>3
    <3>4. CASE j # n + 1
      <4>1. j \in Waiting /\ k \in Waiting /\ queue'[j] = queue[j] /\ queue'[k] = queue[k]
        BY <3>1, <3>2, <3>4
      <4>2. QED
        BY <1>3, <1>7, <4>1 DEF Ahead, IsGet, InQueue, IsSubmit
    <3>5. QED
      BY <3>3, <3>4
  <2>4. ASSUME NEW x \in Miner, Request(x) \/ Find(x) PROVE k < j \/ p < tip'
    <3>1. CASE queue' = Append(queue, GetCmd(x))
      BY <2>3, <3>1, GetCmdType DEF GetCmd
    <3>2. CASE Find(x) /\ queue' = Append(queue, SubmitCmd(x))
      <4>1. SubmitCmd(x) \in CmdType /\ SubmitCmd(x).thr = x /\ x # m
        BY <3>2, SubmitCmdType DEF TypeOK, SubmitCmd
      <4>2. QED
        BY <2>3, <3>2, <4>1
    <3>3. QED
      BY <2>2, <2>4, <3>1, <3>2 DEF Request, Find, Pushed
  <2>5. QED
    BY <2>1, <2>2, <2>4, Writers
<1>8. QED
  BY <1>2, <1>4, <1>5, <1>6, <1>7 DEF Ahead

LEMMA LeavesInductive ==
  ASSUME TypeOK, TypeOK', Offered, Asking, Chain, Given, Order, Leaves, [Next]_vars
  PROVE  Leaves'
<1> SUFFICES ASSUME ~mode.longpoll, NEW m \in Miner, HasFound(m, work[m].prev)'
             PROVE  /\ pc'[m] # "scan"
                    /\ pc'[m] \in {"lock", "await"} => Ahead(m, work[m].prev)'
  BY TipGrows DEF Leaves, Asking
<1>1. CASE Find(m)
  BY <1>1 DEF Find, GoTo, TypeOK
<1>2. CASE ~Find(m)
  <2>0. PICK p \in Int : p = work[m].prev
    BY Prevs
  <2>1. work'[m].prev = p /\ HasFound(m, p) /\ pc[m] # "scan"
    BY <1>2, <2>0, FoundBefore DEF Leaves
  <2>2. pc[m] \in {"lock", "await"} => Ahead(m, p)
    BY <2>0, <2>1 DEF Leaves
  <2>3. pc[m] \in {"lock", "await"} => Ahead(m, p)'
    BY <1>2, <2>1, <2>2, AheadStays
  <2>4. Ahead(m, p)' => Ahead(m, work[m].prev)'
    BY <2>1 DEF Ahead, InQueue
  <2>5. ~TakeWork(m)
    <3> SUFFICES ASSUME TakeWork(m) PROVE FALSE
      OBVIOUS
    <3>1. p < gwork.prev
      BY <2>2 DEF TakeWork, TooOld, Ahead
    <3>2. work'[m].prev = gwork.prev
      BY DEF TakeWork, GetNewWork, TypeOK
    <3>3. QED
      BY <2>1, <3>1, <3>2
  <2>6. ~Receive(m)
    <3> SUFFICES ASSUME Receive(m) PROVE FALSE
      OBVIOUS
    <3>1. p < reply[m].prev
      BY <2>2 DEF Receive, Ahead
    <3>2. work'[m].prev = reply[m].prev
      BY DEF Receive, GetNewWork, TypeOK
    <3>3. QED
      BY <2>1, <3>1, <3>2
  <2>7. CASE ZeroTime(m)
    <3>1. gLock = Free /\ gtime' = "zero" /\ pc'[m] = "lock" /\ UNCHANGED <<io, queue, reply>>
      BY <2>7 DEF ZeroTime, GoTo, TypeOK, workio
    <3>2. gLock \notin Miner
      BY <3>1, ThreadsAreDistinct
    <3>3. /\ io \notin {"fetch", "info"} /\ (\A x \in Miner : reply[x] = NoWork)
          /\ \A k \in Waiting : ~IsGet(k)
      BY <3>2 DEF Asking, Questions, Serving
    <3>4. Ahead(m, p)'
      BY <3>1, <3>3 DEF Ahead, Waiting, IsGet
    <3>5. QED
      BY <2>4, <3>1, <3>4
  <2>8. CASE pc'[m] = pc[m]
    BY <2>1, <2>3, <2>4, <2>8
  <2>9. CASE Request(m)
    <3>1. pc[m] = "lock" /\ pc'[m] # "scan"
      BY <2>9 DEF Request, GoTo, TypeOK
    <3>2. QED
      BY <2>3, <2>4, <3>1
  <2>10. CASE Found(m)
    BY <2>10 DEF Found, AfterFind, GoTo, Offered, TypeOK
  <2>11. ASSUME NEW x \in Miner, x # m, MinerStep(x) PROVE pc'[m] = pc[m]
    BY <2>11 DEF MinerStep, TakeWork, Request, Receive, FindNothing, Find, Found, ZeroTime, GoTo, TypeOK
  <2>12. CASE MinerStep(m)
    BY <1>2, <2>1, <2>5, <2>6, <2>7, <2>9, <2>10, <2>12 DEF MinerStep, FindNothing
  <2>13. QED
    BY <2>8, <2>11, <2>12, Writers
<1>3. QED
  BY <1>1, <1>2

LEMMA LeavesHolds == Safety => [](Order /\ Leaves)
<1>1. Init => Order /\ Leaves
  <2> SUFFICES ASSUME Init PROVE Order /\ Leaves
    OBVIOUS
  <2>1. Waiting = {} /\ cur.cmd # "submit" /\ tip = 0
    BY DEF Init, Waiting, NoCmd
  <2>2. Order
    BY <2>1 DEF Init, Order, NoWork
  <2>3. \A m \in Miner : ~HasFound(m, work[m].prev)
    BY <2>1 DEF HasFound
  <2>4. QED
    BY <2>2, <2>3 DEF Leaves
<1>2. TypeOK /\ TypeOK' /\ Offered /\ Asking /\ Chain /\ Given /\ Order /\ Leaves /\ [Next]_vars
      => (Order /\ Leaves)'
  BY OrderInductive, LeavesInductive
<1>3. QED
  BY <1>1, <1>2, TypeCorrect, OfferedHolds, AskingHolds, ChainHolds, PTL DEF Safety

\* With no long polling, a thread never scans on a previous hash on which a
\* block of its own was accepted.
THEOREM MinersLeaveOwnBlock == Safety => []LeavesOwnBlock
<1>1. TypeOK /\ Chain /\ Given /\ Leaves => LeavesOwnBlock
  <2> SUFFICES ASSUME TypeOK, Chain, Given, Leaves, ~mode.longpoll, NEW m \in Miner, pc[m] = "scan",
                      work[m].prev < tip
               PROVE  credit[work[m].prev + 1] # m
    BY DEF LeavesOwnBlock
  <2>1. work[m].prev \in 0..tip - 1
    BY Prevs DEF Given, Chain, Works, Known
  <2>2. ~HasFound(m, work[m].prev)
    BY DEF Leaves
  <2>3. QED
    BY <2>1, <2>2 DEF HasFound
<1>2. QED
  BY <1>1, TypeCorrect, ChainHolds, LeavesHolds, PTL

(***************************************************************************)
(* The two comparisons before a block is sent.                             *)
(***************************************************************************)
LEMMA ComparedInductive ==
  ASSUME TypeOK, TypeOK', Offered, Asking, Compared, [Next]_vars
  PROVE  Compared'
<1>1. torn' => lp' = "decode"
  <2>1. CASE Pop \/ Fetch \/ Answer \/ CompareHash \/ CompareHeight \/ Send
    BY <2>1 DEF Pop, Fetch, OfferLongpoll, Answer, CompareHash, CompareHeight, Send, globals, longpl, Compared,
                Asking, Offered
  <2>2. CASE LpStep
    BY <2>2 DEF LpStep, LpAsk, LpAnswer, LpLock, LpDecode, LpFail, globals, Compared
  <2>3. ASSUME NEW m \in Miner, MinerStep(m) PROVE UNCHANGED <<torn, lp>>
    BY <2>3 DEF MinerStep, TakeWork, Request, Receive, FindNothing, Find, Found, ZeroTime, globals, longpl
  <2>4. CASE OtherBlock \/ Age \/ UNCHANGED vars
    BY <2>4 DEF OtherBlock, Age, vars, globals, longpl, Compared
  <2>5. QED
    BY <2>1, <2>2, <2>3, <2>4 DEF Next, Workio, Compared
<1>2. netBlocks' <= tip'
  <2>1. tip \in Nat /\ tip' \in {tip, tip + 1} /\ netBlocks \in Nat
    BY TipGrows, BoundAssumption DEF TypeOK, Asking
  <2>2. CASE Answer
    <3>1. got.height \in 0..MaxTip + 1
      BY DEF TypeOK, WorkType
    <3>2. netBlocks' \in {netBlocks, tip}
      BY <2>2, <3>1, MiningInfoType DEF Answer
    <3>3. QED
      BY <2>1, <3>2 DEF Compared
  <2>3. CASE CompareHeight
    <3>1. netBlocks' \in {netBlocks, tip}
      BY <2>3, MiningInfoType, BoundAssumption DEF CompareHeight
    <3>2. QED
      BY <2>1, <3>1 DEF Compared
  <2>4. CASE netBlocks' = netBlocks
    BY <2>1, <2>4 DEF Compared
  <2>5. CASE Pop \/ Fetch \/ CompareHash \/ Send
    BY <2>4, <2>5 DEF Pop, Fetch, CompareHash, Send
  <2>6. CASE LpStep
    BY <2>4, <2>6 DEF LpStep, LpAsk, LpAnswer, LpLock, LpDecode, LpFail, workio
  <2>7. ASSUME NEW m \in Miner, MinerStep(m) PROVE netBlocks' = netBlocks
    BY <2>7 DEF MinerStep, TakeWork, Request, Receive, FindNothing, Find, Found, ZeroTime, workio
  <2>8. CASE OtherBlock \/ Age \/ UNCHANGED vars
    BY <2>4, <2>8 DEF OtherBlock, Age, vars, workio
  <2>9. QED
    BY <2>2, <2>3, <2>4, <2>5, <2>6, <2>7, <2>8 DEF Next, Workio
<1>3. cur'.enc => BySubmitblock'
  <2>1. CASE Pop
    BY <2>1, PoppedWorks DEF Compared
  <2>2. CASE Send
    <3>1. \/ cur' = NoCmd
          \/ cur' = [cur EXCEPT !.enc = Encoded]
      BY <2>2, RetryServes DEF Send, Finish
    <3>2. CASE cur' = NoCmd
      BY <3>2 DEF NoCmd
    <3>3. CASE cur' = [cur EXCEPT !.enc = Encoded]
      <4>1. cur'.enc = Encoded /\ cur'.work = cur.work
        BY <3>3 DEF TypeOK, CmdType
      <4>2. QED
        BY <4>1 DEF Encoded, BySubmitblock
    <3>4. QED
      BY <3>1, <3>2, <3>3
  <2>3. CASE Fetch \/ Answer \/ CompareHash \/ CompareHeight
    <3>1. cur' \in {cur, NoCmd}
      BY <2>3, RetryServes DEF Fetch, Answer, CompareHash, CompareHeight, Finish
    <3>2. QED
      BY <3>1 DEF Compared, NoCmd, BySubmitblock
  <2>4. QED
    BY <2>1, <2>2, <2>3, Writers DEF Workio, Compared, BySubmitblock
<1>4. ASSUME NEW k \in Waiting' PROVE ~queue'[k].enc
  <2>1. CASE Pop
    BY <2>1, PoppedWorks DEF Compared
  <2>2. ASSUME NEW m \in Miner, NEW c \in CmdType, ~c.enc, queue' = Append(queue, c) PROVE ~queue'[k].enc
    BY <2>2, PushedWorks DEF Compared
  <2>3. ASSUME NEW m \in Miner, Request(m) \/ Find(m)
        PROVE  ~queue'[k].enc \/ queue' = queue
    <3>1. GetCmd(m) \in CmdType /\ ~GetCmd(m).enc /\ SubmitCmd(m) \in CmdType /\ ~SubmitCmd(m).enc
      BY GetCmdType, SubmitCmdType DEF GetCmd, SubmitCmd, TypeOK
    <3>2. QED
      BY <2>2, <2>3, <3>1 DEF Request, Find, Pushed
  <2>4. CASE queue' = queue
    BY <2>4 DEF Compared, Waiting
  <2>5. QED
    BY <2>1, <2>3, <2>4, Writers
<1>5. QED
  BY <1>1, <1>2, <1>3, <1>4 DEF Compared

LEMMA ComparedHolds == Safety => []Compared
<1>1. Init => Compared
  BY DEF Init, Compared, NoCmd, Waiting
<1>2. TypeOK /\ TypeOK' /\ Offered /\ Asking /\ Compared /\ [Next]_vars => Compared'
  BY ComparedInductive
<1>3. QED
  BY <1>1, <1>2, TypeCorrect, OfferedHolds, AskingHolds, PTL DEF Safety

\* With no long polling, a block is discarded as stale only if the chain has
\* moved on, unless the first try turned it over: no header in g_work is older
\* than the block's, or newer than the chain.
THEOREM StaleBlocksAreStale == Safety => StaleUnlessEncoded
<1>1. TypeOK /\ Offered /\ Asking /\ Chain /\ Order /\ Compared /\ [Next]_vars
      => [(~mode.longpoll /\ ~(BySubmitblock /\ cur.enc) /\ io = "stale" /\ io' = "pop")
           => cur.work.prev < tip]_vars
  <2> SUFFICES ASSUME TypeOK, Offered, Asking, Chain, Order, Compared, [Next]_vars,
                      ~mode.longpoll, ~(BySubmitblock /\ cur.enc), io = "stale", io' = "pop"
               PROVE  cur.work.prev < tip
    OBVIOUS
  <2>1. CompareHash
    BY Writers DEF Workio, Pop, Fetch, Answer, CompareHeight, Send
  <2>2. cur.work.prev # gwork.prev
    BY <2>1 DEF CompareHash, LooksStale, Finish, Offered, Compared
  <2>3. cur.cmd = "submit" /\ cur.thr \in Miner
    BY DEF Asking, Serving
  <2>4. /\ cur.work.prev <= work[cur.thr].prev /\ work[cur.thr].prev <= gwork.prev
        /\ gwork = NoWork \/ gwork.prev <= tip
    BY <2>3, Prevs DEF Order, Chain, Works, Known
  <2>5. NoWork.prev = -1
    BY DEF NoWork
  <2>6. QED
    BY <2>2, <2>3, <2>4, <2>5, Prevs
<1>2. QED
  BY <1>1, TypeCorrect, OfferedHolds, AskingHolds, ChainHolds, LeavesHolds, ComparedHolds, PTL
     DEF StaleUnlessEncoded, Safety

\* A block is discarded as solved only if the node has a block on the same
\* previous hash, or its work has the height of another answer.
THEOREM SolvedBlocksAreSolved == Safety => SolvedIfAnswered
<1>1. TypeOK /\ Asking /\ Chain /\ Given /\ Heights /\ Compared /\ [Next]_vars
      => [(io = "solved" /\ io' = "pop" /\ ~cur.work.mixed) => cur.work.prev < tip]_vars
  <2> SUFFICES ASSUME TypeOK, Asking, Chain, Given, Heights, Compared, [Next]_vars,
                      io = "solved", io' = "pop", ~cur.work.mixed
               PROVE  cur.work.prev < tip
    OBVIOUS
  <2>1. CompareHeight
    BY Writers DEF Workio, Pop, Fetch, Answer, CompareHash, Send
  <2>2. AlreadySolved(netBlocks') /\ netBlocks' \in {netBlocks, tip}
    BY <2>1, MiningInfoType, BoundAssumption DEF CompareHeight
  <2>3. cur.work.height > 0 /\ cur.work.height <= netBlocks' /\ netBlocks' <= tip
    BY <2>2, Prevs DEF AlreadySolved, Compared
  <2>4. cur.work # NoWork /\ HeightFits(cur.work)
    BY DEF Asking, Serving, Given, Heights, Works
  <2>5. cur.work.height \in Int /\ netBlocks' \in Int
    <3>1. cur.work \in WorkType /\ netBlocks \in Int /\ tip \in Int
      BY DEF TypeOK, CmdType
    <3>2. \A w \in WorkType : w.height \in Int
      BY DEF WorkType
    <3>3. QED
      BY <2>2, <3>1, <3>2
  <2>6. cur.work.prev < cur.work.height
    BY <2>3, <2>4, <2>5, Prevs DEF HeightFits
  <2>7. QED
    BY <2>3, <2>5, <2>6, Prevs
<1>2. QED
  BY <1>1, TypeCorrect, AskingHolds, ChainHolds, ComparedHolds, PTL DEF SolvedIfAnswered, Safety

\* The inductive invariant of solo mining.
THEOREM SoloInvariant == Safety => []IInv
  BY TypeCorrect, OfferedHolds, AskingHolds, TransactionsHold, ChainHolds, LeavesHolds,
     ComparedHolds, PTL DEF IInv, Asking
=============================================================================
