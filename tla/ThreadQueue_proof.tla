-------------------------- MODULE ThreadQueue_proof --------------------------
(***************************************************************************)
(* Proofs about ThreadQueue, for any set of pointers and any number of     *)
(* calls of tq_push: the types, that no wake-up is lost, that without      *)
(* spurious wake-ups a NULL from tq_pop was pushed, and that every step of *)
(* the queue is a step of Channel.                                         *)
(***************************************************************************)
EXTENDS ThreadQueue, TLAPS

\* The fields of the queue and what tq_pop returns keep their types (TypeOK).
THEOREM TypeCorrect == Spec => []TypeOK
<1>1. Init => TypeOK
  <2> SUFFICES ASSUME Init PROVE TypeOK
    OBVIOUS
  <2>1. q \in Seq(Pointer) /\ delivered \in Seq(Pointer)
    BY DEF Init
  <2>2. frozen \in BOOLEAN /\ owner \in OwnerState /\ npush \in Nat
    BY DEF Init, OwnerState
  <2>3. ret \in Pointer
    BY DEF Init, Pointer
  <2>4. QED
    BY <2>1, <2>2, <2>3 DEF TypeOK
<1>2. TypeOK /\ [Next]_vars => TypeOK'
  <2> SUFFICES ASSUME TypeOK, [Next]_vars PROVE TypeOK'
    OBVIOUS
  <2> USE DEF TypeOK, OwnerState
  <2>1. ASSUME NEW m \in Pointer, Push(m) PROVE TypeOK'
    BY <2>1 DEF Push, Pushed, AfterSignal
  <2>2. ASSUME q # <<>>, Remove PROVE TypeOK'
    BY <2>2 DEF Remove
  <2>3. CASE PopNow
    BY <2>2, <2>3 DEF PopNow
  <2>4. CASE PopWait
    BY <2>4 DEF PopWait
  <2>5. CASE PopResume
    BY <2>2, <2>5 DEF PopResume, ReturnNull, Pointer
  <2>6. CASE Wake
    BY <2>6 DEF Wake
  <2>7. CASE Fail
    BY <2>7 DEF Fail
  <2>8. CASE Freeze
    BY <2>8 DEF Freeze
  <2>9. CASE UNCHANGED vars
    BY <2>9 DEF vars
  <2>10. QED
    BY <2>1, <2>3, <2>4, <2>5, <2>6, <2>7, <2>8, <2>9 DEF Next, Owner
<1>3. QED
  BY <1>1, <1>2, PTL DEF Spec

(***************************************************************************)
(* The owner sleeps unsignalled only on an empty list: tq_pop goes to      *)
(* sleep only when the list is empty, and whoever then puts something on   *)
(* it signals.                                                             *)
(***************************************************************************)
THEOREM NoWakeupIsLost == Spec => []NoLostWakeup
<1>1. Init => NoLostWakeup
  BY DEF Init, NoLostWakeup
<1>2. TypeOK /\ NoLostWakeup /\ [Next]_vars => NoLostWakeup'
  <2> SUFFICES ASSUME TypeOK, NoLostWakeup, [Next]_vars PROVE NoLostWakeup'
    OBVIOUS
  <2>1. ASSUME NEW m \in Pointer, Push(m) PROVE NoLostWakeup'
    BY <2>1 DEF Push, Pushed, AfterSignal, NoLostWakeup
  <2>2. CASE PopNow \/ PopResume
    <3>1. owner' # "waiting"
      BY <2>2 DEF PopNow, PopResume, Remove, ReturnNull
    <3>2. QED
      BY <3>1 DEF NoLostWakeup
  <2>3. CASE PopWait
    BY <2>3 DEF PopWait, NoLostWakeup
  <2>4. CASE Wake \/ Fail \/ Freeze
    BY <2>4 DEF Wake, Fail, Freeze, NoLostWakeup
  <2>5. CASE UNCHANGED vars
    BY <2>5 DEF vars, NoLostWakeup
  <2>6. QED
    BY <2>1, <2>2, <2>3, <2>4, <2>5 DEF Next, Owner
<1>3. QED
  BY <1>1, <1>2, TypeCorrect, PTL DEF Spec

(***************************************************************************)
(* Without spurious wake-ups the owner is signalled only by a tq_push that *)
(* was accepted: nobody pushes to a frozen queue whose owner still waits.  *)
(***************************************************************************)
SignalMeansSomething ==
  /\ owner = "signalled" => q # <<>>
  /\ frozen => owner = "gone"

THEOREM NullIsSent == ~Spurious => (Spec => []NullOnlyWhenSent)
<1> SUFFICES ASSUME ~Spurious PROVE Spec => []NullOnlyWhenSent
  OBVIOUS
<1> DEFINE Inv == NullOnlyWhenSent /\ SignalMeansSomething
<1>1. Init => Inv
  BY NullIsNoData DEF Init, NullOnlyWhenSent, SignalMeansSomething
<1>2. TypeOK /\ Inv /\ [Next]_vars => Inv'
  <2> SUFFICES ASSUME TypeOK, Inv, [Next]_vars PROVE Inv'
    OBVIOUS
  <2> USE DEF TypeOK, NullOnlyWhenSent, SignalMeansSomething
  <2>1. ASSUME NEW m \in Pointer, Push(m) PROVE Inv'
    <3>1. Append(q, m) # <<>>
      OBVIOUS
    <3>2. QED
      BY <2>1, <3>1 DEF Push, Pushed, AfterSignal
  <2>2. ASSUME q # <<>>, ~frozen, Remove PROVE Inv'
    <3>1. /\ delivered' # <<>>
          /\ delivered'[Len(delivered')] = ret'
      BY <2>2 DEF Remove
    <3>2. owner' # "signalled" /\ ~frozen'
      BY <2>2 DEF Remove
    <3>3. QED
      BY <3>1, <3>2
  <2>3. CASE PopNow
    BY <2>2, <2>3 DEF PopNow
  <2>4. CASE PopWait
    BY <2>4 DEF PopWait
  <2>5. CASE PopResume
    BY <2>2, <2>5 DEF PopResume
  <2>6. CASE Wake \/ Fail \/ Freeze
    BY <2>6 DEF Wake, Fail, Freeze
  <2>7. CASE UNCHANGED vars
    BY <2>7 DEF vars
  <2>8. QED
    BY <2>1, <2>3, <2>4, <2>5, <2>6, <2>7 DEF Next, Owner
<1>3. Inv => NullOnlyWhenSent
  OBVIOUS
<1>4. QED
  BY <1>1, <1>2, <1>3, TypeCorrect, PTL DEF Spec

(***************************************************************************)
(* The safety part of ImplementsChannel.  (Its fairness is left to TLC.)   *)
(***************************************************************************)
FrozenMeansGone == frozen => owner = "gone"

LEMMA FrozenIsGone == Spec => []FrozenMeansGone
<1>1. Init => FrozenMeansGone
  BY DEF Init, FrozenMeansGone
<1>2. FrozenMeansGone /\ [Next]_vars => FrozenMeansGone'
  BY DEF FrozenMeansGone, Next, Owner, vars, Push, Pushed, AfterSignal, PopNow, PopWait,
         PopResume, Remove, ReturnNull, Wake, Fail, Freeze
<1>3. QED
  BY <1>1, <1>2, PTL DEF Spec

THEOREM QueueIsChannel == Spec => AsChannel!Init /\ [][AsChannel!Next]_(AsChannel!vars)
<1>1. Init => AsChannel!Init
  BY DEF Init, AsChannel!Init
<1>2. TypeOK /\ FrozenMeansGone /\ [Next]_vars => [AsChannel!Next]_(AsChannel!vars)
  <2> SUFFICES ASSUME TypeOK, FrozenMeansGone, [Next]_vars
               PROVE  AsChannel!Next \/ UNCHANGED AsChannel!vars
    OBVIOUS
  <2> USE DEF TypeOK
  <2>1. ASSUME NEW m \in Pointer, Push(m)
        PROVE  AsChannel!Next \/ UNCHANGED AsChannel!vars
    <3>1. CASE frozen
      BY <2>1, <3>1 DEF Push, Pushed, AsChannel!vars
    <3>2. CASE ~frozen
      <4>1. delivered \o Append(q, m) = Append(delivered \o q, m)
        OBVIOUS
      <4>2. AsChannel!Put(m)
        BY <2>1, <3>2, <4>1 DEF Push, Pushed, AsChannel!Put
      <4>3. QED
        BY <4>2 DEF AsChannel!Next
    <3>3. QED
      BY <3>1, <3>2
  <2>2. ASSUME q # <<>>, ~frozen, Remove PROVE AsChannel!Next
    <3>1. Len(delivered) < Len(delivered \o q)
      BY <2>2
    <3>2. (delivered \o q)[Len(delivered) + 1] = Head(q)
      BY <2>2
    <3>3. Append(delivered, Head(q)) \o Tail(q) = delivered \o q
      BY <2>2
    <3>4. AsChannel!Take
      BY <2>2, <3>1, <3>2, <3>3 DEF Remove, AsChannel!Take
    <3>5. QED
      BY <3>4 DEF AsChannel!Next
  <2>3. CASE PopNow
    BY <2>2, <2>3 DEF PopNow, FrozenMeansGone
  <2>4. CASE PopWait \/ Wake \/ Fail
    BY <2>4 DEF PopWait, Wake, Fail, AsChannel!vars
  <2>5. CASE PopResume
    <3>1. CASE q = <<>>
      BY <2>5, <3>1 DEF PopResume, ReturnNull, AsChannel!vars
    <3>2. CASE q # <<>>
      BY <2>2, <2>5, <3>2 DEF PopResume, FrozenMeansGone
    <3>3. QED
      BY <3>1, <3>2
  <2>6. CASE Freeze
    <3>1. ~frozen
      BY <2>6 DEF Freeze, FrozenMeansGone
    <3>2. AsChannel!Close
      BY <2>6, <3>1 DEF Freeze, AsChannel!Close
    <3>3. QED
      BY <3>2 DEF AsChannel!Next
  <2>7. CASE UNCHANGED vars
    BY <2>7 DEF vars, AsChannel!vars
  <2>8. QED
    BY <2>1, <2>3, <2>4, <2>5, <2>6, <2>7 DEF Next, Owner
<1>3. QED
  BY <1>1, <1>2, TypeCorrect, FrozenIsGone, PTL DEF Spec
=============================================================================
