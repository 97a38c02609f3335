----------------------------- MODULE ThreadQueue -----------------------------
(***************************************************************************)
(* struct thread_q of util.c: the list, mutex and condition variable with  *)
(* which main, the workio thread, the stratum and longpoll threads and the *)
(* miner threads pass pointers to one another.                             *)
(*                                                                         *)
(* Every operation runs under tq->mutex from its first access to its last, *)
(* except that pthread_cond_wait releases the mutex inside tq_pop.  So     *)
(* tq_push and tq_freeze are one step each, and tq_pop is one step when    *)
(* the list is not empty and two steps, before and after the wait, when it *)
(* is.                                                                     *)
(*                                                                         *)
(* A queue is popped and frozen by the thread that owns it and pushed to   *)
(* by the others.  Each owner has the same shape (workio_thread is the     *)
(* clearest): pop in a loop, leave the loop on NULL or on a failure while  *)
(* serving what was popped, and freeze the queue on the way out.           *)
(***************************************************************************)
EXTENDS Naturals, Sequences

CONSTANTS
  Data,      \* the pointers that are pushed
  NULL,      \* the null pointer: pushed by stratum_thread to end workio
  Spurious,  \* may pthread_cond_wait return with no signal (POSIX says it may)
  MaxPush    \* bound: calls of tq_push explored

ASSUME NullIsNoData == NULL \notin Data
ASSUME SpuriousIsBoolean == Spurious \in BOOLEAN
ASSUME MaxPushIsNat == MaxPush \in Nat

Pointer == Data \cup {NULL}

VARIABLES
  q,          \* tq->q, head first
  frozen,     \* tq->frozen
  owner,      \* where the owner is, see OwnerState
  npush,      \* calls of tq_push so far
  delivered,  \* history: what tq_pop has removed from the list, oldest first
  ret         \* what the owner's last tq_pop returned

vars == <<q, frozen, owner, npush, delivered, ret>>

OwnerState == {"serving",    \* outside tq_pop
               "waiting",    \* blocked in pthread_cond_wait
               "signalled",  \* woken, has not got the mutex back yet
               "leaving",    \* out of its loop, before tq_freeze
               "gone"}

TypeOK ==
  /\ q \in Seq(Pointer)
  /\ frozen \in BOOLEAN
  /\ owner \in OwnerState
  /\ npush \in Nat
  /\ delivered \in Seq(Pointer)
  /\ ret \in Pointer

\* tq_new, and an owner that has not called tq_pop yet.
Init ==
  /\ q = <<>>
  /\ frozen = FALSE
  /\ owner = "serving"
  /\ npush = 0
  /\ delivered = <<>>
  /\ ret \in Data

\* A fault for the checks: the signal is forgotten.
NoSignal == owner

\* pthread_cond_signal: lost unless somebody waits.
AfterSignal == IF owner = "waiting" THEN "signalled" ELSE owner

-----------------------------------------------------------------------------

\* A fault for the checks: list_add is used in place of list_add_tail.
PushedAtHead(m) == IF frozen THEN q ELSE <<m>> \o q

\* The list after tq_push.
Pushed(m) == IF frozen THEN q ELSE Append(q, m)

\* tq_push by another thread.  It signals whether or not it was accepted.
Push(m) ==
  /\ npush < MaxPush
  /\ npush' = npush + 1
  /\ q' = Pushed(m)
  /\ owner' = AfterSignal
  /\ UNCHANGED <<frozen, delivered, ret>>

\* The pop: label of tq_pop, and where the caller goes with the result.
Remove ==
  /\ ret' = Head(q)
  /\ q' = Tail(q)
  /\ delivered' = Append(delivered, Head(q))
  /\ owner' = IF Head(q) = NULL THEN "leaving" ELSE "serving"
  /\ UNCHANGED <<frozen, npush>>

\* A fault for the checks: rval is not initialised.
ReturnGarbage ==
  /\ ret' = "garbage"
  /\ owner' = "leaving"
  /\ UNCHANGED <<q, frozen, npush, delivered>>

\* The out: label reached with nothing removed: tq_pop returns NULL.
ReturnNull ==
  /\ ret' = NULL
  /\ owner' = "leaving"
  /\ UNCHANGED <<q, frozen, npush, delivered>>

\* tq_pop up to pthread_cond_wait.
PopNow == owner = "serving" /\ q # <<>> /\ Remove
PopWait ==
  /\ owner = "serving"
  /\ q = <<>>
  /\ owner' = "waiting"
  /\ UNCHANGED <<q, frozen, npush, delivered, ret>>

\* pthread_cond_wait returns although nobody signalled.
Wake ==
  /\ Spurious
  /\ owner = "waiting"
  /\ owner' = "signalled"
  /\ UNCHANGED <<q, frozen, npush, delivered, ret>>

\* tq_pop after the wait: the list is looked at once more, and only once.
PopResume ==
  /\ owner = "signalled"
  /\ IF q = <<>> THEN ReturnNull ELSE Remove

\* The owner's loop ends by itself: serving the last command failed.
Fail ==
  /\ owner = "serving"
  /\ owner' = "leaving"
  /\ UNCHANGED <<q, frozen, npush, delivered, ret>>

\* tq_freeze, the owner's last call on its queue.
Freeze ==
  /\ owner = "leaving"
  /\ frozen' = TRUE
  /\ owner' = "gone"
  /\ UNCHANGED <<q, npush, delivered, ret>>

Owner == PopNow \/ PopWait \/ PopResume \/ Freeze
Next == Owner \/ Wake \/ Fail \/ \E m \in Pointer : Push(m)

\* The owner is a thread that keeps running; it may fail, but need not.
Spec == Init /\ [][Next]_vars /\ WF_vars(Owner)

-----------------------------------------------------------------------------

\* No wake-up is lost: the owner is never left asleep on a queue that holds
\* something.  tq_push signals under the mutex under which tq_pop tested the
\* list, and signals once per pointer.
NoLostWakeup == owner = "waiting" => q = <<>>

\* workio_thread "wait[s] for workio_cmd sent to us, on our queue", and its
\* loop takes a NULL from tq_pop for the order to end.  So tq_pop returns NULL
\* only if some thread pushed it.
NullOnlyWhenSent ==
  ret = NULL => delivered # <<>> /\ delivered[Len(delivered)] = NULL

\* Together: the queue is a channel, each pointer accepted before the freeze
\* is handed to the owner once and in order, and the owner takes what it was
\* sent or closes.
AsChannel == INSTANCE Channel WITH Message <- Pointer, put <- delivered \o q,
                                   taken <- delivered, open <- ~frozen
ImplementsChannel == AsChannel!Spec

=============================================================================
