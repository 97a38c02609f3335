------------------------------- MODULE Channel -------------------------------
(***************************************************************************)
(* What the miner's threads rely on when one hands a pointer to another:   *)
(* a closable channel with one reader.  Writers put values while it is     *)
(* open, the reader takes them in the order they were put, each one once,  *)
(* and whatever was put is taken unless the reader closes the channel.     *)
(* ThreadQueue implements it with a list, a mutex and a condition variable.*)
(***************************************************************************)
EXTENDS Naturals, Sequences

CONSTANT Message

VARIABLES put,   \* every value accepted so far, oldest first
          taken, \* every value the reader has received, oldest first
          open   \* FALSE once the reader has closed the channel

vars == <<put, taken, open>>

Init == put = <<>> /\ taken = <<>> /\ open = TRUE

Put(m) == /\ open
          /\ put' = Append(put, m)
          /\ UNCHANGED <<taken, open>>

Take == /\ open
        /\ Len(taken) < Len(put)
        /\ taken' = Append(taken, put[Len(taken) + 1])
        /\ UNCHANGED <<put, open>>

Close == /\ open
         /\ open' = FALSE
         /\ UNCHANGED <<put, taken>>

Next == Take \/ Close \/ \E m \in Message : Put(m)

\* What was put is taken, or the reader closes.
Spec == Init /\ [][Next]_vars /\ WF_vars(Take)
=============================================================================
