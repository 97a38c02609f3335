------------------------------ MODULE Argon2Fill ------------------------------
(***************************************************************************)
(* How Argon2 fills its memory (argon2_ctx, fill_memory_blocks and         *)
(* index_alpha in algo/argon2d/argon2d/core.c and argon2.c, fill_segment   *)
(* in opt.c).                                                              *)
(*                                                                         *)
(* The memory is a matrix of lanes, each cut into four slices.  In each    *)
(* pass the slices are filled one after the other, and the segments where  *)
(* a lane meets a slice by threads of their own, at most `threads' at a    *)
(* time.  A block is computed from the block before it and one more, picked *)
(* by a pseudo-random number.  The hash is a function of its input only if *)
(* no thread's progress shows in what another one reads.                   *)
(*                                                                         *)
(* Abstractions.  A block is named by its lane and column; its contents    *)
(* are the number of the pass that wrote it, counted from 1.  The numbers  *)
(* picked are arbitrary: data_independent_addressing is never assigned, so *)
(* that they may come from the block before, or from anywhere.             *)
(*                                                                         *)
(* The miner's own calls set threads to 1 (argon2d-dyn-gate.c,             *)
(* argon2d-crds-gate.c) and run fill_memory_blocks_st; more threads are    *)
(* fill_memory_blocks_mt, which other callers of the library would reach.  *)
(***************************************************************************)
EXTENDS Integers, FiniteSets

CONSTANTS
  Lanes,     \* context->lanes
  MCost,     \* context->m_cost
  Passes,    \* context->t_cost
  Width,     \* 2^32: how many values a pseudo-random number has
  MayFail    \* may argon2_thread_create fail

\* validate_inputs
ASSUME LanesAssumption == Lanes \in Nat \ {0}
ASSUME CostAssumption == MCost \in Nat /\ MCost >= 8 * Lanes
ASSUME PassesAssumption == Passes \in Nat \ {0}
ASSUME WidthAssumption == Width \in Nat \ {0}
ASSUME MayFailAssumption == MayFail \in BOOLEAN

SyncPoints == 4

\* instance.segment_length, instance.lane_length
SegmentLength == MCost \div (Lanes * SyncPoints)
LaneLength == SegmentLength * SyncPoints

Lane == 0..Lanes - 1
Slice == 0..SyncPoints - 1
Column == 0..LaneLength - 1
Block == Lane \X Column

\* Stands for a block where none is meant.
NoRef == <<0, 0>>

VARIABLES
  threads,  \* instance.threads
  main,     \* where fill_memory_blocks is: "fill", "filled", "failed", "final"
  pass,     \* r
  slice,    \* s
  next,     \* l: the lanes below it have their thread for this slice
  at,       \* the last thread of each lane: "none", "pick", "write" or "ended"
  pos,      \* thr_data[l].pos: the pass and the slice of that thread
  index,    \* i
  prev,     \* prev_offset
  ref,      \* the block picked
  memory    \* instance.memory: the pass that wrote each block, 0 for none

segment == <<at, pos, index, prev, ref>>
vars == <<threads, main, pass, slice, next, segment, memory>>

TypeOK ==
  /\ threads \in 1..Lanes
  /\ main \in {"fill", "filled", "failed", "final"}
  /\ pass \in 0..Passes /\ slice \in Slice /\ next \in 0..Lanes
  /\ at \in [Lane -> {"none", "pick", "write", "ended"}]
  /\ pos \in [Lane -> (0..Passes) \X Slice]
  /\ index \in [Lane -> 0..SegmentLength]
  /\ prev \in [Lane -> (0..Lanes) \X Column]  \* it may run over the end
  /\ ref \in [Lane -> Block]
  /\ memory \in [Block -> 0..Passes]

\* initialize: fill_first_blocks writes two blocks of each lane.
Init ==
  /\ threads \in 1..Lanes
  /\ main = "fill" /\ pass = 0 /\ slice = 0 /\ next = 0
  /\ at = [l \in Lane |-> "none"]
  /\ pos = [l \in Lane |-> <<0, 0>>]
  /\ index = [l \in Lane |-> 0]
  /\ prev = [l \in Lane |-> NoRef] /\ ref = prev
  /\ memory = [b \in Block |-> IF b[2] < 2 THEN 1 ELSE 0]

-----------------------------------------------------------------------------
(***************************************************************************)
(* index_alpha                                                             *)
(***************************************************************************)

\* How many blocks of a lane lie in segments that are finished and are not to
\* be written again before this one is.
FinishedArea(p) == IF p[1] = 0 THEN p[2] * SegmentLength ELSE LaneLength - SegmentLength

\* A fault for the checks: the block before it is not left out.
AreaWithPrevious(p, i, sameLane) == FinishedArea(p) + (IF sameLane THEN i ELSE 0)

ReferenceAreaSize(p, i, sameLane) ==
  FinishedArea(p) + (IF sameLane THEN i - 1 ELSE IF i = 0 THEN -1 ELSE 0)

\* The number is mapped to 0..area - 1, with more weight on the later blocks.
RelativePosition(area, rand) == area - 1 - (area * ((rand * rand) \div Width)) \div Width

\* A fault for the checks: one slice too early.
StartOfSlice(p) == IF p[1] = 0 \/ p[2] = 0 THEN 0 ELSE p[2] * SegmentLength

StartPosition(p) == IF p[1] = 0 \/ p[2] = SyncPoints - 1 THEN 0 ELSE (p[2] + 1) * SegmentLength

\* A fault for the checks: the sum is not taken modulo the lane.
IndexWithoutWrap(p, i, rand, sameLane) ==
  StartPosition(p) + RelativePosition(ReferenceAreaSize(p, i, sameLane), rand)

IndexAlpha(p, i, rand, sameLane) ==
  (StartPosition(p) + RelativePosition(ReferenceAreaSize(p, i, sameLane), rand))
    % LaneLength

-----------------------------------------------------------------------------
(***************************************************************************)
(* fill_segment, on the thread of lane l                                   *)
(***************************************************************************)
StartingIndex(p) == IF p = <<0, 0>> THEN 2 ELSE 0
ColumnAt(p, i) == p[2] * SegmentLength + i
Current(l) == <<l, ColumnAt(pos[l], index[l])>>

\* The next block in the memory, where the lanes lie behind each other.
After(b) == IF b[2] = LaneLength - 1 THEN <<b[1] + 1, 0>> ELSE <<b[1], b[2] + 1>>

\* The first block of a lane has the last one before it.
FirstPrevious(b) == <<b[1], IF b[2] = 0 THEN LaneLength - 1 ELSE b[2] - 1>>

\* ++prev_offset has run over the end of the lane.
Rotated(b, p) == IF b[2] = 1 THEN <<b[1], 0>> ELSE p

\* The thread of lane l starts, with its copy of the position.
Begin(l, p) ==
  /\ at' = [at EXCEPT ![l] = "pick"]
  /\ pos' = [pos EXCEPT ![l] = p]
  /\ index' = [index EXCEPT ![l] = StartingIndex(p)]
  /\ prev' = [prev EXCEPT ![l] = FirstPrevious(<<l, ColumnAt(p, StartingIndex(p))>>)]
  /\ UNCHANGED ref

\* "Can not reference other lanes yet"
ReferenceLanes(l, p) == IF p = <<0, 0>> THEN {l} ELSE Lane

\* A block is picked, and read together with the one before.
Pick(l) ==
  /\ at[l] = "pick" /\ index[l] < SegmentLength
  /\ prev' = [prev EXCEPT ![l] = Rotated(Current(l), @)]
  /\ \E rand \in 0..Width - 1, refLane \in ReferenceLanes(l, pos[l]) :
       ref' = [ref EXCEPT ![l] =
                 <<refLane, IndexAlpha(pos[l], index[l], rand, refLane = l)>>]
  /\ at' = [at EXCEPT ![l] = "write"]
  /\ UNCHANGED <<threads, main, pass, slice, next, pos, index, memory>>

\* The end of fill_block, and of the loop's body.
Write(l) ==
  /\ at[l] = "write"
  /\ memory' = [memory EXCEPT ![Current(l)] = pos[l][1] + 1]
  /\ index' = [index EXCEPT ![l] = @ + 1]
  /\ prev' = [prev EXCEPT ![l] = After(@)]
  /\ ref' = [ref EXCEPT ![l] = NoRef]
  /\ at' = [at EXCEPT ![l] = "pick"]
  /\ UNCHANGED <<threads, main, pass, slice, next, pos>>

End(l) ==
  /\ at[l] = "pick" /\ index[l] = SegmentLength
  /\ at' = [at EXCEPT ![l] = "ended"]
  /\ index' = [index EXCEPT ![l] = 0] /\ prev' = [prev EXCEPT ![l] = NoRef]
  /\ UNCHANGED <<threads, main, pass, slice, next, pos, ref, memory>>

-----------------------------------------------------------------------------
(***************************************************************************)
(* fill_memory_blocks.  With one thread fill_memory_blocks_st fills the    *)
(* segments in the order in which fill_memory_blocks_mt would.             *)
(***************************************************************************)

\* A fault for the checks: the thread joined is the one after.
JoinsNextOne == /\ main = "fill" /\ next < Lanes
                /\ next >= threads => at[next - threads + 1] = "ended"

\* A fault for the checks: no thread is joined before the others are created.
CreatesAll == main = "fill" /\ next < Lanes

\* "Join a thread if limit is exceeded"
MayCreate == /\ main = "fill" /\ next < Lanes
             /\ next >= threads => at[next - threads] = "ended"

CreateThread ==
  /\ MayCreate
  /\ Begin(next, <<pass, slice>>)
  /\ next' = next + 1
  /\ UNCHANGED <<threads, main, pass, slice, memory>>

\* ARGON2_THREAD_FAIL: the threads that run are not joined.
CreateFails ==
  /\ MayFail /\ threads > 1 /\ MayCreate
  /\ main' = "failed"
  /\ UNCHANGED <<threads, pass, slice, next, segment, memory>>

\* "Joining remaining threads": the earlier ones were joined above.
Remaining == Lanes - threads..Lanes - 1

\* The end of the loop over the slices, and of that over the passes.
NextSlice ==
  /\ main = "fill" /\ next = Lanes
  /\ \A l \in Remaining : at[l] = "ended"
  /\ next' = 0
  /\ slice' = (slice + 1) % SyncPoints
  /\ pass' = IF slice = SyncPoints - 1 THEN pass + 1 ELSE pass
  /\ main' = IF pass' = Passes THEN "filled" ELSE "fill"
  /\ UNCHANGED <<threads, segment, memory>>

\* finalize reads the last block of each lane and frees the memory.
Finalize ==
  /\ main = "filled"
  /\ main' = "final"
  /\ UNCHANGED <<threads, pass, slice, next, segment, memory>>

\* After a failure the threads that run refer to an instance that is gone.
FillSegment(l) == main # "failed" /\ (Pick(l) \/ Write(l) \/ End(l))
FillMemory == CreateThread \/ NextSlice \/ Finalize
Next == FillMemory \/ CreateFails \/ \E l \in Lane : FillSegment(l)

\* The caller and its threads run.
Fairness == WF_vars(FillMemory) /\ \A l \in Lane : WF_vars(FillSegment(l))
Spec == Init /\ [][Next]_vars /\ Fairness

-----------------------------------------------------------------------------

\* For a thread at p that writes its block i: what a block holds by the rules
\* of Argon2 whatever the other threads do.  A slice before its own has been
\* written in its pass, one to come has not, and of its own lane it knows its
\* own progress; of the other lanes' blocks in its slice it knows nothing.
Settled(l, b) == b[1] = l \/ b[2] \div SegmentLength # pos[l][2]
Holds(l, b) ==
  LET written == IF b[1] = l THEN ColumnAt(pos[l], index[l]) ELSE ColumnAt(pos[l], 0)
  IN  IF b[2] < written THEN pos[l][1] + 1 ELSE pos[l][1]

\* What is read while a block is computed is the same however the threads run:
\* the block picked is not one that another thread may be writing, both blocks
\* were filled by the pass that Argon2 says, and the block before is the one
\* before in the lane.
ReadsAreSettled ==
  \A l \in Lane : at[l] = "write" =>
    /\ Settled(l, ref[l]) /\ memory[ref[l]] = Holds(l, ref[l]) /\ memory[ref[l]] > 0
    /\ prev[l] = FirstPrevious(Current(l))
    /\ memory[prev[l]] = Holds(l, prev[l]) /\ memory[prev[l]] > 0

\* The block picked is neither the one to be written nor the one before it,
\* at the two ends of the area that index_alpha computes.
PicksAnother ==
  \A l \in Lane : at[l] = "write" => ref[l] \notin {prev[l], Current(l)}

\* All threads at work are at the slice that is being filled, `threads' of them
\* at most, and finalize finds no thread at work and every block at its last
\* pass.
SlicesInStep ==
  LET AtWork == {l \in Lane : at[l] \in {"pick", "write"}}
  IN  /\ \A l \in AtWork : pos[l] = <<pass, slice>>
      /\ Cardinality(AtWork) <= threads
      /\ main \in {"filled", "final"} => AtWork = {} /\ \A b \in Block : memory[b] = Passes

\* The memory is filled, unless a thread could not be created.
Finishes == <>(main \in {"final", "failed"})
=============================================================================
