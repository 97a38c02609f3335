-------------------------- MODULE Argon2Fill_proof --------------------------
EXTENDS Argon2Fill, FiniteSetTheorems, TLAPS

(***************************************************************************)
(* Division, as the segment length and index_alpha use it.                 *)
(***************************************************************************)

\* A quotient is below k when the dividend is below k times the divisor.
LEMMA QuotientBelow ==
  ASSUME NEW a \in Nat, NEW w \in Nat \ {0}, NEW k \in Nat, a < k * w
  PROVE  a \div w \in Nat /\ a \div w < k
<1> DEFINE q == a \div w
<1>1. q \in Int /\ (a % w) \in 0..w - 1 /\ a = w * q + (a % w)
  BY Z3
<1>2. q >= 0
  BY <1>1, Z3
<1>3. ASSUME q >= k PROVE FALSE
  <2>1. w * q >= w * k
    BY <1>1, <1>3, Z3
  <2> QED BY <1>1, <2>1, Z3
<1> QED BY <1>1, <1>2, <1>3

\* A quotient is k at least when the dividend is k times the divisor at least.
LEMMA QuotientAtLeast ==
  ASSUME NEW a \in Nat, NEW w \in Nat \ {0}, NEW k \in Nat, a >= k * w
  PROVE  a \div w \in Nat /\ a \div w >= k
<1> DEFINE q == a \div w
<1>1. q \in Int /\ (a % w) \in 0..w - 1 /\ a = w * q + (a % w)
  BY Z3
<1>2. q >= 0
  BY <1>1, Z3
<1>3. ASSUME q <= k - 1 PROVE FALSE
  <2>1. w * q <= w * (k - 1)
    BY <1>1, <1>3, Z3
  <2>2. w * (k - 1) = w * k - w
    BY Z3
  <2> QED BY <1>1, <2>1, <2>2, Z3
<1> QED BY <1>1, <1>2, <1>3

\* The remainder of a sum that passes the end of a lane once at most.
LEMMA Wrap ==
  ASSUME NEW a \in Nat, NEW w \in Nat \ {0}, a < 2 * w
  PROVE  (a % w) = IF a < w THEN a ELSE a - w
<1> DEFINE q == a \div w
<1>1. q \in Int /\ (a % w) \in 0..w - 1 /\ a = w * q + (a % w)
  BY Z3
<1>2. q \in Nat /\ q < 2
  BY QuotientBelow
<1>3. q = 0 \/ q = 1
  BY <1>2
<1> QED BY <1>1, <1>3

LEMMA SegmentFacts ==
  /\ SegmentLength \in Nat /\ SegmentLength >= 2
  /\ LaneLength = 4 * SegmentLength
<1>1. Lanes * SyncPoints \in Nat \ {0} /\ MCost >= 2 * (Lanes * SyncPoints) /\ MCost \in Nat
  BY LanesAssumption, CostAssumption DEF SyncPoints
<1> QED BY <1>1, QuotientAtLeast DEF SegmentLength, LaneLength, SyncPoints

\* A column lies in the slice that its quotient names.
LEMMA SliceOfColumn ==
  ASSUME NEW c \in Nat, NEW s \in Nat,
         c \div SegmentLength = s
  PROVE  s * SegmentLength <= c /\ c < s * SegmentLength + SegmentLength
<1> DEFINE L == SegmentLength
<1>1. L \in Nat \ {0}
  BY SegmentFacts
<1> HIDE DEF L
<1>2. (c % L) \in 0..L - 1 /\ c = L * (c \div L) + (c % L)
  BY <1>1, Z3
<1>3. c \div L = s
  BY DEF L
<1> QED BY <1>1, <1>2, <1>3, Z3 DEF L

-----------------------------------------------------------------------------
(***************************************************************************)
(* index_alpha                                                             *)
(***************************************************************************)

\* The pseudo-random number is mapped into the area.
LEMMA InArea ==
  ASSUME NEW area \in Nat \ {0}, NEW rand \in 0..Width - 1
  PROVE  RelativePosition(area, rand) \in 0..area - 1
<1>1. Width \in Nat \ {0} /\ rand \in Nat /\ rand < Width
  BY WidthAssumption
<1> DEFINE phi == (rand * rand) \div Width
<1>2. rand * rand \in Nat /\ rand * rand < Width * Width
  BY <1>1, Z3
<1>3. phi \in Nat /\ phi < Width
  BY <1>1, <1>2, QuotientBelow
<1> HIDE DEF phi
<1>4. area * phi \in Nat /\ area * phi < area * Width
  BY <1>1, <1>3, Z3
<1>5. (area * phi) \div Width \in Nat /\ (area * phi) \div Width < area
  BY <1>1, <1>4, QuotientBelow
<1> QED BY <1>5 DEF RelativePosition, phi

\* The positions at which fill_segment asks for a block.
Asks(p, i, sameLane) ==
  /\ p \in Nat \X Slice /\ i \in 0..SegmentLength - 1 /\ sameLane \in BOOLEAN
  /\ p = <<0, 0>> => i >= 2 /\ sameLane

\* What index_alpha may answer: a block of the lane that is not the one to be
\* written nor the one before, that was written in the first pass if this is
\* it, and that is in another slice if it is in another lane.
Answers(p, i, sameLane, c) ==
  LET first == p[2] * SegmentLength
      current == first + i
  IN  /\ c \in Column
      /\ sameLane => /\ c # current
                     /\ c # IF current = 0 THEN LaneLength - 1 ELSE current - 1
                     /\ p[1] = 0 => c < current
      /\ ~sameLane => /\ c < first \/ c >= first + SegmentLength
                      /\ p[1] = 0 => c < first

LEMMA IndexAlphaAnswers ==
  ASSUME NEW p, NEW i, NEW sameLane, NEW rand \in 0..Width - 1, Asks(p, i, sameLane)
  PROVE  Answers(p, i, sameLane, IndexAlpha(p, i, rand, sameLane))
<1> DEFINE L == SegmentLength
           area == ReferenceAreaSize(p, i, sameLane)
           rel == RelativePosition(area, rand)
           sum == StartPosition(p) + rel
           c == IndexAlpha(p, i, rand, sameLane)
<1>1. L \in Nat /\ L >= 2 /\ LaneLength = 4 * L
  BY SegmentFacts
<1>2. p[1] \in Nat /\ p[2] \in 0..3 /\ p = <<p[1], p[2]>> /\ i \in 0..L - 1
      /\ sameLane \in BOOLEAN
  BY DEF Asks, Slice, SyncPoints
<1>3. p[1] = 0 /\ p[2] = 0 => i >= 2 /\ sameLane
  BY <1>2 DEF Asks
<1> DEFINE more == IF sameLane THEN i - 1 ELSE IF i = 0 THEN -1 ELSE 0
<1>4. area = (IF p[1] = 0 THEN p[2] * L ELSE 3 * L) + more
  BY <1>1, <1>2 DEF ReferenceAreaSize, FinishedArea
<1>5. StartPosition(p) = IF p[1] = 0 \/ p[2] = 3 THEN 0 ELSE (p[2] + 1) * L
  BY <1>2 DEF StartPosition, SyncPoints
<1> HIDE DEF L, area, more
<1>6. more \in Int /\ more <= i /\ more >= -1 /\ (sameLane => more = i - 1)
      /\ (~sameLane => more <= 0)
  BY <1>2 DEF more
<1>7. area \in Nat \ {0} /\ area < 4 * L
  <2>1. CASE p[1] = 0 /\ p[2] = 0
    BY <1>1, <1>2, <1>3, <1>4, <1>6, <2>1
  <2>2. CASE p[1] = 0 /\ p[2] \in 1..3
    <3>1. p[2] = 1 \/ p[2] = 2 \/ p[2] = 3
      BY <2>2
    <3> QED BY <1>1, <1>2, <1>4, <1>6, <2>2, <3>1
  <2>3. CASE p[1] # 0
    BY <1>1, <1>2, <1>4, <1>6, <2>3
  <2> QED BY <1>2, <2>1, <2>2, <2>3
<1>8. rel \in 0..area - 1
  BY <1>7, InArea
<1>9. c = IF sum < 4 * L THEN sum ELSE sum - 4 * L
  <2> DEFINE w == 4 * L
  <2>1. w \in Nat \ {0} /\ sum \in Nat /\ sum < 2 * w
    <3>1. StartPosition(p) \in {0, L, 2 * L, 3 * L}
      BY <1>1, <1>2, <1>5
    <3>2. rel \in Nat /\ rel < 4 * L
      BY <1>1, <1>7, <1>8
    <3> HIDE DEF rel
    <3> QED BY <1>1, <3>1, <3>2
  <2>2. c = sum % w
    BY <1>1 DEF IndexAlpha, area
  <2> HIDE DEF w, sum, c
  <2>3. c = IF sum < w THEN sum ELSE sum - w
    BY <2>1, <2>2, Wrap
  <2> QED BY <2>3 DEF w
<1> SUFFICES Answers(p, i, sameLane, c)
  OBVIOUS
<1> HIDE DEF rel, c
<1>10. CASE p[1] = 0
  <2>1. rel < p[2] * L + more /\ rel \in 0..4 * L - 1 /\ sum = rel
    BY <1>1, <1>2, <1>4, <1>5, <1>6, <1>7, <1>8, <1>10
  <2>2. c = rel
    BY <1>1, <1>9, <2>1
  <2>3. p[2] * L \in 0..3 * L
    BY <1>1, <1>2
  <2> QED BY <1>1, <1>2, <1>6, <1>10, <2>1, <2>2, <2>3 DEF Answers, Column, L
<1>11. CASE p[1] # 0
  <2>1. rel \in Nat /\ rel < 3 * L + more
    BY <1>1, <1>4, <1>6, <1>8, <1>11
  <2>2. CASE p[2] = 0
    <3>1. sum = L + rel
      BY <1>1, <1>5, <1>6, <1>11, <2>1, <2>2
    <3>2. c \in Nat /\ c = IF L + rel < 4 * L THEN L + rel ELSE L + rel - 4 * L
      BY <1>1, <1>6, <1>9, <2>1, <3>1
    <3> QED BY <1>1, <1>2, <1>6, <1>11, <2>1, <2>2, <3>2 DEF Answers, Column, L
  <2>3. CASE p[2] = 1
    <3>1. sum = 2 * L + rel
      BY <1>1, <1>5, <1>6, <1>11, <2>1, <2>3
    <3>2. c \in Nat /\ c = IF 2 * L + rel < 4 * L THEN 2 * L + rel ELSE 2 * L + rel - 4 * L
      BY <1>1, <1>6, <1>9, <2>1, <3>1
    <3> QED BY <1>1, <1>2, <1>6, <1>11, <2>1, <2>3, <3>2 DEF Answers, Column, L
  <2>4. CASE p[2] = 2
    <3>1. sum = 3 * L + rel
      BY <1>1, <1>5, <1>6, <1>11, <2>1, <2>4
    <3>2. c \in Nat /\ c = IF 3 * L + rel < 4 * L THEN 3 * L + rel ELSE 3 * L + rel - 4 * L
      BY <1>1, <1>6, <1>9, <2>1, <3>1
    <3> QED BY <1>1, <1>2, <1>6, <1>11, <2>1, <2>4, <3>2 DEF Answers, Column, L
  <2>5. CASE p[2] = 3
    <3>1. sum = rel
      BY <1>1, <1>5, <1>6, <1>11, <2>1, <2>5
    <3>2. c \in Nat /\ c = IF rel < 4 * L THEN rel ELSE rel - 4 * L
      BY <1>1, <1>6, <1>9, <2>1, <3>1
    <3> QED BY <1>1, <1>2, <1>6, <1>11, <2>1, <2>5, <3>2 DEF Answers, Column, L
  <2> QED BY <1>2, <2>2, <2>3, <2>4, <2>5
<1> QED BY <1>10, <1>11, <1>2

-----------------------------------------------------------------------------
(***************************************************************************)
(* The inductive invariant: where main and the threads may be, and what    *)
(* each block holds, as a function of where they are.                      *)
(***************************************************************************)
Working(l) == at[l] \in {"pick", "write"}

\* Threads work on the slice that is being filled; all but the last `threads'
\* created have been joined.
InStep ==
  /\ \A l \in Lane : Working(l) => l < next /\ pos[l] = <<pass, slice>>
  /\ \A l \in Lane : l < next => at[l] # "none"
  /\ \A l \in Lane : l < next - threads => at[l] = "ended"
  /\ main \in {"fill", "failed"} => pass < Passes
  /\ main \in {"filled", "final"} => pass = Passes /\ slice = 0 /\ next = 0

\* prev_offset is right when it is used.
OffsetsOf(l) ==
  /\ index[l] >= StartingIndex(pos[l])
  /\ at[l] = "write" => index[l] < SegmentLength /\ prev[l] = FirstPrevious(Current(l))
  /\ at[l] = "pick" /\ index[l] < SegmentLength /\ ColumnAt(pos[l], index[l]) # 1
       => prev[l] = FirstPrevious(Current(l))
Offsets == \A l \in Lane : Working(l) => OffsetsOf(l)

Picked ==
  \A l \in Lane : at[l] = "write" =>
    Answers(pos[l], index[l], ref[l][1] = l, ref[l][2])

\* How far a lane has been written in this pass.
Progress(l) ==
  IF l < next
  THEN IF at[l] = "ended" THEN slice * SegmentLength + SegmentLength
                          ELSE slice * SegmentLength + index[l]
  ELSE slice * SegmentLength + StartingIndex(<<pass, slice>>)

Contents ==
  \A l \in Lane, c \in Column :
    memory[<<l, c>>] = IF c < Progress(l) THEN pass + 1 ELSE pass

IInv == TypeOK /\ InStep /\ Offsets /\ Picked /\ Contents

LEMMA SliceFacts ==
  ASSUME NEW s \in Slice
  PROVE  /\ s * SegmentLength \in Nat
         /\ s * SegmentLength + SegmentLength <= LaneLength
         /\ (s + 1) * SegmentLength = s * SegmentLength + SegmentLength
         /\ s = 3 => s * SegmentLength + SegmentLength = LaneLength
<1>1. s = 0 \/ s = 1 \/ s = 2 \/ s = 3
  BY DEF Slice, SyncPoints
<1> QED BY <1>1, SegmentFacts

LEMMA Constants ==
  /\ SegmentLength \in Nat /\ SegmentLength >= 2
  /\ LaneLength \in Nat /\ LaneLength = 4 * SegmentLength
  /\ Lanes \in Nat \ {0} /\ Lane = 0..Lanes - 1 /\ Slice = 0..3
  /\ Passes \in Nat \ {0}
  /\ Column = 0..LaneLength - 1
BY SegmentFacts, LanesAssumption, PassesAssumption DEF Lane, Slice, Column, SyncPoints

LEMMA NoRefIsBlock == NoRef \in Block /\ NoRef \in (0..Lanes) \X Column
BY Constants DEF NoRef, Block

LEMMA InitIInv == Init => IInv
<1> SUFFICES ASSUME Init PROVE IInv
  OBVIOUS
<1>1. TypeOK
  <2>1. memory \in [Block -> 0..Passes]
    BY Constants DEF Init
  <2> QED BY <2>1, NoRefIsBlock, Constants DEF Init, TypeOK
<1>2. InStep /\ Offsets /\ Picked
  BY Constants DEF Init, InStep, Offsets, Picked, Working
<1>3. Contents
  BY Constants DEF Init, Contents, Progress, StartingIndex, Block
<1> QED BY <1>1, <1>2, <1>3 DEF IInv

\* What the steps need to know of a thread at work, unfolded once.
LEMMA WorkingFacts ==
  ASSUME IInv, NEW l \in Lane, Working(l)
  PROVE  /\ l \in Int /\ 0 <= l /\ l < Lanes /\ l < next
         /\ pass \in Nat /\ slice \in Slice /\ pass < Passes
         /\ pos[l] = <<pass, slice>> /\ pos[l][1] = pass /\ pos[l][2] = slice
         /\ index[l] \in 0..SegmentLength
         /\ slice * SegmentLength \in Nat
         /\ slice * SegmentLength + SegmentLength <= LaneLength
         /\ ColumnAt(pos[l], index[l]) = slice * SegmentLength + index[l]
         /\ Current(l) = <<l, slice * SegmentLength + index[l]>>
         /\ Progress(l) = slice * SegmentLength + index[l]
<1>1. l \in Int /\ 0 <= l /\ l < Lanes
  BY Constants
<1>2. pass \in 0..Passes /\ slice \in Slice /\ index[l] \in 0..SegmentLength
      /\ main \in {"fill", "filled", "failed", "final"}
  BY DEF IInv, TypeOK
<1>3. l < next /\ pos[l] = <<pass, slice>>
  BY DEF IInv, InStep
<1>4. main \in {"fill", "failed"} /\ pass < Passes
  <2>1. main \in {"filled", "final"} => next = 0
    BY DEF IInv, InStep
  <2> QED BY <1>1, <1>2, <1>3, <2>1 DEF IInv, InStep
<1>5. at[l] # "ended"
  BY DEF Working
<1>6. pos[l][1] = pass /\ pos[l][2] = slice
  BY <1>3
<1> QED BY <1>1, <1>2, <1>3, <1>4, <1>5, <1>6, Constants, SliceFacts
        DEF ColumnAt, Current, Progress

LEMMA PickIInv == ASSUME IInv, NEW l \in Lane, Pick(l) PROVE IInv'
<1> DEFINE cur == slice * SegmentLength + index[l]
<1>1. Working(l)
  BY DEF Pick, Working
<1>2. /\ l \in Int /\ 0 <= l /\ l < Lanes /\ l < next
      /\ pass \in Nat /\ slice \in 0..3 /\ pass < Passes
      /\ pos[l] = <<pass, slice>> /\ pos[l][1] = pass /\ pos[l][2] = slice
      /\ index[l] \in 0..SegmentLength - 1 /\ cur \in Nat /\ cur < LaneLength
      /\ ColumnAt(pos[l], index[l]) = cur
      /\ Current(l) = <<l, cur>>
  BY <1>1, WorkingFacts, Constants DEF Pick
<1>3. PICK rand \in 0..Width - 1, refLane \in ReferenceLanes(l, pos[l]) :
        ref' = [ref EXCEPT ![l] =
                  <<refLane, IndexAlpha(pos[l], index[l], rand, refLane = l)>>]
  BY DEF Pick
<1> DEFINE c == IndexAlpha(pos[l], index[l], rand, refLane = l)
<1>4. refLane \in Lane
  BY <1>3, <1>2 DEF ReferenceLanes
<1>5. Asks(pos[l], index[l], refLane = l)
  <2>1. pos[l] = <<0, 0>> => refLane = l
    BY <1>3 DEF ReferenceLanes
  <2>2. pos[l] = <<0, 0>> => index[l] >= 2
    BY <1>1 DEF IInv, Offsets, StartingIndex, OffsetsOf
  <2> QED BY <1>2, <2>1, <2>2, Constants DEF Asks
<1>6. Answers(pos[l], index[l], refLane = l, c) /\ c \in Column
  <2>1. Answers(pos[l], index[l], refLane = l, c)
    BY <1>3, <1>5, IndexAlphaAnswers
  <2> HIDE DEF c
  <2> QED BY <2>1 DEF Answers
<1> HIDE DEF c
<1>7. ref' = [ref EXCEPT ![l] = <<refLane, c>>]
  BY <1>3 DEF c
<1>8. prev' = [prev EXCEPT ![l] = FirstPrevious(Current(l))]
  <2>1. Rotated(Current(l), prev[l]) = FirstPrevious(Current(l))
    <3>1. at[l] = "pick" /\ OffsetsOf(l) /\ Current(l)[2] = cur
      BY <1>1, <1>2 DEF IInv, Offsets, Pick
    <3>2. CASE cur = 1
      BY <1>2, <3>2 DEF Rotated, FirstPrevious
    <3>3. CASE cur # 1
      BY <1>2, <3>1, <3>3, Constants DEF Rotated, OffsetsOf
    <3> QED BY <3>2, <3>3
  <2> QED BY <2>1 DEF Pick
<1>9. FirstPrevious(Current(l)) \in (0..Lanes) \X Column
  BY <1>2, Constants DEF FirstPrevious
<1>10. TypeOK'
  <2>1. ref' \in [Lane -> Block]
    BY <1>4, <1>6, <1>7 DEF IInv, TypeOK, Block
  <2>2. prev' \in [Lane -> (0..Lanes) \X Column]
    BY <1>8, <1>9 DEF IInv, TypeOK
  <2> QED BY <2>1, <2>2 DEF IInv, TypeOK, Pick
<1>11. InStep'
  BY <1>1 DEF IInv, TypeOK, InStep, Pick, Working
<1>12. Offsets'
  <2> SUFFICES ASSUME NEW m \in Lane, Working(m)'
               PROVE  OffsetsOf(m)'
    BY DEF Offsets
  <2>1. CASE m = l
    BY <1>1, <1>2, <1>8, <2>1, Constants DEF IInv, TypeOK, Offsets, OffsetsOf, Pick, Current
  <2>2. CASE m # l
    BY <1>8, <2>2 DEF IInv, TypeOK, Offsets, OffsetsOf, Pick, Current, Working
  <2> QED BY <2>1, <2>2
<1>13. Picked'
  <2> SUFFICES ASSUME NEW m \in Lane, at'[m] = "write"
               PROVE  Answers(pos[m], index[m], ref'[m][1] = m, ref'[m][2])
    BY DEF Picked, Pick, Answers
  <2>1. CASE m = l
    BY <1>6, <1>7, <2>1 DEF IInv, TypeOK
  <2>2. CASE m # l
    BY <1>7, <2>2 DEF IInv, TypeOK, Picked, Pick
  <2> QED BY <2>1, <2>2
<1>14. Contents'
  <2>1. \A m \in Lane : (at'[m] = "ended") <=> (at[m] = "ended")
    BY DEF IInv, TypeOK, Pick
  <2>2. \A m \in Lane : Progress(m)' = Progress(m)
    BY <2>1 DEF Progress, Pick
  <2> QED BY <2>2 DEF IInv, Contents, Pick
<1> QED BY <1>10, <1>11, <1>12, <1>13, <1>14 DEF IInv

LEMMA WriteIInv == ASSUME IInv, NEW l \in Lane, Write(l) PROVE IInv'
<1> DEFINE cur == slice * SegmentLength + index[l]
<1>1. Working(l)
  BY DEF Write, Working
<1>2. /\ l \in Int /\ 0 <= l /\ l < Lanes /\ l < next
      /\ pass \in Nat /\ slice \in 0..3 /\ pass < Passes
      /\ pos[l] = <<pass, slice>> /\ pos[l][1] = pass /\ pos[l][2] = slice
      /\ cur \in Nat /\ cur < LaneLength
      /\ index[l] \in 0..SegmentLength - 1
      /\ ColumnAt(pos[l], index[l]) = cur
      /\ Current(l) = <<l, cur>> /\ Progress(l) = cur
      /\ prev[l] = FirstPrevious(<<l, cur>>)
  <2>1. index[l] < SegmentLength /\ prev[l] = FirstPrevious(Current(l))
    BY <1>1 DEF Write, IInv, Offsets, OffsetsOf
  <2> QED BY <1>1, <2>1, WorkingFacts, Constants
<1>3. slice * SegmentLength \in Nat /\ index[l] \in Nat
  <2>1. slice * SegmentLength \in Nat /\ index[l] \in 0..SegmentLength
    BY <1>1, WorkingFacts
  <2> QED BY <2>1
<1>4. /\ memory' = [memory EXCEPT ![<<l, cur>>] = pass + 1]
      /\ index' = [index EXCEPT ![l] = @ + 1]
      /\ prev' = [prev EXCEPT ![l] = After(FirstPrevious(<<l, cur>>))]
      /\ at' = [at EXCEPT ![l] = "pick"]
      /\ UNCHANGED <<threads, main, pass, slice, next, pos>>
  BY <1>2 DEF Write
<1>5. <<l, cur>> \in Block
  BY <1>2, Constants DEF Block
<1>6. After(FirstPrevious(<<l, cur>>)) = IF cur = 0 THEN <<l + 1, 0>> ELSE <<l, cur>>
  BY <1>2, Constants DEF After, FirstPrevious
<1>7. TypeOK'
  <2>1. memory' \in [Block -> 0..Passes]
    BY <1>2, <1>4, <1>5, Constants DEF IInv, TypeOK
  <2>2. prev' \in [Lane -> (0..Lanes) \X Column]
    <3>1. After(FirstPrevious(<<l, cur>>)) \in (0..Lanes) \X Column
      BY <1>2, <1>6, Constants
    <3> QED BY <1>4, <3>1 DEF IInv, TypeOK
  <2>3. index' \in [Lane -> 0..SegmentLength]
    <3>1. index[l] + 1 \in 0..SegmentLength
      BY <1>2, Constants
    <3> QED BY <1>4, <3>1 DEF IInv, TypeOK
  <2>4. ref' \in [Lane -> Block]
    BY NoRefIsBlock DEF IInv, TypeOK, Write
  <2> QED BY <1>4, <2>1, <2>2, <2>3, <2>4 DEF IInv, TypeOK
<1>8. InStep'
  BY <1>1, <1>4 DEF IInv, TypeOK, InStep, Working
<1>9. Offsets'
  <2> SUFFICES ASSUME NEW m \in Lane, Working(m)'
               PROVE  OffsetsOf(m)'
    BY DEF Offsets
  <2>1. CASE m = l
    <3>1. index'[l] = index[l] + 1 /\ at'[l] = "pick" /\ pos' = pos
      BY <1>4 DEF IInv, TypeOK
    <3>2. index'[l] >= StartingIndex(pos[l])
      <4>1. index[l] >= StartingIndex(pos[l])
        BY <1>1 DEF IInv, Offsets, OffsetsOf
      <4>2. StartingIndex(pos[l]) \in Nat /\ index[l] \in Nat
        BY <1>2, Constants DEF StartingIndex
      <4> QED BY <3>1, <4>1, <4>2
    <3>3. ColumnAt(pos[l], index'[l]) = cur + 1
      <4> DEFINE first == slice * SegmentLength
      <4>1. ColumnAt(pos[l], index'[l]) = first + index'[l]
        BY <1>2 DEF ColumnAt
      <4>2. first \in Nat /\ index[l] \in Nat
        BY <1>3
      <4>3. cur = first + index[l]
        OBVIOUS
      <4> HIDE DEF first, cur
      <4> QED BY <3>1, <4>1, <4>2, <4>3
    <3>4. cur + 1 # 1 => prev'[l] = FirstPrevious(<<l, cur + 1>>)
      <4>1. prev'[l] = IF cur = 0 THEN <<l + 1, 0>> ELSE <<l, cur>>
        BY <1>4, <1>6 DEF IInv, TypeOK
      <4>2. FirstPrevious(<<l, cur + 1>>) = <<l, cur>>
        BY <1>2 DEF FirstPrevious
      <4>3. cur + 1 # 1 => cur # 0
        BY <1>2
      <4> QED BY <4>1, <4>2, <4>3
    <3> QED BY <1>2, <2>1, <3>1, <3>2, <3>3, <3>4 DEF OffsetsOf, Current
  <2>2. CASE m # l
    BY <1>4, <2>2 DEF IInv, TypeOK, Offsets, OffsetsOf, Current, Working
  <2> QED BY <2>1, <2>2
<1>10. Picked'
  BY <1>4 DEF IInv, TypeOK, Picked, Answers, Write
<1>11. Contents'
  <2> SUFFICES ASSUME NEW m \in Lane, NEW c \in Column
               PROVE  memory'[<<m, c>>] = IF c < Progress(m)' THEN pass + 1 ELSE pass
    BY <1>4 DEF Contents
  <2>1. memory[<<m, c>>] = IF c < Progress(m) THEN pass + 1 ELSE pass
    BY DEF IInv, Contents
  <2>2. CASE m = l
    <3>1. Progress(l)' = cur + 1
      <4>1. index'[l] = index[l] + 1 /\ at'[l] # "ended"
        BY <1>4 DEF IInv, TypeOK
      <4> DEFINE first == slice * SegmentLength
      <4>2. Progress(l)' = first + index'[l]
        BY <1>2, <1>4, <4>1 DEF Progress
      <4>3. first \in Nat /\ index[l] \in Nat
        BY <1>3
      <4>4. cur = first + index[l]
        OBVIOUS
      <4> HIDE DEF first, cur
      <4> QED BY <4>1, <4>2, <4>3, <4>4
    <3>2. memory'[<<m, c>>] = IF c = cur THEN pass + 1 ELSE memory[<<m, c>>]
      BY <1>4, <1>5, <2>2 DEF IInv, TypeOK, Block
    <3>3. cur \in Nat /\ c \in Nat /\ Progress(l) = cur
      BY <1>2, Constants
    <3> HIDE DEF cur
    <3> QED BY <2>1, <2>2, <3>1, <3>2, <3>3
  <2>3. CASE m # l
    <3>1. Progress(m)' = Progress(m)
      BY <1>4, <2>3 DEF IInv, TypeOK, Progress
    <3>2. memory'[<<m, c>>] = memory[<<m, c>>]
      BY <1>4, <1>5, <2>3 DEF IInv, TypeOK, Block
    <3> QED BY <2>1, <3>1, <3>2
  <2> QED BY <2>2, <2>3
<1> QED BY <1>7, <1>8, <1>9, <1>10, <1>11 DEF IInv

LEMMA EndIInv == ASSUME IInv, NEW l \in Lane, End(l) PROVE IInv'
<1>1. Working(l)
  BY DEF End, Working
<1>2. l < next /\ Progress(l) = slice * SegmentLength + SegmentLength
  BY <1>1, WorkingFacts DEF End
<1>3. TypeOK'
  <2>1. 0 \in 0..SegmentLength
    BY Constants
  <2> QED BY <2>1, NoRefIsBlock DEF IInv, TypeOK, End
<1>4. InStep'
  BY <1>1 DEF IInv, TypeOK, InStep, End, Working
<1>5. Offsets'
  BY DEF IInv, TypeOK, Offsets, OffsetsOf, Current, End, Working
<1>6. Picked'
  BY DEF IInv, TypeOK, Picked, Answers, End
<1>7. Contents'
  <2>1. \A m \in Lane : Progress(m)' = Progress(m)
    BY <1>2 DEF IInv, TypeOK, Progress, End
  <2> QED BY <2>1 DEF IInv, Contents, End
<1> QED BY <1>3, <1>4, <1>5, <1>6, <1>7 DEF IInv

LEMMA CreateIInv == ASSUME IInv, CreateThread PROVE IInv'
<1> SUFFICES ASSUME NEW n, n = next PROVE IInv'
  OBVIOUS
<1> DEFINE start == StartingIndex(<<pass, slice>>)
           column == ColumnAt(<<pass, slice>>, start)
<1>1. /\ n \in Lane /\ n \in Nat /\ n < Lanes /\ next' = n + 1
      /\ main = "fill" /\ pass \in Nat /\ pass < Passes
      /\ slice \in 0..3 /\ threads \in 1..Lanes
      /\ n >= threads => at[n - threads] = "ended"
  <2>1. main = "fill" /\ next < Lanes /\ next \in 0..Lanes /\ pass \in 0..Passes
        /\ slice \in Slice /\ threads \in 1..Lanes /\ next' = next + 1
        /\ (next >= threads => at[next - threads] = "ended")
    BY DEF CreateThread, MayCreate, IInv, TypeOK
  <2>2. pass < Passes
    BY <2>1 DEF IInv, InStep
  <2> QED BY <2>1, <2>2, Constants
<1>2. start \in 0..SegmentLength /\ column = slice * SegmentLength + start
      /\ column \in Nat /\ column < LaneLength
  <2>1. column = slice * SegmentLength + start
    BY DEF ColumnAt
  <2>2. slice * SegmentLength \in Nat
        /\ slice * SegmentLength + SegmentLength <= LaneLength
    BY <1>1, SliceFacts, Constants
  <2>3. CASE pass = 0 /\ slice = 0
    BY <1>1, <2>1, <2>3, Constants DEF StartingIndex
  <2>4. CASE ~(pass = 0 /\ slice = 0)
    BY <1>1, <2>1, <2>2, <2>4, Constants DEF StartingIndex
  <2> QED BY <2>3, <2>4
<1>3. FirstPrevious(<<n, column>>) \in (0..Lanes) \X Column
  BY <1>1, <1>2, Constants DEF FirstPrevious
<1>4. /\ at' = [at EXCEPT ![n] = "pick"]
      /\ pos' = [pos EXCEPT ![n] = <<pass, slice>>]
      /\ index' = [index EXCEPT ![n] = start]
      /\ prev' = [prev EXCEPT ![n] = FirstPrevious(<<n, column>>)]
      /\ UNCHANGED <<threads, main, pass, slice, memory, ref>>
  BY DEF CreateThread, Begin
<1> HIDE DEF start, column
<1>5. TypeOK'
  <2>1. at' \in [Lane -> {"none", "pick", "write", "ended"}]
        /\ pos' \in [Lane -> (0..Passes) \X Slice]
    BY <1>1, <1>4, Constants DEF IInv, TypeOK
  <2>2. index' \in [Lane -> 0..SegmentLength]
        /\ prev' \in [Lane -> (0..Lanes) \X Column]
    BY <1>1, <1>2, <1>3, <1>4 DEF IInv, TypeOK
  <2>3. next' \in 0..Lanes
    BY <1>1, Constants
  <2> QED BY <1>4, <2>1, <2>2, <2>3 DEF IInv, TypeOK
<1>6. InStep'
  <2>1. \A m \in Lane : Working(m)' => m < next' /\ pos'[m] = <<pass, slice>>
    <3> SUFFICES ASSUME NEW m \in Lane, Working(m)'
                 PROVE  m < n + 1 /\ pos'[m] = <<pass, slice>>
      BY <1>1
    <3>1. CASE m = n
      BY <1>1, <1>4, <3>1 DEF IInv, TypeOK
    <3>2. CASE m # n
      <4>1. Working(m)
        BY <1>4, <3>2 DEF IInv, TypeOK, Working
      <4> QED BY <1>1, <1>4, <3>2, <4>1, Constants DEF IInv, TypeOK, InStep
    <3> QED BY <3>1, <3>2
  <2>2. \A m \in Lane : m < next' => at'[m] # "none"
    BY <1>1, <1>4, Constants DEF IInv, TypeOK, InStep
  <2>3. \A m \in Lane : m < next' - threads' => at'[m] = "ended"
    <3> SUFFICES ASSUME NEW m \in Lane, m < n + 1 - threads
                 PROVE  at'[m] = "ended"
      BY <1>1, <1>4
    <3>1. m # n /\ (m < n - threads \/ (m = n - threads /\ n >= threads))
      BY <1>1, Constants
    <3> QED BY <1>1, <1>4, <3>1 DEF IInv, TypeOK, InStep
  <2> QED BY <1>1, <1>4, <2>1, <2>2, <2>3 DEF IInv, InStep
<1>7. Offsets'
  <2> SUFFICES ASSUME NEW m \in Lane, Working(m)'
               PROVE  OffsetsOf(m)'
    BY DEF Offsets
  <2>1. CASE m = n
    <3>1. at'[n] = "pick" /\ pos'[n] = <<pass, slice>> /\ index'[n] = start
          /\ prev'[n] = FirstPrevious(<<n, column>>)
      BY <1>1, <1>4 DEF IInv, TypeOK
    <3>2. Current(n)' = <<n, column>>
      BY <3>1 DEF Current, column
    <3>3. start >= StartingIndex(pos'[n])
      BY <1>2, <3>1, Constants DEF start
    <3> QED BY <2>1, <3>1, <3>2, <3>3 DEF OffsetsOf
  <2>2. CASE m # n
    BY <1>1, <1>4, <2>2 DEF IInv, TypeOK, Offsets, OffsetsOf, Current, Working
  <2> QED BY <2>1, <2>2
<1>8. Picked'
  BY <1>1, <1>4 DEF IInv, TypeOK, Picked, Answers
<1>9. Contents'
  <2>1. ASSUME NEW m \in Lane PROVE Progress(m)' = Progress(m)
    <3>1. CASE m = n
      <4>1. index'[m] = start /\ at'[m] = "pick"
        BY <1>1, <1>4, <3>1 DEF IInv, TypeOK
      <4>2. m < next' /\ ~(m < next)
        BY <1>1, <3>1
      <4>3. Progress(m) = slice * SegmentLength + start
        BY <4>2 DEF Progress, start
      <4>4. Progress(m)' = slice' * SegmentLength + index'[m]
        BY <4>1, <4>2 DEF Progress
      <4> QED BY <1>4, <4>1, <4>3, <4>4
    <3>2. CASE m # n
      <4>1. index'[m] = index[m] /\ at'[m] = at[m]
        BY <1>4, <3>2 DEF IInv, TypeOK
      <4>2. m < next' <=> m < next
        BY <1>1, <3>2, Constants
      <4> QED BY <1>4, <4>1, <4>2 DEF Progress
    <3> QED BY <3>1, <3>2
  <2> QED BY <1>4, <2>1 DEF IInv, Contents
<1> QED BY <1>5, <1>6, <1>7, <1>8, <1>9 DEF IInv

LEMMA NextSliceIInv == ASSUME IInv, NextSlice PROVE IInv'
<1> DEFINE last == slice * SegmentLength + SegmentLength
<1>1. /\ next = Lanes /\ main = "fill" /\ pass \in Nat /\ pass < Passes
      /\ slice \in 0..3 /\ threads \in 1..Lanes
      /\ next' = 0
      /\ slice' = IF slice = 3 THEN 0 ELSE slice + 1
      /\ pass' = IF slice = 3 THEN pass + 1 ELSE pass
      /\ main' = IF pass' = Passes THEN "filled" ELSE "fill"
      /\ UNCHANGED <<threads, at, pos, index, prev, ref, memory>>
  <2>1. next = Lanes /\ main = "fill" /\ pass \in 0..Passes
        /\ slice \in Slice /\ threads \in 1..Lanes
    BY DEF NextSlice, IInv, TypeOK
  <2>2. pass < Passes
    BY <2>1 DEF IInv, InStep
  <2>3. (slice + 1) % 4 = IF slice = 3 THEN 0 ELSE slice + 1
    BY <2>1, Constants
  <2> QED BY <2>1, <2>2, <2>3, Constants DEF NextSlice, SyncPoints, segment
<1>2. \A l \in Lane : at[l] = "ended"
  <2> SUFFICES ASSUME NEW l \in Lane PROVE at[l] = "ended"
    OBVIOUS
  <2>1. CASE l < next - threads
    BY <2>1 DEF IInv, InStep
  <2>2. CASE ~(l < next - threads)
    <3>1. l \in Remaining
      BY <1>1, <2>2, Constants DEF Remaining
    <3> QED BY <3>1 DEF NextSlice
  <2> QED BY <2>1, <2>2
<1>3. \A l \in Lane : ~Working(l)'
  BY <1>1, <1>2 DEF Working
<1>4. TypeOK'
  <2>1. pass' \in 0..Passes /\ slice' \in Slice /\ next' \in 0..Lanes
        /\ main' \in {"fill", "filled", "failed", "final"}
    BY <1>1, Constants
  <2> QED BY <1>1, <2>1 DEF IInv, TypeOK
<1>5. InStep'
  BY <1>1, <1>3, Constants DEF IInv, InStep
<1>6. Offsets' /\ Picked'
  BY <1>1, <1>2, <1>3 DEF Offsets, Picked
<1>7. Contents'
  <2> SUFFICES ASSUME NEW l \in Lane, NEW c \in Column
               PROVE  memory'[<<l, c>>] = IF c < Progress(l)' THEN pass' + 1 ELSE pass'
    BY DEF Contents
  <2>1. memory'[<<l, c>>] = IF c < last THEN pass + 1 ELSE pass
    <3>1. Progress(l) = last
      BY <1>1, <1>2, Constants DEF Progress
    <3> QED BY <1>1, <3>1 DEF IInv, Contents
  <2>2. CASE slice = 3
    <3>1. c < last
      BY <2>2, SliceFacts, Constants
    <3>2. Progress(l)' = 0
      BY <1>1, <2>2, Constants DEF Progress, StartingIndex
    <3> QED BY <1>1, <2>1, <2>2, <3>1, <3>2, Constants
  <2>3. CASE slice # 3
    <3>1. Progress(l)' = (slice + 1) * SegmentLength
      <4>1. Progress(l)' = slice' * SegmentLength + StartingIndex(<<pass', slice'>>)
        BY <1>1, Constants DEF Progress
      <4>2. slice' = slice + 1 /\ StartingIndex(<<pass', slice'>>) = 0
        BY <1>1, <2>3 DEF StartingIndex
      <4>3. (slice + 1) * SegmentLength \in Nat
        BY <1>1, Constants
      <4> QED BY <4>1, <4>2, <4>3
    <3>2. (slice + 1) * SegmentLength = last
      BY <1>1, SliceFacts, Constants
    <3> QED BY <1>1, <2>1, <2>3, <3>1, <3>2
  <2> QED BY <2>2, <2>3
<1> QED BY <1>4, <1>5, <1>6, <1>7 DEF IInv

\* Only main moves, or nothing does.
LEMMA MainIInv == ASSUME IInv, CreateFails \/ Finalize \/ UNCHANGED vars PROVE IInv'
<1>1. /\ UNCHANGED <<threads, pass, slice, next, at, pos, index, prev, ref, memory>>
      /\ main' \in {"fill", "filled", "failed", "final"}
      /\ main' \in {"fill", "failed"} => main \in {"fill", "failed"}
      /\ main' \in {"filled", "final"} => main \in {"filled", "final"}
  BY DEF CreateFails, MayCreate, Finalize, vars, segment, IInv, TypeOK
<1>2. TypeOK'
  BY <1>1 DEF IInv, TypeOK
<1>3. InStep'
  BY <1>1 DEF IInv, InStep, Working
<1>4. Offsets' /\ Picked'
  BY <1>1 DEF IInv, Offsets, OffsetsOf, Picked, Answers, Working, Current
<1>5. Contents'
  BY <1>1 DEF IInv, Contents, Progress
<1> QED BY <1>2, <1>3, <1>4, <1>5 DEF IInv

\* The inductive invariant holds in every state: where the threads are decides
\* what each block of the memory holds.
THEOREM FillInvariant == Spec => []IInv
<1>1. Init => IInv
  BY InitIInv
<1>2. IInv /\ [Next]_vars => IInv'
  <2> SUFFICES ASSUME IInv, [Next]_vars PROVE IInv'
    OBVIOUS
  <2>1. CASE CreateThread
    BY <2>1, CreateIInv
  <2>2. CASE NextSlice
    BY <2>2, NextSliceIInv
  <2>3. CASE CreateFails \/ Finalize \/ UNCHANGED vars
    BY <2>3, MainIInv
  <2>4. ASSUME NEW l \in Lane, FillSegment(l) PROVE IInv'
    BY <2>4, PickIInv, WriteIInv, EndIInv DEF FillSegment
  <2> QED BY <2>1, <2>2, <2>3, <2>4 DEF Next, FillMemory
<1> QED BY <1>1, <1>2, PTL DEF Spec

\* The variables keep their types (TypeOK), in particular every block that is
\* picked lies in the memory, for any number of lanes, cost and passes.
THEOREM FillTypeCorrect == Spec => []TypeOK
<1>1. IInv => TypeOK
  BY DEF IInv
<1> QED BY <1>1, FillInvariant, PTL

\* What a thread at work finds in any block is what Argon2 says, unless the
\* block lies in another lane's segment of the same slice.
LEMMA KnownBlock ==
  ASSUME IInv, NEW l \in Lane, Working(l), NEW b \in Block, Settled(l, b)
  PROVE  memory[b] = Holds(l, b)
<1>1. PICK m \in Lane, c \in Column : b = <<m, c>>
  BY DEF Block
<1> DEFINE first == slice * SegmentLength
<1>2. /\ slice \in 0..3 /\ pos[l][1] = pass /\ pos[l][2] = slice
      /\ ColumnAt(pos[l], index[l]) = Progress(l) /\ first \in Nat
      /\ ColumnAt(pos[l], 0) = first /\ pass \in Nat
  BY WorkingFacts, Constants DEF ColumnAt
<1>3. memory[b] = IF c < Progress(m) THEN pass + 1 ELSE pass
  BY <1>1 DEF IInv, Contents
<1>4. CASE m = l
  BY <1>1, <1>2, <1>3, <1>4 DEF Holds
<1>5. CASE m # l
  <2>1. first <= Progress(m) /\ Progress(m) <= first + SegmentLength
        /\ Progress(m) \in Nat
    <3>1. index[m] \in 0..SegmentLength
      BY DEF IInv, TypeOK
    <3>2. StartingIndex(<<pass, slice>>) \in 0..SegmentLength
      BY Constants DEF StartingIndex
    <3>3. Progress(m) \in {first + SegmentLength, first + index[m],
                           first + StartingIndex(<<pass, slice>>)}
      BY DEF Progress
    <3>4. first \in Nat /\ SegmentLength \in Nat
      BY <1>2, Constants
    <3> HIDE DEF first
    <3> QED BY <3>1, <3>2, <3>3, <3>4
  <2>2. c \div SegmentLength # slice
    BY <1>1, <1>2, <1>5 DEF Settled
  <2>3. c < first \/ c >= first + SegmentLength
    <3> SUFFICES ASSUME first <= c, c < first + SegmentLength
                 PROVE  c \div SegmentLength = slice
      BY <1>2, <2>2, Constants
    <3> DEFINE q == c \div SegmentLength
    <3>1. c < (slice + 1) * SegmentLength
      BY <1>2, SliceFacts, Constants
    <3>2. q \in Nat /\ q < slice + 1
      <4>1. c \in Nat /\ SegmentLength \in Nat \ {0} /\ slice + 1 \in Nat
        BY <1>2, Constants
      <4> QED BY <3>1, <4>1, QuotientBelow
    <3>3. q >= slice
      BY <1>2, QuotientAtLeast, Constants
    <3> QED BY <1>2, <3>2, <3>3
  <2>4. Holds(l, b) = IF c < first THEN pass + 1 ELSE pass
    BY <1>1, <1>2, <1>5 DEF Holds
  <2>5. first \in Nat /\ SegmentLength \in Nat /\ c \in Nat
    BY <1>2, Constants
  <2> HIDE DEF first
  <2> QED BY <1>3, <2>1, <2>3, <2>4, <2>5
<1> QED BY <1>4, <1>5

\* Whatever the threads do, a thread reads blocks that no other one may be
\* writing, filled by the pass that Argon2 says (ReadsAreSettled).
THEOREM ReadsSettled == Spec => []ReadsAreSettled
<1>1. IInv => ReadsAreSettled
  <2> SUFFICES ASSUME IInv, NEW l \in Lane, at[l] = "write"
               PROVE  /\ Settled(l, ref[l]) /\ memory[ref[l]] = Holds(l, ref[l])
                      /\ memory[ref[l]] > 0
                      /\ prev[l] = FirstPrevious(Current(l))
                      /\ memory[prev[l]] = Holds(l, prev[l]) /\ memory[prev[l]] > 0
    BY DEF ReadsAreSettled
  <2> DEFINE first == slice * SegmentLength
             cur == first + index[l]
             m == ref[l][1]
             c == ref[l][2]
  <2>1. Working(l)
    BY DEF Working
  <2>2. /\ pass \in Nat /\ slice \in 0..3 /\ first \in Nat
        /\ first + SegmentLength <= LaneLength
        /\ pos[l] = <<pass, slice>> /\ pos[l][1] = pass /\ pos[l][2] = slice
        /\ index[l] \in 0..SegmentLength - 1
        /\ ColumnAt(pos[l], index[l]) = cur /\ ColumnAt(pos[l], 0) = first
        /\ Current(l) = <<l, cur>>
    <3>1. index[l] < SegmentLength
      BY <2>1 DEF IInv, Offsets, OffsetsOf
    <3>2. pos[l][2] * SegmentLength + 0 = first /\ first \in Nat
      BY <2>1, WorkingFacts
    <3> QED BY <2>1, <3>1, <3>2, WorkingFacts, Constants DEF ColumnAt
  <2>3. prev[l] = FirstPrevious(Current(l))
    BY <2>1 DEF IInv, Offsets, OffsetsOf
  <2>4. m \in Lane /\ c \in Column /\ ref[l] = <<m, c>> /\ ref[l] \in Block
    BY DEF IInv, TypeOK, Block
  <2>5. Answers(pos[l], index[l], m = l, c)
    BY DEF IInv, Picked
  <2>6. Settled(l, ref[l])
    <3>1. CASE m = l
      BY <2>4, <3>1 DEF Settled
    <3>2. CASE m # l
      <4>1. c < first \/ c >= first + SegmentLength
        BY <2>2, <2>5, <3>2 DEF Answers
      <4>2. c \div SegmentLength # slice
        <5> SUFFICES ASSUME c \div SegmentLength = slice PROVE FALSE
          OBVIOUS
        <5>1. c \in Nat /\ slice \in Nat
          <6>1. c \in 0..LaneLength - 1 /\ slice \in 0..3
            BY <2>2, <2>4, Constants
          <6> HIDE DEF c
          <6> QED BY <6>1
        <5> HIDE DEF c
        <5>2. first <= c /\ c < first + SegmentLength
          BY <5>1, SliceOfColumn
        <5>3. first \in Nat /\ SegmentLength \in Nat
          BY <2>2, Constants
        <5> HIDE DEF first
        <5> QED BY <4>1, <5>1, <5>2, <5>3
      <4> QED BY <2>2, <2>4, <4>2 DEF Settled
    <3> QED BY <3>1, <3>2
  <2>7. memory[ref[l]] = Holds(l, ref[l])
    BY <2>1, <2>4, <2>6, KnownBlock
  <2>8. Holds(l, ref[l]) > 0
    BY <2>2, <2>4, <2>5, Constants DEF Holds, Answers
  <2>9. prev[l] = <<l, IF cur = 0 THEN LaneLength - 1 ELSE cur - 1>>
        /\ prev[l] \in Block /\ Settled(l, prev[l])
    <3>1. prev[l] = <<l, IF cur = 0 THEN LaneLength - 1 ELSE cur - 1>>
      BY <2>2, <2>3 DEF FirstPrevious
    <3>2. cur \in Nat /\ cur < LaneLength
      <4>1. first \in Nat /\ index[l] \in 0..SegmentLength - 1
            /\ first + SegmentLength <= LaneLength
        BY <2>2
      <4> HIDE DEF first
      <4> QED BY <4>1, Constants
    <3>3. (IF cur = 0 THEN LaneLength - 1 ELSE cur - 1) \in Column
      BY <3>2, Constants
    <3> QED BY <3>1, <3>3 DEF Block, Settled
  <2>10. memory[prev[l]] = Holds(l, prev[l])
    BY <2>1, <2>9, KnownBlock
  <2>11. Holds(l, prev[l]) > 0
    <3>1. CASE cur = 0
      <4>1. index[l] = 0 /\ slice = 0
        BY <2>2, <3>1, Constants
      <4>2. pass # 0
        BY <2>1, <2>2, <4>1 DEF IInv, Offsets, OffsetsOf, StartingIndex
      <4> QED BY <2>2, <2>9, <4>2 DEF Holds
    <3>2. CASE cur # 0
      BY <2>2, <2>9, <3>2, Constants DEF Holds
    <3> QED BY <3>1, <3>2
  <2> QED BY <2>3, <2>6, <2>7, <2>8, <2>10, <2>11
<1> QED BY <1>1, FillInvariant, PTL

\* The two blocks a new one is made of are different, and neither is the one
\* that is written over (PicksAnother).
THEOREM PicksAnotherBlock == Spec => []PicksAnother
<1>1. IInv => PicksAnother
  <2> SUFFICES ASSUME IInv, NEW l \in Lane, at[l] = "write"
               PROVE  ref[l] # prev[l] /\ ref[l] # Current(l)
    BY DEF PicksAnother
  <2> DEFINE cur == slice * SegmentLength + index[l]
  <2>1. Working(l)
    BY DEF Working
  <2>2. /\ pos[l][2] = slice /\ cur \in Nat
        /\ Current(l) = <<l, cur>>
        /\ prev[l] = <<l, IF cur = 0 THEN LaneLength - 1 ELSE cur - 1>>
    BY <2>1, WorkingFacts, Constants DEF IInv, Offsets, OffsetsOf, FirstPrevious
  <2>3. Answers(pos[l], index[l], ref[l][1] = l, ref[l][2])
    BY DEF IInv, Picked
  <2>4. CASE ref[l][1] = l
    BY <2>2, <2>3, <2>4 DEF Answers
  <2>5. CASE ref[l][1] # l
    BY <2>2, <2>5
  <2> QED BY <2>4, <2>5
<1> QED BY <1>1, FillInvariant, PTL

\* All threads at work are at the slice that is being filled, and no more of
\* them than the caller allows; all are done, and all blocks at their last
\* pass, when the memory is read (SlicesInStep).
THEOREM FillInStep == Spec => []SlicesInStep
<1>1. IInv => SlicesInStep
  <2> SUFFICES ASSUME IInv PROVE SlicesInStep
    OBVIOUS
  <2> DEFINE W == {l \in Lane : at[l] \in {"pick", "write"}}
  <2>1. \A l \in W : pos[l] = <<pass, slice>>
    BY DEF IInv, InStep, Working
  <2>2. Cardinality(W) <= threads
    <3>1. threads \in Nat /\ next \in Nat
      BY Constants DEF IInv, TypeOK
    <3>2. W \subseteq next - threads..next - 1
      BY <3>1, Constants DEF IInv, InStep, Working
    <3>3. IsFiniteSet(next - threads..next - 1)
          /\ Cardinality(next - threads..next - 1) = threads
      BY <3>1, FS_Interval
    <3> QED BY <3>1, <3>2, <3>3, FS_Subset
  <2>3. ASSUME main \in {"filled", "final"}
        PROVE  W = {} /\ \A b \in Block : memory[b] = Passes
    <3>1. pass = Passes /\ slice = 0 /\ next = 0
      BY <2>3 DEF IInv, InStep
    <3>2. W = {}
      BY <3>1, Constants DEF IInv, InStep, Working
    <3>3. \A l \in Lane : Progress(l) = 0
      BY <3>1, Constants DEF Progress, StartingIndex
    <3>4. \A l \in Lane, c \in Column : memory[<<l, c>>] = Passes
      <4> SUFFICES ASSUME NEW l \in Lane, NEW c \in Column
                   PROVE  memory[<<l, c>>] = Passes
        OBVIOUS
      <4>1. ~(c < Progress(l))
        BY <3>3, Constants
      <4> QED BY <3>1, <4>1 DEF IInv, Contents
    <3> QED BY <3>2, <3>4 DEF Block
  <2> QED BY <2>1, <2>2, <2>3 DEF SlicesInStep
<1> QED BY <1>1, FillInvariant, PTL
=============================================================================
