--------------------------- MODULE NonceRange_proof ---------------------------
(***************************************************************************)
(* Which nonces of a header two threads may both hash, and how far a count *)
(* of hashes may be off, for any number of threads and any width of the    *)
(* nonce, with starts that are fixed and that are moved at random.         *)
(***************************************************************************)
EXTENDS NonceRange, TLAPS

\* A quotient times its divisor is the dividend at most.
LEMMA QuotientTimes ==
  ASSUME NEW a \in Nat, NEW b \in Nat \ {0}
  PROVE  a \div b \in Nat /\ (a \div b) * b <= a
<1> DEFINE q == a \div b
<1>1. q \in Int /\ (a % b) \in 0..b - 1 /\ a = b * q + (a % b)
  BY Z3
<1>2. q >= 0
  BY <1>1, Z3
<1> HIDE DEF q
<1> QED BY <1>1, <1>2, Z3 DEF q

\* Division keeps the order.
LEMMA QuotientMonotone ==
  ASSUME NEW c \in Nat, NEW a \in 0..c, NEW b \in Nat \ {0}
  PROVE  a \div b <= c \div b
<1> DEFINE q == a \div b
           r == c \div b
<1>1. q \in Nat /\ q * b <= a
  BY QuotientTimes
<1>2. r \in Int /\ (c % b) \in 0..b - 1 /\ c = b * r + (c % b)
  BY Z3
<1> HIDE DEF q, r
<1>3. ASSUME r + 1 <= q PROVE FALSE
  <2>1. b * (r + 1) <= b * q
    BY <1>1, <1>2, <1>3, Z3
  <2>2. b * (r + 1) = b * r + b /\ b * q = q * b
    BY <1>1, <1>2, Z3
  <2> QED BY <1>1, <1>2, <2>1, <2>2
<1> QED BY <1>1, <1>2, <1>3 DEF q, r

LEMMA PartIsNat == Part \in Nat /\ Reserve < Part /\ Part * N <= W
  BY ThreadsAssumption, WidthAssumption, ReserveAssumption DEF Part

\* Multiplication by a part's length keeps the order.
LEMMA Monotone ==
  ASSUME NEW p \in Nat, NEW a \in Int, NEW b \in Int, a <= b
  PROVE  p * a <= p * b
  OBVIOUS

LEMMA Bounds ==
  ASSUME NEW i \in Thread
  PROVE  /\ Start(i) \in Nat /\ End(i) \in Nat
         /\ Start(i) <= End(i) /\ End(i) < W
         /\ End(i) = Start(i) + Part - Reserve
<1>1. i \in Nat /\ i + 1 <= N /\ N \in Nat
  BY ThreadsAssumption DEF Thread
<1>2. Part \in Nat /\ Reserve \in Nat /\ Reserve > 0 /\ Reserve < Part /\ W \in Nat
  BY PartIsNat, ReserveAssumption, WidthAssumption
<1>3. Part * (i + 1) = Part * i + Part /\ Part * i \in Nat
  BY <1>1, <1>2
<1>4. Part * (i + 1) <= Part * N
  BY <1>1, <1>2, Monotone
<1>5. Part * N <= W
  BY PartIsNat
<1>6. Part * N \in Nat
  BY <1>1, <1>2
<1>7. QED
  BY <1>2, <1>3, <1>4, <1>5, <1>6 DEF Start, End

\* The next thread's part begins after the end of this one's.
LEMMA PartsApart ==
  ASSUME NEW i \in Thread, NEW j \in Thread, i < j
  PROVE  End(i) < Start(j)
<1>1. i + 1 <= j /\ i \in Nat /\ j \in Nat
  BY DEF Thread
<1>2. Part \in Nat /\ Reserve \in Nat /\ Reserve > 0
  BY PartIsNat, ReserveAssumption
<1>3. Part * (i + 1) <= Part * j
  BY <1>1, <1>2, Monotone
<1>4. Part * (i + 1) \in Nat /\ Part * j \in Nat
  BY <1>1, <1>2
<1>5. QED
  BY <1>2, <1>3, <1>4 DEF Start, End

LEMMA WrapsInWidth ==
  ASSUME NEW n \in Nat
  PROVE  Wrap(n) \in Nonce /\ (n <= W => Wrap(n) = n)
  BY WidthAssumption DEF Wrap, Nonce

\* A start moved at random lies at most on the first nonce of the next part, and
\* never on the last nonce there is.
LEMMA MovedStart ==
  ASSUME NEW i \in Thread, NEW o \in Offsets
  PROVE  /\ Start(i) + o \in Nat /\ Start(i) <= Start(i) + o
         /\ Start(i) + o <= Start(i) + Part /\ Start(i) + o < W
<1>1. i \in Nat /\ i + 1 <= N /\ N \in Nat \ {0} /\ W \in Nat /\ Part \in Nat
  BY ThreadsAssumption, WidthAssumption, PartIsNat DEF Thread
<1>2. Start(i) \in Nat /\ Start(i) < W
  BY <1>1, Bounds
<1>3. CASE o = 0
  BY <1>1, <1>2, <1>3
<1>4. CASE o # 0
  <2>1. PICK k \in 0..W : k % 4 = 0 /\ o = k \div N
    BY <1>4 DEF Offsets, Nonce
  <2>2. k + 1 <= W
    <3>1. k # W
      BY <1>1, <2>1, WidthAssumption
    <3> QED BY <1>1, <2>1, <3>1
  <2>3. o \in Nat /\ o * N <= k
    <3>1. k \in Nat
      BY <1>1, <2>1
    <3> QED BY <1>1, <2>1, <3>1, QuotientTimes
  <2>4. o <= Part
    <3>1. k \div N <= W \div N
      BY <1>1, <2>1, QuotientMonotone
    <3> QED BY <2>1, <3>1 DEF Part
  <2>5. Part * (i + 1) <= Part * N /\ Part * N <= W
    BY <1>1, Monotone, PartIsNat
  <2>6. Part * (i + 1) = Start(i) + Part /\ Part * N \in Nat
    BY <1>1 DEF Start
  <2>7. Start(i) + o < W
    <3>1. CASE o < Part
      BY <1>1, <1>2, <2>3, <2>5, <2>6, <3>1
    <3>2. CASE o = Part
      <4>1. Part * N <= k
        BY <1>1, <2>3, <3>2
      <4> QED BY <1>1, <1>2, <2>1, <2>2, <2>5, <2>6, <3>2, <4>1
    <3> QED BY <1>1, <2>3, <2>4, <3>1, <3>2
  <2> QED BY <1>1, <1>2, <2>3, <2>4, <2>7
<1> QED BY <1>3, <1>4

\* The last nonce a thread may come to: the end of its part, or the first nonce of
\* the next one.
Last(i) == IF randomize THEN Start(i) + Part ELSE End(i)

\* A thread hashes nonces from its start to the last one.
InPart ==
  /\ \A i \in Thread :
       /\ at[i] \in {"ready", "scan"} => Start(i) <= nonce[i] /\ nonce[i] <= Last(i) /\ nonce[i] < W
       /\ at[i] = "after" => Start(i) <= nonce[i]
       /\ at[i] = "scan" => max[i] <= End(i)
  /\ \A i \in Thread : Start(i) <= low[i] /\ high[i] <= Last(i)

\* Its nonce does not wrap, so that the count is right but for one.
Counted ==
  \A i \in Thread :
    /\ at[i] = "scan" => made[i] = nonce[i] - first[i]
    /\ at[i] = "after" => done[i] - made[i] \in -1..1

IInv == TypeOK /\ InPart /\ Counted

LEMMA LastFacts ==
  ASSUME randomize \in BOOLEAN, NEW i \in Thread
  PROVE  Last(i) \in Nat /\ Start(i) <= End(i) /\ End(i) <= Last(i) /\ Last(i) <= Start(i) + Part
<1>1. /\ Start(i) \in Nat /\ End(i) \in Nat /\ Start(i) <= End(i)
      /\ End(i) = Start(i) + Part - Reserve
  BY Bounds
<1>2. Part \in Nat /\ Reserve \in Nat
  BY PartIsNat, ReserveAssumption
<1> QED BY <1>1, <1>2 DEF Last

LEMMA InitInv == Init => IInv
<1> SUFFICES ASSUME Init PROVE IInv
  OBVIOUS
<1> USE DEF Init
<1>1. W \in Nat
  BY WidthAssumption
<1>2. TypeOK
  BY <1>1 DEF TypeOK, Nonce
<1>3. ASSUME NEW i \in Thread PROVE Start(i) <= low[i] /\ high[i] <= Last(i)
  <2>1. Last(i) \in Nat /\ Start(i) \in Nat /\ Start(i) < W
    BY <1>1, LastFacts, Bounds
  <2> QED BY <1>1, <2>1
<1>4. InPart
  BY <1>3 DEF InPart
<1>5. Counted
  BY DEF Counted
<1>6. QED
  BY <1>2, <1>4, <1>5 DEF IInv

\* What a step of thread i does to the state of i; the others keep theirs.
LEMMA StepInv ==
  ASSUME IInv, NEW i \in Thread, Step(i)
  PROVE  IInv'
<1> USE DEF IInv
<1>0. randomize' = randomize
  BY DEF Step, Take, BeginChunk, Hit, MissGoOn, MissEnd, NextChunk, UsedUp, Hash
<1>1. /\ W \in Nat /\ Start(i) \in Nat /\ End(i) \in Nat /\ Start(i) <= End(i) /\ End(i) < W
      /\ Last(i) \in Nat /\ End(i) <= Last(i)
  BY WidthAssumption, Bounds, LastFacts DEF TypeOK
<1>2. \A n \in Nat : n <= W => n \in Nonce /\ Wrap(n) = n
  BY WrapsInWidth, <1>1 DEF Nonce
<1>3. /\ nonce[i] \in Nat /\ first[i] \in Nat /\ max[i] \in Nat /\ low[i] \in Nat
      /\ high[i] \in Int /\ made[i] \in Nat /\ done[i] \in Int
  BY <1>1 DEF TypeOK, Nonce
<1> USE <1>0 DEF Last
<1>4. CASE Take(i)
  <2>1. PICK o \in Offsets : nonce' = [nonce EXCEPT ![i] = Wrap(Start(i) + o)]
    BY <1>4 DEF Take
  <2> DEFINE n == Start(i) + o
  <2>2. n \in Nat /\ Start(i) <= n /\ n <= Last(i) /\ n < W
    <3>1. n \in Nat /\ Start(i) <= n /\ n <= Start(i) + Part /\ n < W
      BY MovedStart
    <3>2. CASE randomize
      BY <3>1, <3>2
    <3>3. CASE ~randomize
      <4>1. o = 0
        BY <3>3 DEF Offsets
      <4> QED BY <1>1, <3>3, <4>1
    <3> QED BY <3>2, <3>3
  <2>3. Wrap(n) = n /\ n \in Nonce
    BY <1>1, <1>2, <2>2
  <2> HIDE DEF n
  <2>4. nonce' = [nonce EXCEPT ![i] = n]
    BY <2>1, <2>3 DEF n
  <2>5. TypeOK'
    BY <1>4, <2>3, <2>4 DEF Take, TypeOK
  <2>6. InPart'
    BY <1>1, <1>4, <2>2, <2>4 DEF Take, TypeOK, InPart
  <2>7. Counted'
    BY <1>4, <2>4 DEF Take, TypeOK, Counted
  <2>8. QED
    BY <2>5, <2>6, <2>7
<1>5. CASE BeginChunk(i)
  <2>1. PICK m \in 1..MaxScan : max' = [max EXCEPT ![i] = MaxNonce(i, m)]
    BY <1>5 DEF BeginChunk
  <2>2. MaxNonce(i, m) \in Nonce /\ MaxNonce(i, m) <= End(i)
    BY <1>1, <1>3, <2>1, MaxScanAssumption DEF MaxNonce, Nonce
  <2>3. TypeOK'
    BY <1>5, <2>1, <2>2 DEF BeginChunk, TypeOK
  <2>4. InPart'
    BY <1>5, <2>1, <2>2 DEF BeginChunk, TypeOK, InPart
  <2>5. Counted'
    BY <1>3, <1>5 DEF BeginChunk, TypeOK, Counted
  <2>6. QED
    BY <2>3, <2>4, <2>5
<1>6. ASSUME Hash(i), at[i] = "scan"
      PROVE  /\ made' \in [Thread -> Nat] /\ low' \in [Thread -> 0..W + 1]
             /\ high' \in [Thread -> -1..W]
             /\ Start(i) <= nonce[i] /\ nonce[i] <= Last(i) /\ nonce[i] + 1 \in Nonce
             /\ Wrap(nonce[i] + 1) = nonce[i] + 1
             /\ made'[i] = nonce[i] + 1 - first[i]
             /\ Start(i) <= low'[i] /\ high'[i] <= Last(i)
             /\ \A j \in Thread \ {i} :
                  made'[j] = made[j] /\ low'[j] = low[j] /\ high'[j] = high[j]
  <2>1. Start(i) <= nonce[i] /\ nonce[i] <= Last(i) /\ nonce[i] < W
    BY <1>6 DEF InPart
  <2>2. nonce[i] + 1 \in Nonce /\ Wrap(nonce[i] + 1) = nonce[i] + 1
    BY <1>1, <1>2, <1>3, <2>1
  <2>3. made' \in [Thread -> Nat] /\ made'[i] = nonce[i] + 1 - first[i]
    BY <1>3, <1>6 DEF Hash, TypeOK, Counted
  <2>4. low'[i] \in 0..W + 1 /\ Start(i) <= low'[i]
    BY <1>1, <1>3, <1>6, <2>1 DEF Hash, TypeOK, InPart
  <2>5. high'[i] \in -1..W /\ high'[i] <= Last(i)
    BY <1>1, <1>3, <1>6, <2>1 DEF Hash, TypeOK, InPart
  <2>6. low' \in [Thread -> 0..W + 1]
    BY <1>6, <2>4 DEF Hash, TypeOK
  <2>7. high' \in [Thread -> -1..W]
    BY <1>6, <2>5 DEF Hash, TypeOK
  <2>8. QED
    BY <1>6, <2>1, <2>2, <2>3, <2>4, <2>5, <2>6, <2>7 DEF Hash, TypeOK
<1>7. CASE Hit(i)
  <2>1. Hash(i) /\ at[i] = "scan" /\ UNCHANGED <<randomize, nonce, max, first>>
    BY <1>7 DEF Hit, Hash
  <2>2. TypeOK'
    BY <1>3, <1>6, <1>7, <2>1 DEF Hit, TypeOK
  <2>3. InPart'
    BY <1>1, <1>3, <1>6, <1>7, <2>1 DEF Hit, TypeOK, InPart
  <2>4. Counted'
    BY <1>3, <1>6, <1>7, <2>1 DEF Hit, TypeOK, Counted
  <2>5. QED
    BY <2>2, <2>3, <2>4
<1>8. CASE MissGoOn(i)
  <2>1. /\ Hash(i) /\ at[i] = "scan" /\ UNCHANGED <<randomize, max, first, at, done>>
        /\ nonce' = [nonce EXCEPT ![i] = nonce[i] + 1] /\ nonce[i] + 1 < max[i]
    BY <1>6, <1>8 DEF MissGoOn, Hash
  <2>2. TypeOK'
    BY <1>6, <2>1 DEF TypeOK
  <2>3. InPart'
    BY <1>1, <1>3, <1>6, <2>1 DEF TypeOK, InPart
  <2>4. Counted'
    BY <1>3, <1>6, <2>1 DEF TypeOK, Counted
  <2>5. QED
    BY <2>2, <2>3, <2>4
<1>9. CASE MissEnd(i)
  <2>1. /\ Hash(i) /\ at[i] = "scan" /\ UNCHANGED <<randomize, max, first>>
        /\ nonce' = [nonce EXCEPT ![i] = nonce[i] + 1]
        /\ done' = [done EXCEPT ![i] = nonce[i] + 1 - first[i] + 1]
        /\ at' = [at EXCEPT ![i] = "after"]
    <3>1. Hash(i) /\ at[i] = "scan" /\ UNCHANGED <<randomize, max, first>>
      BY <1>9 DEF MissEnd, Hash
    <3>2. Wrap(nonce[i] + 1) = nonce[i] + 1
      BY <1>6, <3>1
    <3>3. DoneAfterMiss(i) = nonce[i] + 1 - first[i] + 1
      BY <1>3, <3>2 DEF DoneAfterMiss
    <3>4. QED
      BY <1>9, <3>1, <3>2, <3>3 DEF MissEnd
  <2>2. TypeOK'
    BY <1>3, <1>6, <2>1 DEF TypeOK
  <2>3. InPart'
    BY <1>1, <1>3, <1>6, <2>1 DEF TypeOK, InPart
  <2>4. Counted'
    BY <1>3, <1>6, <2>1 DEF TypeOK, Counted
  <2>5. QED
    BY <2>2, <2>3, <2>4
<1>10. CASE NextChunk(i)
  <2>1. /\ nonce' = [nonce EXCEPT ![i] = nonce[i] + 1] /\ nonce[i] + 1 \in Nonce
        /\ Start(i) <= nonce[i] /\ nonce[i] + 1 <= End(i)
    <3>1. Start(i) <= nonce[i] /\ nonce[i] + 1 <= End(i)
      BY <1>1, <1>3, <1>10 DEF NextChunk, InPart
    <3>2. nonce[i] + 1 \in Nonce /\ Wrap(nonce[i] + 1) = nonce[i] + 1
      BY <1>1, <1>2, <1>3, <3>1
    <3>3. QED
      BY <1>10, <3>1, <3>2 DEF NextChunk
  <2>2. TypeOK'
    BY <1>10, <2>1 DEF NextChunk, TypeOK
  <2>3. InPart'
    BY <1>1, <1>3, <1>10, <2>1 DEF NextChunk, TypeOK, InPart
  <2>4. Counted'
    BY <1>10 DEF NextChunk, TypeOK, Counted
  <2>5. QED
    BY <2>2, <2>3, <2>4
<1>11. CASE UsedUp(i)
  BY <1>11 DEF UsedUp, TypeOK, InPart, Counted
<1>12. QED
  BY <1>4, <1>5, <1>7, <1>8, <1>9, <1>10, <1>11 DEF Step

\* The inductive invariant: with a start moved at random a thread's nonces may
\* reach the first one of the next part, and no further.
THEOREM RangeInvariant == Spec => []IInv
<1>1. IInv /\ UNCHANGED vars => IInv'
  BY DEF IInv, TypeOK, InPart, Counted, Last, vars
<1>2. IInv /\ Next => IInv'
  BY StepInv DEF Next
<1>3. IInv /\ [Next]_vars => IInv'
  BY <1>1, <1>2
<1>4. QED
  BY <1>3, InitInv, PTL DEF Spec

LEMMA HashedRange ==
  ASSUME IInv, NEW i \in Thread
  PROVE  /\ high[i] \in Int /\ low[i] \in Int
         /\ Start(i) <= low[i] /\ high[i] <= Last(i)
BY WidthAssumption DEF IInv, InPart, TypeOK

\* The parts the threads hash do not meet, when starts are not moved (Disjoint).
THEOREM ThreadsAreDisjoint == Spec => []Disjoint
<1>1. IInv => Disjoint
  <2>1. SUFFICES ASSUME IInv, ~randomize, NEW i \in Thread, NEW j \in Thread, i < j
                 PROVE  high[i] < low[j]
    BY DEF Disjoint
  <2>2. high[i] <= End(i) /\ Start(j) <= low[j] /\ high[i] \in Int /\ low[j] \in Int
    BY <2>1, HashedRange DEF Last
  <2>3. End(i) < Start(j) /\ End(i) \in Nat /\ Start(j) \in Nat
    BY <2>1, PartsApart, Bounds
  <2>4. QED
    BY <2>2, <2>3
<1>2. QED
  BY <1>1, RangeInvariant, PTL

\* However the starts are moved, two threads both hash one nonce at most: the first
\* of the part of the later one, which is the next thread (MeetAtStartOnly).
THEOREM ThreadsMeetAtStart == Spec => []MeetAtStartOnly
<1>1. IInv => MeetAtStartOnly
  <2>1. SUFFICES ASSUME IInv, NEW i \in Thread, NEW j \in Thread, i < j
                 PROVE  high[i] < low[j] \/ (high[i] = Start(j) /\ j = i + 1)
    BY DEF MeetAtStartOnly
  <2>2. /\ high[i] \in Int /\ low[j] \in Int
        /\ high[i] <= Last(i) /\ Start(j) <= low[j]
    BY <2>1, HashedRange
  <2>3. /\ Last(i) \in Nat /\ Last(i) <= Start(i) + Part
        /\ Start(i) \in Nat /\ Start(j) \in Nat /\ Part \in Nat /\ Part > 0
    BY <2>1, LastFacts, Bounds, PartIsNat, ReserveAssumption DEF IInv, TypeOK
  <2>4. i \in Nat /\ j \in Nat /\ i + 1 <= j
    BY <2>1 DEF Thread
  <2>5. CASE j = i + 1
    <3>1. Start(j) = Start(i) + Part
      BY <2>3, <2>4, <2>5 DEF Start
    <3> QED BY <2>2, <2>3, <2>5, <3>1
  <2>6. CASE i + 2 <= j
    <3>1. Part * (i + 2) <= Part * j
      BY <2>3, <2>4, <2>6, Monotone
    <3>2. Part * (i + 2) = Start(i) + Part + Part /\ Part * j = Start(j)
      BY <2>3, <2>4 DEF Start
    <3> QED BY <2>2, <2>3, <3>1, <3>2
  <2>7. QED
    BY <2>4, <2>5, <2>6
<1>2. QED
  BY <1>1, RangeInvariant, PTL

\* hashes_done is off by at most one, since the nonce does not wrap within a scan
\* (CountWithinOne).
THEOREM CountIsWithinOne == Spec => []CountWithinOne
<1>1. IInv => CountWithinOne
  BY DEF IInv, Counted, CountWithinOne
<1>2. QED
  BY <1>1, RangeInvariant, PTL
=============================================================================
