------------------------------ MODULE NonceRange ------------------------------
(***************************************************************************)
(* How the miner threads share out the nonces of one block header          *)
(* (std_get_new_work and miner_thread in cpu-miner.c, the scan loop of     *)
(* algo/argon2d/argon2d-dyn-gate.c).                                       *)
(*                                                                         *)
(* Each thread copies the same header, starts at its own part of the range *)
(* of a uint32_t and scans it in chunks.  After each chunk it comes back   *)
(* to get_new_work, which moves it on by one nonce, or gives it another    *)
(* header when its part is used up; the model ends there.                  *)
(* StratumMining counts nonces from the start of a part; here they are     *)
(* numbers of the width the code gives them.                               *)
(***************************************************************************)
EXTENDS Integers

CONSTANTS
  N,          \* opt_n_threads
  W,          \* largest value of a uint32_t
  Reserve,    \* 0x20: nonces left free at the end of a part
  MaxScan     \* bound: nonces planned for a chunk (max64)

ASSUME ThreadsAssumption == N \in Nat \ {0}
ASSUME WidthAssumption == W \in Nat /\ (W + 1) % 4 = 0
ASSUME ReserveAssumption == Reserve \in Nat \ {0} /\ Reserve < W \div N
ASSUME MaxScanAssumption == MaxScan \in Nat

Thread == 0..N - 1

VARIABLES
  randomize, \* opt_randomize, set by the command line
  at,        \* "take", "ready", "scan", "after" or "gone", for each thread
  nonce,     \* the nonce in the thread's struct work
  max,       \* max_nonce of the chunk
  first,     \* first_nonce of the chunk
  done,      \* hashes_done as the chunk reports it
  made,      \* history: hashes made in the chunk
  low, high  \* history: least and greatest nonce hashed (none: low > high)

vars == <<randomize, at, nonce, max, first, done, made, low, high>>

Nonce == 0..W

TypeOK ==
  /\ randomize \in BOOLEAN
  /\ at \in [Thread -> {"take", "ready", "scan", "after", "gone"}]
  /\ nonce \in [Thread -> Nonce]
  /\ max \in [Thread -> Nonce]
  /\ first \in [Thread -> Nonce]
  /\ done \in [Thread -> Int]
  /\ made \in [Thread -> Nat]
  /\ low \in [Thread -> 0..W + 1]
  /\ high \in [Thread -> -1..W]

Init ==
  /\ randomize \in BOOLEAN
  /\ at = [i \in Thread |-> "take"]
  /\ nonce = [i \in Thread |-> 0]
  /\ max = [i \in Thread |-> 0]
  /\ first = [i \in Thread |-> 0]
  /\ done = [i \in Thread |-> 0]
  /\ made = [i \in Thread |-> 0]
  /\ low = [i \in Thread |-> W + 1]
  /\ high = [i \in Thread |-> -1]

Wrap(n) == n % (W + 1)

Part == W \div N
Start(i) == Part * i

\* A fault for the checks: no reserve.
EndWithoutReserve(i) == Part * (i + 1)

End(i) == Part * (i + 1) - Reserve

\* A fault for the checks: not divided by the number of threads.
OffsetsUndivided == IF randomize THEN {n \in Nonce : n % 4 = 0} ELSE {0}

\* ( rand() * 4 & UINT32_MAX ) / opt_n_threads, added to the start.
Offsets == IF randomize THEN {n \div N : n \in {k \in Nonce : k % 4 = 0}} ELSE {0}

\* get_new_work, with a header that differs from the thread's own.
Take(i) ==
  /\ at[i] = "take"
  /\ \E o \in Offsets : nonce' = [nonce EXCEPT ![i] = Wrap(Start(i) + o)]
  /\ at' = [at EXCEPT ![i] = "ready"]
  /\ UNCHANGED <<randomize, max, first, done, made, low, high>>

\* max_nonce, computed in 64 bits from the planned number of nonces.
MaxNonce(i, max64) == IF nonce[i] + max64 > End(i) THEN End(i) ELSE nonce[i] + max64

BeginChunk(i) ==
  /\ at[i] = "ready"
  /\ \E max64 \in 1..MaxScan : max' = [max EXCEPT ![i] = MaxNonce(i, max64)]
  /\ first' = [first EXCEPT ![i] = nonce[i]]
  /\ made' = [made EXCEPT ![i] = 0]
  /\ at' = [at EXCEPT ![i] = "scan"]
  /\ UNCHANGED <<randomize, nonce, done, low, high>>

\* The hash of the present nonce.
Hash(i) ==
  /\ at[i] = "scan"
  /\ made' = [made EXCEPT ![i] = made[i] + 1]
  /\ low' = [low EXCEPT ![i] = IF nonce[i] < low[i] THEN nonce[i] ELSE low[i]]
  /\ high' = [high EXCEPT ![i] = IF nonce[i] > high[i] THEN nonce[i] ELSE high[i]]
  /\ UNCHANGED <<randomize, max, first>>

\* It is a share: return 1.
Hit(i) ==
  /\ Hash(i)
  /\ done' = [done EXCEPT ![i] = nonce[i] - first[i]]
  /\ at' = [at EXCEPT ![i] = "after"]
  /\ UNCHANGED nonce

\* A fault for the checks: counted from the start of the part.
DoneFromStart(i) == Wrap(nonce[i] + 1) - Start(i) + 1

\* pdata[19] - first_nonce + 1, after nonce++.
DoneAfterMiss(i) == Wrap(nonce[i] + 1) - first[i] + 1

\* It is not, and the loop goes on ...
MissGoOn(i) ==
  /\ Hash(i)
  /\ nonce' = [nonce EXCEPT ![i] = Wrap(nonce[i] + 1)]
  /\ Wrap(nonce[i] + 1) < max[i]
  /\ UNCHANGED <<at, done>>

\* ... or ends: at max_nonce, or when a restart is asked for.
MissEnd(i) ==
  /\ Hash(i)
  /\ nonce' = [nonce EXCEPT ![i] = Wrap(nonce[i] + 1)]
  /\ done' = [done EXCEPT ![i] = DoneAfterMiss(i)]
  /\ at' = [at EXCEPT ![i] = "after"]

\* Back in get_new_work with the same header: ++nonce, or the part is used up
\* and another header is built.
NextChunk(i) ==
  /\ at[i] = "after"
  /\ nonce[i] < End(i)
  /\ nonce' = [nonce EXCEPT ![i] = Wrap(nonce[i] + 1)]
  /\ at' = [at EXCEPT ![i] = "ready"]
  /\ UNCHANGED <<randomize, max, first, done, made, low, high>>

UsedUp(i) ==
  /\ at[i] = "after"
  /\ nonce[i] >= End(i)
  /\ at' = [at EXCEPT ![i] = "gone"]
  /\ UNCHANGED <<randomize, nonce, max, first, done, made, low, high>>

Step(i) == \/ Take(i) \/ BeginChunk(i) \/ Hit(i) \/ MissGoOn(i) \/ MissEnd(i)
           \/ NextChunk(i) \/ UsedUp(i)
Next == \E i \in Thread : Step(i)
Spec == Init /\ [][Next]_vars

-----------------------------------------------------------------------------

\* With its start not moved at random, no thread hashes a nonce that another
\* thread hashes for the same header.
Disjoint == ~randomize =>
  \A i, j \in Thread : i < j => high[i] < low[j]

\* With it, the start may lie in the reserve or on the first nonce of the next
\* part: the thread hashes one nonce there and leaves, so two threads meet at
\* most in the first nonce of the later one's part.
MeetAtStartOnly ==
  \A i, j \in Thread : i < j =>
    high[i] < low[j] \/ (high[i] = Start(j) /\ j = i + 1)

\* What a scan reports as hashes_done, from which the hash rate is computed,
\* is one off, but never more, over hits, misses and restarts.
CountWithinOne ==
  \A i \in Thread : at[i] = "after" => done[i] - made[i] \in -1..1
=============================================================================
