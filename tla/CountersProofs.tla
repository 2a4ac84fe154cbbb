---------------------------- MODULE CountersProofs ----------------------------
(***************************************************************************)
(* Proofs about Counters, for any number of keys and jobs, any limits and  *)
(* any lifetime.                                                           *)
(***************************************************************************)
EXTENDS Counters, FiniteSetTheorems, TLAPS

\* A key nobody outlived counts every job that holds a place.
QuotaInv ==
  \A k \in Quotas \ outlived :
    /\ Cardinality(Holders(k)) <= count[k]
    /\ Cardinality(Running(k)) <= MaxConcurrent

\* The calls a window has let through since it opened, and those of the window before.
\* A window that has run out counts as the current one until the next opens.
Current(k) == {c \in recent[k] : c[2] <= Lifetime - ttl[k]}
Earlier(k) == recent[k] \ Current(k)

\* No two calls of a window have the same number.
OneEach(S) == \A c, d \in S : c[1] = d[1] => c = d

\* A window is open just while it counts something; the numbers of its calls are those
\* INCR has returned so far; when it opens, all its recent calls are of earlier ticks.
WindowInv ==
  \A k \in Windows :
    /\ count[k] >= 0
    /\ ttl[k] = 0 <=> count[k] = 0
    /\ OneEach(Current(k)) /\ OneEach(Earlier(k))
    /\ ttl[k] > 0 => \A c \in Current(k) : c[1] <= count[k]
    /\ ttl[k] = 0 => \A c \in recent[k] : c[2] > 0

CountInv == TypeOK /\ PositiveRunsOut /\ QuotaInv

Inv == CountInv /\ WindowInv

-----------------------------------------------------------------------------
(***************************************************************************)
(* Places.                                                                 *)
(***************************************************************************)

\* Every call of a set grown a tick older was in the set, short of its last tick.
LEMMA AgedIs ==
  ASSUME NEW S \in SUBSET ((1..Limit) \X (0..(Lifetime - 1)))
  PROVE  /\ Aged(S) \subseteq (1..Limit) \X (0..(Lifetime - 1))
         /\ \A c \in Aged(S) :
              \E d \in S : d[2] \in 0..(Lifetime - 2) /\ c = <<d[1], d[2] + 1>>
<1> USE CountersAssumption
<1>1. ASSUME NEW c \in Aged(S)
      PROVE  \E d \in S : d[2] \in 0..(Lifetime - 2) /\ c = <<d[1], d[2] + 1>>
  <2>1. PICK d \in S : d[2] < Lifetime - 1 /\ c = <<d[1], d[2] + 1>>
    BY DEF Aged
  <2> QED
    BY <2>1
<1>2. ASSUME NEW c \in Aged(S) PROVE c \in (1..Limit) \X (0..(Lifetime - 1))
  <2>1. PICK d \in S : d[2] \in 0..(Lifetime - 2) /\ c = <<d[1], d[2] + 1>>
    BY <1>1
  <2> QED
    BY <2>1
<1> QED
  BY <1>1, <1>2

LEMMA PlacesAreFinite ==
  \A k \in Quotas : /\ IsFiniteSet(Holders(k)) /\ IsFiniteSet(Running(k))
                    /\ Running(k) \subseteq Holders(k)
                    /\ Cardinality(Holders(k)) \in Nat /\ Cardinality(Running(k)) \in Nat
                    /\ Cardinality(Running(k)) <= Cardinality(Holders(k))
<1> SUFFICES ASSUME NEW k \in Quotas
             PROVE  /\ IsFiniteSet(Holders(k)) /\ IsFiniteSet(Running(k))
                    /\ Running(k) \subseteq Holders(k)
                    /\ Cardinality(Holders(k)) \in Nat /\ Cardinality(Running(k)) \in Nat
                    /\ Cardinality(Running(k)) <= Cardinality(Holders(k))
  OBVIOUS
<1>1. Holders(k) \subseteq Jobs /\ Running(k) \subseteq Holders(k)
  BY DEF Holders, Running, Holding
<1>2. IsFiniteSet(Holders(k))
  BY <1>1, FS_Subset, CountersAssumption
<1> QED
  BY <1>1, <1>2, FS_Subset, FS_CardinalityType

\* A job enters a place: only the key it counts for has one holder more, and one run
\* more when the job runs.
LEMMA PlaceTaken ==
  ASSUME TypeOK, NEW j \in Jobs, run[j] = "queued",
         NEW label \in {"refused", "running"}, run' = [run EXCEPT ![j] = label]
  PROVE  \A k \in Quotas :
           /\ Cardinality(Holders(k)') = IF k = QuotaOf[j] THEN Cardinality(Holders(k)) + 1
                                         ELSE Cardinality(Holders(k))
           /\ k # QuotaOf[j] \/ label = "refused" => Running(k)' = Running(k)
           /\ Cardinality(Running(k)') <= Cardinality(Holders(k)')
<1> SUFFICES ASSUME NEW k \in Quotas
             PROVE  /\ Cardinality(Holders(k)') = IF k = QuotaOf[j]
                                                    THEN Cardinality(Holders(k)) + 1
                                                    ELSE Cardinality(Holders(k))
                    /\ k # QuotaOf[j] \/ label = "refused" => Running(k)' = Running(k)
                    /\ Cardinality(Running(k)') <= Cardinality(Holders(k)')
  OBVIOUS
<1>1. \A i \in Jobs : run'[i] = IF i = j THEN label ELSE run[i]
  BY DEF TypeOK
<1>2. j \notin Holders(k)
  BY DEF Holders, Holding
<1>3. Holders(k)' = IF k = QuotaOf[j] THEN Holders(k) \cup {j} ELSE Holders(k)
  BY <1>1 DEF Holders, Holding
<1>4. IsFiniteSet(Holders(k)) /\ IsFiniteSet(Holders(k)')
  BY <1>3, PlacesAreFinite, FS_AddElement
<1>5. Running(k)' \subseteq Holders(k)'
  BY DEF Holders, Running, Holding
<1>6. Cardinality(Holders(k)') = IF k = QuotaOf[j] THEN Cardinality(Holders(k)) + 1
                                 ELSE Cardinality(Holders(k))
  BY <1>2, <1>3, PlacesAreFinite, FS_AddElement
<1>7. k # QuotaOf[j] \/ label = "refused" => Running(k)' = Running(k)
  BY <1>1 DEF Running
<1> QED
  BY <1>4, <1>5, <1>6, <1>7, FS_Subset

\* A job gives up its place: the key it counts for loses that holder alone.
LEMMA PlaceLeft ==
  ASSUME TypeOK, NEW j \in Jobs, run[j] \in Holding,
         NEW label \in {"queued", "done"}, run' = [run EXCEPT ![j] = label]
  PROVE  \A k \in Quotas :
           /\ Cardinality(Holders(k)') = IF k = QuotaOf[j] THEN Cardinality(Holders(k)) - 1
                                         ELSE Cardinality(Holders(k))
           /\ Cardinality(Running(k)') <= Cardinality(Running(k))
<1> SUFFICES ASSUME NEW k \in Quotas
             PROVE  /\ Cardinality(Holders(k)') = IF k = QuotaOf[j]
                                                    THEN Cardinality(Holders(k)) - 1
                                                    ELSE Cardinality(Holders(k))
                    /\ Cardinality(Running(k)') <= Cardinality(Running(k))
  OBVIOUS
<1>1. \A i \in Jobs : run'[i] = IF i = j THEN label ELSE run[i]
  BY DEF TypeOK
<1>2. k = QuotaOf[j] => j \in Holders(k)
  BY DEF Holders
<1>3. Holders(k)' = IF k = QuotaOf[j] THEN Holders(k) \ {j} ELSE Holders(k)
  BY <1>1 DEF Holders, Holding
<1>4. Running(k)' \subseteq Running(k)
  BY <1>1 DEF Running
<1>5. Cardinality(Running(k)') <= Cardinality(Running(k))
  BY <1>4, PlacesAreFinite, FS_Subset
<1>6. Cardinality(Holders(k) \ {j}) = IF j \in Holders(k) THEN Cardinality(Holders(k)) - 1
                                      ELSE Cardinality(Holders(k))
  <2>1. IsFiniteSet(Holders(k))
    BY PlacesAreFinite
  <2> QED
    BY <2>1, FS_RemoveElement
<1> QED
  BY <1>2, <1>3, <1>5, <1>6

-----------------------------------------------------------------------------
LEMMA InitCount == Init => CountInv
<1> SUFFICES ASSUME Init PROVE CountInv
  OBVIOUS
<1> USE CountersAssumption
<1>1. PositiveRunsOut
  BY DEF Init, PositiveRunsOut
<1>0. TypeOK
  <2>2. recent \in [Windows -> SUBSET ((1..Limit) \X (0..(Lifetime - 1)))]
    BY DEF Init
  <2>3. run \in [Jobs -> {"queued", "done"} \cup Holding] /\ outlived \subseteq Quotas
    BY DEF Init
  <2>4. count \in [Keys -> Int] /\ ttl \in [Keys -> 0..Lifetime] /\ faults \in 0..MaxFaults
    BY DEF Init
  <2> QED
    BY <2>2, <2>3, <2>4 DEF TypeOK
<1>2. ASSUME NEW k \in Quotas
      PROVE  Cardinality(Holders(k)) = 0 /\ Cardinality(Running(k)) = 0 /\ count[k] = 0
  <2>1. Holders(k) = {} /\ Running(k) = {}
    BY DEF Init, Holders, Running, Holding
  <2> QED
    BY <2>1, FS_EmptySet DEF Init, Keys
<1> QED
  BY <1>0, <1>1, <1>2 DEF CountInv, QuotaInv

\* INCR arms the key at 1, and leaves its time to live at any other value.
LEMMA ScriptKeeps ==
  ASSUME TypeOK, PositiveRunsOut, NEW k \in Keys, NEW n \in Int, Script(k, n),
         n = count[k] + 1 \/ (n = count[k] /\ n # 1)
  PROVE  /\ count' \in [Keys -> Int] /\ ttl' \in [Keys -> 0..Lifetime]
         /\ PositiveRunsOut'
<1> USE CountersAssumption
<1>1. PICK left \in Armed(k, n) : ttl' = [ttl EXCEPT ![k] = left]
  BY DEF Script
<1>2. left = IF n = 1 THEN Lifetime ELSE ttl[k]
  BY DEF Armed
<1>3. count' = [count EXCEPT ![k] = n]
  BY DEF Script
<1>4. left \in 0..Lifetime
  BY <1>2 DEF TypeOK
<1>5. n > 0 => left > 0
  BY <1>2 DEF TypeOK, PositiveRunsOut
<1>6. count' \in [Keys -> Int] /\ ttl' \in [Keys -> 0..Lifetime]
  BY <1>1, <1>3, <1>4 DEF TypeOK
<1>7. ASSUME NEW q \in Keys, count'[q] > 0 PROVE ttl'[q] > 0
  <2>1. CASE q = k
    BY <1>1, <1>3, <1>5, <1>7, <2>1 DEF TypeOK
  <2>2. CASE q # k
    BY <1>1, <1>3, <1>7, <2>2 DEF TypeOK, PositiveRunsOut
  <2> QED
    BY <2>1, <2>2
<1> QED
  BY <1>6, <1>7 DEF PositiveRunsOut

LEMMA HitStep ==
  ASSUME CountInv, WindowInv, NEW k \in Windows, Hit(k)
  PROVE  CountInv'
<1> USE CountersAssumption
<1>1. TypeOK /\ PositiveRunsOut /\ k \in Keys
  BY DEF CountInv, Keys
<1>2. Script(k, Counted(k)) /\ UNCHANGED <<run, faults, outlived>>
  BY DEF Hit
<1>3. Counted(k) \in Int /\ (Counted(k) = count[k] + 1 \/ (Counted(k) = count[k] /\ Counted(k) # 1))
  BY <1>1 DEF Counted, TypeOK
<1>4. /\ count' \in [Keys -> Int] /\ ttl' \in [Keys -> 0..Lifetime]
      /\ PositiveRunsOut'
  BY <1>1, <1>2, <1>3, ScriptKeeps
<1>5. recent' \in [Windows -> SUBSET ((1..Limit) \X (0..(Lifetime - 1)))]
  <2>1. CASE UNCHANGED recent
    BY <1>1, <2>1 DEF TypeOK
  <2>2. CASE Passes(count'[k]) /\ recent' = [recent EXCEPT ![k] = @ \cup {<<count'[k], 0>>}]
    <3>1. count'[k] = Counted(k) /\ Counted(k) >= 1
      BY <1>1, <1>2, <1>3 DEF Script, TypeOK, Counted, WindowInv
    <3>2. count'[k] \in 1..Limit /\ 0 \in 0..(Lifetime - 1)
      BY <1>3, <2>2, <3>1 DEF Passes
    <3> QED
      BY <1>1, <2>2, <3>2 DEF TypeOK
  <2> QED
    BY <2>1, <2>2 DEF Hit
<1>6. \A q \in Quotas : /\ count'[q] = count[q]
                        /\ Holders(q)' = Holders(q) /\ Running(q)' = Running(q)
  BY <1>1, <1>2 DEF Script, TypeOK, Keys, Holders, Running
<1> QED
  BY <1>1, <1>2, <1>4, <1>5, <1>6 DEF CountInv, TypeOK, QuotaInv

LEMMA TakeStep ==
  ASSUME CountInv, NEW j \in Jobs, Take(j)
  PROVE  CountInv'
<1> USE CountersAssumption
<1> DEFINE q == QuotaOf[j]
           n == count[q] + 1
           label == IF n > MaxConcurrent THEN "refused" ELSE "running"
<1>1. TypeOK /\ PositiveRunsOut /\ q \in Quotas /\ q \in Keys /\ n \in Int
  BY DEF CountInv, Keys, TypeOK
<1>2. /\ run[j] = "queued" /\ Script(q, n) /\ run' = [run EXCEPT ![j] = label]
      /\ UNCHANGED <<recent, faults, outlived>>
  BY DEF Take, Goto
<1> HIDE DEF q, label
<1>3. label \in {"refused", "running"} /\ (label = "running" => n <= MaxConcurrent)
  BY <1>1 DEF label
<1>4. /\ count' \in [Keys -> Int] /\ ttl' \in [Keys -> 0..Lifetime]
      /\ PositiveRunsOut'
  BY <1>1, <1>2, ScriptKeeps
<1>5. run' \in [Jobs -> {"queued", "done"} \cup Holding]
  BY <1>1, <1>2, <1>3 DEF TypeOK, Holding
<1>6. TypeOK'
  BY <1>1, <1>2, <1>4, <1>5 DEF TypeOK
<1>7. ASSUME NEW k \in Quotas \ outlived
      PROVE  /\ Cardinality(Holders(k)') <= count'[k]
             /\ Cardinality(Running(k)') <= MaxConcurrent
  <2>1. /\ Cardinality(Holders(k)) <= count[k] /\ Cardinality(Running(k)) <= MaxConcurrent
        /\ Cardinality(Holders(k)) \in Nat /\ count[k] \in Int
    BY <1>1, PlacesAreFinite DEF CountInv, QuotaInv, TypeOK, Keys
  <2>2. count'[k] = IF k = q THEN count[k] + 1 ELSE count[k]
    BY <1>1, <1>2 DEF Script, TypeOK, Keys
  <2>3. /\ Cardinality(Holders(k)') = IF k = q THEN Cardinality(Holders(k)) + 1
                                      ELSE Cardinality(Holders(k))
        /\ k # q \/ label = "refused" => Running(k)' = Running(k)
        /\ Cardinality(Running(k)') <= Cardinality(Holders(k)')
    BY <1>1, <1>2, <1>3, PlaceTaken DEF q
  <2>4. Cardinality(Holders(k)') <= count'[k]
    BY <2>1, <2>2, <2>3
  <2>5. Cardinality(Running(k)') <= MaxConcurrent
    <3>1. CASE k # q \/ label = "refused"
      BY <2>1, <2>3, <3>1
    <3>2. CASE k = q /\ label = "running"
      <4>1. count'[k] <= MaxConcurrent /\ count'[k] \in Int
        BY <1>1, <1>3, <2>2, <3>2
      <4>2. Cardinality(Running(k)') \in Nat /\ Cardinality(Holders(k)') \in Nat
        <5>1. IsFiniteSet(Holders(k)') /\ IsFiniteSet(Running(k)')
          <6>1. Holders(k)' \subseteq Jobs /\ Running(k)' \subseteq Jobs
            BY DEF Holders, Running
          <6> QED
            BY <6>1, FS_Subset
        <5> QED
          BY <5>1, FS_CardinalityType
      <4> QED
        BY <2>3, <2>4, <4>1, <4>2
    <3> QED
      BY <1>3, <3>1, <3>2
  <2> QED
    BY <2>4, <2>5
<1> QED
  BY <1>2, <1>4, <1>6, <1>7 DEF CountInv, QuotaInv

\* PutBack, Leave and LeaveThrown give the place back; Die leaves the count too high.
LEMMA GiveBackStep ==
  ASSUME CountInv, NEW j \in Jobs, PutBack(j) \/ Leave(j) \/ LeaveThrown(j) \/ Die(j)
  PROVE  CountInv'
<1> USE CountersAssumption
<1> DEFINE q == QuotaOf[j]
<1>1. TypeOK /\ PositiveRunsOut /\ q \in Quotas /\ q \in Keys
  BY DEF CountInv, Keys
<1>2. /\ run[j] \in Holding
      /\ UNCHANGED <<ttl, recent, outlived>>
      /\ count' \in {count, [count EXCEPT ![q] = count[q] - 1]}
  BY DEF PutBack, Leave, LeaveThrown, Die, Decrement, Holding
<1>3. PICK label \in {"queued", "done"} : run' = [run EXCEPT ![j] = label]
  BY DEF PutBack, Leave, LeaveThrown, Die, Goto
<1>4. faults' \in 0..MaxFaults
  BY <1>1 DEF PutBack, Leave, LeaveThrown, Die, TypeOK
<1> HIDE DEF q
<1>5. count' \in [Keys -> Int] /\ \A k \in Keys :
        count'[k] <= count[k] /\ count'[k] >= IF k = q THEN count[k] - 1 ELSE count[k]
  BY <1>1, <1>2 DEF TypeOK
<1>6. TypeOK'
  BY <1>1, <1>2, <1>3, <1>4, <1>5 DEF TypeOK, Holding
<1>7. PositiveRunsOut'
  <2>1. \A k \in Keys : count[k] \in Int /\ count'[k] \in Int
    BY <1>1, <1>5 DEF TypeOK
  <2> QED
    BY <1>1, <1>2, <1>5, <2>1 DEF PositiveRunsOut
<1>8. ASSUME NEW k \in Quotas \ outlived
      PROVE  /\ Cardinality(Holders(k)') <= count'[k]
             /\ Cardinality(Running(k)') <= MaxConcurrent
  <2>1. /\ Cardinality(Holders(k)) <= count[k] /\ Cardinality(Running(k)) <= MaxConcurrent
        /\ Cardinality(Holders(k)) \in Nat /\ Cardinality(Running(k)) \in Nat
    BY PlacesAreFinite DEF CountInv, QuotaInv
  <2>2. count[k] \in Int /\ count'[k] \in Int /\ k \in Keys
    BY <1>1, <1>5 DEF TypeOK, Keys
  <2>3. /\ Cardinality(Holders(k)') = IF k = q THEN Cardinality(Holders(k)) - 1
                                      ELSE Cardinality(Holders(k))
        /\ Cardinality(Running(k)') <= Cardinality(Running(k))
    BY <1>1, <1>2, <1>3, PlaceLeft DEF q
  <2>4. Cardinality(Running(k)') \in Nat
    <3>1. Running(k)' \subseteq Jobs
      BY DEF Running
    <3> QED
      BY <3>1, FS_Subset, FS_CardinalityType
  <2>5. Cardinality(Holders(k)') <= count'[k]
    BY <1>5, <2>1, <2>2, <2>3
  <2>6. Cardinality(Running(k)') <= MaxConcurrent
    BY <2>1, <2>3, <2>4
  <2> QED
    BY <2>5, <2>6
<1> QED
  BY <1>2, <1>6, <1>7, <1>8 DEF CountInv, QuotaInv

\* The loop ends; the place is still held.
LEMMA EndStep ==
  ASSUME CountInv, NEW j \in Jobs, End(j)
  PROVE  CountInv'
<1> USE CountersAssumption
<1>1. TypeOK
  BY DEF CountInv
<1>2. /\ run[j] = "running" /\ run' = [run EXCEPT ![j] = "leaving"]
      /\ UNCHANGED <<count, ttl, recent, faults, outlived>>
  BY DEF End, Goto
<1>3. TypeOK'
  BY <1>1, <1>2 DEF TypeOK, Holding
<1>4. \A k \in Quotas : Holders(k)' = Holders(k) /\ Running(k)' \subseteq Running(k)
  BY <1>1, <1>2 DEF TypeOK, Holders, Running, Holding
<1>5. ASSUME NEW k \in Quotas \ outlived PROVE Cardinality(Running(k)') <= MaxConcurrent
  <2>1. Cardinality(Running(k)') <= Cardinality(Running(k)) /\ IsFiniteSet(Running(k)')
    BY <1>4, PlacesAreFinite, FS_Subset
  <2>2. Cardinality(Running(k)') \in Nat /\ Cardinality(Running(k)) \in Nat
    BY <2>1, PlacesAreFinite, FS_CardinalityType
  <2> QED
    BY <2>1, <2>2 DEF CountInv, QuotaInv
<1> QED
  BY <1>2, <1>3, <1>4, <1>5 DEF CountInv, QuotaInv, PositiveRunsOut

\* A key that ends while nobody holds a place counts 0 rightly.
LEMMA TickStep ==
  ASSUME CountInv, Tick
  PROVE  CountInv'
<1> USE CountersAssumption
<1>1. TypeOK /\ PositiveRunsOut
  BY DEF CountInv
<1>2. /\ ttl' = [k \in Keys |-> IF ttl[k] > 0 THEN ttl[k] - 1 ELSE 0]
      /\ count' = [k \in Keys |-> IF k \in Ending THEN 0 ELSE count[k]]
      /\ outlived' = outlived \cup {k \in Quotas \cap Ending : Holders(k) # {}}
      /\ UNCHANGED <<run, faults>>
  BY DEF Tick
<1>3. recent' \in [Windows -> SUBSET ((1..Limit) \X (0..(Lifetime - 1)))]
  <2>1. recent' = [k \in Windows |-> Aged(recent[k])]
    BY DEF Tick
  <2>2. \A k \in Windows : recent[k] \subseteq (1..Limit) \X (0..(Lifetime - 1))
    BY <1>1 DEF TypeOK
  <2>3. \A k \in Windows : Aged(recent[k]) \subseteq (1..Limit) \X (0..(Lifetime - 1))
    BY <2>2, AgedIs
  <2> QED
    BY <2>1, <2>3
<1>4. TypeOK'
  BY <1>1, <1>2, <1>3 DEF TypeOK
<1>5. PositiveRunsOut'
  BY <1>1, <1>2 DEF TypeOK, PositiveRunsOut, Ending
<1>6. \A k \in Quotas : Holders(k)' = Holders(k) /\ Running(k)' = Running(k)
  BY <1>2 DEF Holders, Running
<1>7. ASSUME NEW k \in Quotas \ outlived'
      PROVE  /\ Cardinality(Holders(k)) <= count'[k]
             /\ Cardinality(Running(k)) <= MaxConcurrent
  <2>1. /\ Cardinality(Holders(k)) <= count[k]
        /\ Cardinality(Running(k)) <= MaxConcurrent
    BY <1>2 DEF CountInv, QuotaInv
  <2>2. CASE k \in Ending
    <3>1. Holders(k) = {} /\ count'[k] = 0
      BY <1>2, <2>2 DEF Keys
    <3> QED
      BY <2>1, <3>1, FS_EmptySet
  <2>3. CASE k \notin Ending
    BY <1>2, <2>1, <2>3 DEF Keys
  <2> QED
    BY <2>2, <2>3
<1> QED
  BY <1>4, <1>5, <1>6, <1>7 DEF CountInv, QuotaInv

LEMMA CountStep == Inv /\ [Next]_vars => CountInv'
<1> SUFFICES ASSUME Inv, [Next]_vars PROVE CountInv'
  OBVIOUS
<1>0. CountInv /\ WindowInv
  BY DEF Inv
<1>1. CASE UNCHANGED vars
  BY <1>0, <1>1 DEF vars, CountInv, TypeOK, PositiveRunsOut, QuotaInv, Holders, Running
<1>2. ASSUME NEW k \in Windows, Hit(k) PROVE CountInv'
  BY <1>0, <1>2, HitStep
<1>3. ASSUME NEW j \in Jobs, JobStep(j) \/ Die(j) PROVE CountInv'
  BY <1>0, <1>3, TakeStep, GiveBackStep, EndStep DEF JobStep
<1>4. CASE Tick
  BY <1>0, <1>4, TickStep
<1> QED
  BY <1>1, <1>2, <1>3, <1>4 DEF Next

-----------------------------------------------------------------------------
(***************************************************************************)
(* The windows.                                                            *)
(***************************************************************************)

\* A call that passes gets the next number of its window: one more than those so far, or
\* 1 when the call opens the window, and then every recent call was the window's before.
LEMMA WindowHit ==
  ASSUME CountInv, WindowInv, NEW k \in Windows, Hit(k)
  PROVE  WindowInv'
<1> USE CountersAssumption
<1>1. TypeOK /\ k \in Keys /\ Windows \subseteq Keys
  BY DEF CountInv, Keys
<1> DEFINE n == Counted(k)
<1>2. PICK left \in Armed(k, n) : ttl' = [ttl EXCEPT ![k] = left]
  BY DEF Hit, Script
<1>3. count' = [count EXCEPT ![k] = n] /\ left = IF n = 1 THEN Lifetime ELSE ttl[k]
  BY <1>2 DEF Hit, Script, Armed
<1>4. /\ count[k] \in Int /\ count[k] >= 0 /\ ttl[k] \in 0..Lifetime
      /\ ttl[k] = 0 <=> count[k] = 0
  BY <1>1 DEF TypeOK, WindowInv
<1>5. n \in Int /\ n >= 1 /\ (n = count[k] + 1 \/ (n = count[k] /\ n > Limit))
  BY <1>4 DEF Counted
<1>6. recent' = recent \/ (n <= Limit /\ recent' = [recent EXCEPT ![k] = @ \cup {<<n, 0>>}])
  BY <1>1, <1>3 DEF Hit, Passes, TypeOK
<1> HIDE DEF n
<1>7. count'[k] = n /\ ttl'[k] = left /\ left \in 1..Lifetime
  BY <1>1, <1>2, <1>3, <1>4, <1>5 DEF TypeOK
<1>8. ASSUME NEW q \in Windows, q # k
      PROVE  /\ count'[q] = count[q] /\ ttl'[q] = ttl[q] /\ recent'[q] = recent[q]
             /\ Current(q)' = Current(q) /\ Earlier(q)' = Earlier(q)
  BY <1>1, <1>2, <1>3, <1>6, <1>8 DEF TypeOK, Current, Earlier
<1>9. recent[k] \subseteq (1..Limit) \X (0..(Lifetime - 1))
  BY <1>1 DEF TypeOK
<1>10. recent'[k] = recent[k] \/ (n <= Limit /\ recent'[k] = recent[k] \cup {<<n, 0>>})
  BY <1>1, <1>6 DEF TypeOK
<1>11. CASE ttl[k] = 0
  <2>1. n = 1 /\ left = Lifetime /\ \A c \in recent[k] : c[2] > 0 /\ c[2] \in Int
    BY <1>3, <1>4, <1>5, <1>9, <1>11 DEF WindowInv
  <2>2. Current(k)' \subseteq {<<1, 0>>} /\ Earlier(k)' \subseteq recent[k]
    BY <1>7, <1>10, <2>1 DEF Current, Earlier
  <2>3. Current(k) = recent[k]
    BY <1>9, <1>11 DEF Current
  <2>4. OneEach(Current(k))
    BY DEF WindowInv
  <2>5. OneEach(Current(k)') /\ OneEach(Earlier(k)')
    BY <2>2, <2>3, <2>4 DEF OneEach
  <2> QED
    BY <1>5, <1>7, <1>8, <2>1, <2>2, <2>5 DEF WindowInv, OneEach
<1>12. CASE ttl[k] > 0
  <2>0. \A c \in Current(k) : c[1] <= count[k] /\ c[1] \in Int
    <3>1. Current(k) \subseteq (1..Limit) \X (0..(Lifetime - 1))
      BY <1>9 DEF Current
    <3> QED
      BY <1>12, <3>1 DEF WindowInv
  <2>1. left = ttl[k] /\ \A c \in Current(k) : c[1] <= count[k] /\ c[1] \in Int
    BY <1>3, <1>4, <1>5, <1>12, <2>0
  <2>2. Earlier(k)' = Earlier(k)
    BY <1>4, <1>7, <1>10, <2>1 DEF Current, Earlier
  <2>3. \/ Current(k)' = Current(k)
        \/ n = count[k] + 1 /\ Current(k)' = Current(k) \cup {<<n, 0>>}
    BY <1>4, <1>5, <1>7, <1>10, <2>1 DEF Current
  <2>4. OneEach(Current(k)) /\ OneEach(Earlier(k))
    BY DEF WindowInv
  <2>5. OneEach(Current(k)') /\ \A c \in Current(k)' : c[1] <= n
    BY <1>4, <1>5, <2>1, <2>3, <2>4 DEF OneEach
  <2> QED
    BY <1>5, <1>7, <1>8, <1>12, <2>1, <2>2, <2>4, <2>5 DEF WindowInv, OneEach
<1> QED
  BY <1>4, <1>11, <1>12

\* With a tick every call is a tick older, and so is its window; in the tick a window
\* ends, what was left of the one before it is no longer recent.
LEMMA WindowTick ==
  ASSUME CountInv, WindowInv, Tick
  PROVE  WindowInv'
<1> USE CountersAssumption
<1>1. TypeOK /\ Windows \subseteq Keys
  BY DEF CountInv, Keys
<1> SUFFICES ASSUME NEW k \in Windows
             PROVE  /\ count'[k] >= 0
                    /\ ttl'[k] = 0 <=> count'[k] = 0
                    /\ OneEach(Current(k)') /\ OneEach(Earlier(k)')
                    /\ ttl'[k] > 0 => \A c \in Current(k)' : c[1] <= count'[k]
                    /\ ttl'[k] = 0 => \A c \in recent'[k] : c[2] > 0
  BY DEF WindowInv, OneEach
<1>2. /\ ttl'[k] = (IF ttl[k] > 0 THEN ttl[k] - 1 ELSE 0)
      /\ count'[k] = (IF ttl[k] = 1 THEN 0 ELSE count[k])
      /\ recent'[k] = Aged(recent[k])
  BY <1>1 DEF Tick, Ending
<1>3. ttl[k] \in 0..Lifetime /\ count[k] \in Int
  BY <1>1 DEF TypeOK
<1>4. recent[k] \subseteq (1..Limit) \X (0..(Lifetime - 1))
  BY <1>1 DEF TypeOK
<1>5. /\ count[k] >= 0 /\ (ttl[k] = 0 <=> count[k] = 0)
      /\ OneEach(Current(k)) /\ OneEach(Earlier(k))
      /\ ttl[k] > 0 => \A c \in Current(k) : c[1] <= count[k]
  BY DEF WindowInv
<1>6. \A c \in recent'[k] :
        \E d \in recent[k] : d[2] \in 0..(Lifetime - 2) /\ c = <<d[1], d[2] + 1>>
  BY <1>2, <1>4, AgedIs
<1>7. \A c \in recent'[k] : c[2] > 0
  BY <1>6
<1>8. ASSUME ttl[k] # 1
      PROVE  /\ \A c \in Current(k)' : \E d \in Current(k) : c = <<d[1], d[2] + 1>>
             /\ \A c \in Earlier(k)' : \E d \in Earlier(k) : c = <<d[1], d[2] + 1>>
  BY <1>2, <1>3, <1>4, <1>6, <1>8 DEF Current, Earlier
<1>9. ASSUME ttl[k] = 1
      PROVE  /\ \A c \in Current(k)' : \E d \in Current(k) : c = <<d[1], d[2] + 1>>
             /\ Earlier(k)' = {}
  BY <1>2, <1>3, <1>4, <1>6, <1>9 DEF Current, Earlier
<1>10. OneEach(Current(k)') /\ OneEach(Earlier(k)')
  BY <1>5, <1>8, <1>9 DEF OneEach
<1>11. ASSUME ttl'[k] > 0, NEW c \in Current(k)' PROVE c[1] <= count'[k]
  BY <1>2, <1>3, <1>5, <1>8, <1>11
<1> QED
  BY <1>2, <1>3, <1>5, <1>7, <1>10, <1>11

\* The jobs count under keys of their own.
LEMMA WindowKept ==
  ASSUME CountInv, WindowInv, NEW j \in Jobs, JobStep(j) \/ Die(j)
  PROVE  WindowInv'
<1>1. TypeOK /\ QuotaOf[j] \in Quotas /\ Windows \cap Quotas = {} /\ Windows \subseteq Keys
  BY CountersAssumption DEF CountInv, Keys
<1>2. recent' = recent
  BY DEF JobStep, Take, PutBack, End, Leave, LeaveThrown, Die
<1>3. \A k \in Windows : count'[k] = count[k]
  BY <1>1 DEF JobStep, Take, PutBack, End, Leave, LeaveThrown, Die, Script, Decrement, TypeOK
<1>4. \A k \in Windows : ttl'[k] = ttl[k]
  BY <1>1 DEF JobStep, Take, PutBack, End, Leave, LeaveThrown, Die, Script, TypeOK
<1> QED
  BY <1>2, <1>3, <1>4 DEF WindowInv, Current, Earlier, OneEach

LEMMA InitInv == Init => Inv
<1> SUFFICES ASSUME Init PROVE WindowInv
  BY InitCount DEF Inv
<1> QED
  BY CountersAssumption DEF Init, WindowInv, Current, Earlier, OneEach, Keys

LEMMA InvStep == Inv /\ [Next]_vars => Inv'
<1> SUFFICES ASSUME Inv, [Next]_vars PROVE WindowInv'
  BY CountStep DEF Inv
<1>0. CountInv /\ WindowInv
  BY DEF Inv
<1>1. CASE UNCHANGED vars
  BY <1>0, <1>1 DEF vars, WindowInv, Current, Earlier, OneEach
<1>2. ASSUME NEW k \in Windows, Hit(k) PROVE WindowInv'
  BY <1>0, <1>2, WindowHit
<1>3. ASSUME NEW j \in Jobs, JobStep(j) \/ Die(j) PROVE WindowInv'
  BY <1>0, <1>3, WindowKept
<1>4. CASE Tick
  BY <1>0, <1>4, WindowTick
<1> QED
  BY <1>1, <1>2, <1>3, <1>4 DEF Next

\* A window passes no more calls than there are numbers within the limit.
LEMMA OneEachBounded ==
  ASSUME NEW S \in SUBSET ((1..Limit) \X (0..(Lifetime - 1))), OneEach(S)
  PROVE  IsFiniteSet(S) /\ Cardinality(S) <= Limit
<1> USE CountersAssumption
<1> DEFINE number == [c \in S |-> c[1]]
<1>1. number \in Injection(S, 1..Limit)
  BY DEF Injection, IsInjective, OneEach
<1>2. IsFiniteSet(1..Limit) /\ Cardinality(1..Limit) = Limit
  BY FS_Interval
<1>3. IsFiniteSet(S) /\ Cardinality(S) <= Cardinality(1..Limit)
  BY <1>1, <1>2, FS_Injection
<1> QED
  BY <1>2, <1>3

LEMMA InvAlways == Spec => []Inv
  BY InitInv, InvStep, PTL DEF Spec

-----------------------------------------------------------------------------
(***************************************************************************)
(* The theorems.                                                           *)
(***************************************************************************)

\* Every counter and every job keeps its type; no time to live is above the script's.
THEOREM TypeCorrect == Spec => []TypeOK
  BY InvAlways, PTL DEF Inv, CountInv

\* Whatever is counted, decremented, lost or left to run out, a key that counts something
\* has an end.
THEOREM CountedKeysRunOut == Spec => []PositiveRunsOut
  BY InvAlways, PTL DEF Inv, CountInv

\* Under any refusals, throws and deaths of any number of jobs the quota holds for every
\* tenant none of whose runs outlived its key.
THEOREM QuotaIsHeld == Spec => []QuotaHeld
<1>1. Inv => QuotaHeld
  BY DEF Inv, CountInv, QuotaInv, QuotaHeld
<1> QED
  BY <1>1, InvAlways, PTL

\* Whatever the lifetime and the limit, however the calls fall and Redis fails: around any
\* edge of a fixed window no more than twice its limit is let through.
THEOREM SlidingBoundHolds == Spec => []SlidingBound
<1>1. ASSUME Inv, NEW k \in Windows PROVE Cardinality(recent[k]) <= 2 * Limit
  <2>1. recent[k] \in SUBSET ((1..Limit) \X (0..(Lifetime - 1)))
    BY <1>1 DEF Inv, CountInv, TypeOK
  <2>2. /\ Current(k) \subseteq recent[k] /\ Earlier(k) \subseteq recent[k]
        /\ recent[k] = Current(k) \cup Earlier(k)
    BY DEF Current, Earlier
  <2>3. OneEach(Current(k)) /\ OneEach(Earlier(k))
    BY <1>1 DEF Inv, WindowInv
  <2>4. /\ IsFiniteSet(Current(k)) /\ Cardinality(Current(k)) <= Limit
        /\ IsFiniteSet(Earlier(k)) /\ Cardinality(Earlier(k)) <= Limit
    BY <2>1, <2>2, <2>3, OneEachBounded
  <2>5. Cardinality(recent[k]) = Cardinality(Current(k)) + Cardinality(Earlier(k))
                                 - Cardinality(Current(k) \cap Earlier(k))
    BY <2>2, <2>4, FS_Union
  <2>6. Current(k) \cap Earlier(k) = {}
    BY DEF Earlier
  <2>7. Cardinality(Current(k)) \in Nat /\ Cardinality(Earlier(k)) \in Nat
    BY <2>4, FS_CardinalityType
  <2>8. Cardinality(Current(k) \cap Earlier(k)) = 0
    BY <2>6, FS_EmptySet, Zenon
  <2>9. Cardinality(recent[k]) = Cardinality(Current(k)) + Cardinality(Earlier(k))
    BY <2>5, <2>7, <2>8
  <2> QED
    BY <2>4, <2>7, <2>9, CountersAssumption
<1>2. Inv => SlidingBound
  BY <1>1 DEF SlidingBound
<1> QED
  BY <1>2, InvAlways, PTL
=============================================================================
