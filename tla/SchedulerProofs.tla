-------------------------- MODULE SchedulerProofs --------------------------
(***************************************************************************)
(* What holds of the scheduler for every set of units and every            *)
(* configuration, by induction over the steps of Spec.                     *)
(***************************************************************************)
EXTENDS Scheduler, FiniteSetTheorems, WellFoundedInduction, TLAPS

-----------------------------------------------------------------------------
(* Counting *)

\* The members of a finite set that f maps to x are finite in number, and
\* adding or taking away one element changes that number by one or not at all.
LEMMA CountFinite ==
  ASSUME NEW S, IsFiniteSet(S), NEW f, NEW x
  PROVE  /\ IsFiniteSet(Having(f, x, S))
         /\ Cardinality(Having(f, x, S)) \in Nat
         /\ Cardinality(Having(f, x, S)) <= Cardinality(S)
<1>1. Having(f, x, S) \in SUBSET S
  BY DEF Having
<1>2. /\ IsFiniteSet(Having(f, x, S))
      /\ Cardinality(Having(f, x, S)) <= Cardinality(S)
  BY <1>1, FS_Subset
<1> QED BY <1>2, FS_CardinalityType

LEMMA CountAdd ==
  ASSUME NEW S, IsFiniteSet(S), NEW f, NEW x, NEW u, u \notin S
  PROVE  Cardinality(Having(f, x, S \cup {u})) =
           Cardinality(Having(f, x, S)) + (IF f[u] = x THEN 1 ELSE 0)
<1>1. /\ IsFiniteSet(Having(f, x, S))
      /\ Cardinality(Having(f, x, S)) \in Nat
  BY CountFinite
<1>2. u \notin Having(f, x, S)
  BY DEF Having
<1>3. CASE f[u] = x
  <2>1. Having(f, x, S \cup {u}) = Having(f, x, S) \cup {u}
    BY <1>3 DEF Having
  <2> QED BY <1>1, <1>2, <1>3, <2>1, FS_AddElement
<1>4. CASE f[u] # x
  <2>1. Having(f, x, S \cup {u}) = Having(f, x, S)
    BY <1>4 DEF Having
  <2> QED BY <1>1, <1>4, <2>1
<1> QED BY <1>3, <1>4

LEMMA CountRemove ==
  ASSUME NEW S, IsFiniteSet(S), NEW f, NEW x, NEW u, u \in S
  PROVE  Cardinality(Having(f, x, S \ {u})) =
           Cardinality(Having(f, x, S)) - (IF f[u] = x THEN 1 ELSE 0)
<1>1. S \ {u} \in SUBSET S /\ u \notin S \ {u} /\ (S \ {u}) \cup {u} = S
  OBVIOUS
<1>2. IsFiniteSet(S \ {u})
  BY <1>1, FS_Subset
<1>3. Cardinality(Having(f, x, S \ {u})) \in Nat
  BY <1>2, CountFinite
<1>4. Cardinality(Having(f, x, (S \ {u}) \cup {u})) =
        Cardinality(Having(f, x, S \ {u})) + (IF f[u] = x THEN 1 ELSE 0)
  BY <1>1, <1>2, CountAdd
<1> QED BY <1>1, <1>3, <1>4

-----------------------------------------------------------------------------
(* Summing *)

\* Total(d, S) is defined by recursion on S, removing the element that CHOOSE
\* names.  The lemmas of this section say that the order of removal does not
\* matter.  They replace an induction on the size of a finite set by its
\* smallest counterexample: of the subsets that break the claim one has the
\* fewest elements, and without one of its elements it would keep the claim.

\* Every non-empty set of natural numbers has a least element.
LEMMA LeastNatural ==
  ASSUME NEW N, N \subseteq Nat, N # {}
  PROVE  \E n \in N : \A m \in N : n <= m
<1>1. PICK n \in N : \A m \in N : <<m, n>> \notin OpToRel(<, Nat)
  BY NatLessThanWellFounded, WFMin
<1>2. \A m \in N : ~(m < n)
  BY <1>1 DEF OpToRel
<1> QED BY <1>2

\* Of a non-empty collection of subsets of a finite set one has the fewest
\* elements; if it is not empty itself, taking any element away leaves the
\* collection.
LEMMA SmallestSubset ==
  ASSUME NEW S, IsFiniteSet(S), NEW C, C \subseteq SUBSET S, C # {}
  PROVE  \E T \in C : \A x \in T : T \ {x} \in (SUBSET S) \ C
<1> DEFINE Sizes == {Cardinality(T) : T \in C}
<1>1. \A T \in SUBSET S : IsFiniteSet(T) /\ Cardinality(T) \in Nat
  BY FS_Subset, FS_CardinalityType
<1>2. Sizes \subseteq Nat /\ Sizes # {}
  BY <1>1
<1>3. PICK n \in Sizes : \A m \in Sizes : n <= m
  BY <1>2, LeastNatural
<1>4. PICK T \in C : Cardinality(T) = n
  OBVIOUS
<1>5. ASSUME NEW x \in T PROVE T \ {x} \in (SUBSET S) \ C
  <2>1. T \ {x} \in SUBSET S /\ n \in Nat /\ Cardinality(T \ {x}) = n - 1
    BY <1>1, <1>2, <1>4, FS_RemoveElement
  <2>2. ASSUME T \ {x} \in C PROVE FALSE
    <3>1. Cardinality(T \ {x}) \in Sizes
      BY <2>2
    <3> HIDE DEF Sizes
    <3>2. n <= Cardinality(T \ {x})
      BY <1>3, <3>1
    <3> QED BY <2>1, <3>2
  <2> QED BY <2>1, <2>2
<1> QED BY <1>5

\* A table of the sums over the subsets of S, whatever element is taken first.
SumTable(sum, d, S) ==
  /\ sum \in [SUBSET S -> Nat]
  /\ sum[{}] = 0
  /\ \A T \in SUBSET S : \A x \in T : sum[T] = sum[T \ {x}] + Estimate[x][d]

\* The equation of the recursive function inside Total.
SumEquation(sum, d, S) ==
  sum = [T \in SUBSET S |->
           IF T = {} THEN 0
           ELSE LET x == CHOOSE x \in T : TRUE IN Estimate[x][d] + sum[T \ {x}]]

LEMMA TableExtends ==
  ASSUME NEW d \in Dims, NEW S \in SUBSET Units, NEW x \in S, NEW part,
         SumTable(part, d, S \ {x})
  PROVE  \E sum : SumTable(sum, d, S)
<1> DEFINE sum == [T \in SUBSET S |->
                     IF x \in T THEN part[T \ {x}] + Estimate[x][d] ELSE part[T]]
<1>1. /\ part \in [SUBSET (S \ {x}) -> Nat]
      /\ \A T \in SUBSET (S \ {x}) : \A y \in T :
           part[T] = part[T \ {y}] + Estimate[y][d]
      /\ \A y \in S : Estimate[y][d] \in Nat
  BY ConfigAssumption DEF SumTable
<1>2. ASSUME NEW T \in SUBSET S
      PROVE  T \ {x} \in SUBSET (S \ {x}) /\ (x \notin T => T \ {x} = T)
  OBVIOUS
<1>3. sum \in [SUBSET S -> Nat]
  <2>1. ASSUME NEW T \in SUBSET S
        PROVE (IF x \in T THEN part[T \ {x}] + Estimate[x][d] ELSE part[T]) \in Nat
    <3>1. part[T \ {x}] \in Nat
      BY <1>1, <1>2
    <3>2. CASE x \in T
      BY <1>1, <3>1, <3>2
    <3>3. CASE x \notin T
      BY <1>2, <3>1, <3>3
    <3> QED BY <3>2, <3>3
  <2> QED BY <2>1
<1>4. sum[{}] = 0
  BY DEF SumTable
<1>5. ASSUME NEW T \in SUBSET S, NEW y \in T
      PROVE  sum[T] = sum[T \ {y}] + Estimate[y][d]
  <2>1. /\ sum[T] = IF x \in T THEN part[T \ {x}] + Estimate[x][d] ELSE part[T]
        /\ sum[T \ {y}] = IF x \in T \ {y}
                            THEN part[(T \ {y}) \ {x}] + Estimate[x][d]
                            ELSE part[T \ {y}]
    OBVIOUS
  <2> HIDE DEF sum
  <2>2. CASE y = x
    BY <2>1, <2>2
  <2>3. CASE y # x /\ x \in T
    <3>1. /\ (T \ {y}) \ {x} = (T \ {x}) \ {y}
          /\ y \in T \ {x}
          /\ T \ {x} \in SUBSET (S \ {x})
          /\ (T \ {x}) \ {y} \in SUBSET (S \ {x})
      BY <2>3
    <3>2. part[T \ {x}] = part[(T \ {x}) \ {y}] + Estimate[y][d]
      BY <1>1, <3>1
    <3>3. /\ part[(T \ {x}) \ {y}] \in Nat
          /\ Estimate[x][d] \in Nat /\ Estimate[y][d] \in Nat
      BY <1>1, <3>1
    <3>4. /\ sum[T] = part[T \ {x}] + Estimate[x][d]
          /\ sum[T \ {y}] = part[(T \ {x}) \ {y}] + Estimate[x][d]
      BY <2>1, <2>3, <3>1
    <3> QED BY <3>2, <3>3, <3>4
  <2>4. CASE x \notin T
    <3>1. T \in SUBSET (S \ {x}) /\ x \notin T \ {y}
      BY <2>4
    <3> QED BY <1>1, <2>1, <2>4, <3>1
  <2> QED BY <2>2, <2>3, <2>4
<1>6. SumTable(sum, d, S)
  BY <1>3, <1>4, <1>5 DEF SumTable
<1> QED BY <1>6

\* Every finite set of units has such a table.
LEMMA TableExists ==
  ASSUME NEW d \in Dims, NEW S \in SUBSET Units
  PROVE  \E sum : SumTable(sum, d, S)
<1> DEFINE Without == {T \in SUBSET S : ~ \E sum : SumTable(sum, d, T)}
<1>1. SUFFICES ASSUME Without # {} PROVE FALSE
  OBVIOUS
<1>2. IsFiniteSet(S)
  BY UnitsAssumption, FS_Subset
<1>3. PICK T \in Without : \A x \in T : T \ {x} \in (SUBSET S) \ Without
  <2>1. Without \subseteq SUBSET S
    OBVIOUS
  <2> HIDE DEF Without
  <2> QED BY <2>1, <1>1, <1>2, SmallestSubset
<1>4. T # {}
  <2>1. SumTable([U \in SUBSET {} |-> 0], d, {})
    BY DEF SumTable
  <2> QED BY <2>1
<1>5. PICK x \in T : TRUE
  BY <1>4
<1>6. PICK part : SumTable(part, d, T \ {x})
  BY <1>3
<1>7. \E sum : SumTable(sum, d, T)
  <2>1. T \in SUBSET Units
    OBVIOUS
  <2> QED BY <1>6, <2>1, TableExtends
<1> QED BY <1>7

LEMMA TableSatisfies ==
  ASSUME NEW d \in Dims, NEW S \in SUBSET Units, NEW sum, SumTable(sum, d, S)
  PROVE  SumEquation(sum, d, S)
<1>1. ASSUME NEW T \in SUBSET S
      PROVE  sum[T] = IF T = {} THEN 0
                      ELSE LET x == CHOOSE x \in T : TRUE
                           IN  Estimate[x][d] + sum[T \ {x}]
  <2>1. CASE T = {}
    BY <2>1 DEF SumTable
  <2>2. CASE T # {}
    <3> DEFINE x == CHOOSE x \in T : TRUE
    <3>1. x \in T
      BY <2>2
    <3> HIDE DEF x
    <3>2. /\ sum[T] = sum[T \ {x}] + Estimate[x][d]
          /\ sum[T \ {x}] \in Nat /\ Estimate[x][d] \in Nat
      BY <3>1, ConfigAssumption DEF SumTable
    <3>3. sum[T] = Estimate[x][d] + sum[T \ {x}]
      BY <3>2
    <3> QED BY <2>2, <3>3 DEF x
  <2> QED BY <2>1, <2>2
<1>2. sum = [T \in SUBSET S |-> sum[T]]
  BY DEF SumTable
<1> QED BY <1>1, <1>2 DEF SumEquation

\* The equation has one solution.
LEMMA EquationUnique ==
  ASSUME NEW d, NEW S, IsFiniteSet(S), NEW f, NEW g,
         SumEquation(f, d, S), SumEquation(g, d, S)
  PROVE  \A T \in SUBSET S : f[T] = g[T]
<1> DEFINE Differ == {T \in SUBSET S : f[T] # g[T]}
<1>1. SUFFICES ASSUME Differ # {} PROVE FALSE
  OBVIOUS
<1>2. PICK T \in Differ : \A x \in T : T \ {x} \in (SUBSET S) \ Differ
  <2>1. Differ \subseteq SUBSET S
    OBVIOUS
  <2> HIDE DEF Differ
  <2> QED BY <2>1, <1>1, SmallestSubset
<1> DEFINE x == CHOOSE x \in T : TRUE
<1>3. T # {}
  BY DEF SumEquation
<1>4. x \in T
  BY <1>3
<1>5. /\ f[T] = Estimate[x][d] + f[T \ {x}]
      /\ g[T] = Estimate[x][d] + g[T \ {x}]
  BY <1>3 DEF SumEquation
<1> HIDE DEF x
<1>6. f[T \ {x}] = g[T \ {x}]
  BY <1>2, <1>4
<1> QED BY <1>5, <1>6

\* So Total is what any table says.
LEMMA TotalIsTable ==
  ASSUME NEW d \in Dims, NEW S \in SUBSET Units, NEW sum, SumTable(sum, d, S)
  PROVE  Total(d, S) = sum[S]
<1> DEFINE iter == CHOOSE f : SumEquation(f, d, S)
<1>1. IsFiniteSet(S)
  BY UnitsAssumption, FS_Subset
<1>2. SumEquation(sum, d, S)
  BY TableSatisfies
<1>3. SumEquation(iter, d, S)
  BY <1>2
<1>4. Total(d, S) = iter[S]
  BY DEF Total, MapThenSumSet, MapThenFoldSet, SumEquation
<1> QED BY <1>1, <1>2, <1>3, <1>4, EquationUnique

\* The sum over no unit is zero; a unit more or less changes the sum by its
\* estimate.
LEMMA TotalEmpty ==
  ASSUME NEW d \in Dims
  PROVE  Total(d, {}) = 0
<1>1. PICK sum : SumTable(sum, d, {})
  BY TableExists
<1> QED BY <1>1, TotalIsTable DEF SumTable

LEMMA TotalRemove ==
  ASSUME NEW d \in Dims, NEW S \in SUBSET Units, NEW u \in S
  PROVE  /\ Total(d, S \ {u}) \in Nat
         /\ Total(d, S) = Total(d, S \ {u}) + Estimate[u][d]
<1>1. PICK sum : SumTable(sum, d, S)
  BY TableExists
<1>2. S \ {u} \in SUBSET S /\ S \ {u} \in SUBSET Units
  OBVIOUS
<1>3. Total(d, S) = sum[S]
  BY <1>1, TotalIsTable
<1>4. Total(d, S \ {u}) = sum[S \ {u}]
  <2> DEFINE part == [T \in SUBSET (S \ {u}) |-> sum[T]]
  <2>1. SumTable(part, d, S \ {u})
    BY <1>1 DEF SumTable
  <2>2. Total(d, S \ {u}) = part[S \ {u}]
    BY <1>2, <2>1, TotalIsTable
  <2> QED BY <2>2
<1> QED BY <1>1, <1>2, <1>3, <1>4 DEF SumTable

LEMMA TotalAdd ==
  ASSUME NEW d \in Dims, NEW S \in SUBSET Units, NEW u \in Units, u \notin S
  PROVE  Total(d, S \cup {u}) = Total(d, S) + Estimate[u][d]
<1>1. /\ S \cup {u} \in SUBSET Units /\ u \in S \cup {u}
      /\ (S \cup {u}) \ {u} = S
  OBVIOUS
<1>2. Total(d, S \cup {u}) = Total(d, (S \cup {u}) \ {u}) + Estimate[u][d]
  BY <1>1, TotalRemove
<1> QED BY <1>1, <1>2

LEMMA TotalType ==
  ASSUME NEW d \in Dims, NEW S \in SUBSET Units
  PROVE  Total(d, S) \in Nat
<1>1. PICK sum : SumTable(sum, d, S)
  BY TableExists
<1>2. sum[S] \in Nat /\ Total(d, S) = sum[S]
  BY <1>1, TotalIsTable DEF SumTable
<1> QED BY <1>2

-----------------------------------------------------------------------------
(* Queues *)

\* Moving a unit takes it out of every other queue: it was in one only.
LEMMA MoveEffect ==
  ASSUME queue \in [QueueKind -> SUBSET Units], OnePlace,
         NEW from \in QueueKind, NEW to \in QueueKind,
         NEW u \in Units, u \in queue[from], Move(u, from, to)
  PROVE  /\ queue' \in [QueueKind -> SUBSET Units]
         /\ \A q \in QueueKind :
              queue'[q] = IF q = to THEN queue[q] \cup {u} ELSE queue[q] \ {u}
         /\ OnePlace'
<1>1. queue' \in [QueueKind -> SUBSET Units]
  BY DEF Move
<1>2. \A q \in QueueKind :
        queue'[q] = IF q = to THEN queue[q] \cup {u} ELSE queue[q] \ {u}
  <2> SUFFICES ASSUME NEW q \in QueueKind
               PROVE  queue'[q] = IF q = to THEN queue[q] \cup {u}
                                            ELSE queue[q] \ {u}
    OBVIOUS
  <2>1. q # from => u \notin queue[q]
    BY DEF OnePlace
  <2>2. queue' = [queue EXCEPT ![from] = @ \ {u}, ![to] = @ \cup {u}]
    BY DEF Move
  <2>3. CASE q = to
    BY <2>2, <2>3
  <2>4. CASE q # to /\ q = from
    BY <2>2, <2>4
  <2>5. CASE q # to /\ q # from
    BY <2>1, <2>2, <2>5
  <2> QED BY <2>3, <2>4, <2>5
<1>3. OnePlace'
  BY <1>2 DEF OnePlace
<1> QED BY <1>1, <1>2, <1>3

-----------------------------------------------------------------------------
(* Types and slots *)

\* The slots are running units and the counts count them.  They are all the
\* running units as long as nobody resets the limiter under them.
SlotInv ==
  /\ slots \subseteq queue["Running"]
  /\ \A k \in Kinds : kindCount[k] = Cardinality(OfKind(k, slots))
  /\ "concurrency" \notin Admin => slots = queue["Running"]

\* The types are not inductive alone: that no count goes below zero needs
\* SlotInv, and SlotInv needs a unit to be in one queue only.
IInv == TypeOK /\ OnePlace /\ SlotInv

LEMMA SubsetFinite == ASSUME NEW S \in SUBSET Units PROVE IsFiniteSet(S)
BY UnitsAssumption, FS_Subset

LEMMA ReleaseSlotEffect ==
  ASSUME TypeOK, SlotInv, NEW u \in Units, ReleaseSlot(u)
  PROVE  /\ slots' = slots \ {u}
         /\ kindCount' \in [Kinds -> Nat]
         /\ \A k \in Kinds : kindCount'[k] = Cardinality(OfKind(k, slots'))
<1>1. IsFiniteSet(slots) /\ IsFiniteSet(slots') /\ slots' = slots \ {u}
  BY SubsetFinite DEF TypeOK, ReleaseSlot
<1>2. KindOf[u] \in Kinds /\ kindCount \in [Kinds -> Nat]
  BY UnitsAssumption DEF TypeOK
<1>3. \A k \in Kinds : kindCount'[k] = Cardinality(OfKind(k, slots'))
  <2> SUFFICES ASSUME NEW k \in Kinds
               PROVE  kindCount'[k] = Cardinality(OfKind(k, slots'))
    OBVIOUS
  <2>1. kindCount[k] = Cardinality(Having(KindOf, k, slots))
    BY DEF SlotInv, OfKind
  <2>2. CASE u \in slots
    <3>1. Cardinality(Having(KindOf, k, slots \ {u})) =
            Cardinality(Having(KindOf, k, slots)) -
              (IF KindOf[u] = k THEN 1 ELSE 0)
      BY <1>1, <2>2, CountRemove
    <3>2. kindCount'[k] = kindCount[k] - (IF KindOf[u] = k THEN 1 ELSE 0)
      BY <1>2, <2>2 DEF ReleaseSlot
    <3> QED BY <1>1, <2>1, <3>1, <3>2 DEF OfKind
  <2>3. CASE u \notin slots
    <3>1. slots' = slots /\ kindCount' = kindCount
      BY <1>1, <2>3 DEF ReleaseSlot
    <3> QED BY <2>1, <3>1 DEF OfKind
  <2> QED BY <2>2, <2>3
<1>4. \A k \in Kinds : kindCount'[k] \in Nat
  BY <1>1, <1>3, CountFinite DEF OfKind
<1>5. kindCount' = [k \in Kinds |-> kindCount'[k]]
  BY <1>2 DEF ReleaseSlot
<1> QED BY <1>1, <1>3, <1>4, <1>5

LEMMA ReleaseEffect ==
  ASSUME TypeOK, SlotInv, NEW u \in Units, Release(u)
  PROVE  /\ slots' = slots \ {u}
         /\ kindCount' \in [Kinds -> Nat]
         /\ \A k \in Kinds : kindCount'[k] = Cardinality(OfKind(k, slots'))
         /\ reservations' \subseteq Estimated
         /\ consumed' \in [Dims -> Int]
         /\ tokens' \in 0..RateCapacity
         /\ groupCount' \in [Kinds -> Nat]
         /\ workspaceCount' \in [Workspaces -> Nat]
<1>1. /\ slots' = slots \ {u}
      /\ kindCount' \in [Kinds -> Nat]
      /\ \A k \in Kinds : kindCount'[k] = Cardinality(OfKind(k, slots'))
  BY ReleaseSlotEffect DEF Release
<1>2. reservations' \subseteq Estimated /\ consumed' \in [Dims -> Int]
  <2>1. u \in reservations => Estimate[u] \in [Dims -> Nat]
    BY ConfigAssumption
  <2> QED BY <2>1 DEF TypeOK, Release, ReleaseBudget
<1>3. tokens' \in 0..RateCapacity
  BY ConfigAssumption DEF TypeOK, Release, ReturnToken, AtMost
<1>4. groupCount' \in [Kinds -> Nat] /\ workspaceCount' \in [Workspaces -> Nat]
  <2>1. \A n \in Nat : LessOne(n) \in Nat
    BY DEF LessOne
  <2> QED BY <2>1 DEF TypeOK, Release, ReleaseFairness
<1> QED BY <1>1, <1>2, <1>3, <1>4

LEMMA IInvInit == Init => IInv
<1> SUFFICES ASSUME Init PROVE IInv
  OBVIOUS
<1>1. TypeOK
  BY UnitsAssumption, ConfigAssumption
     DEF Init, TypeOK, SchedulingState
<1>2. OnePlace
  BY DEF Init, OnePlace
<1>3. SlotInv
  <2>1. \A k \in Kinds : OfKind(k, {}) = {}
    BY DEF OfKind, Having
  <2>2. "Running" \in QueueKind
    BY DEF QueueKind
  <2> QED BY <2>1, <2>2, FS_EmptySet DEF Init, SlotInv
<1> QED BY <1>1, <1>2, <1>3 DEF IInv

\* Lifecycle commands, resets of other counters, and the clocks leave the
\* queues and the slots alone.
LEMMA LifecycleKeepsIInv == ASSUME IInv, LifecycleCommand PROVE IInv'
<1>1. /\ UNCHANGED <<pc, queue, state, agingVars, poolVars, retryVars, dead,
                     failedRuns>>
      /\ lifecycle' \in {"Idle", "Running", "Paused", "Stopped"}
  BY DEF LifecycleCommand, Start, Stop, Pause, Resume, LifecycleStep
<1>2. TypeOK'
  BY <1>1 DEF IInv, TypeOK, agingVars, poolVars, concurrencyVars, budgetVars,
              fairnessVars, retryVars
<1>3. OnePlace' /\ SlotInv'
  BY <1>1 DEF IInv, OnePlace, SlotInv, poolVars, concurrencyVars
<1> QED BY <1>2, <1>3 DEF IInv

LEMMA TimeKeepsIInv == ASSUME IInv, Time PROVE IInv'
<1>1. UNCHANGED <<queue, concurrencyVars>>
  BY DEF Time, Refill, RetryDue, Age, poolVars
<1>2. OnePlace' /\ SlotInv'
  BY <1>1 DEF IInv, OnePlace, SlotInv, concurrencyVars
<1>3. ASSUME Refill PROVE TypeOK'
  BY <1>3, ConfigAssumption
     DEF IInv, TypeOK, Refill, agingVars, concurrencyVars, budgetVars,
         fairnessVars, retryVars
<1>4. ASSUME NEW u \in Units, RetryDue(u) PROVE TypeOK'
  BY <1>4 DEF IInv, TypeOK, RetryDue, agingVars, poolVars, concurrencyVars,
              budgetVars, fairnessVars
<1>5. ASSUME NEW u \in Units, Age(u) PROVE TypeOK'
  <2>1. age' \in [Units -> 0..MaxAgingLevels]
    BY <1>5, ConfigAssumption DEF IInv, TypeOK, Age
  <2> QED BY <1>5, <2>1
             DEF IInv, TypeOK, Age, poolVars, concurrencyVars, budgetVars,
                 fairnessVars, retryVars
<1> QED BY <1>2, <1>3, <1>4, <1>5 DEF Time, IInv

LEMMA AdminKeepsIInv == ASSUME IInv, AdminCommand PROVE IInv'
<1>1. CASE ConcurrencyReset
  <2>1. /\ slots' = {} /\ kindCount' = [k \in Kinds |-> 0]
        /\ "concurrency" \in Admin
        /\ UNCHANGED <<lifecycle, pc, queue, state, priority, age, reservations,
                       consumed, groupCount, workspaceCount, tokens, attempt,
                       due, dead, failedRuns>>
    BY <1>1 DEF ConcurrencyReset, ResetStep, agingVars, budgetVars, fairnessVars,
                retryVars
  <2>2. TypeOK' /\ OnePlace'
    BY <2>1 DEF IInv, TypeOK, OnePlace
  <2>3. \A k \in Kinds : Cardinality(OfKind(k, {})) = 0
    BY FS_EmptySet DEF OfKind, Having
  <2>4. SlotInv'
    BY <2>1, <2>3 DEF SlotInv
  <2> QED BY <2>2, <2>4 DEF IInv
<1>2. CASE UNCHANGED <<queue, concurrencyVars>>
  <2>1. OnePlace' /\ SlotInv'
    BY <1>2 DEF IInv, OnePlace, SlotInv, concurrencyVars
  <2>2. ASSUME FairnessReset PROVE TypeOK'
    BY <2>2 DEF IInv, TypeOK, FairnessReset, agingVars, concurrencyVars,
                budgetVars, retryVars
  <2>3. ASSUME BudgetReset PROVE TypeOK'
    BY <2>3 DEF IInv, TypeOK, BudgetReset, agingVars, concurrencyVars,
                fairnessVars, retryVars
  <2>4. ASSUME RateLimiterReset PROVE TypeOK'
    BY <2>4, ConfigAssumption
       DEF IInv, TypeOK, RateLimiterReset, agingVars, concurrencyVars,
           budgetVars, fairnessVars, retryVars
  <2>5. ASSUME NEW removed, DeadQueueRemove(removed) PROVE TypeOK'
    BY <2>5 DEF IInv, TypeOK, DeadQueueRemove, agingVars, poolVars,
                concurrencyVars, budgetVars, fairnessVars, retryVars
  <2>6. CASE ConcurrencyReset
    BY <1>1, <2>6 DEF IInv
  <2> QED BY <2>1, <2>2, <2>3, <2>4, <2>5, <2>6 DEF AdminCommand, IInv
<1> QED BY <1>1, <1>2
           DEF AdminCommand, FairnessReset, BudgetReset, RateLimiterReset,
               DeadQueueRemove, poolVars

\* Taking a unit out of Running, or of any other queue, and releasing it.
LEMMA RetireKeepsSlots ==
  ASSUME IInv, NEW u \in Units, NEW from \in QueueKind, NEW to \in QueueKind,
         u \in queue[from], Move(u, from, to), to # "Running", Release(u)
  PROVE  /\ queue' \in [QueueKind -> SUBSET Units]
         /\ OnePlace' /\ SlotInv'
<1>1. /\ queue' \in [QueueKind -> SUBSET Units]
      /\ OnePlace'
      /\ queue'["Running"] = queue["Running"] \ {u}
  <2>1. "Running" \in QueueKind
    BY DEF QueueKind
  <2>2. queue \in [QueueKind -> SUBSET Units] /\ OnePlace
    BY DEF IInv, TypeOK
  <2>3. /\ queue' \in [QueueKind -> SUBSET Units]
        /\ \A q \in QueueKind :
             queue'[q] = IF q = to THEN queue[q] \cup {u} ELSE queue[q] \ {u}
        /\ OnePlace'
    BY <2>2, MoveEffect
  <2> QED BY <2>1, <2>3
<1>2. /\ slots' = slots \ {u}
      /\ \A k \in Kinds : kindCount'[k] = Cardinality(OfKind(k, slots'))
  BY ReleaseEffect DEF IInv
<1> QED BY <1>1, <1>2 DEF IInv, SlotInv

LEMMA UnitKeepsIInv == ASSUME IInv, UnitCommand PROVE IInv'
<1> PICK u \in Units :
      \/ Enqueue(u) \/ Cancel(u) \/ Complete(u)
      \/ \E retryable \in BOOLEAN : Fail(u, retryable)
  BY DEF UnitCommand
<1> USE DEF IInv
<1>1. CASE Enqueue(u)
  <2>1. queue' = [queue EXCEPT !["Incoming"] = @ \cup {u}]
    BY <1>1 DEF Enqueue
  <2>2. /\ queue' \in [QueueKind -> SUBSET Units]
        /\ queue'["Running"] = queue["Running"]
    BY <2>1 DEF TypeOK, QueueKind
  <2>3. OnePlace'
    <3>1. \A q \in QueueKind : u \notin queue[q]
      BY <1>1 DEF Enqueue, Known
    <3>2. \A q \in QueueKind : queue'[q] = queue[q] \/
            (q = "Incoming" /\ queue'[q] = queue[q] \cup {u})
      BY <2>1 DEF TypeOK
    <3> QED BY <3>1, <3>2 DEF OnePlace
  <2>4. TypeOK'
    BY <1>1, <2>2
       DEF Enqueue, TypeOK, SchedulingState, agingVars, poolVars,
           concurrencyVars, budgetVars, fairnessVars, retryVars
  <2>5. SlotInv'
    BY <1>1, <2>2 DEF Enqueue, SlotInv, poolVars, concurrencyVars
  <2> QED BY <2>3, <2>4, <2>5
<1>2. CASE Cancel(u)
  <2> PICK q \in QueueKind : u \in queue[q] /\ Move(u, q, "Cancelled")
    BY <1>2 DEF Cancel
  <2>1. Release(u) /\ "Cancelled" \in QueueKind
    BY <1>2 DEF Cancel, QueueKind, Terminal
  <2>2. queue' \in [QueueKind -> SUBSET Units] /\ OnePlace' /\ SlotInv'
    BY <2>1, RetireKeepsSlots
  <2>3. TypeOK'
    BY <1>2, <2>1, <2>2, ReleaseEffect
       DEF Cancel, TypeOK, SchedulingState, agingVars, retryVars
  <2> QED BY <2>2, <2>3
<1>3. CASE Complete(u)
  <2>1. /\ Release(u) /\ u \in queue["Running"]
        /\ Move(u, "Running", "Completed")
        /\ "Running" \in QueueKind /\ "Completed" \in QueueKind
    BY <1>3 DEF Complete, QueueKind, Terminal
  <2>2. queue' \in [QueueKind -> SUBSET Units] /\ OnePlace' /\ SlotInv'
    BY <2>1, RetireKeepsSlots
  <2>3. TypeOK'
    BY <1>3, <2>1, <2>2, ReleaseEffect
       DEF Complete, TypeOK, agingVars, retryVars
  <2> QED BY <2>2, <2>3
<1>4. ASSUME NEW retryable \in BOOLEAN, Fail(u, retryable) PROVE IInv'
  <2> DEFINE to == IF MayRetry(u, retryable) THEN "Retry" ELSE "Failed"
  <2> PICK q \in QueueKind : u \in queue[q] /\ Move(u, q, to)
    BY <1>4 DEF Fail
  <2>1. Release(u) /\ to \in QueueKind /\ to # "Running"
    BY <1>4 DEF Fail, QueueKind, Terminal
  <2>2. queue' \in [QueueKind -> SUBSET Units] /\ OnePlace' /\ SlotInv'
    <3> HIDE DEF to
    <3> QED BY <2>1, RetireKeepsSlots
  <2>3. /\ failedRuns' \in [Units -> Nat]
        /\ lifecycle' = lifecycle /\ pc' = pc
        /\ priority' = priority /\ age' = age
    BY <1>4, ConfigAssumption DEF Fail, TypeOK, agingVars, AtMost
  <2>4. /\ state' \in [Units -> SchedulingState]
        /\ attempt' \in [Units -> Nat] /\ due' \subseteq Units
        /\ dead' \subseteq Units
    BY <1>4 DEF Fail, TypeOK, SchedulingState, retryVars
  <2>5. TypeOK'
    BY <2>1, <2>2, <2>3, <2>4, ReleaseEffect DEF TypeOK
  <2> QED BY <2>2, <2>5
<1> QED BY <1>1, <1>2, <1>3, <1>4

-----------------------------------------------------------------------------
(* tick() keeps them *)

LEMMA TargetType ==
  \A ctx, u : /\ TargetQueue(ctx, u) \in Polled \cup {"Runnable"}
              /\ StateIn(TargetQueue(ctx, u)) \in SchedulingState
<1> TAKE ctx, u
<1>1. TargetQueue(ctx, u) \in Polled \cup {"Runnable"}
  BY DEF TargetQueue, Polled, WaitQueues
<1>2. \A q : StateIn(q) \in SchedulingState
  BY DEF StateIn, SchedulingState
<1> QED BY <1>1, <1>2

LEMMA PolledType == Polled \subseteq QueueKind /\ "Runnable" \notin Polled
                    /\ "Running" \notin Polled /\ "Retry" \notin Polled
BY DEF Polled, WaitQueues, QueueKind

\* Sorting puts every pending unit in one queue, and only there.
LEMMA SortedEffect ==
  ASSUME queue \in [QueueKind -> SUBSET Units], OnePlace, NEW ctx,
         queue' = Sorted(ctx)
  PROVE  /\ queue' \in [QueueKind -> SUBSET Units]
         /\ OnePlace'
         /\ \A q \in QueueKind \ (Polled \cup {"Runnable"}) : queue'[q] = queue[q]
<1>1. Pending \subseteq Units
  BY PolledType DEF Pending
<1>2. \A q \in QueueKind :
        queue'[q] = {u \in Pending : TargetQueue(ctx, u) = q} \cup
                    (IF q \in Polled THEN {} ELSE queue[q])
  BY DEF Sorted
<1>3. queue' \in [QueueKind -> SUBSET Units]
  BY <1>1 DEF Sorted
<1>4. OnePlace'
  <2> SUFFICES ASSUME NEW p \in QueueKind, NEW q \in QueueKind, p # q,
                      NEW u \in queue'[p], u \in queue'[q]
               PROVE  FALSE
    BY DEF OnePlace
  <2>1. CASE u \in Pending
    <3>1. \A r \in QueueKind \ Polled : u \notin queue[r]
      <4>1. PICK s \in Polled : u \in queue[s]
        BY <2>1 DEF Pending
      <4> QED BY <4>1, PolledType DEF OnePlace
    <3>2. TargetQueue(ctx, u) = p /\ TargetQueue(ctx, u) = q
      BY <1>2, <3>1
    <3> QED BY <3>2
  <2>2. CASE u \notin Pending
    <3>1. u \in queue[p] /\ u \in queue[q]
      BY <1>2, <2>2
    <3> QED BY <3>1 DEF OnePlace
  <2> QED BY <2>1, <2>2
<1>5. \A q \in QueueKind \ (Polled \cup {"Runnable"}) : queue'[q] = queue[q]
  BY <1>2, TargetType
<1> QED BY <1>3, <1>4, <1>5

LEMMA TickBeginKeepsIInv == ASSUME IInv, TickBegin PROVE IInv'
<1> USE DEF IInv
<1> PICK ctx \in Contexts :
      /\ queue' = Sorted(ctx)
      /\ state' = [u \in Units |-> IF u \in Pending
                                     THEN StateIn(TargetQueue(ctx, u))
                                     ELSE state[u]]
  BY DEF TickBegin
<1>1. queue \in [QueueKind -> SUBSET Units] /\ OnePlace
  BY DEF TypeOK
<1>2. /\ queue' \in [QueueKind -> SUBSET Units] /\ OnePlace'
      /\ \A q \in QueueKind \ (Polled \cup {"Runnable"}) : queue'[q] = queue[q]
  BY <1>1, SortedEffect
<1>3. queue'["Running"] = queue["Running"]
  <2>1. "Running" \in QueueKind \ (Polled \cup {"Runnable"})
    BY PolledType DEF QueueKind
  <2> QED BY <1>2, <2>1
<1>4. priority' \in [Units -> 0..Critical]
  <2>1. \A u \in Units : priority[u] \in 0..Critical /\ age[u] \in Nat
    BY ConfigAssumption DEF TypeOK
  <2>2. \A m \in 0..Critical, n \in Nat : AtMost(m + n, Critical) \in 0..Critical
    BY DEF AtMost, Critical
  <2> QED BY <2>1, <2>2 DEF TickBegin, AgedPriority
<1>5. state' \in [Units -> SchedulingState]
  BY TargetType DEF TypeOK
<1>6. TypeOK'
  BY <1>2, <1>4, <1>5
     DEF TickBegin, TypeOK, poolVars, concurrencyVars, budgetVars,
         fairnessVars, retryVars
<1>7. SlotInv'
  BY <1>3 DEF TickBegin, SlotInv, poolVars, concurrencyVars
<1> QED BY <1>2, <1>6, <1>7

LEMMA DispatchKeepsIInv ==
  ASSUME IInv, NEW u \in Units, Dispatch(u) PROVE IInv'
<1> USE DEF IInv
<1>1. /\ u \in queue["Runnable"] /\ Move(u, "Runnable", "Running")
      /\ "Runnable" \in QueueKind /\ "Running" \in QueueKind
  BY DEF Dispatch, Heads, QueueKind
<1>2. queue \in [QueueKind -> SUBSET Units] /\ OnePlace
  BY DEF TypeOK
<1>3. /\ queue' \in [QueueKind -> SUBSET Units]
      /\ \A q \in QueueKind :
           queue'[q] = IF q = "Running" THEN queue[q] \cup {u}
                                        ELSE queue[q] \ {u}
      /\ OnePlace'
  BY <1>1, <1>2, MoveEffect
<1>4. queue'["Running"] = queue["Running"] \cup {u} /\ u \notin slots
  BY <1>1, <1>3 DEF OnePlace, SlotInv
<1>5. \A k \in Kinds : kindCount'[k] = Cardinality(OfKind(k, slots'))
  <2> SUFFICES ASSUME NEW k \in Kinds
               PROVE  kindCount'[k] = Cardinality(OfKind(k, slots'))
    OBVIOUS
  <2>1. IsFiniteSet(slots) /\ slots' = slots \cup {u}
    BY SubsetFinite DEF TypeOK, Dispatch
  <2>2. Cardinality(Having(KindOf, k, slots \cup {u})) =
          Cardinality(Having(KindOf, k, slots)) +
            (IF KindOf[u] = k THEN 1 ELSE 0)
    BY <1>4, <2>1, CountAdd
  <2>3. kindCount'[k] = kindCount[k] + (IF KindOf[u] = k THEN 1 ELSE 0)
    BY UnitsAssumption DEF Dispatch, TypeOK
  <2> QED BY <2>1, <2>2, <2>3 DEF SlotInv, OfKind
<1>6. SlotInv'
  BY <1>4, <1>5 DEF SlotInv, Dispatch
<1>7. /\ kindCount' \in [Kinds -> Nat] /\ groupCount' \in [Kinds -> Nat]
      /\ workspaceCount' \in [Workspaces -> Nat]
  <2>1. kindCount' \in [Kinds -> Nat]
    <3>1. kindCount' = [kindCount EXCEPT ![KindOf[u]] = @ + 1]
      BY DEF Dispatch
    <3>2. kindCount \in [Kinds -> Nat] /\ KindOf[u] \in Kinds
      BY UnitsAssumption DEF TypeOK
    <3>3. kindCount[KindOf[u]] + 1 \in Nat
      BY <3>2
    <3> QED BY <3>1, <3>2, <3>3
  <2>2. groupCount' \in [Kinds -> Nat]
    <3>1. groupCount' = [groupCount EXCEPT ![KindOf[u]] = @ + 1]
      BY DEF Dispatch
    <3>2. groupCount \in [Kinds -> Nat] /\ KindOf[u] \in Kinds
      BY UnitsAssumption DEF TypeOK
    <3>3. groupCount[KindOf[u]] + 1 \in Nat
      BY <3>2
    <3> QED BY <3>1, <3>2, <3>3
  <2>3. workspaceCount' \in [Workspaces -> Nat]
    <3>1. workspaceCount' = [workspaceCount EXCEPT ![WorkspaceOf[u]] = @ + 1]
      BY DEF Dispatch
    <3>2. workspaceCount \in [Workspaces -> Nat] /\ WorkspaceOf[u] \in Workspaces
      BY UnitsAssumption DEF TypeOK
    <3>3. workspaceCount[WorkspaceOf[u]] + 1 \in Nat
      BY <3>2
    <3> QED BY <3>1, <3>2, <3>3
  <2> QED BY <2>1, <2>2, <2>3
<1>8. consumed' \in [Dims -> Int] /\ reservations' \subseteq Estimated
  <2>1. Estimate[u] \in [Dims -> Nat]
    BY ConfigAssumption
  <2> QED BY <2>1 DEF Dispatch, TypeOK
<1>9. tokens' \in 0..RateCapacity
  BY ConfigAssumption DEF Dispatch, Admitted, TypeOK
<1>10. /\ state' \in [Units -> SchedulingState] /\ slots' \subseteq Units
       /\ UNCHANGED <<lifecycle, pc, priority, age, attempt, due, dead,
                      failedRuns>>
  BY DEF Dispatch, TypeOK, SchedulingState, agingVars, retryVars
<1>11. TypeOK'
  BY <1>3, <1>7, <1>8, <1>9, <1>10 DEF TypeOK
<1> QED BY <1>3, <1>6, <1>11

LEMMA BlockKeepsIInv ==
  ASSUME IInv, NEW u \in Units, BlockOnBudget(u) PROVE IInv'
<1> USE DEF IInv
<1>1. /\ u \in queue["Runnable"] /\ Move(u, "Runnable", "BudgetWait")
      /\ "Runnable" \in QueueKind /\ "BudgetWait" \in QueueKind
      /\ "Running" \in QueueKind
  BY DEF BlockOnBudget, Heads, QueueKind, WaitQueues
<1>2. queue \in [QueueKind -> SUBSET Units] /\ OnePlace
  BY DEF TypeOK
<1>3. /\ queue' \in [QueueKind -> SUBSET Units]
      /\ \A q \in QueueKind :
           queue'[q] = IF q = "BudgetWait" THEN queue[q] \cup {u}
                                           ELSE queue[q] \ {u}
      /\ OnePlace'
  BY <1>1, <1>2, MoveEffect
<1>4. queue'["Running"] = queue["Running"]
  BY <1>1, <1>3 DEF OnePlace
<1>5. SlotInv'
  BY <1>4 DEF BlockOnBudget, SlotInv, poolVars, concurrencyVars
<1>6. TypeOK'
  BY <1>3 DEF BlockOnBudget, TypeOK, SchedulingState, agingVars, poolVars,
              concurrencyVars, budgetVars, fairnessVars, retryVars
<1> QED BY <1>3, <1>5, <1>6

LEMMA TickEndKeepsIInv == ASSUME IInv, TickEnd PROVE IInv'
<1> USE DEF IInv
<1> DEFINE back == {u \in due : attempt[u] > 0 /\ u \in queue["Retry"]}
<1>1. queue' = [queue EXCEPT !["Retry"] = @ \ back, !["Incoming"] = @ \cup back]
  BY DEF TickEnd
<1>2. queue \in [QueueKind -> SUBSET Units] /\ OnePlace /\ back \subseteq queue["Retry"]
  BY DEF TypeOK
<1> HIDE DEF back
<1>3. /\ "Retry" \in QueueKind /\ "Incoming" \in QueueKind
      /\ "Running" \in QueueKind
  BY DEF QueueKind
<1>4. queue' \in [QueueKind -> SUBSET Units]
  BY <1>1, <1>2, <1>3
<1>5. \A q \in QueueKind : queue'[q] =
        IF q = "Retry" THEN queue[q] \ back
        ELSE IF q = "Incoming" THEN queue[q] \cup back ELSE queue[q]
  BY <1>1, <1>2
<1>6. OnePlace'
  BY <1>2, <1>3, <1>5 DEF OnePlace
<1>7. SlotInv'
  BY <1>3, <1>5 DEF TickEnd, SlotInv, poolVars, concurrencyVars
<1>8. state' \in [Units -> SchedulingState] /\ attempt' \in [Units -> Nat]
  BY DEF TickEnd, TypeOK, SchedulingState
<1>9. TypeOK'
  BY <1>4, <1>8 DEF TickEnd, TypeOK, agingVars, poolVars, concurrencyVars,
                    budgetVars, fairnessVars
<1> QED BY <1>6, <1>7, <1>9

LEMMA IInvStep == IInv /\ [Next]_vars => IInv'
<1> SUFFICES ASSUME IInv, [Next]_vars PROVE IInv'
  OBVIOUS
<1>1. CASE Tick
  BY <1>1, TickBeginKeepsIInv, DispatchKeepsIInv, BlockKeepsIInv,
     TickEndKeepsIInv DEF Tick
<1>2. CASE UNCHANGED vars
  BY <1>2 DEF IInv, TypeOK, OnePlace, SlotInv, vars, agingVars, poolVars,
              concurrencyVars, budgetVars, fairnessVars, retryVars
<1> QED BY <1>1, <1>2, LifecycleKeepsIInv, UnitKeepsIInv, AdminKeepsIInv,
           TimeKeepsIInv DEF Next

THEOREM Invariance == Spec => []IInv
BY IInvInit, IInvStep, PTL DEF Spec

\* Every variable keeps its range; in particular no counter of the limiter or of
\* the fairness tracker is decremented below zero by a release of a unit that
\* held nothing.
THEOREM TypeCorrect == Spec => []TypeOK
<1>1. IInv => TypeOK
  BY DEF IInv
<1> QED BY Invariance, <1>1, PTL

\* A unit is never in two queues.
THEOREM UnitsInOnePlace == Spec => []OnePlace
<1>1. IInv => OnePlace
  BY DEF IInv
<1> QED BY Invariance, <1>1, PTL

\* The slots of the limiter are the Running queue, and its counts count it,
\* unless the limiter is reset under running units.
THEOREM SlotsCorrect ==
  ASSUME "concurrency" \notin Admin PROVE Spec => []SlotsMatchRunning
<1>1. IInv => SlotsMatchRunning
  BY DEF IInv, SlotInv, SlotsMatchRunning
<1> QED BY Invariance, <1>1, PTL

-----------------------------------------------------------------------------
(* What a step does to the queues *)

\* One unit goes to queue "to" and is in no other queue afterwards.
Moved(u, to) ==
  /\ \E from \in QueueKind : u \in queue[from]
  /\ \A q \in QueueKind :
       queue'[q] = IF q = to THEN queue[q] \cup {u} ELSE queue[q] \ {u}

\* The moves of one unit, with what goes along with each.
UnitMove(u) ==
  \/ Moved(u, "Cancelled") /\ Release(u) /\ UNCHANGED <<attempt, dead>>
  \/ Moved(u, "Completed") /\ Release(u) /\ UNCHANGED <<attempt, dead>>
  \/ /\ Moved(u, "Failed") /\ Release(u) /\ UNCHANGED attempt
     /\ dead' = dead \cup {u}
  \/ /\ Moved(u, "Retry") /\ Release(u) /\ UNCHANGED dead
     /\ attempt' = [attempt EXCEPT ![u] = @ + 2]
  \/ Moved(u, "Running") /\ Dispatch(u) /\ UNCHANGED <<attempt, dead>>
  \/ Moved(u, "BudgetWait") /\ BlockOnBudget(u) /\ UNCHANGED <<attempt, dead>>

LEMMA MoveIsMoved ==
  ASSUME IInv, NEW from \in QueueKind, NEW to \in QueueKind, NEW u \in Units,
         u \in queue[from], Move(u, from, to)
  PROVE  Moved(u, to)
<1>1. queue \in [QueueKind -> SUBSET Units] /\ OnePlace
  BY DEF IInv, TypeOK
<1>2. /\ queue' \in [QueueKind -> SUBSET Units]
      /\ \A q \in QueueKind :
           queue'[q] = IF q = to THEN queue[q] \cup {u} ELSE queue[q] \ {u}
      /\ OnePlace'
  BY <1>1, MoveEffect
<1> QED BY <1>2 DEF Moved

LEMMA UnitStep ==
  ASSUME IInv, UnitCommand
  PROVE  \E u \in Units : Enqueue(u) \/ UnitMove(u)
<1> PICK u \in Units :
      \/ Enqueue(u) \/ Cancel(u) \/ Complete(u)
      \/ \E retryable \in BOOLEAN : Fail(u, retryable)
  BY DEF UnitCommand
<1>0. /\ "Cancelled" \in QueueKind /\ "Completed" \in QueueKind
      /\ "Failed" \in QueueKind /\ "Retry" \in QueueKind
      /\ "Running" \in QueueKind
  BY DEF QueueKind, Terminal
<1>1. CASE Cancel(u)
  <2> PICK q \in QueueKind : u \in queue[q] /\ Move(u, q, "Cancelled")
    BY <1>1 DEF Cancel
  <2>1. Moved(u, "Cancelled")
    BY <1>0, MoveIsMoved
  <2> QED BY <1>1, <2>1 DEF Cancel, UnitMove, retryVars
<1>2. CASE Complete(u)
  <2>1. Moved(u, "Completed")
    BY <1>0, <1>2, MoveIsMoved DEF Complete
  <2> QED BY <1>2, <2>1 DEF Complete, UnitMove, retryVars
<1>3. ASSUME NEW retryable \in BOOLEAN, Fail(u, retryable)
      PROVE  UnitMove(u)
  <2>1. CASE MayRetry(u, retryable)
    <3> PICK q \in QueueKind : u \in queue[q] /\ Move(u, q, "Retry")
      BY <1>3, <2>1 DEF Fail
    <3>1. Moved(u, "Retry")
      BY <1>0, MoveIsMoved
    <3> QED BY <1>3, <2>1, <3>1 DEF Fail, UnitMove
  <2>2. CASE ~MayRetry(u, retryable)
    <3> PICK q \in QueueKind : u \in queue[q] /\ Move(u, q, "Failed")
      BY <1>3, <2>2 DEF Fail
    <3>1. Moved(u, "Failed")
      BY <1>0, MoveIsMoved
    <3> QED BY <1>3, <2>2, <3>1 DEF Fail, UnitMove, retryVars
  <2> QED BY <2>1, <2>2
<1> QED BY <1>1, <1>2, <1>3

LEMMA DispatchStep ==
  ASSUME IInv, NEW u \in Units, Dispatch(u) \/ BlockOnBudget(u)
  PROVE  UnitMove(u)
<1>0. /\ "Runnable" \in QueueKind /\ "Running" \in QueueKind
      /\ "BudgetWait" \in QueueKind
  BY DEF QueueKind, WaitQueues
<1>1. CASE Dispatch(u)
  <2>1. Moved(u, "Running")
    BY <1>0, <1>1, MoveIsMoved DEF Dispatch, Heads
  <2> QED BY <1>1, <2>1 DEF Dispatch, UnitMove, retryVars
<1>2. CASE BlockOnBudget(u)
  <2>1. Moved(u, "BudgetWait")
    BY <1>0, <1>2, MoveIsMoved DEF BlockOnBudget, Heads
  <2> QED BY <1>2, <2>1 DEF BlockOnBudget, UnitMove, retryVars
<1> QED BY <1>1, <1>2

\* Every step is one of six.
LEMMA QueueStep ==
  ASSUME IInv, [Next]_vars
  PROVE  \/ \E u \in Units : UnitMove(u)
         \/ \E u \in Units : Enqueue(u)
         \/ TickBegin
         \/ TickEnd
         \/ AdminCommand /\ UNCHANGED <<queue, attempt>>
         \/ UNCHANGED <<queue, attempt, dead, poolVars>> /\ LifecycleCommand
         \/ UNCHANGED <<queue, attempt, dead, concurrencyVars, budgetVars,
                        fairnessVars, lifecycle, pc>>
<1>1. LifecycleCommand => UNCHANGED <<queue, attempt, dead, poolVars>>
  BY DEF LifecycleCommand, Start, Stop, Pause, Resume, LifecycleStep, retryVars
<1>2. AdminCommand => UNCHANGED <<queue, attempt>>
  BY DEF AdminCommand, FairnessReset, ConcurrencyReset, BudgetReset,
         RateLimiterReset, DeadQueueRemove, retryVars
<1>3. Time => UNCHANGED <<queue, attempt, dead, concurrencyVars, budgetVars,
                          fairnessVars, lifecycle, pc>>
  BY DEF Time, Refill, RetryDue, Age, retryVars, poolVars, concurrencyVars,
         budgetVars, fairnessVars
<1>4. UNCHANGED vars =>
        UNCHANGED <<queue, attempt, dead, concurrencyVars, budgetVars,
                    fairnessVars, lifecycle, pc>>
  BY DEF vars, retryVars, poolVars, concurrencyVars, budgetVars, fairnessVars
<1> QED BY <1>1, <1>2, <1>3, <1>4, UnitStep, DispatchStep DEF Next, Tick

-----------------------------------------------------------------------------
(* Retry entries and dead letters *)

\* A unit in the Retry queue has the entry that will bring it back to Incoming.
THEOREM RetryEntries == Spec => []RetryHasEntry
<1>1. Init => RetryHasEntry
  BY DEF Init, RetryHasEntry, QueueKind
<1>2. IInv /\ RetryHasEntry /\ [Next]_vars => RetryHasEntry'
  <2> SUFFICES ASSUME IInv, RetryHasEntry, [Next]_vars,
                      NEW v \in queue'["Retry"]
               PROVE  attempt'[v] > 0
    BY DEF RetryHasEntry
  <2>0. /\ "Retry" \in QueueKind /\ attempt \in [Units -> Nat]
        /\ queue \in [QueueKind -> SUBSET Units]
    BY DEF IInv, TypeOK, QueueKind
  <2>1. ASSUME NEW u \in Units, UnitMove(u) PROVE attempt'[v] > 0
    <3>1. CASE attempt' = attempt /\ queue'["Retry"] = queue["Retry"] \ {u}
      BY <3>1 DEF RetryHasEntry
    <3>2. CASE /\ attempt' = [attempt EXCEPT ![u] = @ + 2]
               /\ queue'["Retry"] = queue["Retry"] \cup {u}
      <4>1. CASE v = u
        BY <2>0, <3>2, <4>1
      <4>2. CASE v # u
        BY <2>0, <3>2, <4>2 DEF RetryHasEntry
      <4> QED BY <4>1, <4>2
    <3> QED BY <2>0, <2>1, <3>1, <3>2 DEF UnitMove, Moved
  <2>2. ASSUME NEW u \in Units, Enqueue(u) PROVE attempt'[v] > 0
    BY <2>0, <2>2 DEF Enqueue, RetryHasEntry, retryVars
  <2>3. CASE TickBegin
    <3>1. queue'["Retry"] = queue["Retry"]
      <4> PICK ctx \in Contexts : queue' = Sorted(ctx)
        BY <2>3 DEF TickBegin
      <4>1. \A u : TargetQueue(ctx, u) # "Retry"
        BY TargetType, PolledType
      <4> QED BY <2>0, <4>1, PolledType DEF Sorted
    <3> QED BY <2>3, <3>1 DEF TickBegin, RetryHasEntry, retryVars
  <2>4. CASE TickEnd
    BY <2>0, <2>4 DEF TickEnd, RetryHasEntry
  <2>5. CASE UNCHANGED <<queue, attempt>>
    BY <2>5 DEF RetryHasEntry
  <2> QED BY <2>1, <2>2, <2>3, <2>4, <2>5, QueueStep
<1> QED BY Invariance, <1>1, <1>2, PTL DEF Spec

\* A failed unit is in the dead-letter queue unless somebody removed its record.
THEOREM DeadLetters == Spec => []FailedIsRecorded
<1>1. Init => FailedIsRecorded
  BY DEF Init, FailedIsRecorded, QueueKind, Terminal
<1>2. IInv /\ FailedIsRecorded /\ [Next]_vars => FailedIsRecorded'
  <2> SUFFICES ASSUME IInv, FailedIsRecorded, [Next]_vars, "dead" \notin Admin
               PROVE  queue'["Failed"] \subseteq dead'
    BY DEF FailedIsRecorded
  <2>0. /\ "Failed" \in QueueKind
        /\ queue \in [QueueKind -> SUBSET Units]
        /\ queue["Failed"] \subseteq dead
    BY DEF IInv, TypeOK, QueueKind, Terminal, FailedIsRecorded
  <2>1. ASSUME NEW u \in Units, UnitMove(u)
        PROVE  queue'["Failed"] \subseteq dead'
    BY <2>0, <2>1 DEF UnitMove, Moved
  <2>2. ASSUME NEW u \in Units, Enqueue(u)
        PROVE  queue'["Failed"] \subseteq dead'
    BY <2>0, <2>2 DEF Enqueue
  <2>3. CASE TickBegin
    <3> PICK ctx \in Contexts : queue' = Sorted(ctx)
      BY <2>3 DEF TickBegin
    <3>1. "Failed" \notin Polled /\ "Failed" # "Runnable"
      BY DEF Polled, WaitQueues
    <3>2. queue'["Failed"] = queue["Failed"]
      BY <2>0, <3>1, TargetType DEF Sorted
    <3> QED BY <2>0, <2>3, <3>2 DEF TickBegin
  <2>4. CASE TickEnd
    BY <2>0, <2>4 DEF TickEnd
  <2>5. CASE AdminCommand /\ UNCHANGED <<queue, attempt>>
    BY <2>0, <2>5 DEF AdminCommand, FairnessReset, ConcurrencyReset,
                      BudgetReset, RateLimiterReset, DeadQueueRemove, ResetStep
  <2>6. CASE UNCHANGED <<queue, dead>>
    BY <2>0, <2>6
  <2> QED BY <2>1, <2>2, <2>3, <2>4, <2>5, <2>6, QueueStep
<1> QED BY Invariance, <1>1, <1>2, PTL DEF Spec

-----------------------------------------------------------------------------
(* No unit is lost, and none becomes Runnable past its gates *)

LEMMA SortedKeepsKnown ==
  ASSUME queue \in [QueueKind -> SUBSET Units], NEW ctx, queue' = Sorted(ctx)
  PROVE  Known \subseteq Known'
<1> SUFFICES ASSUME NEW q \in QueueKind, NEW u \in queue[q]
             PROVE  \E r \in QueueKind : u \in queue'[r]
  BY DEF Known
<1>1. CASE u \in Pending
  <2>1. TargetQueue(ctx, u) \in QueueKind
    BY TargetType, PolledType DEF QueueKind
  <2>2. u \in queue'[TargetQueue(ctx, u)]
    BY <1>1, <2>1 DEF Sorted
  <2> QED BY <2>1, <2>2
<1>2. CASE u \notin Pending
  <2>1. q \notin Polled
    BY <1>2 DEF Pending
  <2> QED BY <2>1 DEF Sorted
<1> QED BY <1>1, <1>2

\* Whatever is enqueued stays in some queue for ever.
THEOREM NoUnitLost == Spec => NothingLost
<1>1. IInv /\ [Next]_vars => [Known \subseteq Known']_vars
  <2> SUFFICES ASSUME IInv, [Next]_vars PROVE Known \subseteq Known'
    OBVIOUS
  <2>0. queue \in [QueueKind -> SUBSET Units]
    BY DEF IInv, TypeOK
  <2>1. ASSUME NEW u \in Units, UnitMove(u) PROVE Known \subseteq Known'
    <3>1. PICK to \in QueueKind : Moved(u, to)
      BY <2>1 DEF UnitMove, QueueKind, Terminal, WaitQueues
    <3> QED BY <3>1 DEF Moved, Known
  <2>2. ASSUME NEW u \in Units, Enqueue(u) PROVE Known \subseteq Known'
    <3>1. \A q \in QueueKind : queue[q] \subseteq queue'[q]
      BY <2>0, <2>2 DEF Enqueue
    <3> QED BY <3>1 DEF Known
  <2>3. CASE TickBegin
    BY <2>0, <2>3, SortedKeepsKnown DEF TickBegin
  <2>4. CASE TickEnd
    <3> DEFINE back == {u \in due : attempt[u] > 0 /\ u \in queue["Retry"]}
    <3>1. queue' = [queue EXCEPT !["Retry"] = @ \ back,
                                 !["Incoming"] = @ \cup back]
      BY <2>4 DEF TickEnd
    <3> HIDE DEF back
    <3>2. "Retry" \in QueueKind /\ "Incoming" \in QueueKind
      BY DEF QueueKind
    <3>3. \A q \in QueueKind : queue[q] \subseteq queue'[q] \cup queue'["Incoming"]
      BY <2>0, <3>1, <3>2
    <3> QED BY <3>2, <3>3 DEF Known
  <2>5. CASE UNCHANGED queue
    BY <2>5 DEF Known
  <2> QED BY <2>1, <2>2, <2>3, <2>4, <2>5, QueueStep
<1> QED BY Invariance, <1>1, PTL DEF Spec, NothingLost

\* The step that GatesBeforeRunnable asks for.
GatesStep ==
  \A u \in queue'["Runnable"] \ queue["Runnable"] :
    /\ u \in Pending
    /\ u \notin NeedsPermission
    /\ Deps[u] \subseteq queue["Completed"]

\* A unit becomes Runnable in the sorting step of a tick only, needing no
\* permission and with every dependency Completed at that moment.
THEOREM GatesEvaluated == Spec => GatesBeforeRunnable
<1>1. IInv /\ [Next]_vars => [GatesStep]_vars
  <2> SUFFICES ASSUME IInv, [Next]_vars, NEW v \in queue'["Runnable"],
                      v \notin queue["Runnable"]
               PROVE  /\ v \in Pending
                      /\ v \notin NeedsPermission
                      /\ Deps[v] \subseteq queue["Completed"]
    BY DEF GatesStep
  <2>0. "Runnable" \in QueueKind /\ queue \in [QueueKind -> SUBSET Units]
    BY DEF IInv, TypeOK, QueueKind
  <2>1. ASSUME NEW u \in Units, UnitMove(u) PROVE FALSE
    BY <2>0, <2>1 DEF UnitMove, Moved
  <2>2. ASSUME NEW u \in Units, Enqueue(u) PROVE FALSE
    BY <2>0, <2>2 DEF Enqueue
  <2>3. CASE TickBegin
    <3> PICK ctx \in Contexts : queue' = Sorted(ctx)
      BY <2>3 DEF TickBegin
    <3>1. v \in Pending /\ TargetQueue(ctx, v) = "Runnable"
      BY <2>0, PolledType DEF Sorted
    <3>2. v \in ctx.dependencies /\ v \in ctx.permissions
      BY <3>1 DEF TargetQueue
    <3>3. ctx = DefaultContext \/ \E session \in BOOLEAN : ctx = AppContext(session)
      BY DEF Contexts
    <3>4. ctx.permissions = Units \ NeedsPermission
      BY <3>3 DEF DefaultContext, AppContext
    <3>5. \A u \in ctx.dependencies : Deps[u] \subseteq queue["Completed"]
      BY <3>3 DEF DefaultContext, AppContext
    <3> QED BY <3>1, <3>2, <3>4, <3>5
  <2>4. CASE TickEnd
    BY <2>0, <2>4 DEF TickEnd
  <2> QED BY <2>1, <2>2, <2>3, <2>4, QueueStep
<1> QED BY Invariance, <1>1, PTL DEF Spec, GatesBeforeRunnable, GatesStep

-----------------------------------------------------------------------------
(* Limits *)

LEMMA TickBeginQuiet ==
  ASSUME IInv, TickBegin
  PROVE  /\ UNCHANGED <<lifecycle, concurrencyVars, budgetVars, fairnessVars>>
         /\ queue'["Running"] = queue["Running"]
<1> PICK ctx \in Contexts : queue' = Sorted(ctx)
  BY DEF TickBegin
<1>1. queue \in [QueueKind -> SUBSET Units] /\ "Running" \in QueueKind
  BY DEF IInv, TypeOK, QueueKind
<1>2. queue'["Running"] = queue["Running"]
  BY <1>1, TargetType, PolledType DEF Sorted
<1> QED BY <1>2 DEF TickBegin, poolVars

LEMMA TickEndQuiet ==
  ASSUME IInv, TickEnd
  PROVE  /\ UNCHANGED <<lifecycle, concurrencyVars, budgetVars, fairnessVars>>
         /\ queue'["Running"] = queue["Running"]
<1>1. queue \in [QueueKind -> SUBSET Units] /\ "Running" \in QueueKind
  BY DEF IInv, TypeOK, QueueKind
<1> QED BY <1>1 DEF TickEnd, poolVars

\* What a step does to the Running queue and the counters: one unit starts, one
\* unit gives up what it held, or only a reset or an unrelated step happened.
LEMMA RunningStep ==
  ASSUME IInv, [Next]_vars
  PROVE  \/ \E u \in Units :
              /\ Dispatch(u)
              /\ u \in Units \ queue["Running"]
              /\ queue'["Running"] = queue["Running"] \cup {u}
         \/ \E u \in Units :
              /\ Release(u)
              /\ UNCHANGED lifecycle
              /\ queue'["Running"] = queue["Running"] \ {u}
         \/ /\ queue'["Running"] = queue["Running"]
            /\ \/ AdminCommand /\ UNCHANGED lifecycle
               \/ UNCHANGED <<concurrencyVars, budgetVars, fairnessVars>>
<1>0. /\ "Running" \in QueueKind /\ queue \in [QueueKind -> SUBSET Units]
      /\ OnePlace
  BY DEF IInv, TypeOK, QueueKind
<1>1. ASSUME NEW u \in Units, Dispatch(u)
      PROVE  /\ u \in Units \ queue["Running"]
             /\ queue'["Running"] = queue["Running"] \cup {u}
  <2>1. u \in queue["Runnable"] /\ "Runnable" \in QueueKind
    BY <1>1 DEF Dispatch, Heads, QueueKind
  <2>2. Moved(u, "Running")
    BY <1>0, <1>1, <2>1, MoveIsMoved DEF Dispatch
  <2> QED BY <1>0, <2>1, <2>2 DEF Moved, OnePlace
<1>2. ASSUME NEW u \in Units, BlockOnBudget(u)
      PROVE  /\ queue'["Running"] = queue["Running"]
             /\ UNCHANGED <<concurrencyVars, budgetVars, fairnessVars>>
  <2>1. /\ u \in queue["Runnable"] /\ "Runnable" \in QueueKind
        /\ "BudgetWait" \in QueueKind
    BY <1>2 DEF BlockOnBudget, Heads, QueueKind, WaitQueues
  <2>2. Moved(u, "BudgetWait")
    BY <1>2, <2>1, MoveIsMoved DEF BlockOnBudget
  <2>3. queue'["Running"] = queue["Running"]
    <3>1. queue'["Running"] = queue["Running"] \ {u}
      BY <1>0, <2>2 DEF Moved
    <3>2. u \notin queue["Running"]
      BY <1>0, <2>1 DEF OnePlace
    <3> QED BY <3>1, <3>2
  <2>4. UNCHANGED <<concurrencyVars, budgetVars, fairnessVars>>
    BY <1>2 DEF BlockOnBudget, poolVars
  <2> QED BY <2>3, <2>4
<1>3. ASSUME NEW u \in Units, UnitMove(u), ~Dispatch(u), ~BlockOnBudget(u)
      PROVE  /\ Release(u)
             /\ queue'["Running"] = queue["Running"] \ {u}
  BY <1>0, <1>3 DEF UnitMove, Moved
<1>4. UnitCommand => UNCHANGED lifecycle
  BY DEF UnitCommand, Enqueue, Cancel, Complete, Fail
<1>5. CASE UnitCommand
  <2> PICK u \in Units : Enqueue(u) \/ UnitMove(u)
    BY <1>5, UnitStep
  <2>1. CASE Enqueue(u)
    <3>1. queue'["Running"] = queue["Running"]
      BY <1>0, <2>1 DEF Enqueue
    <3> QED BY <2>1, <3>1 DEF Enqueue, poolVars
  <2>2. CASE UnitMove(u)
    BY <1>1, <1>2, <1>3, <1>4, <1>5, <2>2
  <2> QED BY <2>1, <2>2
<1>6. CASE Tick
  BY <1>1, <1>2, <1>6, TickBeginQuiet, TickEndQuiet DEF Tick
<1>7. LifecycleCommand \/ Time \/ UNCHANGED vars =>
        UNCHANGED <<queue, concurrencyVars, budgetVars, fairnessVars>>
  BY DEF LifecycleCommand, Start, Stop, Pause, Resume, LifecycleStep, Time,
         Refill, RetryDue, Age, vars, poolVars, concurrencyVars, budgetVars,
         fairnessVars
<1>8. AdminCommand => UNCHANGED <<queue, lifecycle>>
  BY DEF AdminCommand, FairnessReset, ConcurrencyReset, BudgetReset,
         RateLimiterReset, DeadQueueRemove
<1> QED BY <1>5, <1>6, <1>7, <1>8 DEF Next

\* The hard budget holds in every dimension that has one, at every moment, whatever is
\* cancelled, completed, failed or reset.
THEOREM BudgetHolds == Spec => []BudgetNeverExceeded
<1>1. Init => BudgetNeverExceeded
  BY ConfigAssumption DEF Init, BudgetNeverExceeded, Bounded
<1>2. IInv /\ BudgetNeverExceeded /\ [Next]_vars => BudgetNeverExceeded'
  <2> SUFFICES ASSUME IInv, BudgetNeverExceeded, [Next]_vars, NEW d \in Bounded
               PROVE  consumed'[d] <= Limit[d]
    BY DEF BudgetNeverExceeded, Bounded
  <2>0. /\ d \in Dims /\ consumed \in [Dims -> Int] /\ Limit[d] \in Nat
        /\ consumed[d] <= Limit[d]
        /\ \A u \in Units : Estimate[u] \in [Dims -> Nat]
    BY ConfigAssumption DEF IInv, TypeOK, BudgetNeverExceeded, Bounded
  <2>1. ASSUME NEW u \in Units, Dispatch(u) PROVE consumed'[d] <= Limit[d]
    <3>1. CASE u \in Estimated
      <4>1. consumed'[d] = consumed[d] + Estimate[u][d]
        BY <2>0, <2>1, <3>1 DEF Dispatch
      <4>2. consumed[d] + Estimate[u][d] <= Limit[d]
        BY <2>1, <3>1 DEF Dispatch, CanReserve
      <4> QED BY <4>1, <4>2
    <3>2. CASE u \notin Estimated
      BY <2>0, <2>1, <3>2 DEF Dispatch
    <3> QED BY <3>1, <3>2
  <2>2. ASSUME NEW u \in Units, Release(u) PROVE consumed'[d] <= Limit[d]
    <3>1. \/ consumed' = consumed
          \/ consumed'[d] = consumed[d] - Estimate[u][d]
      BY <2>0, <2>2 DEF Release, ReleaseBudget
    <3>2. consumed[d] \in Int /\ Estimate[u][d] \in Nat
      BY <2>0
    <3> QED BY <2>0, <3>1, <3>2
  <2>3. CASE AdminCommand
    <3>1. consumed' = consumed \/ consumed' = [e \in Dims |-> 0]
      BY <2>3 DEF AdminCommand, FairnessReset, ConcurrencyReset, BudgetReset,
                  RateLimiterReset, DeadQueueRemove, poolVars, budgetVars
    <3> QED BY <2>0, <3>1
  <2>4. CASE UNCHANGED budgetVars
    BY <2>0, <2>4 DEF budgetVars
  <2> QED BY <2>1, <2>2, <2>3, <2>4, RunningStep
<1> QED BY Invariance, <1>1, <1>2, PTL DEF Spec
\* What the inductive invariant of the budget adds to IInv: the consumption is
\* the sum of the reservations, resets included, only running units hold one,
\* and unless the pool is reset every running unit with an estimate does.
BudgetInv ==
  /\ reservations \subseteq queue["Running"] \cap Estimated
  /\ "budget" \notin Admin => reservations = queue["Running"] \cap Estimated
  /\ \A d \in Dims : consumed[d] = Total(d, reservations)

LEMMA BudgetInvInit == Init => BudgetInv
<1> SUFFICES ASSUME Init PROVE BudgetInv
  OBVIOUS
<1>1. reservations = {} /\ queue["Running"] = {}
  BY DEF Init, QueueKind
<1>2. \A d \in Dims : consumed[d] = Total(d, {})
  BY TotalEmpty DEF Init
<1> QED BY <1>1, <1>2 DEF BudgetInv

LEMMA BudgetInvStep == IInv /\ BudgetInv /\ [Next]_vars => BudgetInv'
<1> DEFINE Running == queue["Running"]
<1> SUFFICES ASSUME IInv, BudgetInv, [Next]_vars PROVE BudgetInv'
  OBVIOUS
<1>0. /\ reservations \in SUBSET Units
      /\ consumed \in [Dims -> Int]
      /\ Estimated \subseteq Units
      /\ Estimate \in [Units -> [Dims -> Nat]]
  BY UnitsAssumption, ConfigAssumption DEF IInv, TypeOK
<1>1. ASSUME NEW u \in Units \ Running, Dispatch(u), Running' = Running \cup {u}
      PROVE  BudgetInv'
  <2>1. u \notin reservations
    BY <1>1 DEF BudgetInv
  <2>2. CASE u \in Estimated
    <3>1. /\ reservations' = reservations \cup {u}
          /\ consumed' = [d \in Dims |-> consumed[d] + Estimate[u][d]]
      BY <1>1, <2>2 DEF Dispatch
    <3>2. ASSUME NEW d \in Dims PROVE consumed'[d] = Total(d, reservations')
      <4>1. Total(d, reservations \cup {u}) = Total(d, reservations) + Estimate[u][d]
        BY <1>0, <2>1, TotalAdd
      <4> QED BY <3>1, <4>1 DEF BudgetInv
    <3> QED BY <1>1, <2>2, <3>1, <3>2 DEF BudgetInv
  <2>3. CASE u \notin Estimated
    <3>1. reservations' = reservations /\ consumed' = consumed
      BY <1>1, <2>3 DEF Dispatch
    <3> QED BY <1>1, <2>3, <3>1 DEF BudgetInv
  <2> QED BY <2>2, <2>3
<1>2. ASSUME NEW u \in Units, Release(u), Running' = Running \ {u}
      PROVE  BudgetInv'
  <2>1. reservations' = reservations \ {u}
    BY <1>2 DEF Release, ReleaseBudget
  <2>2. CASE u \in reservations
    <3>1. consumed' = [d \in Dims |-> consumed[d] - Estimate[u][d]]
      BY <1>2, <2>2 DEF Release, ReleaseBudget
    <3>2. ASSUME NEW d \in Dims PROVE consumed'[d] = Total(d, reservations')
      <4>1. /\ Total(d, reservations \ {u}) \in Nat
            /\ Total(d, reservations) = Total(d, reservations \ {u}) + Estimate[u][d]
        BY <1>0, <2>2, TotalRemove
      <4>2. Estimate[u][d] \in Nat /\ consumed[d] = Total(d, reservations)
        BY <1>0 DEF BudgetInv
      <4> QED BY <2>1, <3>1, <4>1, <4>2
    <3> QED BY <1>2, <2>1, <3>2 DEF BudgetInv
  <2>3. CASE u \notin reservations
    <3>1. reservations' = reservations /\ consumed' = consumed
      BY <1>2, <2>1, <2>3 DEF Release, ReleaseBudget
    <3> QED BY <1>2, <2>1, <2>3, <3>1 DEF BudgetInv
  <2> QED BY <2>2, <2>3
<1>3. CASE Running' = Running /\ AdminCommand
  <2>1. \/ UNCHANGED budgetVars
        \/ "budget" \in Admin /\ reservations' = {} /\ consumed' = [d \in Dims |-> 0]
    BY <1>3 DEF AdminCommand, FairnessReset, ConcurrencyReset, BudgetReset,
                RateLimiterReset, DeadQueueRemove, ResetStep, poolVars, budgetVars
  <2> QED BY <1>3, <2>1, TotalEmpty DEF BudgetInv, budgetVars
<1>4. CASE Running' = Running /\ UNCHANGED budgetVars
  BY <1>4 DEF BudgetInv, budgetVars
<1> QED BY <1>1, <1>2, <1>3, <1>4, RunningStep

\* The pool accounts for what runs: the reservations are those of the running
\* units that carry an estimate and the consumption is their sum, so a release
\* gives back what the reservation took, once, unless the pool is reset under
\* running units.
THEOREM BudgetAccounted ==
  ASSUME "budget" \notin Admin PROVE Spec => []BudgetMatchesRunning
<1>1. BudgetInv => BudgetMatchesRunning
  BY DEF BudgetInv, BudgetMatchesRunning
<1> QED BY Invariance, BudgetInvInit, BudgetInvStep, <1>1, PTL DEF Spec

\* The consumption is never negative, in any dimension and under any resets.
THEOREM ConsumptionNotNegative == Spec => [](\A d \in Dims : consumed[d] >= 0)
<1>1. IInv /\ BudgetInv => \A d \in Dims : consumed[d] >= 0
  <2> SUFFICES ASSUME IInv, BudgetInv, NEW d \in Dims PROVE consumed[d] >= 0
    OBVIOUS
  <2>1. reservations \in SUBSET Units
    BY UnitsAssumption DEF IInv, TypeOK
  <2>2. Total(d, reservations) \in Nat
    BY <2>1, TotalType
  <2> QED BY <2>2 DEF BudgetInv
<1> QED BY Invariance, BudgetInvInit, BudgetInvStep, <1>1, PTL DEF Spec

\* So the units that run fit the budget together, in every dimension that has a
\* limit, unless the pool is reset under running units: no interleaving of starts, blocks, retries
\* and releases lets the estimates of the running units add up to more.
RunningFits == \A d \in Bounded : Total(d, queue["Running"] \cap Estimated) <= Limit[d]

THEOREM RunningFitsBudget ==
  ASSUME "budget" \notin Admin PROVE Spec => []RunningFits
<1>1. BudgetMatchesRunning /\ BudgetNeverExceeded => RunningFits
  BY DEF BudgetMatchesRunning, BudgetNeverExceeded, RunningFits, Bounded
<1> QED BY BudgetAccounted, BudgetHolds, <1>1, PTL

\* At most max_concurrency units run, and at most half of them of one kind
\* under the fair policy, unless the limiter is reset under running units.
THEOREM CapacityHolds ==
  ASSUME "concurrency" \notin Admin PROVE Spec => []CapacityBound
<1> DEFINE Running == queue["Running"]
           Fair    == FairPolicy /\ KindShare > 0
<1>1. Init => CapacityBound
  <2> SUFFICES ASSUME Init PROVE CapacityBound
    OBVIOUS
  <2>1. Running = {} /\ \A k \in Kinds : OfKind(k, Running) = {}
    BY DEF Init, QueueKind, OfKind, Having
  <2>2. MaxConcurrency \in Nat /\ (KindShare > 0 => 0 <= KindShare)
    BY ConfigAssumption DEF KindShare
  <2> QED BY <2>1, <2>2, FS_EmptySet DEF CapacityBound
<1>2. IInv /\ CapacityBound /\ [Next]_vars => CapacityBound'
  <2> SUFFICES ASSUME IInv, CapacityBound, [Next]_vars PROVE CapacityBound'
    OBVIOUS
  <2>0. /\ Running \in SUBSET Units /\ Running' \in SUBSET Units
        /\ slots = Running
        /\ \A k \in Kinds : kindCount[k] = Cardinality(OfKind(k, Running))
    BY IInvStep DEF IInv, TypeOK, SlotInv, QueueKind
  <2>1. /\ MaxConcurrency \in Nat /\ KindShare \in Nat
        /\ (FairPolicy <=> FairPolicy')
        /\ \A u \in Units : KindOf[u] \in Kinds
    BY ConfigAssumption, UnitsAssumption DEF KindShare, FairPolicy
  <2>2. ASSUME NEW u \in Units, Dispatch(u), u \notin Running,
               Running' = Running \cup {u}
        PROVE  CapacityBound'
    <3>1. /\ Cardinality(Running) < MaxConcurrency
          /\ Fair => Cardinality(OfKind(KindOf[u], Running)) < KindShare
      BY <2>0, <2>1, <2>2 DEF Dispatch, Admitted, HasCapacity
    <3>2. IsFiniteSet(Running) /\ Cardinality(Running) \in Nat
      BY <2>0, SubsetFinite, FS_CardinalityType
    <3>3. Cardinality(Running') = Cardinality(Running) + 1
      BY <2>2, <3>2, FS_AddElement
    <3>4. ASSUME NEW k \in Kinds, Fair
          PROVE  Cardinality(OfKind(k, Running')) <= KindShare
      <4>1. Cardinality(Having(KindOf, k, Running \cup {u})) =
              Cardinality(Having(KindOf, k, Running)) +
                (IF KindOf[u] = k THEN 1 ELSE 0)
        BY <2>2, <3>2, CountAdd
      <4>2. Cardinality(Having(KindOf, k, Running)) \in Nat
        BY <3>2, CountFinite
      <4>3. Cardinality(Having(KindOf, k, Running)) <= KindShare
        BY <3>4 DEF CapacityBound, OfKind
      <4>4. CASE KindOf[u] = k
        BY <2>1, <2>2, <3>1, <3>4, <4>1, <4>2, <4>4 DEF OfKind
      <4>5. CASE KindOf[u] # k
        BY <2>2, <4>1, <4>2, <4>3, <4>5 DEF OfKind
      <4> QED BY <4>4, <4>5
    <3>5. Cardinality(Running') <= MaxConcurrency
      BY <2>1, <3>1, <3>2, <3>3
    <3> QED BY <2>1, <3>4, <3>5 DEF CapacityBound, KindShare
  <2>3. ASSUME NEW u \in Units, Running' = Running \ {u}
        PROVE  CapacityBound'
    <3>1. CASE u \notin Running
      <4>1. Running' = Running
        BY <2>3, <3>1
      <4> QED BY <2>1, <4>1 DEF CapacityBound, KindShare, OfKind
    <3>2. CASE u \in Running
      <4>1. IsFiniteSet(Running) /\ Cardinality(Running) \in Nat
        BY <2>0, SubsetFinite, FS_CardinalityType
      <4>2. Cardinality(Running') = Cardinality(Running) - 1
        BY <2>3, <3>2, <4>1, FS_RemoveElement
      <4>3. ASSUME NEW k \in Kinds, Fair
            PROVE  Cardinality(OfKind(k, Running')) <= KindShare
        <5>1. Cardinality(Having(KindOf, k, Running \ {u})) =
                Cardinality(Having(KindOf, k, Running)) -
                  (IF KindOf[u] = k THEN 1 ELSE 0)
          BY <3>2, <4>1, CountRemove
        <5>2. /\ Cardinality(Having(KindOf, k, Running)) \in Nat
              /\ Cardinality(Having(KindOf, k, Running)) <= KindShare
          BY <4>1, <4>3, CountFinite DEF CapacityBound, OfKind
        <5> QED BY <2>1, <2>3, <5>1, <5>2 DEF OfKind
      <4>4. Cardinality(Running) <= MaxConcurrency
        BY DEF CapacityBound
      <4>5. Cardinality(Running') <= MaxConcurrency
        BY <2>1, <4>1, <4>2, <4>4
      <4> QED BY <2>1, <4>3, <4>5 DEF CapacityBound, KindShare
    <3> QED BY <3>1, <3>2
  <2>4. CASE Running' = Running
    BY <2>1, <2>4 DEF CapacityBound, KindShare, OfKind
  <2> QED BY <2>2, <2>3, <2>4, RunningStep
<1> QED BY Invariance, <1>1, <1>2, PTL DEF Spec
\* The two counters of the fairness tracker are counted in the same way: f maps
\* a unit to its group or to its workspace.
NoLeak(count, X, f, S) ==
  \A x \in X : count[x] <= Cardinality(Having(f, x, S))

LEMMA NoLeakAdd ==
  ASSUME NEW S, IsFiniteSet(S), NEW u, u \notin S, NEW X, NEW f,
         NEW count \in [X -> Nat], f[u] \in X, NoLeak(count, X, f, S)
  PROVE  NoLeak([count EXCEPT ![f[u]] = @ + 1], X, f, S \cup {u})
<1> SUFFICES ASSUME NEW x \in X
             PROVE  [count EXCEPT ![f[u]] = @ + 1][x] <=
                      Cardinality(Having(f, x, S \cup {u}))
  BY DEF NoLeak
<1>1. Cardinality(Having(f, x, S \cup {u})) =
        Cardinality(Having(f, x, S)) + (IF f[u] = x THEN 1 ELSE 0)
  BY CountAdd
<1>2. Cardinality(Having(f, x, S)) \in Nat /\ count[x] \in Nat
  BY CountFinite
<1>3. count[x] <= Cardinality(Having(f, x, S))
  BY DEF NoLeak
<1>4. CASE f[u] = x
  BY <1>1, <1>2, <1>3, <1>4
<1>5. CASE f[u] # x
  BY <1>1, <1>2, <1>3, <1>5
<1> QED BY <1>4, <1>5

\* A release takes one off the count, whether the unit was running or not.
LEMMA NoLeakRemove ==
  ASSUME NEW S, IsFiniteSet(S), NEW u, NEW X, NEW f,
         NEW count \in [X -> Nat], f[u] \in X, NoLeak(count, X, f, S)
  PROVE  NoLeak([count EXCEPT ![f[u]] = LessOne(@)], X, f, S \ {u})
<1> DEFINE count2 == [count EXCEPT ![f[u]] = LessOne(@)]
<1> SUFFICES ASSUME NEW x \in X
             PROVE  count2[x] <= Cardinality(Having(f, x, S \ {u}))
  BY DEF NoLeak
<1>1. Cardinality(Having(f, x, S)) \in Nat /\ count[x] \in Nat
  BY CountFinite
<1>2. count[x] <= Cardinality(Having(f, x, S))
  BY DEF NoLeak
<1>3. count2[x] = IF f[u] = x THEN LessOne(count[x]) ELSE count[x]
  OBVIOUS
<1>4. LessOne(count[x]) <= count[x]
  BY <1>1 DEF LessOne
<1> HIDE DEF count2
<1>5. CASE u \in S
  <2>1. Cardinality(Having(f, x, S \ {u})) =
          Cardinality(Having(f, x, S)) - (IF f[u] = x THEN 1 ELSE 0)
    BY <1>5, CountRemove
  <2>2. IsFiniteSet(S \ {u})
    BY FS_Subset
  <2>3. Cardinality(Having(f, x, S \ {u})) \in Nat
    BY <2>2, CountFinite
  <2> QED BY <1>1, <1>2, <1>3, <2>1, <2>3 DEF LessOne
<1>6. CASE u \notin S
  <2>1. S \ {u} = S
    BY <1>6
  <2> QED BY <1>1, <1>2, <1>3, <1>4, <2>1 DEF LessOne
<1> QED BY <1>5, <1>6

\* The fairness tracker never counts more units of a group or a workspace than
\* run, so no cap is lowered by a count that nobody will give back.
THEOREM FairnessCountsHold == Spec => []NoFairnessLeak
<1> DEFINE Running == queue["Running"]
<1>1. Init => NoFairnessLeak
  <2> SUFFICES ASSUME Init PROVE NoFairnessLeak
    OBVIOUS
  <2>1. /\ \A k \in Kinds : OfKind(k, Running) = {}
        /\ \A w \in Workspaces : OfWorkspace(w, Running) = {}
    BY DEF Init, QueueKind, OfKind, OfWorkspace, Having
  <2>2. /\ \A k \in Kinds : groupCount[k] = 0
        /\ \A w \in Workspaces : workspaceCount[w] = 0
    BY DEF Init
  <2> QED BY <2>1, <2>2, FS_EmptySet DEF NoFairnessLeak
<1>2. IInv /\ NoFairnessLeak /\ [Next]_vars => NoFairnessLeak'
  <2> SUFFICES ASSUME IInv, NoFairnessLeak, [Next]_vars PROVE NoFairnessLeak'
    OBVIOUS
  <2>0. /\ IsFiniteSet(Running)
        /\ groupCount \in [Kinds -> Nat]
        /\ workspaceCount \in [Workspaces -> Nat]
    BY SubsetFinite DEF IInv, TypeOK, QueueKind
  <2>1. /\ NoLeak(groupCount, Kinds, KindOf, Running)
        /\ NoLeak(workspaceCount, Workspaces, WorkspaceOf, Running)
    BY DEF NoFairnessLeak, NoLeak, OfKind, OfWorkspace
  <2> SUFFICES /\ NoLeak(groupCount', Kinds, KindOf, Running')
               /\ NoLeak(workspaceCount', Workspaces, WorkspaceOf, Running')
    BY DEF NoFairnessLeak, NoLeak, OfKind, OfWorkspace
  <2>2. ASSUME NEW u \in Units
        PROVE  KindOf[u] \in Kinds /\ WorkspaceOf[u] \in Workspaces
    BY UnitsAssumption
  <2>3. ASSUME NEW u \in Units, Dispatch(u), u \notin Running,
               Running' = Running \cup {u}
        PROVE  /\ NoLeak(groupCount', Kinds, KindOf, Running')
               /\ NoLeak(workspaceCount', Workspaces, WorkspaceOf, Running')
    <3>1. /\ groupCount' = [groupCount EXCEPT ![KindOf[u]] = @ + 1]
          /\ workspaceCount' = [workspaceCount EXCEPT ![WorkspaceOf[u]] = @ + 1]
      BY <2>3 DEF Dispatch
    <3>2. NoLeak(groupCount', Kinds, KindOf, Running \cup {u})
      BY <2>0, <2>1, <2>2, <2>3, <3>1, NoLeakAdd
    <3>3. NoLeak(workspaceCount', Workspaces, WorkspaceOf, Running \cup {u})
      BY <2>0, <2>1, <2>2, <2>3, <3>1, NoLeakAdd
    <3> QED BY <2>3, <3>2, <3>3
  <2>4. ASSUME NEW u \in Units, Release(u), Running' = Running \ {u}
        PROVE  /\ NoLeak(groupCount', Kinds, KindOf, Running')
               /\ NoLeak(workspaceCount', Workspaces, WorkspaceOf, Running')
    <3>1. /\ groupCount' = [groupCount EXCEPT ![KindOf[u]] = LessOne(@)]
          /\ workspaceCount' =
               [workspaceCount EXCEPT ![WorkspaceOf[u]] = LessOne(@)]
      BY <2>4 DEF Release, ReleaseFairness
    <3>2. NoLeak(groupCount', Kinds, KindOf, Running \ {u})
      BY <2>0, <2>1, <2>2, <3>1, NoLeakRemove
    <3>3. NoLeak(workspaceCount', Workspaces, WorkspaceOf, Running \ {u})
      BY <2>0, <2>1, <2>2, <3>1, NoLeakRemove
    <3> QED BY <2>4, <3>2, <3>3
  <2>5. CASE Running' = Running /\ AdminCommand
    <3>1. \/ UNCHANGED fairnessVars
          \/ /\ groupCount' = [k \in Kinds |-> 0]
             /\ workspaceCount' = [w \in Workspaces |-> 0]
      BY <2>5 DEF AdminCommand, FairnessReset, ConcurrencyReset, BudgetReset,
                  RateLimiterReset, DeadQueueRemove, poolVars, fairnessVars
    <3>2. CASE UNCHANGED fairnessVars
      BY <2>1, <2>5, <3>2 DEF fairnessVars
    <3>3. CASE /\ groupCount' = [k \in Kinds |-> 0]
               /\ workspaceCount' = [w \in Workspaces |-> 0]
      <4>1. \A f, x : Cardinality(Having(f, x, Running)) >= 0
        BY <2>0, CountFinite
      <4> QED BY <2>5, <3>3, <4>1 DEF NoLeak
    <3> QED BY <3>1, <3>2, <3>3
  <2>6. CASE Running' = Running /\ UNCHANGED fairnessVars
    BY <2>1, <2>6 DEF fairnessVars
  <2> QED BY <2>3, <2>4, <2>5, <2>6, RunningStep
<1> QED BY Invariance, <1>1, <1>2, PTL DEF Spec
-----------------------------------------------------------------------------
(* The scheduler implements the admission gate *)

\* The Mutex is held from the lifecycle test of tick() to its end.
TickInv == pc = "dispatching" => lifecycle = "Running"

LEMMA TickInvStep == TickInv /\ [Next]_vars => TickInv'
<1> SUFFICES ASSUME TickInv, [Next]_vars PROVE TickInv'
  OBVIOUS
<1>1. CASE LifecycleCommand
  BY <1>1 DEF TickInv, LifecycleCommand, Start, Stop, Pause, Resume,
              LifecycleStep
<1>2. CASE UnitCommand
  BY <1>2 DEF TickInv, UnitCommand, Enqueue, Cancel, Complete, Fail
<1>3. CASE Tick
  BY <1>3 DEF TickInv, Tick, TickBegin, Dispatch, BlockOnBudget, TickEnd
<1>4. CASE AdminCommand
  BY <1>4 DEF TickInv, AdminCommand, FairnessReset, ConcurrencyReset,
              BudgetReset, RateLimiterReset, DeadQueueRemove
<1>5. CASE Time
  BY <1>5 DEF TickInv, Time, Refill, RetryDue, Age
<1>6. CASE UNCHANGED vars
  BY <1>6 DEF TickInv, vars
<1> QED BY <1>1, <1>2, <1>3, <1>4, <1>5, <1>6 DEF Next

\* The module of the gate has its own instance of FiniteSets.
LEMMA SameCardinality == \A S : Admission!Cardinality(S) = Cardinality(S)
BY DEF Cardinality, Admission!Cardinality

\* Starting a unit is an admission: the gate is open, and there is room for it.
LEMMA DispatchAdmits ==
  ASSUME "concurrency" \notin Admin, IInv, TickInv,
         NEW u \in Units, Dispatch(u), u \notin queue["Running"],
         queue'["Running"] = queue["Running"] \cup {u}
  PROVE  Admission!Admit(u)
<1>0. /\ slots = queue["Running"]
      /\ \A k \in Kinds : kindCount[k] = Cardinality(Having(KindOf, k, slots))
      /\ IsFiniteSet(slots)
      /\ KindOf[u] \in Kinds
  BY SubsetFinite, UnitsAssumption DEF IInv, TypeOK, SlotInv, OfKind
<1>1. HasCapacity(KindOf[u]) /\ lifecycle = "Running" /\ UNCHANGED lifecycle
  BY DEF Dispatch, Admitted, TickInv
<1>2. Cardinality(slots) < MaxConcurrency
  BY <1>1 DEF HasCapacity
<1>3. Cardinality(Having(KindOf, KindOf[u], slots)) <
        IF FairPolicy /\ KindShare > 0 THEN KindShare ELSE MaxConcurrency
  <2>1. CASE FairPolicy /\ KindShare > 0
    BY <1>0, <1>1, <2>1 DEF HasCapacity
  <2>2. CASE ~(FairPolicy /\ KindShare > 0)
    <3>1. /\ Cardinality(Having(KindOf, KindOf[u], slots)) \in Nat
          /\ Cardinality(Having(KindOf, KindOf[u], slots)) <= Cardinality(slots)
      BY <1>0, CountFinite
    <3>2. Cardinality(slots) \in Nat /\ MaxConcurrency \in Nat
      BY <1>0, FS_CardinalityType, ConfigAssumption
    <3>3. Cardinality(Having(KindOf, KindOf[u], slots)) < MaxConcurrency
      BY <1>2, <3>1, <3>2
    <3> QED BY <2>2, <3>3
  <2> QED BY <2>1, <2>2
<1>4. Admission!OfKind(KindOf[u], queue["Running"]) =
        Having(KindOf, KindOf[u], slots)
  BY <1>0 DEF Admission!OfKind, Having
<1>5. Cardinality(queue["Running"]) < MaxConcurrency
  BY <1>0, <1>2
<1>6. Cardinality(Admission!OfKind(KindOf[u], queue["Running"])) <
        IF FairPolicy /\ KindShare > 0 THEN KindShare ELSE MaxConcurrency
  BY <1>3, <1>4
<1>7. (lifecycle = "Running")' = (lifecycle = "Running")
  BY <1>1
<1>8. u \in Units \ queue["Running"]
  OBVIOUS
<1> QED BY <1>1, <1>5, <1>6, <1>7, <1>8, SameCardinality DEF Admission!Admit

\* Every step of the scheduler is a step of the gate or changes nothing it sees.
LEMMA AdmissionStep ==
  ASSUME "concurrency" \notin Admin, IInv, TickInv, [Next]_vars
  PROVE  [Admission!Next]_<<lifecycle = "Running", queue["Running"]>>
<1>0. queue \in [QueueKind -> SUBSET Units] /\ "Running" \in QueueKind
  BY DEF IInv, TypeOK, QueueKind
<1>1. CASE LifecycleCommand
  <2>1. UNCHANGED queue
    BY <1>1 DEF LifecycleCommand, Start, Stop, Pause, Resume, LifecycleStep
  <2>2. (lifecycle = "Running") = (lifecycle' = "Running")
          \/ (lifecycle' = "Running") = ~(lifecycle = "Running")
    OBVIOUS
  <2> QED BY <2>1, <2>2 DEF Admission!Next, Admission!Toggle
<1>2. ASSUME ~LifecycleCommand PROVE UNCHANGED lifecycle
  <2>1. UnitCommand => UNCHANGED lifecycle
    BY DEF UnitCommand, Enqueue, Cancel, Complete, Fail
  <2>2. Tick => UNCHANGED lifecycle
    BY DEF Tick, TickBegin, Dispatch, BlockOnBudget, TickEnd
  <2>3. AdminCommand => UNCHANGED lifecycle
    BY DEF AdminCommand, FairnessReset, ConcurrencyReset, BudgetReset,
           RateLimiterReset, DeadQueueRemove
  <2>4. Time \/ UNCHANGED vars => UNCHANGED lifecycle
    BY DEF Time, Refill, RetryDue, Age, vars
  <2> QED BY <1>2, <2>1, <2>2, <2>3, <2>4 DEF Next
<1>3. CASE ~LifecycleCommand
  <2>0. UNCHANGED lifecycle
    BY <1>2, <1>3
  <2>1. ASSUME NEW u \in Units, Dispatch(u), u \in Units \ queue["Running"],
               queue'["Running"] = queue["Running"] \cup {u}
        PROVE  Admission!Next
    BY <2>1, DispatchAdmits DEF Admission!Next
  <2>2. ASSUME NEW u \in Units, queue'["Running"] = queue["Running"] \ {u}
        PROVE  [Admission!Next]_<<lifecycle = "Running", queue["Running"]>>
    <3>1. CASE u \in queue["Running"]
      BY <2>0, <2>2, <3>1 DEF Admission!Next, Admission!Retire
    <3>2. CASE u \notin queue["Running"]
      <4>1. queue'["Running"] = queue["Running"]
        BY <2>2, <3>2
      <4> QED BY <2>0, <4>1
    <3> QED BY <3>1, <3>2
  <2>3. CASE queue'["Running"] = queue["Running"]
    BY <2>0, <2>3
  <2> QED BY <2>1, <2>2, <2>3, RunningStep
<1> QED BY <1>1, <1>3

\* The scheduler implements the abstract gate: while it is not Running nothing
\* starts, and a start always finds room, unless the limiter is reset under
\* running units.
THEOREM AdmissionImplemented ==
  ASSUME "concurrency" \notin Admin PROVE Spec => ImplementsAdmission
<1>1. Init => Admission!Init
  BY DEF Init, Admission!Init, QueueKind
<1>2. Init => TickInv
  BY DEF Init, TickInv
<1>3. IInv /\ TickInv /\ [Next]_vars =>
        [Admission!Next]_<<lifecycle = "Running", queue["Running"]>>
  BY AdmissionStep
<1> QED BY Invariance, TickInvStep, <1>1, <1>2, <1>3, PTL
        DEF Spec, ImplementsAdmission, Admission!Spec

-----------------------------------------------------------------------------
(* Permissions, attempts, and the loop of tick() *)

\* A unit that needs a permission is never started, nor kept where the loop
\* would start it: both readiness providers of the code refuse every
\* permission, and no path to the Runnable queue goes round them.
NoneUnpermitted == (queue["Runnable"] \cup queue["Running"]) \cap NeedsPermission = {}

THEOREM UnpermittedNeverStarted == Spec => []NoneUnpermitted
<1>1. Init => NoneUnpermitted
  BY DEF Init, QueueKind, NoneUnpermitted
<1>2. IInv /\ NoneUnpermitted /\ [GatesStep]_vars /\ [Next]_vars => NoneUnpermitted'
  <2> SUFFICES ASSUME IInv, NoneUnpermitted, [GatesStep]_vars, [Next]_vars
               PROVE  NoneUnpermitted'
    OBVIOUS
  <2>1. queue'["Runnable"] \cap NeedsPermission = {}
    BY DEF GatesStep, NoneUnpermitted, vars
  <2>2. queue'["Running"] \cap NeedsPermission = {}
    <3>1. ASSUME NEW u \in Units, Dispatch(u), queue'["Running"] = queue["Running"] \cup {u}
          PROVE  queue'["Running"] \cap NeedsPermission = {}
      BY <3>1 DEF Dispatch, Heads, NoneUnpermitted
    <3>2. queue'["Running"] \subseteq queue["Running"] => queue'["Running"] \cap NeedsPermission = {}
      BY DEF NoneUnpermitted
    <3> QED BY <3>1, <3>2, RunningStep
  <2> QED BY <2>1, <2>2 DEF NoneUnpermitted
<1>3. Spec => [][GatesStep]_vars
  BY GatesEvaluated DEF GatesBeforeRunnable, GatesStep
<1> QED BY Invariance, <1>1, <1>2, <1>3, PTL DEF Spec

\* The attempt of a retry entry never passes max_attempts, although fail() adds
\* one to it and schedule_retry() another: the limit that does not hold is the
\* one on failed runs (RetryAttemptsBounded).
AttemptsWithin == \A u \in Units : attempt[u] <= MaxAttempts

THEOREM AttemptsBounded == Spec => []AttemptsWithin
<1>1. Init => AttemptsWithin
  BY ConfigAssumption DEF Init, AttemptsWithin
<1>2. IInv /\ AttemptsWithin /\ [Next]_vars => AttemptsWithin'
  <2> SUFFICES ASSUME IInv, AttemptsWithin, [Next]_vars PROVE AttemptsWithin'
    OBVIOUS
  <2>0. attempt \in [Units -> Nat] /\ MaxAttempts \in Nat
    BY ConfigAssumption DEF IInv, TypeOK
  <2>1. ASSUME NEW u \in Units, NEW retryable \in BOOLEAN, Fail(u, retryable)
        PROVE  AttemptsWithin'
    <3>1. CASE MayRetry(u, retryable)
      <4>1. attempt' = [attempt EXCEPT ![u] = @ + 2] /\ attempt[u] + 1 < MaxAttempts
        BY <2>1, <3>1 DEF Fail, MayRetry
      <4> QED BY <2>0, <4>1 DEF AttemptsWithin
    <3>2. CASE ~MayRetry(u, retryable)
      BY <2>1, <3>2 DEF Fail, retryVars, AttemptsWithin
    <3> QED BY <3>1, <3>2
  <2>2. CASE TickEnd
    BY <2>0, <2>2 DEF TickEnd, AttemptsWithin
  <2>3. UNCHANGED attempt => AttemptsWithin'
    BY DEF AttemptsWithin
  <2>4. LifecycleCommand \/ AdminCommand \/ Time \/ UNCHANGED vars => UNCHANGED attempt
    BY DEF LifecycleCommand, Start, Stop, Pause, Resume, LifecycleStep, AdminCommand,
           FairnessReset, ConcurrencyReset, BudgetReset, RateLimiterReset,
           DeadQueueRemove, Time, Refill, RetryDue, Age, vars, retryVars
  <2>5. TickBegin => UNCHANGED attempt
    BY DEF TickBegin, retryVars
  <2>6. ASSUME NEW u \in Units, Dispatch(u) \/ BlockOnBudget(u) PROVE UNCHANGED attempt
    BY <2>6 DEF Dispatch, BlockOnBudget, retryVars
  <2>7. ASSUME NEW u \in Units, Enqueue(u) \/ Cancel(u) \/ Complete(u)
        PROVE  UNCHANGED attempt
    BY <2>7 DEF Enqueue, Cancel, Complete, retryVars
  <2> QED BY <2>1, <2>2, <2>3, <2>4, <2>5, <2>6, <2>7 DEF Next, Tick, UnitCommand
<1> QED BY Invariance, <1>1, <1>2, PTL DEF Spec

\* While units are Runnable one of them has the highest priority, so the loop of
\* tick() always has a turn to take: it starts or blocks that unit, or it ends.
LEMMA HeadExists ==
  ASSUME TypeOK, queue["Runnable"] # {}
  PROVE  Heads # {}
<1> DEFINE N == {Critical - priority[u] : u \in queue["Runnable"]}
<1>1. /\ queue["Runnable"] \subseteq Units /\ Critical \in Nat
      /\ \A u \in queue["Runnable"] : priority[u] \in 0..Critical
  BY DEF TypeOK, QueueKind, Critical
<1>2. N \subseteq Nat /\ N # {}
  <2>1. \A u \in queue["Runnable"] : Critical - priority[u] \in Nat
    BY <1>1
  <2> QED BY <2>1
<1>3. PICK n \in N : \A m \in N : n <= m
  BY <1>2, LeastNatural
<1>4. PICK u \in queue["Runnable"] : n = Critical - priority[u]
  OBVIOUS
<1>5. ASSUME NEW v \in queue["Runnable"] PROVE priority[v] <= priority[u]
  <2>1. Critical - priority[v] \in N
    OBVIOUS
  <2> HIDE DEF N
  <2>2. n <= Critical - priority[v]
    BY <1>3, <2>1
  <2> QED BY <1>1, <1>4, <2>2
<1> QED BY <1>4, <1>5 DEF Heads

\* .. and every turn that does not end it leaves fewer Runnable units: a unit
\* that is blocked on the budget does not come back in the same tick.  So
\* tick() gives the Mutex up after as many turns as units are Runnable.
LoopGoesOn ==
  pc = "dispatching" =>
    \/ queue["Runnable"] = {} \/ \E u \in Heads : ~Admitted(u)
    \/ \E u \in Heads : Admitted(u)
LoopStep ==
  pc = "dispatching" =>
    \/ pc' = "unlocked"
    \/ UNCHANGED <<pc, queue>>
    \/ /\ UNCHANGED pc
       /\ Cardinality(queue'["Runnable"]) = Cardinality(queue["Runnable"]) - 1

THEOREM TickLoopEnds == Spec => []LoopGoesOn /\ [][LoopStep]_vars
<1>1. IInv => LoopGoesOn
  BY HeadExists DEF IInv, LoopGoesOn
<1>2. IInv /\ [Next]_vars => [LoopStep]_vars
  <2> SUFFICES ASSUME IInv, Next, pc = "dispatching" PROVE LoopStep
    BY DEF LoopStep
  <2>0. queue \in [QueueKind -> SUBSET Units] /\ "Runnable" \in QueueKind
        /\ "Running" \in QueueKind /\ "BudgetWait" \in QueueKind
    BY DEF IInv, TypeOK, QueueKind, WaitQueues
  <2>1. ~LifecycleCommand /\ ~UnitCommand /\ ~AdminCommand /\ ~TickBegin
    BY DEF LifecycleCommand, Start, Stop, Pause, Resume, LifecycleStep, UnitCommand,
           Enqueue, Cancel, Complete, Fail, AdminCommand, FairnessReset,
           ConcurrencyReset, BudgetReset, RateLimiterReset, DeadQueueRemove,
           ResetStep, TickBegin
  <2>2. ASSUME NEW u \in Units, Dispatch(u) \/ BlockOnBudget(u) PROVE LoopStep
    <3>1. /\ u \in queue["Runnable"] /\ pc' = pc
          /\ queue'["Runnable"] = queue["Runnable"] \ {u}
      BY <2>0, <2>2 DEF Dispatch, BlockOnBudget, Heads, Move
    <3>2. IsFiniteSet(queue["Runnable"])
      BY <2>0, UnitsAssumption, FS_Subset
    <3> QED BY <3>1, <3>2, FS_RemoveElement DEF LoopStep
  <2>3. CASE TickEnd
    BY <2>3 DEF TickEnd, LoopStep
  <2>4. CASE Time
    BY <2>4 DEF Time, Refill, RetryDue, Age, LoopStep
  <2> QED BY <2>1, <2>2, <2>3, <2>4 DEF Next, Tick
<1> QED BY Invariance, <1>1, <1>2, PTL DEF Spec
-----------------------------------------------------------------------------
(* States and queues *)

\* The states a unit in queue q can be in.  A completed unit is still "running":
\* complete() does not assign unit.state.
StatesIn(q) ==
  CASE q \in {"Running", "Completed"} -> {"running"}
    [] q = "Retry"                    -> {"queued"}
    [] q = "Failed"                   -> {"failed"}
    [] q = "Cancelled"                -> {"cancelled"}
    [] q = "BudgetWait"               -> {"waiting_for_budget", "queued"}
    [] OTHER                          -> {StateIn(q)}

StatesFit == \A q \in QueueKind : \A u \in queue[q] : state[u] \in StatesIn(q)

LEMMA MovedFits ==
  ASSUME IInv, StatesFit, NEW u \in Units, NEW to \in QueueKind, Moved(u, to),
         NEW s \in StatesIn(to), state' = [state EXCEPT ![u] = s]
  PROVE  StatesFit'
<1> SUFFICES ASSUME NEW q \in QueueKind, NEW v \in queue'[q]
             PROVE  state'[v] \in StatesIn(q)
  BY DEF StatesFit
<1>1. /\ queue \in [QueueKind -> SUBSET Units] /\ state \in [Units -> SchedulingState]
      /\ queue'[q] = IF q = to THEN queue[q] \cup {u} ELSE queue[q] \ {u}
  BY DEF IInv, TypeOK, Moved
<1>2. CASE v = u
  BY <1>1, <1>2
<1>3. CASE v # u
  <2>1. v \in queue[q] /\ state'[v] = state[v]
    BY <1>1, <1>3
  <2> QED BY <2>1 DEF StatesFit
<1> QED BY <1>2, <1>3

LEMMA UnitFits == ASSUME IInv, StatesFit, UnitCommand PROVE StatesFit'
<1> PICK u \in Units :
      \/ Enqueue(u) \/ Cancel(u) \/ Complete(u)
      \/ \E retryable \in BOOLEAN : Fail(u, retryable)
  BY DEF UnitCommand
<1>0. /\ {"Cancelled", "Completed", "Failed", "Retry", "Running", "Incoming"} \subseteq QueueKind
      /\ queue \in [QueueKind -> SUBSET Units] /\ state \in [Units -> SchedulingState]
  BY DEF QueueKind, Terminal, IInv, TypeOK
<1>1. CASE Enqueue(u)
  <2>1. /\ queue' = [queue EXCEPT !["Incoming"] = @ \cup {u}]
        /\ state' = [state EXCEPT ![u] = "queued"]
        /\ \A q \in QueueKind : u \notin queue[q]
    BY <1>1 DEF Enqueue, Known
  <2> SUFFICES ASSUME NEW q \in QueueKind, NEW v \in queue'[q]
               PROVE  state'[v] \in StatesIn(q)
    BY DEF StatesFit
  <2>2. CASE v = u
    <3>1. q = "Incoming"
      BY <1>0, <2>1, <2>2
    <3> QED BY <1>0, <2>1, <2>2, <3>1 DEF StatesIn, StateIn
  <2>3. CASE v # u
    <3>1. v \in queue[q] /\ state'[v] = state[v]
      BY <1>0, <2>1, <2>3
    <3> QED BY <3>1 DEF StatesFit
  <2> QED BY <2>2, <2>3
<1>2. CASE Cancel(u)
  <2> PICK q \in QueueKind : u \in queue[q] /\ Move(u, q, "Cancelled")
    BY <1>2 DEF Cancel
  <2>1. Moved(u, "Cancelled") /\ "cancelled" \in StatesIn("Cancelled")
    BY <1>0, MoveIsMoved DEF StatesIn
  <2> QED BY <1>0, <1>2, <2>1, MovedFits DEF Cancel
<1>3. CASE Complete(u)
  <2>1. Moved(u, "Completed")
    BY <1>0, <1>3, MoveIsMoved DEF Complete
  <2>2. state[u] = "running" /\ state[u] \in StatesIn("Completed")
    BY <1>0, <1>3 DEF Complete, StatesFit, StatesIn
  <2>3. state' = [state EXCEPT ![u] = state[u]]
    BY <1>0, <1>3 DEF Complete
  <2> QED BY <1>0, <2>1, <2>2, <2>3, MovedFits
<1>4. ASSUME NEW retryable \in BOOLEAN, Fail(u, retryable)
      PROVE  StatesFit'
  <2>1. CASE MayRetry(u, retryable)
    <3> PICK q \in QueueKind : u \in queue[q] /\ Move(u, q, "Retry")
      BY <1>4, <2>1 DEF Fail
    <3>1. Moved(u, "Retry") /\ "queued" \in StatesIn("Retry")
      BY <1>0, MoveIsMoved DEF StatesIn
    <3> QED BY <1>0, <1>4, <2>1, <3>1, MovedFits DEF Fail
  <2>2. CASE ~MayRetry(u, retryable)
    <3> PICK q \in QueueKind : u \in queue[q] /\ Move(u, q, "Failed")
      BY <1>4, <2>2 DEF Fail
    <3>1. Moved(u, "Failed") /\ "failed" \in StatesIn("Failed")
      BY <1>0, MoveIsMoved DEF StatesIn
    <3> QED BY <1>0, <1>4, <2>2, <3>1, MovedFits DEF Fail
  <2> QED BY <2>1, <2>2
<1> QED BY <1>1, <1>2, <1>3, <1>4

LEMMA TickFits == ASSUME IInv, StatesFit, Tick PROVE StatesFit'
<1>0. /\ {"Runnable", "Running", "BudgetWait", "Retry", "Incoming"} \subseteq QueueKind
      /\ queue \in [QueueKind -> SUBSET Units] /\ state \in [Units -> SchedulingState]
  BY DEF QueueKind, WaitQueues, IInv, TypeOK
<1>1. CASE TickBegin
  <2> PICK ctx \in Contexts :
        /\ queue' = Sorted(ctx)
        /\ state' = [u \in Units |-> IF u \in Pending
                                       THEN StateIn(TargetQueue(ctx, u))
                                       ELSE state[u]]
    BY <1>1 DEF TickBegin
  <2> SUFFICES ASSUME NEW q \in QueueKind, NEW v \in queue'[q]
               PROVE  state'[v] \in StatesIn(q)
    BY DEF StatesFit
  <2>1. v \in Units /\ Pending \subseteq Units
    <3>1. Pending \subseteq Units
      BY <1>0, PolledType DEF Pending
    <3> QED BY <1>0, <3>1 DEF Sorted
  <2>2. CASE v \in Pending
    <3>1. TargetQueue(ctx, v) = q
      <4>1. PICK p \in Polled : v \in queue[p]
        BY <2>2 DEF Pending
      <4>2. q \notin Polled => v \notin queue[q]
        BY <4>1, PolledType DEF IInv, OnePlace
      <4> QED BY <4>2 DEF Sorted
    <3>2. q \in Polled \cup {"Runnable"} /\ state'[v] = StateIn(q)
      BY <2>1, <2>2, <3>1, TargetType
    <3>3. StateIn(q) \in StatesIn(q)
      BY <3>2 DEF StatesIn, StateIn, Polled, WaitQueues
    <3> QED BY <3>2, <3>3
  <2>3. CASE v \notin Pending
    <3>1. v \in queue[q] /\ state'[v] = state[v]
      BY <1>0, <2>1, <2>3 DEF Sorted
    <3> QED BY <3>1 DEF StatesFit
  <2> QED BY <2>2, <2>3
<1>2. ASSUME NEW u \in Units, Dispatch(u) PROVE StatesFit'
  <2>1. Moved(u, "Running") /\ "running" \in StatesIn("Running")
    BY <1>0, <1>2, MoveIsMoved DEF Dispatch, Heads, StatesIn
  <2> QED BY <1>0, <1>2, <2>1, MovedFits DEF Dispatch
<1>3. ASSUME NEW u \in Units, BlockOnBudget(u) PROVE StatesFit'
  <2>1. Moved(u, "BudgetWait") /\ "queued" \in StatesIn("BudgetWait")
    BY <1>0, <1>3, MoveIsMoved DEF BlockOnBudget, Heads, StatesIn
  <2> QED BY <1>0, <1>3, <2>1, MovedFits DEF BlockOnBudget
<1>4. CASE TickEnd
  <2> DEFINE back == {u \in due : attempt[u] > 0 /\ u \in queue["Retry"]}
  <2>1. /\ queue' = [queue EXCEPT !["Retry"] = @ \ back, !["Incoming"] = @ \cup back]
        /\ state' = [u \in Units |-> IF u \in back THEN "queued" ELSE state[u]]
        /\ back \subseteq queue["Retry"]
    BY <1>4 DEF TickEnd
  <2> HIDE DEF back
  <2> SUFFICES ASSUME NEW q \in QueueKind, NEW v \in queue'[q]
               PROVE  state'[v] \in StatesIn(q)
    BY DEF StatesFit
  <2>2. CASE v \in back
    <3>1. q = "Incoming"
      BY <1>0, <2>1, <2>2 DEF IInv, OnePlace
    <3>2. v \in Units
      BY <1>0, <2>1, <2>2
    <3> QED BY <2>1, <2>2, <3>1, <3>2 DEF StatesIn, StateIn
  <2>3. CASE v \notin back
    <3>1. v \in queue[q]
      BY <1>0, <2>1, <2>3
    <3>2. v \in Units /\ state'[v] = state[v]
      BY <1>0, <2>1, <2>3, <3>1
    <3> QED BY <3>1, <3>2 DEF StatesFit
  <2> QED BY <2>2, <2>3
<1> QED BY <1>1, <1>2, <1>3, <1>4 DEF Tick

\* The state a unit carries and the queue it is in agree, in every queue and at
\* every point of tick(): what a client is told of a unit is where it is.  The
\* exception is written into StatesIn: complete() assigns no state, so a completed
\* unit says "running", where the test test_complete_running_unit asserts
\* "completed".
THEOREM StatesAgree == Spec => []StatesFit
<1>1. Init => StatesFit
  BY DEF Init, StatesFit
<1>2. IInv /\ StatesFit /\ [Next]_vars => StatesFit'
  <2> SUFFICES ASSUME IInv, StatesFit, [Next]_vars PROVE StatesFit'
    OBVIOUS
  <2>1. UNCHANGED <<queue, state>> => StatesFit'
    BY DEF StatesFit
  <2>2. CASE LifecycleCommand \/ AdminCommand \/ Time \/ UNCHANGED vars
    <3>1. UNCHANGED <<queue, state>>
      BY <2>2 DEF LifecycleCommand, Start, Stop, Pause, Resume, LifecycleStep,
                  AdminCommand, FairnessReset, ConcurrencyReset, BudgetReset,
                  RateLimiterReset, DeadQueueRemove, Time, Refill, RetryDue, Age, vars
    <3> QED BY <2>1, <3>1
  <2> QED BY <2>2, UnitFits, TickFits DEF Next
<1> QED BY Invariance, <1>1, <1>2, PTL DEF Spec
=============================================================================
