------------------------- MODULE BodyStoreProofs --------------------------
(***************************************************************************)
(* Proofs about BodyStore, for any bodies, budgets and bounds: what each   *)
(* entry is charged and what the session counter holds, what "complete"    *)
(* promises a reader, and how many layouts are built at once.  The counter *)
(* is a sum over bodies: what the sum is, and how a charge or a refund     *)
(* changes it, is an induction over sets of bodies, done with the          *)
(* well-founded order on finite sets of the library.                       *)
(***************************************************************************)
EXTENDS BodyStore, FiniteSetTheorems, WellFoundedInduction, TLAPS

(* Induction over the subsets of a finite set, stated for a set of good    *)
(* ones, and the sums it gives.                                            *)

LEMMA LeastNumber ==
  ASSUME NEW M \in SUBSET Nat, M # {}
  PROVE  \E n \in M : \A m \in M : n <= m
  <1> DEFINE below == {0..(m - 1) : m \in M}
  <1>1. below \subseteq FiniteSubsetsOf(Nat) /\ below # {}
    <2>1. \A m \in M : 0..(m - 1) \in FiniteSubsetsOf(Nat)
      <3>1. \A m \in M : IsFiniteSet(0..(m - 1))
        BY FS_Interval
      <3> QED
        BY <3>1 DEF FiniteSubsetsOf
    <2> QED
      BY <2>1
  <1>2. PICK B \in below : \A C \in below : <<C, B>> \notin StrictSubsetOrdering(Nat)
    BY <1>1, FS_StrictSubsetOrderingWellFounded, WFMin
  <1>3. PICK n \in M : B = 0..(n - 1)
    OBVIOUS
  <1>4. ASSUME NEW m \in M, m < n PROVE FALSE
    <2>1. 0..(m - 1) \subseteq B /\ B \subseteq Nat /\ m \in B /\ m \notin 0..(m - 1)
      BY <1>3, <1>4
    <2>2. <<0..(m - 1), B>> \in StrictSubsetOrdering(Nat)
      BY <2>1 DEF StrictSubsetOrdering
    <2> QED
      BY <1>2, <2>2
  <1> QED
    BY <1>4

LEMMA SubsetsInduction ==
  ASSUME NEW S, IsFiniteSet(S), NEW Good,
         \A T \in SUBSET S : (\A x \in T : T \ {x} \in Good) => T \in Good
  PROVE  \A T \in SUBSET S : T \in Good
  <1> DEFINE bad   == {T \in SUBSET S : T \notin Good}
             sizes == {n \in Nat : \E T \in bad : Cardinality(T) = n}
  <1>1. \A T \in SUBSET S : IsFiniteSet(T) /\ Cardinality(T) \in Nat
    BY FS_Subset, FS_CardinalityType
  <1>2. SUFFICES ASSUME bad # {} PROVE FALSE
    OBVIOUS
  <1>3. sizes # {}
    BY <1>1, <1>2
  <1>4. PICK n \in sizes : \A m \in sizes : n <= m
    BY <1>3, LeastNumber
  <1>5. PICK T \in bad : Cardinality(T) = n
    OBVIOUS
  <1>6. PICK x \in T : T \ {x} \notin Good
    OBVIOUS
  <1>7. T \ {x} \in bad /\ Cardinality(T \ {x}) = n - 1
    BY <1>1, <1>5, <1>6, FS_RemoveElement
  <1>8. n - 1 \in sizes
    BY <1>1, <1>7
  <1> QED
    BY <1>4, <1>8

Total(f, S) == MapThenSumSet(LAMBDA x : f[x], S)

\* What the fold computes for every subset of S.
Adds(sum, f, S) ==
  sum = [T \in SUBSET S |->
           IF T = {} THEN 0 ELSE f[CHOOSE x \in T : TRUE] + sum[T \ {CHOOSE x \in T : TRUE}]]

LEMMA TotalIsOfSum ==
  ASSUME NEW f, NEW S
  PROVE  Total(f, S) = (CHOOSE sum : Adds(sum, f, S))[S]
  BY Zenon DEF Total, MapThenSumSet, MapThenFoldSet, Adds

Picked(T) == CHOOSE x \in T : TRUE

LEMMA PickedIsIn == ASSUME NEW T, T # {} PROVE Picked(T) \in T
  BY DEF Picked

\* Subsets of at most n elements have sums.
AddsUpTo(n, sum, f, S) ==
  /\ sum = [T \in SUBSET S |-> sum[T]]
  /\ \A T \in SUBSET S : Cardinality(T) <= n =>
       sum[T] = IF T = {} THEN 0 ELSE f[Picked(T)] + sum[T \ {Picked(T)}]

LEMMA SumExists ==
  ASSUME NEW S, IsFiniteSet(S), NEW f
  PROVE  \E sum : Adds(sum, f, S)
  <1> DEFINE without == {n \in Nat : ~\E sum : AddsUpTo(n, sum, f, S)}
  <1>1. \A T \in SUBSET S : IsFiniteSet(T) /\ Cardinality(T) \in Nat
                          /\ (Cardinality(T) = 0 <=> T = {})
    BY FS_Subset, FS_CardinalityType, FS_EmptySet
  <1>2. \A T \in SUBSET S : T # {} =>
          /\ T \ {Picked(T)} \in SUBSET S
          /\ Cardinality(T \ {Picked(T)}) = Cardinality(T) - 1
    BY <1>1, PickedIsIn, FS_RemoveElement
  <1>3. without = {}
    <2> SUFFICES ASSUME without # {} PROVE FALSE
      OBVIOUS
    <2>1. PICK n \in without : \A m \in without : n <= m
      BY LeastNumber
    <2>2. CASE n = 0
      <3> DEFINE zero == [T \in SUBSET S |-> 0]
      <3>1. AddsUpTo(0, zero, f, S)
        BY <1>1 DEF AddsUpTo
      <3> QED
        BY <2>2, <3>1
    <2>3. CASE n # 0
      <3>1. n - 1 \in Nat /\ n - 1 \notin without
        BY <2>1, <2>3
      <3>2. PICK sum : AddsUpTo(n - 1, sum, f, S)
        BY <3>1
      <3> DEFINE next == [T \in SUBSET S |->
                           IF Cardinality(T) <= n - 1 THEN sum[T]
                           ELSE f[Picked(T)] + sum[T \ {Picked(T)}]]
      <3>3. ASSUME NEW T \in SUBSET S, Cardinality(T) <= n
            PROVE  next[T] = IF T = {} THEN 0 ELSE f[Picked(T)] + next[T \ {Picked(T)}]
        <4>1. CASE T = {}
          <5>1. Cardinality(T) <= n - 1
            BY <1>1, <3>1, <4>1
          <5>2. next[T] = sum[T]
            BY <5>1
          <5>3. sum[T] = 0
            BY <3>2, <4>1, <5>1 DEF AddsUpTo
          <5> QED
            BY <4>1, <5>2, <5>3
        <4>2. CASE T # {}
          <5>1. next[T \ {Picked(T)}] = sum[T \ {Picked(T)}]
            BY <1>1, <1>2, <3>3, <4>2
          <5>2. next[T] = f[Picked(T)] + sum[T \ {Picked(T)}]
            BY <1>1, <3>2, <4>2 DEF AddsUpTo
          <5> QED
            BY <4>2, <5>1, <5>2
        <4> QED
          BY <4>1, <4>2
      <3>4. AddsUpTo(n, next, f, S)
        <4> HIDE DEF next
        <4>1. next = [T \in SUBSET S |-> next[T]]
          BY DEF next
        <4> QED
          BY <3>3, <4>1 DEF AddsUpTo
      <3> QED
        BY <3>4
    <2> QED
      BY <2>2, <2>3
  <1>4. PICK sum : AddsUpTo(Cardinality(S), sum, f, S)
    BY <1>1, <1>3
  <1>5. \A T \in SUBSET S : Cardinality(T) <= Cardinality(S)
    BY FS_Subset
  <1>6. \A T \in SUBSET S :
          sum[T] = IF T = {} THEN 0 ELSE f[Picked(T)] + sum[T \ {Picked(T)}]
    BY <1>4, <1>5 DEF AddsUpTo
  <1>7. sum = [T \in SUBSET S |-> sum[T]]
    BY <1>4 DEF AddsUpTo
  <1>8. Adds(sum, f, S)
    BY <1>6, <1>7 DEF Adds, Picked
  <1> QED
    BY <1>8

LEMMA SumOfFold ==
  ASSUME NEW S, IsFiniteSet(S), NEW f
  PROVE  \E sum : Adds(sum, f, S) /\ Total(f, S) = sum[S]
  <1>1. Adds(CHOOSE sum : Adds(sum, f, S), f, S)
    BY SumExists, Zenon
  <1> QED
    BY <1>1, TotalIsOfSum

\* A sum depends on nothing but what is added.
LEMMA SumsAgree ==
  ASSUME NEW S, IsFiniteSet(S), NEW f, NEW sum, Adds(sum, f, S),
         NEW R \in SUBSET S, NEW g, \A x \in R : f[x] = g[x]
  PROVE  Total(g, R) = sum[R]
  <1>1. IsFiniteSet(R)
    BY FS_Subset
  <1>2. PICK other : Adds(other, g, R) /\ Total(g, R) = other[R]
    BY <1>1, SumOfFold
  <1> DEFINE good == {T \in SUBSET R : sum[T] = other[T]}
  <1>3. ASSUME NEW T \in SUBSET R, \A x \in T : T \ {x} \in good PROVE T \in good
    <2>1. sum[T] = IF T = {} THEN 0 ELSE f[Picked(T)] + sum[T \ {Picked(T)}]
      BY DEF Adds, Picked
    <2>2. other[T] = IF T = {} THEN 0 ELSE g[Picked(T)] + other[T \ {Picked(T)}]
      BY <1>2 DEF Adds, Picked
    <2>3. T # {} => T \ {Picked(T)} \in good /\ Picked(T) \in R
      BY <1>3, PickedIsIn
    <2> QED
      BY <2>1, <2>2, <2>3
  <1> HIDE DEF good
  <1>4. \A T \in SUBSET R : T \in good
    BY <1>1, <1>3, SubsetsInduction
  <1> QED
    BY <1>2, <1>4 DEF good

LEMMA TotalStep ==
  ASSUME NEW S, IsFiniteSet(S), NEW f
  PROVE  Total(f, S) = IF S = {} THEN 0 ELSE f[Picked(S)] + Total(f, S \ {Picked(S)})
  <1>1. PICK sum : Adds(sum, f, S) /\ Total(f, S) = sum[S]
    BY SumOfFold
  <1>2. S \ {Picked(S)} \in SUBSET S /\ \A x \in S \ {Picked(S)} : f[x] = f[x]
    OBVIOUS
  <1>3. Total(f, S \ {Picked(S)}) = sum[S \ {Picked(S)}]
    BY <1>1, <1>2, SumsAgree
  <1>4. sum[S] = IF S = {} THEN 0 ELSE f[Picked(S)] + sum[S \ {Picked(S)}]
    BY <1>1 DEF Adds, Picked
  <1> QED
    BY <1>1, <1>3, <1>4

Numbers(f, S) == \A x \in S : f[x] \in Int

LEMMA TotalType ==
  ASSUME NEW S, IsFiniteSet(S), NEW f, Numbers(f, S)
  PROVE  \A T \in SUBSET S : Total(f, T) \in Int
  <1> DEFINE good == {T \in SUBSET S : Total(f, T) \in Int}
  <1>1. ASSUME NEW T \in SUBSET S, \A x \in T : T \ {x} \in good PROVE T \in good
    <2>1. Total(f, T) = IF T = {} THEN 0 ELSE f[Picked(T)] + Total(f, T \ {Picked(T)})
      BY FS_Subset, TotalStep
    <2>2. CASE T = {}
      BY <2>1, <2>2
    <2>3. CASE T # {}
      <3>1. Picked(T) \in T
        BY <2>3, PickedIsIn
      <3> QED
        BY <1>1, <2>1, <2>3, <3>1 DEF Numbers
    <2> QED
      BY <2>2, <2>3
  <1> HIDE DEF good
  <1>2. \A T \in SUBSET S : T \in good
    BY <1>1, SubsetsInduction
  <1> QED
    BY <1>2 DEF good

\* Any element may be taken out first.
LEMMA TotalOfOne ==
  ASSUME NEW S, IsFiniteSet(S), NEW f, Numbers(f, S)
  PROVE  \A x \in S : Total(f, S) = f[x] + Total(f, S \ {x})
  <1> DEFINE good == {T \in SUBSET S : \A x \in T : Total(f, T) = f[x] + Total(f, T \ {x})}
  <1>1. ASSUME NEW T \in SUBSET S, \A x \in T : T \ {x} \in good PROVE T \in good
    <2> SUFFICES ASSUME NEW x \in T PROVE Total(f, T) = f[x] + Total(f, T \ {x})
      OBVIOUS
    <2>1. PICK p \in T : Total(f, T) = f[p] + Total(f, T \ {p})
      <3>1. Total(f, T) = f[Picked(T)] + Total(f, T \ {Picked(T)})
        BY FS_Subset, TotalStep
      <3> QED
        BY <3>1, PickedIsIn
    <2>2. CASE x # p
      <3>1. /\ Total(f, T \ {p}) = f[x] + Total(f, (T \ {p}) \ {x})
            /\ Total(f, T \ {x}) = f[p] + Total(f, (T \ {p}) \ {x})
        <4>1. (T \ {p}) \ {x} = (T \ {x}) \ {p}
          OBVIOUS
        <4>2. T \ {p} \in good /\ T \ {x} \in good
          BY <1>1
        <4>3. Total(f, T \ {p}) = f[x] + Total(f, (T \ {p}) \ {x})
          BY <2>2, <4>2
        <4>4. Total(f, T \ {x}) = f[p] + Total(f, (T \ {x}) \ {p})
          BY <2>2, <4>2
        <4> QED
          BY <4>1, <4>3, <4>4
      <3>2. /\ f[x] \in Int /\ f[p] \in Int
            /\ Total(f, (T \ {p}) \ {x}) \in Int
        BY TotalType DEF Numbers
      <3> HIDE DEF good
      <3> QED
        BY <2>1, <3>1, <3>2
    <2> QED
      BY <2>1, <2>2
  <1> HIDE DEF good
  <1>2. \A T \in SUBSET S : T \in good
    BY <1>1, SubsetsInduction
  <1> QED
    BY <1>2 DEF good

LEMMA TotalOfNone == ASSUME NEW f PROVE Total(f, {}) = 0
  BY FS_EmptySet, TotalStep

\* A total is one of the values added, and of nothing else.
LEMMA TotalsAgree ==
  ASSUME NEW S, IsFiniteSet(S), NEW f, NEW g, \A x \in S : f[x] = g[x]
  PROVE  Total(f, S) = Total(g, S)
  <1>1. PICK sum : Adds(sum, f, S) /\ Total(f, S) = sum[S]
    BY SumOfFold
  <1>2. S \in SUBSET S
    OBVIOUS
  <1> QED
    BY <1>1, <1>2, SumsAgree

\* One value changes.
LEMMA TotalChanges ==
  ASSUME NEW S, IsFiniteSet(S), NEW f, NEW g, NEW x \in S, Numbers(f, S),
         g[x] \in Int, \A y \in S \ {x} : g[y] = f[y]
  PROVE  Total(g, S) = Total(f, S) - f[x] + g[x]
  <1>1. Numbers(g, S)
    BY DEF Numbers
  <1>2. Total(g, S \ {x}) = Total(f, S \ {x})
    BY FS_Subset, TotalsAgree
  <1>3. Total(f, S) = f[x] + Total(f, S \ {x}) /\ Total(g, S) = g[x] + Total(g, S \ {x})
    BY <1>1, TotalOfOne
  <1>4. f[x] \in Int /\ Total(f, S \ {x}) \in Int
    BY TotalType DEF Numbers
  <1> QED
    BY <1>2, <1>3, <1>4

\* Some values become 0.
LEMMA TotalWithout ==
  ASSUME NEW S, IsFiniteSet(S), NEW f, Numbers(f, S), NEW gone \in SUBSET S
  PROVE  Total([x \in S |-> IF x \in gone THEN 0 ELSE f[x]], S) = Total(f, S) - Total(f, gone)
  <1> DEFINE kept(T) == [x \in S |-> IF x \in T THEN 0 ELSE f[x]]
             good    == {T \in SUBSET S : Total(kept(T), S) = Total(f, S) - Total(f, T)}
  <1>0. \A T \in SUBSET S : Total(f, T) \in Int
    BY TotalType
  <1>1. ASSUME NEW T \in SUBSET S, \A x \in T : T \ {x} \in good PROVE T \in good
    <2>1. CASE T = {}
      <3>1. Total(kept({}), S) = Total(f, S)
        BY TotalsAgree
      <3> QED
        BY <1>0, <2>1, <3>1, TotalOfNone
    <2>2. ASSUME NEW x \in T PROVE T \in good
      <3> DEFINE before == kept(T \ {x})
                 after  == kept(T)
      <3>1. Total(before, S) = Total(f, S) - Total(f, T \ {x})
        BY <1>1, <2>2
      <3>2. Numbers(before, S) /\ before[x] = f[x] /\ after[x] = 0
            /\ \A y \in S \ {x} : after[y] = before[y]
        BY <2>2 DEF Numbers
      <3>3. Total(f, T) = f[x] + Total(f, T \ {x})
        <4>1. IsFiniteSet(T) /\ Numbers(f, T)
          BY FS_Subset DEF Numbers
        <4> QED
          BY <2>2, <4>1, TotalOfOne
      <3> HIDE DEF before, after
      <3>4. Total(after, S) = Total(before, S) - f[x] + 0
        <4>1. 0 \in Int /\ x \in S
          BY <2>2
        <4> QED
          BY <3>2, <4>1, TotalChanges
      <3>5. f[x] \in Int /\ Total(f, T \ {x}) \in Int /\ Total(f, S) \in Int
        BY <1>0, <2>2 DEF Numbers
      <3>6. Total(after, S) = Total(f, S) - Total(f, T)
        BY <3>1, <3>3, <3>4, <3>5
      <3> QED
        BY <3>6 DEF after
    <2> QED
      BY <2>1, <2>2
  <1> HIDE DEF good
  <1>2. \A T \in SUBSET S : T \in good
    BY <1>1, SubsetsInduction
  <1> QED
    BY <1>2 DEF good

\* Natural numbers add up to one, at least as large as each.
LEMMA TotalIsNatural ==
  ASSUME NEW S, IsFiniteSet(S), NEW f, \A x \in S : f[x] \in Nat
  PROVE  \A T \in SUBSET S : Total(f, T) \in Nat
  <1> DEFINE good == {T \in SUBSET S : Total(f, T) \in Nat}
  <1>1. ASSUME NEW T \in SUBSET S, \A x \in T : T \ {x} \in good PROVE T \in good
    <2>1. CASE T = {}
      BY <2>1, TotalOfNone
    <2>2. ASSUME NEW x \in T PROVE T \in good
      <3>1. IsFiniteSet(T) /\ Numbers(f, T)
        BY FS_Subset DEF Numbers
      <3>2. Total(f, T) = f[x] + Total(f, T \ {x})
        BY <2>2, <3>1, TotalOfOne
      <3> QED
        BY <1>1, <2>2, <3>2
    <2> QED
      BY <2>1, <2>2
  <1> HIDE DEF good
  <1>2. \A T \in SUBSET S : T \in good
    BY <1>1, SubsetsInduction
  <1> QED
    BY <1>2 DEF good

LEMMA TotalOfNothing ==
  ASSUME NEW S, IsFiniteSet(S), NEW f, \A x \in S : f[x] = 0
  PROVE  Total(f, S) = 0
  <1> DEFINE good == {T \in SUBSET S : Total(f, T) = 0}
  <1>1. ASSUME NEW T \in SUBSET S, \A x \in T : T \ {x} \in good PROVE T \in good
    <2>1. Total(f, T) = IF T = {} THEN 0 ELSE f[Picked(T)] + Total(f, T \ {Picked(T)})
      BY FS_Subset, TotalStep
    <2> QED
      BY <1>1, <2>1, PickedIsIn
  <1> HIDE DEF good
  <1>2. \A T \in SUBSET S : T \in good
    BY <1>1, SubsetsInduction
  <1> QED
    BY <1>2 DEF good

-----------------------------------------------------------------------------
(* Types.                                                                  *)

LEMMA ShapesInit == Init => Shapes
  BY BoundsAssumption DEF Init, Shapes, NoPage, Bodies

\* Entries that leave their store keep their shapes.
LEMMA CancelShapes == ASSUME Shapes, NEW gone \in SUBSET Bodies, Cancel(gone) PROVE Shapes'
  <1> USE DEF Shapes, Cancel, recording, jobs, layouts
  <1>1. entry' \in [Bodies -> {"absent", "listed", "removed"}]
    OBVIOUS
  <1>2. reserved' \in [Bodies -> Nat]
    OBVIOUS
  <1>3. aborted' \in [Recorded -> BOOLEAN]
    BY Zenon
  <1>4. UNCHANGED <<allowed, encoding, total, result, source, tap, fed, taken, worker, jobs,
                   layouts, page>>
    OBVIOUS
  <1> HIDE DEF Cancel
  <1> QED
    BY <1>1, <1>2, <1>3, <1>4

\* What leaves most variables alone keeps their shapes.
LEMMA ShapesStep == Shapes /\ EntriesPay /\ [Next]_vars => Shapes'
  <1> SUFFICES ASSUME Shapes, EntriesPay, [Next]_vars PROVE Shapes'
    OBVIOUS
  <1>0. CASE Clear \/ \E b \in Bodies : Remove(b)
    BY <1>0, CancelShapes DEF Clear, Remove, Listed
  <1> USE BoundsAssumption DEF Shapes, recording, jobs, layouts, Bodies, Stored
  <1>3. ASSUME NEW b \in Recorded, Recorder(b) PROVE Shapes'
    <2>1. CASE Record(b)
      BY <2>1 DEF Record
    <2>2. CASE Attach(b)
      BY <2>2 DEF Attach, Removed
    <2>3. CASE Feed(b)
      BY <2>3 DEF Feed
    <2>4. CASE GiveUp(b)
      BY <2>4 DEF GiveUp, DropTap, Finish
    <2>5. CASE SourceEnds(b)
      BY <2>5 DEF SourceEnds
    <2>6. CASE WorkerSeen(b)
      BY <2>6 DEF WorkerSeen, DropTap, Finish
    <2>7. CASE SourceBreaks(b)
      BY <2>7 DEF SourceBreaks, DropTap, Finish
    <2>8. ASSUME NEW outcome \in {"complete", "partial", "unavailable"}, EndWorker(b, outcome)
          PROVE  Shapes'
      BY <2>8 DEF EndWorker, Finish
    <2>9. CASE WorkerFails(b)
      BY <2>8, <2>9 DEF WorkerFails
    <2> QED
      BY <1>3, <2>1, <2>2, <2>3, <2>4, <2>5, <2>6, <2>7, <2>9 DEF Recorder
  <1>4. ASSUME NEW b \in Recorded, Worker(b) PROVE Shapes'
    <2>1. CASE TakeChunk(b)
      <3>1. worker' \in [Recorded -> {"none", "reading", "writing", "ended"}]
        <4>1. \E x \in {"ended", "writing"} : worker' = [worker EXCEPT ![b] = x]
          BY <2>1, Zenon DEF TakeChunk
        <4> QED
          BY <4>1
      <3>2. taken' \in [Recorded -> 0..MaxChunks]
        <4>1. taken' = taken \/ taken' = [taken EXCEPT ![b] = @ + 1]
          BY <2>1, Zenon DEF TakeChunk
        <4>2. taken[b] < fed[b]
          BY <2>1, Zenon DEF TakeChunk
        <4> QED
          BY <4>1, <4>2
      <3>3. reserved' \in [Bodies -> Nat]
        <4>1. reserved' = reserved \/ reserved' = [reserved EXCEPT ![b] = @ + 1]
          BY <2>1, Zenon DEF TakeChunk
        <4> QED
          BY <4>1
      <3>4. result' \in [Bodies -> {"none", "recording", "complete", "partial", "unavailable"}]
        <4>1. result' = result \/ result' = [result EXCEPT ![b] = "partial"]
          BY <2>1, Zenon DEF TakeChunk
        <4> QED
          BY <4>1
      <3>5. UNCHANGED <<entry, allowed, encoding, total, source, tap, fed, aborted, jobs, layouts,
                        page>>
        BY <2>1 DEF TakeChunk
      <3> QED
        BY <3>1, <3>2, <3>3, <3>4, <3>5
    <2>2. CASE WriteChunk(b)
      <3>1. /\ total' \in [Bodies -> Nat]
            /\ worker' \in [Recorded -> {"none", "reading", "writing", "ended"}]
        BY <2>2 DEF WriteChunk
      <3>2. UNCHANGED <<entry, allowed, encoding, reserved, result, source, tap, fed, taken,
                        aborted, jobs, layouts, page>>
        BY <2>2 DEF WriteChunk
      <3> QED
        BY <3>1, <3>2
    <2>3. CASE Complete(b) \/ Undecodable(b)
      BY <2>3 DEF Complete, Undecodable, EndWorker, Finish
    <2>4. CASE WorkerAborted(b)
      BY <2>4 DEF WorkerAborted
    <2> QED
      BY <1>4, <2>1, <2>2, <2>3, <2>4 DEF Worker
  <1>5. ASSUME NEW b \in Stored, Job(b) PROVE Shapes'
    <2>1. CASE Reserve(b)
      <3>1. PICK limit \in Limits, n \in 1..MaxChunks :
              /\ allowed' = [allowed EXCEPT ![b] = limit]
              /\ \/ /\ Fits(n, limit)
                    /\ used' = used + n
                    /\ size' = [size EXCEPT ![b] = n]
                    /\ job' = [job EXCEPT ![b] = "writing"]
                 \/ /\ b \in Copies \/ ~Fits(n, limit)
                    /\ job' = [job EXCEPT ![b] = "failed"]
                    /\ UNCHANGED <<used, size>>
        BY <2>1, Zenon DEF Reserve
      <3>2. n \in 0..MaxChunks
        OBVIOUS
      <3>3. allowed' \in [Bodies -> Limits \cup {0}]
        BY <3>1
      <3>5. size' \in [Stored -> 0..MaxChunks]
        BY <3>1, <3>2
      <3>6. job' \in [Stored -> {"none", "writing", "written", "stored", "failed", "discarded"}]
        BY <3>1
      <3>4. UNCHANGED <<entry, reserved, total, result, recording, abandoned, layouts, page>>
        BY <2>1 DEF Reserve
      <3> QED
        BY <3>3, <3>4, <3>5, <3>6
    <2>2. CASE WriteFile(b)
      BY <2>2 DEF WriteFile
    <2>3. CASE Insert(b)
      BY <2>3 DEF Insert
    <2> QED
      BY <1>5, <2>1, <2>2, <2>3 DEF Job
  <1>6. ASSUME NEW b \in Replacements, Abandon(b) \/ Discard(b) PROVE Shapes'
    <2>1. CASE Abandon(b)
      BY <2>1 DEF Abandon
    <2>2. CASE Discard(b)
      BY <2>2 DEF Discard
    <2> QED
      BY <1>6, <2>1, <2>2
  <1>7. ASSUME NEW b \in Bodies, View(b) PROVE Shapes'
    <2>1. CASE StartView(b)
      BY <2>1 DEF StartView
    <2>2. CASE CancelView(b)
      BY <2>2 DEF CancelView
    <2>3. CASE LayoutChunk(b)
      BY <2>3 DEF LayoutChunk
    <2>4. CASE LayoutFails(b) \/ Formatted(b)
      BY <2>4 DEF LayoutFails, Formatted
    <2>5. CASE DiscardLayout(b)
      <3>1. ~Removed(b) => reserved[b] - layout[b] \in Nat
        BY DEF EntriesPay, Data
      <3>2. reserved' \in [Bodies -> Nat]
        BY <2>5, <3>1 DEF DiscardLayout, GiveBack
      <3> QED
        BY <2>5, <3>2 DEF DiscardLayout
    <2>6. CASE CheckLayout(b)
      BY <2>6 DEF CheckLayout, Verdict
    <2>7. CASE EndBuild(b)
      BY <2>7 DEF EndBuild
    <2> QED
      BY <1>7, <2>1, <2>2, <2>3, <2>4, <2>5, <2>6, <2>7 DEF View, Builder
  <1>8. CASE Page
    <2>1. CASE LookUp
      <3>1. PICK b \in Listed : page' = [page EXCEPT !.body = b, !.at = "first"]
        BY <2>1 DEF LookUp
      <3>2. UNCHANGED <<entry, allowed, reserved, total, result, recording, jobs, layouts>>
        BY <2>1 DEF LookUp
      <3> QED
        BY <3>1, <3>2 DEF Listed
    <2>2. CASE Look
      <3>1. UNCHANGED <<entry, allowed, reserved, total, result, recording, jobs, layouts>>
        BY <2>2 DEF Look
      <3>2. CASE page.at = "first" /\ page' = [page EXCEPT !.state = result[page.body], !.at = "second"]
        <4>1. page.body \in Bodies
          BY <3>2
        <4> QED
          BY <3>1, <3>2, <4>1
      <3>3. CASE page.at = "second" /\ page' = [page EXCEPT !.total = total[page.body], !.at = "read"]
        <4>1. page.body \in Bodies
          BY <3>3
        <4> QED
          BY <3>1, <3>3, <4>1
      <3> QED
        BY <2>2, <3>2, <3>3 DEF Look, StateFirst
    <2>3. CASE PageReturns
      BY <2>3 DEF PageReturns, NoPage
    <2> QED
      BY <1>8, <2>1, <2>2, <2>3 DEF Page
  <1>9. CASE UNCHANGED vars
    BY <1>9 DEF vars
  <1> QED
    BY <1>0, <1>3, <1>4, <1>5, <1>6, <1>7, <1>8, <1>9 DEF Next

-----------------------------------------------------------------------------
(* What an entry is charged.                                               *)

\* Nothing is done for a body before its entry is listed, and a stored body is
\* listed by the end of its job.
Untouched ==
  /\ \A b \in Bodies : entry[b] = "absent" =>
       result[b] = "none" /\ layout[b] = 0 /\ builder[b] = "none" /\ reserved[b] = 0
  /\ \A b \in Recorded : entry[b] = "absent" =>
       tap[b] = "none" /\ worker[b] = "none" /\ fed[b] = 0 /\ taken[b] = 0 /\ total[b] = 0
  /\ \A b \in Stored : entry[b] = "absent" <=> job[b] # "stored"

Ledger == Shapes /\ Untouched /\ EntriesPay

LEMMA LedgerInit == Init => Ledger
  BY ShapesInit, BodiesAssumption
     DEF Init, Ledger, Untouched, EntriesPay, Data, Removed, Bodies, Stored

\* Most steps are about one listed body: nothing else is disturbed, and it pays
\* for what it has.
LEMMA LedgerOfBody ==
  ASSUME Ledger, NEW b \in Bodies, entry[b] # "absent",
         UNCHANGED <<entry, jobs>>,
         \A c \in Bodies \ {b} : /\ result'[c] = result[c] /\ layout'[c] = layout[c]
                                 /\ builder'[c] = builder[c] /\ reserved'[c] = reserved[c],
         \A c \in Recorded \ {b} : /\ tap'[c] = tap[c] /\ worker'[c] = worker[c]
                                   /\ fed'[c] = fed[c] /\ taken'[c] = taken[c]
                                   /\ total'[c] = total[c],
         (reserved[b] = IF Removed(b) THEN 0 ELSE Data(b) + layout[b])'
  PROVE  Untouched' /\ EntriesPay'
  <1>1. Untouched'
    BY DEF Ledger, Untouched, jobs, Bodies
  <1>2. ASSUME NEW c \in Bodies \ {b}
        PROVE  (reserved[c] = IF Removed(c) THEN 0 ELSE Data(c) + layout[c])'
    <2>1. Data(c)' = Data(c) /\ Removed(c)' = Removed(c)
      BY DEF Data, Removed, jobs
    <2> QED
      BY <2>1 DEF Ledger, EntriesPay
  <1> QED
    BY <1>1, <1>2 DEF EntriesPay

LEMMA LedgerStep == Ledger /\ [Next]_vars => Ledger'
  <1> SUFFICES ASSUME Ledger, [Next]_vars PROVE Untouched' /\ EntriesPay'
    BY ShapesStep DEF Ledger
  <1> USE BodiesAssumption DEF Ledger, Shapes, recording, jobs, layouts, Bodies, Stored,
                               Untouched, EntriesPay, Data, Removed
  <1>1. ASSUME NEW gone \in SUBSET Listed, Cancel(gone) PROVE Untouched' /\ EntriesPay'
    BY <1>1 DEF Cancel, Listed
  <1>2. CASE Clear \/ \E b \in Bodies : Remove(b)
    <2>1. CASE Clear
      BY <1>1, <2>1 DEF Clear
    <2>2. ASSUME NEW b \in Bodies, Remove(b) PROVE Untouched' /\ EntriesPay'
      <3>1. {b} \in SUBSET Listed /\ Cancel({b})
        BY <2>2 DEF Remove
      <3> HIDE DEF Untouched, EntriesPay
      <3> QED
        BY <1>1, <3>1
    <2> QED
      BY <1>2, <2>1, <2>2
  <1>0. ASSUME NEW b \in Recorded, NEW outcome, EndWorker(b, outcome),
               worker[b] \in {"reading", "writing"}
        PROVE  Untouched' /\ EntriesPay'
    <2>1. /\ entry[b] # "absent"
          /\ UNCHANGED <<entry, reserved, total, tap, fed, taken, jobs, layouts>>
          /\ \A c \in Recorded \ {b} : worker'[c] = worker[c]
      BY <1>0 DEF EndWorker
    <2>2. \A c \in Bodies \ {b} : result'[c] = result[c]
      BY <1>0 DEF EndWorker, Finish
    <2>3. (reserved[b] = IF Removed(b) THEN 0 ELSE Data(b) + layout[b])'
      BY <2>1
    <2> HIDE DEF Untouched, EntriesPay, Data, Removed, jobs
    <2> QED
      BY <2>1, <2>2, <2>3, LedgerOfBody
  <1>3. ASSUME NEW b \in Recorded, Recorder(b) PROVE Untouched' /\ EntriesPay'
    <2>1. CASE Record(b)
      BY <2>1 DEF Record
    <2>2. CASE Attach(b) \/ Feed(b) \/ SourceEnds(b)
      BY <2>2 DEF Attach, Feed, SourceEnds
    <2>3. CASE GiveUp(b) \/ WorkerSeen(b) \/ SourceBreaks(b)
      <3>1. /\ Finish(b, "partial")
            /\ tap' = [tap EXCEPT ![b] = "gone"]
            /\ UNCHANGED <<entry, allowed, reserved, total, fed, taken, worker, jobs, layouts>>
        BY <2>3 DEF GiveUp, WorkerSeen, SourceBreaks, DropTap
      <3>2. entry[b] # "absent"
        BY <2>3 DEF GiveUp, WorkerSeen, SourceBreaks
      <3>3. (reserved[b] = IF Removed(b) THEN 0 ELSE Data(b) + layout[b])'
        BY <3>1
      <3>4. \A c \in Bodies \ {b} : result'[c] = result[c]
        BY <3>1 DEF Finish
      <3> HIDE DEF Untouched, EntriesPay, Data, Removed, jobs
      <3> QED
        BY <3>1, <3>2, <3>3, <3>4, LedgerOfBody
    <2>4. CASE WorkerFails(b)
      BY <1>0, <2>4 DEF WorkerFails, Decodes
    <2> QED
      BY <1>3, <2>1, <2>2, <2>3, <2>4 DEF Recorder
  <1>4. ASSUME NEW b \in Recorded, Worker(b) PROVE Untouched' /\ EntriesPay'
    <2>1. CASE TakeChunk(b)
      <3>1. /\ entry[b] # "absent"
            /\ UNCHANGED <<entry, total, tap, fed, jobs, layouts>>
            /\ \A c \in Bodies \ {b} : result'[c] = result[c] /\ reserved'[c] = reserved[c]
            /\ \A c \in Recorded \ {b} : worker'[c] = worker[c] /\ taken'[c] = taken[c]
        BY <2>1 DEF TakeChunk, Decodes
      <3>2. \/ UNCHANGED <<reserved, taken>>
            \/ /\ ~Removed(b) /\ reserved'[b] = reserved[b] + 1 /\ taken'[b] = taken[b] + 1
        BY <2>1 DEF TakeChunk
      <3>3. (reserved[b] = IF Removed(b) THEN 0 ELSE Data(b) + layout[b])'
        BY <3>1, <3>2
      <3> HIDE DEF Untouched, EntriesPay, Data, Removed, jobs
      <3> QED
        BY <3>1, <3>3, LedgerOfBody
    <2>2. CASE WriteChunk(b) \/ WorkerAborted(b)
      BY <2>2 DEF WriteChunk, WorkerAborted
    <2>3. CASE Complete(b) \/ Undecodable(b)
      BY <1>0, <2>3 DEF Complete, Undecodable, Decodes
    <2> QED
      BY <1>4, <2>1, <2>2, <2>3 DEF Worker
  <1>5. ASSUME NEW b \in Stored, Job(b) PROVE Untouched' /\ EntriesPay'
    <2>1. CASE Reserve(b)
      BY <2>1 DEF Reserve
    <2>2. CASE WriteFile(b)
      BY <2>2 DEF WriteFile
    <2>3. CASE Insert(b)
      BY <2>3 DEF Insert
    <2> QED
      BY <1>5, <2>1, <2>2, <2>3 DEF Job
  <1>6. ASSUME NEW b \in Replacements, Abandon(b) \/ Discard(b)
        PROVE  Untouched' /\ EntriesPay'
    BY <1>6 DEF Abandon, Discard
  <1>7. ASSUME NEW b \in Bodies, View(b) PROVE Untouched' /\ EntriesPay'
    <2>1. CASE StartView(b) \/ CancelView(b)
      BY <2>1 DEF StartView, CancelView
    <2>2. CASE LayoutChunk(b)
      <3>1. /\ entry[b] = "listed"
            /\ UNCHANGED <<entry, total, result, recording, jobs>>
            /\ \A c \in Bodies \ {b} :
                 layout'[c] = layout[c] /\ reserved'[c] = reserved[c] /\ builder'[c] = builder[c]
            /\ layout'[b] = layout[b] + 1 /\ reserved'[b] = reserved[b] + 1
        BY <2>2 DEF LayoutChunk, Cancelled
      <3> QED
        BY <3>1
    <2>3. CASE LayoutFails(b) \/ Formatted(b) \/ CheckLayout(b)
      BY <2>3 DEF LayoutFails, Formatted, CheckLayout
    <2>4. CASE DiscardLayout(b)
      BY <2>4 DEF DiscardLayout, GiveBack
    <2>5. CASE EndBuild(b)
      BY <2>5 DEF EndBuild
    <2> QED
      BY <1>7, <2>1, <2>2, <2>3, <2>4, <2>5 DEF View, Builder
  <1>8. CASE Page
    <2>1. UNCHANGED <<entry, reserved, total, result, recording, jobs, layouts>>
      BY <1>8 DEF Page, LookUp, Look, PageReturns
    <2> QED
      BY <2>1
  <1>9. CASE UNCHANGED vars
    BY <1>9 DEF vars
  <1> QED
    BY <1>2, <1>3, <1>4, <1>5, <1>6, <1>7, <1>8, <1>9 DEF Next

(* An entry is charged for exactly the data and the layout it keeps, and   *)
(* for nothing once it has left its store, however recorders, jobs, layout *)
(* tasks and removals interleave: cancel(), reserve() and the writer's     *)
(* drop settle the account under one lock.                                 *)
THEOREM EntriesPayAlways == Spec => []EntriesPay
  <1>1. Ledger => EntriesPay
    BY DEF Ledger
  <1> QED
    BY LedgerInit, LedgerStep, <1>1, PTL DEF Spec

-----------------------------------------------------------------------------
(* The session counter.                                                    *)

Account == used = Total(reserved, Bodies) + Total(Held, Stored)

LEMMA BudgetIsAccount == BudgetBalances <=> EntriesPay /\ Account
  BY DEF BudgetBalances, Account, Total

LEMMA AccountInit == Init => Account
  <1> SUFFICES ASSUME Init PROVE Account
    OBVIOUS
  <1>1. \A b \in Bodies : reserved[b] = 0
    BY DEF Init
  <1>2. \A b \in Stored : Held[b] = 0
    BY DEF Init, Held, InFlight, Leaked
  <1>3. Total(reserved, Bodies) = 0
    BY <1>1, BodiesAssumption, TotalOfNothing
  <1>4. Total(Held, Stored) = 0
    BY <1>2, BodiesAssumption, TotalOfNothing, FS_Subset DEF Bodies
  <1> QED
    BY <1>3, <1>4 DEF Account, Init

LEMMA HeldType == ASSUME Shapes PROVE Held \in [Stored -> Nat]
  BY BoundsAssumption DEF Shapes, Held, InFlight, Leaked

\* Most steps are about one body: the counter follows what it is charged and
\* what its job holds.
LEMMA AccountOfBody ==
  ASSUME Shapes, Shapes', Account, NEW b \in Bodies,
         \A c \in Bodies \ {b} : reserved'[c] = reserved[c],
         \A c \in Stored \ {b} : Held'[c] = Held[c],
         used' = used + (reserved'[b] - reserved[b])
                   + IF b \in Stored THEN Held'[b] - Held[b] ELSE 0
  PROVE  Account'
  <1>1. IsFiniteSet(Bodies) /\ IsFiniteSet(Stored)
    BY BodiesAssumption, FS_Subset DEF Bodies
  <1>2. Held \in [Stored -> Nat] /\ Held' \in [Stored -> Nat]
    <2>1. Held' \in [Stored -> Nat]
      BY BoundsAssumption DEF Shapes, Held, InFlight, Leaked
    <2> QED
      BY <2>1, HeldType
  <1>3. reserved \in [Bodies -> Nat] /\ reserved' \in [Bodies -> Nat]
    BY DEF Shapes
  <1>4. Total(reserved', Bodies) = Total(reserved, Bodies) - reserved[b] + reserved'[b]
    BY <1>1, <1>3, TotalChanges DEF Numbers
  <1>5. Total(Held', Stored) = Total(Held, Stored) + IF b \in Stored THEN Held'[b] - Held[b] ELSE 0
    <2>1. CASE b \in Stored
      <3>1. Total(Held', Stored) = Total(Held, Stored) - Held[b] + Held'[b]
        BY <1>1, <1>2, <2>1, TotalChanges DEF Numbers
      <3>2. Total(Held, Stored) \in Int /\ Held[b] \in Int /\ Held'[b] \in Int
        BY <1>1, <1>2, <2>1, TotalType DEF Numbers
      <3> QED
        BY <2>1, <3>1, <3>2
    <2>2. CASE b \notin Stored
      <3>1. Total(Held', Stored) = Total(Held, Stored)
        BY <1>1, <2>2, TotalsAgree
      <3>2. Total(Held, Stored) \in Int
        BY <1>1, <1>2, TotalType DEF Numbers
      <3> QED
        BY <2>2, <3>1, <3>2
    <2> QED
      BY <2>1, <2>2
  <1>6. /\ Total(reserved, Bodies) \in Int /\ Total(Held, Stored) \in Int
        /\ reserved[b] \in Int /\ reserved'[b] \in Int
        /\ b \in Stored => Held[b] \in Int /\ Held'[b] \in Int
    BY <1>1, <1>2, <1>3, TotalType DEF Numbers
  <1> QED
    BY <1>4, <1>5, <1>6 DEF Account

LEMMA AccountStays ==
  ASSUME Account, UNCHANGED <<used, reserved, job, size>>
  PROVE  Account'
  <1>1. Held' = Held
    BY DEF Held, InFlight, Leaked
  <1> QED
    BY <1>1 DEF Account

LEMMA AccountStep == Ledger /\ Ledger' /\ Account /\ [Next]_vars => Account'
  <1> SUFFICES ASSUME Ledger, Ledger', Account, [Next]_vars PROVE Account'
    OBVIOUS
  <1>1. Shapes /\ Shapes' /\ Untouched /\ EntriesPay
    BY DEF Ledger
  <1>2. /\ reserved \in [Bodies -> Nat] /\ layout \in [Bodies -> 0..MaxLayout]
        /\ job \in [Stored -> {"none", "writing", "written", "stored", "failed", "discarded"}]
        /\ size \in [Stored -> 0..MaxChunks] /\ used \in Int
    <2>1. IsFiniteSet(Bodies) /\ IsFiniteSet(Stored)
      BY BodiesAssumption, FS_Subset DEF Bodies
    <2>2. Total(reserved, Bodies) \in Int /\ Total(Held, Stored) \in Int
      <3>1. Numbers(reserved, Bodies) /\ Numbers(Held, Stored)
        BY <1>1, HeldType DEF Shapes, Numbers
      <3> QED
        BY <2>1, <3>1, TotalType
    <2> QED
      BY <1>1, <2>2 DEF Shapes, Account
  <1> USE DEF recording, jobs, layouts
  <1>3. ASSUME NEW gone \in SUBSET Bodies, Cancel(gone) PROVE Account'
    <2>1. used' = used - Total(reserved, gone)
      BY <1>3, Zenon DEF Cancel, Freed, Total
    <2>2. reserved' = [b \in Bodies |-> IF b \in gone THEN 0 ELSE reserved[b]]
      BY <1>3 DEF Cancel
    <2>3. IsFiniteSet(Bodies) /\ IsFiniteSet(Stored) /\ Numbers(reserved, Bodies)
      BY <1>2, BodiesAssumption, FS_Subset DEF Bodies, Numbers
    <2>4. Total(reserved', Bodies) = Total(reserved, Bodies) - Total(reserved, gone)
      BY <2>2, <2>3, TotalWithout
    <2>5. Held' = Held
      BY <1>3 DEF Cancel, Held, InFlight, Leaked
    <2>6. /\ Total(reserved, Bodies) \in Int /\ Total(reserved, gone) \in Int
          /\ Total(Held, Stored) \in Int
      BY <1>1, <2>3, HeldType, TotalType DEF Numbers
    <2> QED
      BY <2>1, <2>4, <2>5, <2>6 DEF Account
  <1>4. CASE Clear \/ \E b \in Bodies : Remove(b)
    BY <1>3, <1>4 DEF Clear, Remove, Listed
  <1>5. ASSUME NEW b \in Recorded, Recorder(b) PROVE Account'
    <2>1. UNCHANGED <<used, reserved, job, size>>
      BY <1>5 DEF Recorder, Record, Attach, Feed, GiveUp, SourceEnds, WorkerSeen, SourceBreaks,
                  WorkerFails, EndWorker
    <2> QED
      BY <2>1, AccountStays
  <1>6. ASSUME NEW b \in Recorded, Worker(b) PROVE Account'
    <2>1. \/ UNCHANGED <<used, reserved, job, size>>
          \/ /\ used' = used + 1 /\ reserved' = [reserved EXCEPT ![b] = @ + 1]
             /\ UNCHANGED <<job, size>>
      <3>1. CASE TakeChunk(b)
        BY <3>1 DEF TakeChunk
      <3>2. CASE WriteChunk(b) \/ WorkerAborted(b)
        BY <3>2 DEF WriteChunk, WorkerAborted
      <3>3. CASE Complete(b) \/ Undecodable(b)
        BY <3>3 DEF Complete, Undecodable, EndWorker
      <3> QED
        BY <1>6, <3>1, <3>2, <3>3 DEF Worker
    <2>2. CASE UNCHANGED <<used, reserved, job, size>>
      BY <2>2, AccountStays
    <2>3. CASE /\ used' = used + 1 /\ reserved' = [reserved EXCEPT ![b] = @ + 1]
               /\ UNCHANGED <<job, size>>
      <3>1. Held' = Held
        BY <2>3 DEF Held, InFlight, Leaked
      <3>2. b \in Bodies /\ b \notin Stored
        BY BodiesAssumption DEF Bodies
      <3>3. /\ \A c \in Bodies \ {b} : reserved'[c] = reserved[c]
            /\ used' = used + (reserved'[b] - reserved[b]) + 0
        BY <1>2, <2>3, <3>2
      <3> QED
        BY <1>1, <3>1, <3>2, <3>3, AccountOfBody
    <2> QED
      BY <2>1, <2>2, <2>3
  <1>7. ASSUME NEW b \in Stored, Job(b) PROVE Account'
    <2>0. b \in Bodies
      BY DEF Bodies
    <2>1. /\ \A c \in Bodies \ {b} : reserved'[c] = reserved[c]
          /\ \A c \in Stored \ {b} : job'[c] = job[c] /\ size'[c] = size[c]
      BY <1>2, <1>7 DEF Job, Reserve, WriteFile, Insert
    <2>2. \A c \in Stored \ {b} : Held'[c] = Held[c]
      BY <2>1 DEF Held, InFlight, Leaked
    <2>3. used' = used + (reserved'[b] - reserved[b]) + (Held'[b] - Held[b])
      <3>1. CASE Reserve(b)
        BY <1>2, <2>0, <3>1 DEF Reserve, Held, InFlight, Leaked
      <3>2. CASE WriteFile(b)
        BY <1>2, <2>0, <3>2 DEF WriteFile, Held, InFlight, Leaked
      <3>3. CASE Insert(b)
        <4>1. reserved[b] = 0
          BY <1>1, <2>0, <3>3 DEF Insert, Untouched
        <4> QED
          BY <1>2, <2>0, <3>3, <4>1 DEF Insert, Held, InFlight, Leaked
      <3> QED
        BY <1>7, <3>1, <3>2, <3>3 DEF Job
    <2> QED
      BY <1>1, <2>0, <2>1, <2>2, <2>3, AccountOfBody
  <1>8. ASSUME NEW b \in Replacements, Abandon(b) \/ Discard(b) PROVE Account'
    <2>1. UNCHANGED <<used, reserved>> /\ Held' = Held
      <3>1. CASE Abandon(b)
        BY <3>1 DEF Abandon, Held, InFlight, Leaked
      <3>2. CASE Discard(b)
        <4>1. UNCHANGED <<used, reserved, size>> /\ job[b] = "written"
              /\ job' = [job EXCEPT ![b] = "discarded"]
          BY <3>2 DEF Discard
        <4> QED
          BY <1>2, <4>1 DEF Held, InFlight, Leaked
      <3> QED
        BY <1>8, <3>1, <3>2
    <2> QED
      BY <2>1 DEF Account
  <1>9. ASSUME NEW b \in Bodies, View(b) PROVE Account'
    <2>1. CASE LayoutChunk(b) \/ DiscardLayout(b)
      <3>1. /\ \A c \in Bodies \ {b} : reserved'[c] = reserved[c]
            /\ used' = used + (reserved'[b] - reserved[b]) + 0
        BY <1>2, <2>1 DEF LayoutChunk, DiscardLayout, GiveBack
      <3>2. Held' = Held
        BY <2>1 DEF LayoutChunk, DiscardLayout, Held, InFlight, Leaked
      <3>3. b \in Stored => Held'[b] - Held[b] = 0
        BY <1>1, <3>2, HeldType
      <3> QED
        BY <1>1, <3>1, <3>2, <3>3, AccountOfBody
    <2>2. CASE StartView(b) \/ CancelView(b) \/ LayoutFails(b) \/ Formatted(b) \/ CheckLayout(b)
               \/ EndBuild(b)
      <3>1. UNCHANGED <<used, reserved, job, size>>
        BY <2>2 DEF StartView, CancelView, LayoutFails, Formatted, CheckLayout, EndBuild
      <3> QED
        BY <3>1, AccountStays
    <2> QED
      BY <1>9, <2>1, <2>2 DEF View, Builder
  <1>10. CASE Page
    <2>1. UNCHANGED <<used, reserved, job, size>>
      BY <1>10 DEF Page, LookUp, Look, PageReturns
    <2> QED
      BY <2>1, AccountStays
  <1>11. CASE UNCHANGED vars
    <2>1. UNCHANGED <<used, reserved, job, size>>
      BY <1>11 DEF vars
    <2> QED
      BY <2>1, AccountStays
  <1> QED
    BY <1>4, <1>5, <1>6, <1>7, <1>8, <1>9, <1>10, <1>11 DEF Next

(* The session counter is the sum of what entries and running jobs hold    *)
(* and of what discarded jobs leave behind, however many bodies there are: *)
(* no refund of reserve(), of the writer's drop or of cancel() is lost or  *)
(* given twice.                                                            *)
THEOREM BudgetBalancesAlways == Spec => []BudgetBalances
  BY LedgerInit, LedgerStep, AccountInit, AccountStep, BudgetIsAccount, PTL DEF Spec, Ledger

-----------------------------------------------------------------------------
(* What "complete" promises.                                               *)

\* How far the recorder, its worker and the reader's length may be apart, and
\* where each of them stands once the outcome is "complete".
Recordings ==
  \A b \in Recorded :
    /\ worker[b] = "reading" => total[b] = taken[b]
    /\ worker[b] = "writing" => total[b] + 1 = taken[b]
    /\ tap[b] = "closed" => source[b] = "ended"
    /\ tap[b] = "gone" => result[b] # "recording"
    /\ result[b] = "complete" =>
         /\ worker[b] = "ended" /\ total[b] = taken[b]
         /\ encoding[b] # "deflate" =>
              source[b] = "ended" /\ tap[b] \in {"closed", "gone"} /\ taken[b] = fed[b]

Copied ==
  \A b \in Stored : /\ result[b] \in {"none", "complete"}
                    /\ result[b] = "complete" <=> job[b] = "stored"
                    /\ job[b] = "stored" => total[b] = size[b]

\* A page that has seen "complete" has the length there is.
PageAgrees ==
  page.at \in {"second", "read"} /\ page.state = "complete" =>
    /\ result[page.body] = "complete"
    /\ page.at = "read" => page.total = total[page.body]

Promise == Ledger /\ Recordings /\ Copied /\ PageAgrees

LEMMA PromiseInit == Init => Promise
  BY LedgerInit DEF Init, Promise, Recordings, Copied, PageAgrees, NoPage, Bodies, Stored

LEMMA RecordingsStep == Ledger /\ Recordings /\ [Next]_vars => Recordings'
  <1> SUFFICES ASSUME Ledger, Recordings, [Next]_vars PROVE Recordings'
    OBVIOUS
  <1> USE BodiesAssumption DEF Ledger, Shapes, recording, jobs, layouts, Bodies, Stored, Recordings
  <1>1. CASE Clear \/ \E b \in Bodies : Remove(b)
    <2>1. UNCHANGED <<total, result, encoding, source, tap, fed, taken, worker>>
      BY <1>1 DEF Clear, Remove, Cancel
    <2> QED
      BY <2>1
  <1>2. ASSUME NEW b \in Recorded, Recorder(b) PROVE Recordings'
    <2>1. CASE Record(b)
      BY <2>1 DEF Record, Untouched
    <2>2. CASE Attach(b) \/ Feed(b)
      BY <2>2 DEF Attach, Feed
    <2>3. CASE SourceEnds(b)
      BY <2>3 DEF SourceEnds
    <2>4. CASE GiveUp(b) \/ WorkerSeen(b) \/ SourceBreaks(b)
      BY <2>4 DEF GiveUp, WorkerSeen, SourceBreaks, DropTap, Finish
    <2>5. CASE WorkerFails(b)
      BY <2>5 DEF WorkerFails, EndWorker, Finish
    <2> QED
      BY <1>2, <2>1, <2>2, <2>3, <2>4, <2>5 DEF Recorder
  <1>3. ASSUME NEW b \in Recorded, Worker(b) PROVE Recordings'
    <2>1. CASE TakeChunk(b)
      <3>1. CASE UNCHANGED <<reserved, taken>>
        BY <2>1, <3>1 DEF TakeChunk, Decodes
      <3>2. CASE UNCHANGED result
        BY <2>1, <3>2 DEF TakeChunk, Decodes
      <3> QED
        BY <2>1, <3>1, <3>2 DEF TakeChunk
    <2>2. CASE WriteChunk(b) \/ WorkerAborted(b)
      BY <2>2 DEF WriteChunk, WorkerAborted
    <2>3. CASE Complete(b) \/ Undecodable(b)
      BY <2>3 DEF Complete, Undecodable, EndWorker, Finish, Decodes, AtEnd, StreamEnds
    <2> QED
      BY <1>3, <2>1, <2>2, <2>3 DEF Worker
  <1>4. ASSUME NEW b \in Stored, Job(b) PROVE Recordings'
    <2>1. UNCHANGED recording
      BY <1>4 DEF Job, Reserve, WriteFile, Insert
    <2>2. \A c \in Recorded : c # b
      OBVIOUS
    <2>3. \A c \in Recorded : result'[c] = result[c] /\ total'[c] = total[c]
      <3>1. CASE Reserve(b)
        BY <3>1 DEF Reserve
      <3>2. CASE WriteFile(b)
        BY <3>2 DEF WriteFile
      <3>3. CASE Insert(b)
        BY <2>2, <3>3 DEF Insert
      <3> QED
        BY <1>4, <3>1, <3>2, <3>3 DEF Job
    <2> QED
      BY <2>1, <2>3
  <1>5. CASE \E b \in Replacements : Abandon(b) \/ Discard(b)
    BY <1>5 DEF Abandon, Discard
  <1>6. ASSUME NEW b \in Bodies, View(b) PROVE Recordings'
    <2>1. UNCHANGED <<total, result, recording>>
      BY <1>6 DEF View, Builder, StartView, CancelView, LayoutChunk, LayoutFails, Formatted,
                  DiscardLayout, CheckLayout, EndBuild
    <2> QED
      BY <2>1
  <1>7. CASE Page
    <2>1. UNCHANGED <<total, result, recording>>
      BY <1>7 DEF Page, LookUp, Look, PageReturns
    <2> QED
      BY <2>1
  <1>8. CASE UNCHANGED vars
    BY <1>8 DEF vars
  <1> QED
    BY <1>1, <1>2, <1>3, <1>4, <1>5, <1>6, <1>7, <1>8 DEF Next

LEMMA CopiedStep == Ledger /\ Copied /\ [Next]_vars => Copied'
  <1> SUFFICES ASSUME Ledger, Copied, [Next]_vars PROVE Copied'
    OBVIOUS
  <1> USE BodiesAssumption DEF Ledger, Shapes, recording, jobs, layouts, Bodies, Stored, Copied
  <1>1. CASE Clear \/ \E b \in Bodies : Remove(b)
    <2>1. UNCHANGED <<total, result, jobs>>
      BY <1>1 DEF Clear, Remove, Cancel
    <2> QED
      BY <2>1
  <1>2. ASSUME NEW b \in Recorded, Recorder(b) \/ Worker(b) PROVE Copied'
    <2>1. UNCHANGED jobs /\ \A c \in Bodies \ {b} : result'[c] = result[c] /\ total'[c] = total[c]
      BY <1>2 DEF Recorder, Record, Attach, Feed, GiveUp, SourceEnds, WorkerSeen, SourceBreaks,
                  WorkerFails, Undecodable, DropTap, Finish, EndWorker, Worker, TakeChunk,
                  WriteChunk, Complete, WorkerAborted
    <2> QED
      BY <2>1
  <1>3. ASSUME NEW b \in Stored, Job(b) PROVE Copied'
    <2>1. CASE Reserve(b)
      BY <2>1 DEF Reserve
    <2>2. CASE WriteFile(b)
      BY <2>2 DEF WriteFile
    <2>3. CASE Insert(b)
      BY <2>3 DEF Insert
    <2> QED
      BY <1>3, <2>1, <2>2, <2>3 DEF Job
  <1>4. ASSUME NEW b \in Replacements, Abandon(b) \/ Discard(b) PROVE Copied'
    BY <1>4 DEF Abandon, Discard
  <1>5. ASSUME NEW b \in Bodies, View(b) PROVE Copied'
    <2>1. UNCHANGED <<total, result, jobs>>
      BY <1>5 DEF View, Builder, StartView, CancelView, LayoutChunk, LayoutFails, Formatted,
                  DiscardLayout, CheckLayout, EndBuild
    <2> QED
      BY <2>1
  <1>6. CASE Page \/ UNCHANGED vars
    <2>1. UNCHANGED <<total, result, jobs>>
      BY <1>6 DEF Page, LookUp, Look, PageReturns, vars
    <2> QED
      BY <2>1
  <1> QED
    BY <1>1, <1>2, <1>3, <1>4, <1>5, <1>6 DEF Next

\* An outcome is never taken back, nor does a complete body grow.
LEMMA CompleteStays ==
  ASSUME Ledger, Recordings, Copied, [Next]_vars
  PROVE  \A b \in Bodies : result[b] = "complete" =>
           result'[b] = "complete" /\ total'[b] = total[b]
  <1> DEFINE Stays == \A b \in Bodies : result[b] = "complete" =>
                        result'[b] = "complete" /\ total'[b] = total[b]
  <1> SUFFICES Stays
    OBVIOUS
  <1> USE BodiesAssumption DEF Ledger, Shapes, recording, jobs, layouts, Bodies, Stored
  <1>1. ASSUME NEW b \in Recorded, Recorder(b) PROVE Stays
    <2>1. CASE Record(b)
      BY <2>1 DEF Record, Untouched
    <2>2. CASE Attach(b) \/ Feed(b) \/ SourceEnds(b)
      BY <2>2 DEF Attach, Feed, SourceEnds
    <2>3. CASE GiveUp(b) \/ WorkerSeen(b) \/ SourceBreaks(b)
      BY <2>3 DEF GiveUp, WorkerSeen, SourceBreaks, DropTap, Finish
    <2>4. CASE WorkerFails(b)
      BY <2>4 DEF WorkerFails, EndWorker, Finish
    <2> QED
      BY <1>1, <2>1, <2>2, <2>3, <2>4 DEF Recorder
  <1>2. ASSUME NEW b \in Recorded, Worker(b) PROVE Stays
    <2>1. result[b] # "complete" \/ UNCHANGED <<result, total>>
      BY <1>2 DEF Worker, TakeChunk, WriteChunk, Complete, Undecodable, WorkerAborted,
                  EndWorker, Decodes, Recordings
    <2>2. \A c \in Bodies \ {b} : result'[c] = result[c] /\ total'[c] = total[c]
      BY <1>2 DEF Worker, TakeChunk, WriteChunk, Complete, Undecodable, WorkerAborted,
                  EndWorker, Finish
    <2> QED
      BY <2>1, <2>2
  <1>3. ASSUME NEW b \in Stored, Job(b) PROVE Stays
    <2>1. CASE Reserve(b) \/ WriteFile(b)
      BY <2>1 DEF Reserve, WriteFile
    <2>2. CASE Insert(b)
      BY <2>2 DEF Insert, Copied
    <2> QED
      BY <1>3, <2>1, <2>2 DEF Job
  <1>4. ASSUME UNCHANGED <<total, result>> PROVE Stays
    BY <1>4
  <1>5. CASE Clear \/ \E b \in Bodies : Remove(b)
    BY <1>4, <1>5 DEF Clear, Remove, Cancel
  <1>6. CASE \E b \in Replacements : Abandon(b) \/ Discard(b)
    BY <1>4, <1>6 DEF Abandon, Discard
  <1>7. ASSUME NEW b \in Bodies, View(b) PROVE Stays
    BY <1>4, <1>7 DEF View, Builder, StartView, CancelView, LayoutChunk, LayoutFails, Formatted,
                      DiscardLayout, CheckLayout, EndBuild
  <1>8. CASE Page \/ UNCHANGED vars
    BY <1>4, <1>8 DEF Page, LookUp, Look, PageReturns, vars
  <1> QED
    BY <1>1, <1>2, <1>3, <1>5, <1>6, <1>7, <1>8 DEF Next

LEMMA PageAgreesStep == Promise /\ [Next]_vars => PageAgrees'
  <1> SUFFICES ASSUME Promise, [Next]_vars PROVE PageAgrees'
    OBVIOUS
  <1>1. /\ PageAgrees
        /\ page \in [body : Bodies \cup {"none"}, total : Nat,
                     state : {"none", "recording", "complete", "partial", "unavailable"},
                     at : {"idle", "first", "second", "read"}]
        /\ page.at # "idle" => page.body \in Bodies
    BY DEF Promise, Ledger, Shapes
  <1>2. \A b \in Bodies : result[b] = "complete" => result'[b] = "complete" /\ total'[b] = total[b]
    BY CompleteStays DEF Promise
  <1>3. CASE Page
    <2>1. UNCHANGED <<total, result>>
      BY <1>3 DEF Page, LookUp, Look, PageReturns
    <2>2. CASE LookUp
      BY <1>1, <2>2 DEF LookUp, PageAgrees
    <2>3. CASE page.at = "first" /\ page' = [page EXCEPT !.state = result[page.body], !.at = "second"]
      BY <1>1, <2>1, <2>3 DEF PageAgrees
    <2>4. CASE page.at = "second" /\ page' = [page EXCEPT !.total = total[page.body], !.at = "read"]
      BY <1>1, <2>1, <2>4 DEF PageAgrees
    <2>5. CASE PageReturns
      BY <2>5 DEF PageReturns, NoPage, PageAgrees
    <2> QED
      BY <1>3, <2>2, <2>3, <2>4, <2>5 DEF Page, Look, StateFirst
  <1>4. CASE UNCHANGED page
    BY <1>1, <1>2, <1>4 DEF PageAgrees
  <1>5. Page \/ UNCHANGED page
    BY DEF Next, vars, Clear, Remove, Cancel, Recorder, Record, Attach, Feed, GiveUp, SourceEnds,
           WorkerSeen, SourceBreaks, WorkerFails, Undecodable, EndWorker, Worker, TakeChunk,
           WriteChunk, Complete, WorkerAborted, Job, Reserve, WriteFile, Insert, Abandon, Discard,
           View, Builder, StartView, CancelView, LayoutChunk, LayoutFails, Formatted,
           DiscardLayout, CheckLayout, EndBuild
  <1> QED
    BY <1>3, <1>4, <1>5

(* A recording that says "complete" has every byte the decoder returned,   *)
(* and one that only the pipe's end can complete has the whole body, which *)
(* ended without an error; a page that says so shows the final length: the *)
(* worker, the tee and the reader share no lock that would order them,     *)
(* only the order in which each of them writes and reads (Tap, page()).    *)
THEOREM CompleteIsWholeAlways == Spec => []CompleteIsWhole
  <1>1. Promise /\ [Next]_vars => Promise'
    BY LedgerStep, RecordingsStep, CopiedStep, PageAgreesStep DEF Promise
  <1>2. Promise => CompleteIsWhole
    BY BodiesAssumption
       DEF Promise, Ledger, Shapes, Recordings, Copied, PageAgrees, CompleteIsWhole, Data, Bodies, Stored
  <1> QED
    BY PromiseInit, <1>1, <1>2, PTL DEF Spec

-----------------------------------------------------------------------------
(* The analysis semaphore.                                                 *)

Building == {b \in Bodies : builder[b] # "none"}

\* A permit belongs to a task from the start of a preparation to its end, and
\* a view is building exactly while its task is there.
Permitted ==
  /\ permits \in Nat /\ permits + Cardinality(Building) = 2
  /\ \A b \in Bodies : view[b] = "building" <=> builder[b] # "none"

LEMMA FewAreBuilding == IsFiniteSet(Building) /\ Cardinality(Building) \in Nat
  BY BodiesAssumption, FS_Subset, FS_CardinalityType DEF Building

LEMMA PermittedInit == Init => Permitted
  <1> SUFFICES ASSUME Init PROVE Permitted
    OBVIOUS
  <1>1. Building = {}
    BY DEF Init, Building
  <1> QED
    BY <1>1, FS_EmptySet DEF Init, Permitted

LEMMA PermittedStep == Shapes /\ Permitted /\ [Next]_vars => Permitted'
  <1> SUFFICES ASSUME Shapes, Permitted, [Next]_vars PROVE Permitted'
    OBVIOUS
  <1>1. /\ builder \in [Bodies -> {"none", "writing", "failing", "formatted", "discarding",
                                   "publishing", "refused"}]
        /\ view \in [Bodies -> {"idle", "building", "ready", "error"}]
    BY DEF Shapes
  <1>2. ASSUME NEW b \in Bodies, StartView(b) PROVE Permitted'
    <2>1. b \notin Building /\ Building' = Building \cup {b}
      BY <1>1, <1>2 DEF StartView, Permitted, Building
    <2>2. Cardinality(Building') = Cardinality(Building) + 1
      BY <2>1, FewAreBuilding, FS_AddElement
    <2> QED
      BY <1>1, <1>2, <2>2, FewAreBuilding DEF StartView, Permitted
  <1>3. ASSUME NEW b \in Bodies, EndBuild(b) PROVE Permitted'
    <2>1. b \in Building /\ Building' = Building \ {b}
      BY <1>1, <1>3 DEF EndBuild, Building
    <2>2. Cardinality(Building') = Cardinality(Building) - 1
      BY <2>1, FewAreBuilding, FS_RemoveElement
    <2> QED
      BY <1>1, <1>3, <2>2, FewAreBuilding DEF EndBuild, Permitted
  <1>4. ASSUME UNCHANGED <<permits, view>>,
               \A b \in Bodies : builder'[b] = "none" <=> builder[b] = "none"
        PROVE  Permitted'
    <2>1. Building' = Building
      BY <1>4 DEF Building
    <2> QED
      BY <1>4, <2>1 DEF Permitted
  <1>5. ASSUME NEW b \in Bodies, CancelView(b) \/ LayoutChunk(b) PROVE Permitted'
    BY <1>4, <1>5 DEF CancelView, LayoutChunk
  <1>6. ASSUME NEW b \in Bodies,
               LayoutFails(b) \/ Formatted(b) \/ DiscardLayout(b) \/ CheckLayout(b)
        PROVE  Permitted'
    <2>1. UNCHANGED <<permits, view>>
          /\ \A c \in Bodies : builder'[c] = "none" <=> builder[c] = "none"
      BY <1>1, <1>6 DEF LayoutFails, Formatted, DiscardLayout, CheckLayout, Verdict
    <2> QED
      BY <1>4, <2>1
  <1>7. CASE UNCHANGED <<permits, view, builder>>
    BY <1>4, <1>7
  <1>8. \/ UNCHANGED <<permits, view, builder>>
        \/ \E b \in Bodies : View(b)
    <2> USE DEF layouts
    <2>1. CASE Clear \/ \E b \in Bodies : Remove(b)
      BY <2>1 DEF Clear, Remove, Cancel
    <2>2. ASSUME NEW b \in Recorded, Recorder(b) PROVE UNCHANGED layouts
      BY <2>2 DEF Recorder, Record, Attach, Feed, GiveUp, SourceEnds, WorkerSeen, SourceBreaks,
                  WorkerFails, EndWorker
    <2>3. ASSUME NEW b \in Recorded, Worker(b) PROVE UNCHANGED layouts
      BY <2>3 DEF Worker, TakeChunk, WriteChunk, Complete, Undecodable, WorkerAborted, EndWorker
    <2>4. ASSUME NEW b \in Stored, Job(b) PROVE UNCHANGED layouts
      BY <2>4 DEF Job, Reserve, WriteFile, Insert
    <2>5. CASE \E b \in Replacements : Abandon(b) \/ Discard(b)
      BY <2>5 DEF Abandon, Discard
    <2>6. CASE Page \/ UNCHANGED vars
      BY <2>6 DEF Page, LookUp, Look, PageReturns, vars
    <2> QED
      BY <2>1, <2>2, <2>3, <2>4, <2>5, <2>6 DEF Next
  <1> QED
    BY <1>2, <1>3, <1>5, <1>6, <1>7, <1>8 DEF View, Builder

(* At most two layouts are built at once, whatever fails, is cancelled or  *)
(* removed on the way: the permit json_view() takes comes back with the    *)
(* outcome, once.                                                          *)
THEOREM TwoAnalysesAtMost ==
  Spec => [](Cardinality({b \in Bodies : view[b] = "building"}) <= 2)
  <1>1. Ledger /\ Permitted /\ [Next]_vars => (Ledger /\ Permitted)'
    BY LedgerStep, PermittedStep DEF Ledger
  <1>2. Permitted => Cardinality({b \in Bodies : view[b] = "building"}) <= 2
    <2> SUFFICES ASSUME Permitted PROVE Cardinality({b \in Bodies : view[b] = "building"}) <= 2
      OBVIOUS
    <2>1. {b \in Bodies : view[b] = "building"} = Building
      BY DEF Permitted, Building
    <2> QED
      BY <2>1, FewAreBuilding DEF Permitted
  <1> QED
    BY LedgerInit, PermittedInit, <1>1, <1>2, PTL DEF Spec

LEMMA UsedIsNatural ==
  ASSUME Ledger, Account
  PROVE  used \in Nat /\ Total(reserved, Bodies) \in Nat /\ Total(Held, Stored) \in Nat
  <1>1. IsFiniteSet(Bodies) /\ IsFiniteSet(Stored)
    BY BodiesAssumption, FS_Subset DEF Bodies
  <1>2. reserved \in [Bodies -> Nat] /\ Held \in [Stored -> Nat]
    BY HeldType DEF Ledger, Shapes
  <1>3. Total(reserved, Bodies) \in Nat /\ Total(Held, Stored) \in Nat
    BY <1>1, <1>2, TotalIsNatural
  <1> QED
    BY <1>3 DEF Account

(* No counter of a run goes below zero: neither what an entry has reserved *)
(* and what the session uses, which are unsigned in the code, nor the      *)
(* permits of the semaphore; and every variable keeps its type.            *)
THEOREM TypesAlways == Spec => []TypeOK
  <1>1. Ledger /\ Account /\ Permitted => TypeOK
    <2> SUFFICES ASSUME Ledger, Account, Permitted PROVE TypeOK
      OBVIOUS
    <2>1. permits \in 0..2
      BY FewAreBuilding DEF Permitted
    <2> QED
      BY <2>1, UsedIsNatural DEF TypeOK, Ledger
  <1>2. Ledger /\ Account /\ Permitted /\ [Next]_vars => (Ledger /\ Account /\ Permitted)'
    BY LedgerStep, AccountStep, PermittedStep DEF Ledger
  <1> QED
    BY LedgerInit, AccountInit, PermittedInit, <1>1, <1>2, PTL DEF Spec

-----------------------------------------------------------------------------
(* The disk budget.                                                        *)

\* A step leaves the counter, gives something back, or was checked against a
\* budget.
LEMMA UsedStep ==
  ASSUME Ledger, Account, [Next]_vars,
         NEW budget \in Nat, \A limit \in Limits : limit <= budget, used <= budget
  PROVE  used' <= budget
  <1> USE DEF recording, jobs, layouts
  <1>1. used \in Nat
    BY UsedIsNatural
  <1>2. /\ allowed \in [Bodies -> Limits \cup {0}] /\ Limits \subseteq Nat
        /\ size \in [Stored -> 0..MaxChunks] /\ layout \in [Bodies -> 0..MaxLayout]
    BY BoundsAssumption DEF Ledger, Shapes
  <1>3. ASSUME NEW b \in Bodies, Fits(1, allowed[b]), used' = used + 1 PROVE used' <= budget
    <2>1. allowed[b] <= budget /\ allowed[b] \in Nat
      <3>1. allowed[b] \in Limits \/ allowed[b] = 0
        BY <1>2
      <3>2. CASE allowed[b] \in Limits
        <4>1. allowed[b] <= budget
          BY <3>2, Zenon
        <4>2. allowed[b] \in Nat
          BY <1>2, <3>2
        <4> QED
          BY <4>1, <4>2
      <3>3. CASE allowed[b] = 0
        BY <3>3
      <3> QED
        BY <3>1, <3>2, <3>3
    <2> QED
      BY <1>1, <1>3, <2>1 DEF Fits
  <1>4. CASE Clear \/ \E b \in Bodies : Remove(b)
    <2>1. PICK gone \in SUBSET Bodies : Cancel(gone)
      BY <1>4 DEF Clear, Remove, Listed
    <2>2. used' = used - Total(reserved, gone)
      BY <2>1, Zenon DEF Cancel, Freed, Total
    <2>3. Total(reserved, gone) \in Nat
      <3>1. \A b \in Bodies : reserved[b] \in Nat
        BY DEF Ledger, Shapes
      <3> QED
        BY <3>1, BodiesAssumption, TotalIsNatural
    <2> QED
      BY <1>1, <2>2, <2>3
  <1>5. ASSUME NEW b \in Recorded, Recorder(b) PROVE used' = used
    BY <1>5 DEF Recorder, Record, Attach, Feed, GiveUp, SourceEnds, WorkerSeen, SourceBreaks,
                WorkerFails, EndWorker
  <1>6. ASSUME NEW b \in Recorded, Worker(b) PROVE used' <= budget
    <2>1. CASE TakeChunk(b)
      <3>1. CASE UNCHANGED <<used, reserved, taken>>
        BY <3>1
      <3>2. CASE Fits(1, allowed[b]) /\ used' = used + 1
        BY <1>3, <3>2 DEF Bodies
      <3>3. \/ UNCHANGED <<used, reserved, taken>>
            \/ Fits(1, allowed[b]) /\ used' = used + 1
        BY <2>1, Zenon DEF TakeChunk
      <3> QED
        BY <3>1, <3>2, <3>3
    <2>2. CASE WriteChunk(b) \/ Complete(b) \/ Undecodable(b) \/ WorkerAborted(b)
      BY <2>2 DEF WriteChunk, Complete, Undecodable, WorkerAborted, EndWorker
    <2> QED
      BY <1>6, <2>1, <2>2 DEF Worker
  <1>7. ASSUME NEW b \in Stored, Job(b) PROVE used' <= budget
    <2>1. CASE Reserve(b)
      <3>1. used' = used \/ \E limit \in Limits, n \in 1..MaxChunks :
                               Fits(n, limit) /\ used' = used + n
        BY <2>1, Zenon DEF Reserve
      <3> QED
        BY <1>1, <1>2, <3>1 DEF Fits
    <2>2. CASE WriteFile(b)
      <3>1. used' = used \/ used' = used - size[b]
        BY <2>2, Zenon DEF WriteFile
      <3> QED
        BY <1>1, <1>2, <3>1
    <2>3. CASE Insert(b)
      BY <2>3 DEF Insert
    <2> QED
      BY <1>7, <2>1, <2>2, <2>3 DEF Job
  <1>8. CASE \E b \in Replacements : Abandon(b) \/ Discard(b)
    BY <1>8 DEF Abandon, Discard
  <1>9. ASSUME NEW b \in Bodies, View(b) PROVE used' <= budget
    <2>1. CASE LayoutChunk(b)
      BY <1>3, <2>1 DEF LayoutChunk
    <2>2. CASE DiscardLayout(b)
      <3>1. used' = used \/ used' = used - layout[b]
        BY <2>2 DEF DiscardLayout, GiveBack
      <3> QED
        BY <1>1, <1>2, <3>1
    <2>3. CASE StartView(b) \/ CancelView(b) \/ LayoutFails(b) \/ Formatted(b) \/ CheckLayout(b)
               \/ EndBuild(b)
      BY <2>3 DEF StartView, CancelView, LayoutFails, Formatted, CheckLayout, EndBuild
    <2> QED
      BY <1>9, <2>1, <2>2, <2>3 DEF View, Builder
  <1>10. CASE Page \/ UNCHANGED vars
    <2>1. used' = used
      BY <1>10 DEF Page, LookUp, Look, PageReturns, vars
    <2> QED
      BY <2>1
  <1> QED
    BY <1>4, <1>5, <1>6, <1>7, <1>8, <1>9, <1>10 DEF Next

(* Whatever runs with which budgets have stored them, what the entries of a*)
(* session keep on disk never exceeds the largest budget.                  *)
THEOREM EntriesFitAlways ==
  ASSUME NEW budget \in Nat, \A limit \in Limits : limit <= budget
  PROVE  Spec => [](Total(reserved, Bodies) <= budget)
  <1> DEFINE Books == Ledger /\ Account /\ used <= budget
  <1>1. Init => Books
    BY LedgerInit, AccountInit DEF Init
  <1>2. Books /\ [Next]_vars => Books'
    <2> SUFFICES ASSUME Books, [Next]_vars PROVE Books'
      OBVIOUS
    <2>1. Ledger' /\ Account'
      BY LedgerStep, AccountStep
    <2>2. used' <= budget
      BY UsedStep
    <2> QED
      BY <2>1, <2>2
  <1>3. Books => Total(reserved, Bodies) <= budget
    <2> SUFFICES ASSUME Books PROVE Total(reserved, Bodies) <= budget
      OBVIOUS
    <2>1. Total(reserved, Bodies) \in Nat /\ Total(Held, Stored) \in Nat
      BY UsedIsNatural
    <2> QED
      BY <2>1 DEF Account
  <1> QED
    BY <1>1, <1>2, <1>3, PTL DEF Spec
=============================================================================
