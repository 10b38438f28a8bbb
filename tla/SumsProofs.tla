------------------------------ MODULE SumsProofs ------------------------------
(***************************************************************************)
(* What the proofs use about sums over finite sets: a sum has a value and  *)
(* a type, does not depend on an order, and changes by what an element     *)
(* added, taken away or given another value makes of it.                   *)
(***************************************************************************)
EXTENDS Sums, TLAPS, FiniteSetTheorems, WellFoundedInduction

-------------------------------------------------------------------------------
(* SumOver is a recursion over the subsets of S: that it has a value is proved *)
(* first, by well-founded induction over the finite subsets.                   *)

Pick(s) == CHOOSE x \in s : TRUE

AddsUp(g, f, U) ==
    g = [s \in SUBSET U |-> IF s = {} THEN 0 ELSE f[Pick(s)] + g[s \ {Pick(s)}]]

\* A set that contains a subset of U as soon as it contains all that have lost an
\* element contains all of them.
LEMMA SubsetInduction ==
    ASSUME NEW U, IsFiniteSet(U), NEW Good,
           \A T \in SUBSET U : (\A x \in T : T \ {x} \in Good) => T \in Good
    PROVE  SUBSET U \subseteq Good
<1>. DEFINE Bad == {T \in SUBSET U : T \notin Good}
<1>1. SUFFICES ASSUME Bad # {} PROVE FALSE
  OBVIOUS
<1>2. FiniteSubsetsOf(U) = SUBSET U
  BY FS_FiniteSubsetsOfFinite
<1>3. IsWellFoundedOn(StrictSubsetOrdering(U), SUBSET U)
  BY <1>2, FS_StrictSubsetOrderingWellFounded
<1>4. Bad \subseteq SUBSET U
  OBVIOUS
<1>5. PICK T \in Bad : \A W \in Bad : <<W, T>> \notin StrictSubsetOrdering(U)
  <2>. HIDE DEF Bad
  <2>. QED
    BY <1>1, <1>3, <1>4, WFMin
<1>6. \A x \in T : T \ {x} \in Good
  <2>. SUFFICES ASSUME NEW x \in T, T \ {x} \notin Good PROVE FALSE
    OBVIOUS
  <2>1. T \ {x} \in Bad
    OBVIOUS
  <2>2. <<T \ {x}, T>> \in StrictSubsetOrdering(U)
    BY DEF StrictSubsetOrdering
  <2>. QED
    BY <2>1, <2>2, <1>5
<1>. QED
  BY <1>6

\* Two recursions agree where both are defined.
LEMMA AddsUpOnce ==
    ASSUME NEW f, NEW U, NEW V, IsFiniteSet(U), U \subseteq V,
           NEW g, AddsUp(g, f, U), NEW h, AddsUp(h, f, V)
    PROVE  \A T \in SUBSET U : g[T] = h[T]
<1>. DEFINE Good == {T \in SUBSET U : g[T] = h[T]}
<1>1. ASSUME NEW T \in SUBSET U, \A x \in T : T \ {x} \in Good
      PROVE  T \in Good
  <2>1. CASE T = {}
    BY <2>1 DEF AddsUp
  <2>2. CASE T # {}
    <3>1. Pick(T) \in T
      BY <2>2 DEF Pick
    <3>2. g[T \ {Pick(T)}] = h[T \ {Pick(T)}]
      BY <3>1, <1>1
    <3>3. g[T] = f[Pick(T)] + g[T \ {Pick(T)}] /\ h[T] = f[Pick(T)] + h[T \ {Pick(T)}]
      BY <2>2 DEF AddsUp
    <3>. QED
      BY <3>2, <3>3
  <2>. QED
    BY <2>1, <2>2
<1>2. SUBSET U \subseteq Good
  <2>. HIDE DEF Good
  <2>. QED
    BY <1>1, SubsetInduction
<1>. QED
  BY <1>2

\* The recursion is defined on the subsets of every finite set.
LEMMA AddsUpExists ==
    ASSUME NEW f, NEW U, IsFiniteSet(U)
    PROVE  \E g : AddsUp(g, f, U)
<1>. DEFINE Good == {T \in SUBSET U : \E g : AddsUp(g, f, T)}
            Part(W) == CHOOSE g : AddsUp(g, f, W)
<1>1. ASSUME NEW T \in SUBSET U, \A x \in T : T \ {x} \in Good
      PROVE  T \in Good
  <2>. DEFINE Less(s) == s \ {Pick(s)}
              h == [s \in SUBSET T |-> IF s = {} THEN 0 ELSE f[Pick(s)] + Part(Less(s))[Less(s)]]
  <2>1. ASSUME NEW W \in SUBSET T, W # T
        PROVE  AddsUp(Part(W), f, W)
    <3>1. PICK x \in T : x \notin W
      BY <2>1
    <3>2. PICK g : AddsUp(g, f, T \ {x})
      BY <1>1
    <3>3. W \subseteq T \ {x}
      BY <3>1, <2>1
    <3>4. AddsUp([s \in SUBSET W |-> g[s]], f, W)
      <4>1. \A s \in SUBSET W : s \ {Pick(s)} \in SUBSET W
        OBVIOUS
      <4>2. \A s \in SUBSET W : s \in SUBSET (T \ {x})
        BY <3>3
      <4>3. \A s \in SUBSET W : g[s] = IF s = {} THEN 0 ELSE f[Pick(s)] + g[s \ {Pick(s)}]
        BY <3>2, <4>2 DEF AddsUp
      <4>. QED
        BY <4>1, <4>3 DEF AddsUp
    <3>. QED
      BY <3>4
  <2>2. ASSUME NEW s \in SUBSET T, s # {}
        PROVE  Less(s) \in SUBSET T /\ Less(s) # T /\ Less(s) # s /\ Less(s) \subseteq s
    <3>1. Pick(s) \in s
      BY <2>2 DEF Pick
    <3>. QED
      BY <3>1
  <2>3. ASSUME NEW W \in SUBSET T, W # T
        PROVE  h[W] = Part(W)[W]
    <3>1. AddsUp(Part(W), f, W)
      BY <2>1, <2>3
    <3>2. CASE W = {}
      BY <3>1, <3>2 DEF AddsUp
    <3>3. CASE W # {}
      <4>1. Less(W) \in SUBSET T /\ Less(W) # T /\ Less(W) \subseteq W
        BY <2>2, <3>3
      <4>2. AddsUp(Part(Less(W)), f, Less(W))
        BY <4>1, <2>1
      <4>3. IsFiniteSet(Less(W))
        BY <4>1, FS_Subset
      <4>4. Part(Less(W))[Less(W)] = Part(W)[Less(W)]
        <5>. HIDE DEF Part, Less
        <5>. QED
          BY <3>1, <4>1, <4>2, <4>3, AddsUpOnce
      <4>5. Part(W)[W] = f[Pick(W)] + Part(W)[Less(W)]
        <5>. HIDE DEF Part
        <5>. QED
          BY <3>1, <3>3 DEF AddsUp
      <4>6. h[W] = f[Pick(W)] + Part(Less(W))[Less(W)]
        <5>. HIDE DEF Part, Less
        <5>. QED
          BY <3>3
      <4>. QED
        BY <4>4, <4>5, <4>6
    <3>. QED
      BY <3>2, <3>3
  <2>4. AddsUp(h, f, T)
    <3>1. ASSUME NEW s \in SUBSET T, s # {}
          PROVE  h[s] = f[Pick(s)] + h[s \ {Pick(s)}]
      <4>1. h[Less(s)] = Part(Less(s))[Less(s)]
        <5>. HIDE DEF h
        <5>. QED
          BY <2>2, <2>3, <3>1
      <4>2. h[s] = f[Pick(s)] + Part(Less(s))[Less(s)]
        <5>. HIDE DEF Part, Less
        <5>. QED
          BY <3>1
      <4>. QED
        BY <4>1, <4>2
    <3>2. h[{}] = 0
      OBVIOUS
    <3>3. h = [s \in SUBSET T |-> h[s]]
      OBVIOUS
    <3>. HIDE DEF h
    <3>. QED
      BY <3>1, <3>2, <3>3 DEF AddsUp
  <2>. QED
    BY <2>4
<1>2. SUBSET U \subseteq Good
  <2>. HIDE DEF Good
  <2>. QED
    BY <1>1, SubsetInduction
<1>. QED
  BY <1>2

\* What SumOver is: one element's value and the sum of the rest.
LEMMA SumUnfolds ==
    ASSUME NEW f, NEW S, IsFiniteSet(S)
    PROVE  SumOver(f, S) = IF S = {} THEN 0
                           ELSE f[Pick(S)] + SumOver(f, S \ {Pick(S)})
<1>. DEFINE All(W) == CHOOSE g : AddsUp(g, f, W)
<1>1. \A W : SumOver(f, W) = All(W)[W]
  BY DEF SumOver, MapThenSumSet, MapThenFoldSet, AddsUp, Pick
<1>2. IsFiniteSet(S \ {Pick(S)})
  BY FS_RemoveElement
<1>3. AddsUp(All(S), f, S) /\ AddsUp(All(S \ {Pick(S)}), f, S \ {Pick(S)})
  BY <1>2, AddsUpExists
<1>4. All(S \ {Pick(S)})[S \ {Pick(S)}] = All(S)[S \ {Pick(S)}]
  <2>. HIDE DEF All
  <2>. QED
    BY <1>2, <1>3, AddsUpOnce
<1>5. CASE S = {}
  <2>1. All(S)[S] = 0
    <3>. HIDE DEF All
    <3>. QED
      BY <1>3, <1>5 DEF AddsUp
  <2>. QED
    BY <1>1, <1>5, <2>1
<1>6. CASE S # {}
  <2>1. All(S)[S] = f[Pick(S)] + All(S)[S \ {Pick(S)}]
    <3>. HIDE DEF All
    <3>. QED
      BY <1>3, <1>6 DEF AddsUp
  <2>. HIDE DEF All
  <2>. QED
    BY <1>1, <1>4, <1>6, <2>1
<1>. QED
  BY <1>5, <1>6

LEMMA SumOfNothing ==
    ASSUME NEW f
    PROVE  SumOver(f, {}) = 0
BY SumUnfolds, FS_EmptySet

-------------------------------------------------------------------------------
(* Sums of integers. *)

\* A sum of integers is an integer.
LEMMA SumType ==
    ASSUME NEW f, NEW S, IsFiniteSet(S), \A x \in S : f[x] \in Int
    PROVE  SumOver(f, S) \in Int
<1>. DEFINE Good == {T \in SUBSET S : SumOver(f, T) \in Int}
<1>1. ASSUME NEW T \in SUBSET S, \A x \in T : T \ {x} \in Good
      PROVE  T \in Good
  <2>1. IsFiniteSet(T)
    BY FS_Subset
  <2>2. CASE T = {}
    BY <2>2, SumOfNothing
  <2>3. CASE T # {}
    <3>1. Pick(T) \in T
      BY <2>3 DEF Pick
    <3>2. SumOver(f, T \ {Pick(T)}) \in Int /\ f[Pick(T)] \in Int
      BY <3>1, <1>1
    <3>. QED
      BY <2>1, <2>3, <3>2, SumUnfolds
  <2>. QED
    BY <2>2, <2>3
<1>2. SUBSET S \subseteq Good
  <2>. HIDE DEF Good
  <2>. QED
    BY <1>1, SubsetInduction
<1>. QED
  BY <1>2

\* Any element may be taken out first.
LEMMA SumWithout ==
    ASSUME NEW f, NEW S, IsFiniteSet(S), \A x \in S : f[x] \in Int, NEW x \in S
    PROVE  SumOver(f, S) = f[x] + SumOver(f, S \ {x})
<1>. DEFINE Good == {T \in SUBSET S : \A y \in T : SumOver(f, T) = f[y] + SumOver(f, T \ {y})}
<1>1. ASSUME NEW T \in SUBSET S, \A y \in T : T \ {y} \in Good
      PROVE  T \in Good
  <2>. SUFFICES ASSUME NEW y \in T PROVE SumOver(f, T) = f[y] + SumOver(f, T \ {y})
    OBVIOUS
  <2>. DEFINE z == Pick(T)
  <2>1. IsFiniteSet(T) /\ IsFiniteSet(T \ {y}) /\ IsFiniteSet(T \ {z})
    BY FS_Subset, FS_RemoveElement
  <2>2. z \in T
    BY DEF Pick
  <2>3. SumOver(f, T) = f[z] + SumOver(f, T \ {z})
    BY <2>1, SumUnfolds
  <2>4. CASE y = z
    BY <2>3, <2>4
  <2>5. CASE y # z
    <3>. HIDE DEF z
    <3>1. SumOver(f, T \ {z}) = f[y] + SumOver(f, (T \ {z}) \ {y})
      BY <1>1, <2>2, <2>5
    <3>2. SumOver(f, T \ {y}) = f[z] + SumOver(f, (T \ {y}) \ {z})
      BY <1>1, <2>2, <2>5
    <3>3. (T \ {z}) \ {y} = (T \ {y}) \ {z}
      OBVIOUS
    <3>4. IsFiniteSet((T \ {y}) \ {z})
      BY <2>1, FS_RemoveElement
    <3>5. SumOver(f, (T \ {y}) \ {z}) \in Int
      BY <3>4, SumType
    <3>6. f[y] \in Int /\ f[z] \in Int
      BY <2>2
    <3>7. SumOver(f, T) = f[z] + (f[y] + SumOver(f, (T \ {y}) \ {z}))
      BY <2>3, <3>1, <3>3
    <3>. QED
      BY <3>2, <3>5, <3>6, <3>7
  <2>. QED
    BY <2>4, <2>5
<1>2. SUBSET S \subseteq Good
  <2>. HIDE DEF Good
  <2>. QED
    BY <1>1, SubsetInduction
<1>3. S \in Good
  <2>. HIDE DEF Good
  <2>. QED
    BY <1>2
<1>. QED
  BY <1>3

\* Adding a new element adds its value.
LEMMA SumWith ==
    ASSUME NEW f, NEW S, IsFiniteSet(S), \A y \in S : f[y] \in Int,
           NEW x, x \notin S, f[x] \in Int
    PROVE  SumOver(f, S \cup {x}) = SumOver(f, S) + f[x]
<1>1. IsFiniteSet(S \cup {x})
  BY FS_AddElement
<1>2. (S \cup {x}) \ {x} = S
  OBVIOUS
<1>3. SumOver(f, S \cup {x}) = f[x] + SumOver(f, S)
  BY <1>1, <1>2, SumWithout
<1>. QED
  BY <1>3, SumType

\* The sum depends on the values at the elements only.
LEMMA SumSame ==
    ASSUME NEW f, NEW g, NEW S, IsFiniteSet(S), \A x \in S : f[x] = g[x]
    PROVE  SumOver(f, S) = SumOver(g, S)
<1>. DEFINE Good == {T \in SUBSET S : SumOver(f, T) = SumOver(g, T)}
<1>1. ASSUME NEW T \in SUBSET S, \A x \in T : T \ {x} \in Good
      PROVE  T \in Good
  <2>1. IsFiniteSet(T)
    BY FS_Subset
  <2>2. CASE T = {}
    BY <2>2, SumOfNothing
  <2>3. CASE T # {}
    <3>1. Pick(T) \in T
      BY <2>3 DEF Pick
    <3>2. SumOver(f, T \ {Pick(T)}) = SumOver(g, T \ {Pick(T)}) /\ f[Pick(T)] = g[Pick(T)]
      BY <3>1, <1>1
    <3>. QED
      BY <2>1, <2>3, <3>2, SumUnfolds
  <2>. QED
    BY <2>2, <2>3
<1>2. SUBSET S \subseteq Good
  <2>. HIDE DEF Good
  <2>. QED
    BY <1>1, SubsetInduction
<1>. QED
  BY <1>2

\* A change of one value changes the sum by as much.
LEMMA SumChanged ==
    ASSUME NEW f, NEW g, NEW S, IsFiniteSet(S), NEW x \in S,
           \A y \in S : f[y] \in Int /\ g[y] \in Int,
           \A y \in S \ {x} : f[y] = g[y]
    PROVE  SumOver(g, S) = SumOver(f, S) - f[x] + g[x]
<1>1. IsFiniteSet(S \ {x})
  BY FS_RemoveElement
<1>2. SumOver(f, S \ {x}) = SumOver(g, S \ {x})
  BY <1>1, SumSame
<1>3. SumOver(f, S) = f[x] + SumOver(f, S \ {x}) /\ SumOver(g, S) = g[x] + SumOver(g, S \ {x})
  BY SumWithout
<1>4. SumOver(f, S \ {x}) \in Int
  BY <1>1, SumType
<1>. QED
  BY <1>2, <1>3, <1>4

\* A sum of zeros.
LEMMA SumOfZeros ==
    ASSUME NEW f, NEW S, IsFiniteSet(S), \A x \in S : f[x] = 0
    PROVE  SumOver(f, S) = 0
<1>. DEFINE Good == {T \in SUBSET S : SumOver(f, T) = 0}
<1>1. ASSUME NEW T \in SUBSET S, \A x \in T : T \ {x} \in Good
      PROVE  T \in Good
  <2>1. IsFiniteSet(T)
    BY FS_Subset
  <2>2. CASE T = {}
    BY <2>2, SumOfNothing
  <2>3. CASE T # {}
    <3>1. Pick(T) \in T
      BY <2>3 DEF Pick
    <3>2. SumOver(f, T \ {Pick(T)}) = 0 /\ f[Pick(T)] = 0
      BY <3>1, <1>1
    <3>. QED
      BY <2>1, <2>3, <3>2, SumUnfolds
  <2>. QED
    BY <2>2, <2>3
<1>2. SUBSET S \subseteq Good
  <2>. HIDE DEF Good
  <2>. QED
    BY <1>1, SubsetInduction
<1>. QED
  BY <1>2

\* A sum of natural numbers is at least each of them.
LEMMA SumBoundsEach ==
    ASSUME NEW f, NEW S, IsFiniteSet(S), \A x \in S : f[x] \in Nat
    PROVE  /\ SumOver(f, S) \in Nat
           /\ \A x \in S : f[x] =< SumOver(f, S)
<1>. DEFINE Good == {T \in SUBSET S : SumOver(f, T) \in Nat}
<1>1. ASSUME NEW T \in SUBSET S, \A x \in T : T \ {x} \in Good
      PROVE  T \in Good
  <2>1. IsFiniteSet(T)
    BY FS_Subset
  <2>2. CASE T = {}
    BY <2>2, SumOfNothing
  <2>3. CASE T # {}
    <3>1. Pick(T) \in T
      BY <2>3 DEF Pick
    <3>2. SumOver(f, T \ {Pick(T)}) \in Nat /\ f[Pick(T)] \in Nat
      BY <3>1, <1>1
    <3>. QED
      BY <2>1, <2>3, <3>2, SumUnfolds
  <2>. QED
    BY <2>2, <2>3
<1>2. SUBSET S \subseteq Good
  <2>. HIDE DEF Good
  <2>. QED
    BY <1>1, SubsetInduction
<1>3. ASSUME NEW x \in S
      PROVE  f[x] =< SumOver(f, S)
  <2>1. SumOver(f, S) = f[x] + SumOver(f, S \ {x})
    BY SumWithout
  <2>2. SumOver(f, S \ {x}) \in Nat
    BY <1>2
  <2>. QED
    BY <2>1, <2>2
<1>. QED
  BY <1>2, <1>3
===============================================================================
