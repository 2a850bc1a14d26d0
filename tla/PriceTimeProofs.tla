-------------------------- MODULE PriceTimeProofs --------------------------
(***************************************************************************)
(* What the engine's operations, as functions of a book, do to it: for any *)
(* ids, owners and quantities.                                             *)
(***************************************************************************)
EXTENDS PriceTime, FiniteSetTheorems, WellFoundedInduction, SequenceTheorems, TLAPS
----------------------------------------------------------------------------
(***************************************************************************)
(* Facts about SumFunctionOnSet and SumFunction of the community module    *)
(* Functions, which the properties of OrderBook and Exchange are stated    *)
(* with.  Induction is by a least counterexample.                          *)
(***************************************************************************)
LEMMA LeastNat ==
    ASSUME NEW T, T \subseteq Nat, T # {}
    PROVE  \E least \in T : \A n \in T : least <= n
<1>1. PICK least \in T : \A n \in T : ~(<<n, least>> \in OpToRel(<, Nat))
  BY NatLessThanWellFounded, WFMin
<1>2. ASSUME NEW n \in T
      PROVE  least <= n
  <2>1. ~(<<n, least>> \in {pair \in Nat \X Nat : pair[1] < pair[2]})
    BY <1>1 DEF OpToRel
  <2>2. <<n, least>> \in Nat \X Nat
    OBVIOUS
  <2>3. ~(n < least)
    BY <2>1, <2>2
  <2> QED BY <2>3
<1> QED BY <1>2

\* Among the subsets of a finite set that are bad there is one that is good as
\* soon as any of its elements is removed.
LEMMA MinimalSubset ==
    ASSUME NEW S, IsFiniteSet(S), NEW Bad \in SUBSET (SUBSET S), Bad # {}
    PROVE  \E s \in Bad : /\ IsFiniteSet(s)
                          /\ \A t \in Bad : ~(t \subseteq s /\ t # s)
<1> DEFINE Sizes == {Cardinality(s) : s \in Bad}
<1>1. \A s \in Bad : IsFiniteSet(s) /\ Cardinality(s) \in Nat
  BY FS_Subset, FS_CardinalityType
<1>2. PICK least \in Sizes : \A n \in Sizes : least <= n
  <2>1. Sizes \subseteq Nat /\ Sizes # {}
    BY <1>1
  <2> HIDE DEF Sizes
  <2> QED BY <2>1, LeastNat
<1>3. PICK s \in Bad : least = Cardinality(s)
  BY <1>2
<1>4. ASSUME NEW t \in Bad, t \subseteq s, t # s
      PROVE  FALSE
  <2>1. Cardinality(t) < Cardinality(s)
    BY <1>1, <1>4, FS_Subset
  <2>2. Cardinality(s) <= Cardinality(t)
    BY <1>2, <1>3
  <2> QED BY <1>1, <2>1, <2>2
<1> QED BY <1>1, <1>4
----------------------------------------------------------------------------
(***************************************************************************)
(* The recursive function behind a sum is there, and the sum is defined by *)
(* its equation.                                                           *)
(***************************************************************************)
Chosen(s) == CHOOSE x \in s : TRUE

IsFold(f, S, g) ==
    g = [s \in SUBSET S |-> IF s = {} THEN 0 ELSE f[Chosen(s)] + g[s \ {Chosen(s)}]]

LEMMA SumIsFold ==
    ASSUME NEW f, NEW S
    PROVE  SumFunctionOnSet(f, S) = (CHOOSE g : IsFold(f, S, g))[S]
    BY DEF SumFunctionOnSet, FoldFunctionOnSet, MapThenFoldSet, IsFold, Chosen

LEMMA FoldAt ==
    ASSUME NEW f, NEW S, NEW g, IsFold(f, S, g), NEW s \in SUBSET S
    PROVE  g[s] = IF s = {} THEN 0 ELSE f[Chosen(s)] + g[s \ {Chosen(s)}]
    BY DEF IsFold

LEMMA FoldsAgree ==
    ASSUME NEW f, NEW S, IsFiniteSet(S), NEW T \in SUBSET S,
           NEW g, IsFold(f, S, g), NEW h, IsFold(f, T, h)
    PROVE  g[T] = h[T]
<1> DEFINE Bad == {s \in SUBSET T : g[s] # h[s]}
<1>1. ASSUME Bad # {}
      PROVE  FALSE
  <2>1. IsFiniteSet(T)
    BY FS_Subset
  <2>2. PICK s \in Bad : \A t \in Bad : ~(t \subseteq s /\ t # s)
    <3>1. Bad \in SUBSET (SUBSET T)
      OBVIOUS
    <3> HIDE DEF Bad
    <3> QED BY <3>1, <2>1, <1>1, MinimalSubset
  <2>3. s # {}
    BY FoldAt
  <2>4. Chosen(s) \in s
    BY <2>3 DEF Chosen
  <2>5. s \ {Chosen(s)} \notin Bad
    BY <2>2, <2>4
  <2>6. g[s \ {Chosen(s)}] = h[s \ {Chosen(s)}]
    BY <2>5
  <2>7. g[s] = h[s]
    BY <2>3, <2>6, FoldAt
  <2> QED BY <2>7
<1> QED BY <1>1

\* What follows for one set once the functions of its subsets are there.
LEMMA SumStepIfFolds ==
    ASSUME NEW f, NEW S, IsFiniteSet(S),
           \A T \in SUBSET S : \E g : IsFold(f, T, g)
    PROVE  SumFunctionOnSet(f, S) =
               IF S = {} THEN 0
               ELSE f[Chosen(S)] + SumFunctionOnSet(f, S \ {Chosen(S)})
<1> DEFINE g == CHOOSE g : IsFold(f, S, g)
           T == S \ {Chosen(S)}
           h == CHOOSE h : IsFold(f, T, h)
<1>1. T \in SUBSET S /\ S \in SUBSET S
  OBVIOUS
<1>2. IsFold(f, S, g) /\ IsFold(f, T, h)
  BY <1>1
<1>3. SumFunctionOnSet(f, S) = g[S] /\ SumFunctionOnSet(f, T) = h[T]
  BY SumIsFold
<1>4. g[T] = h[T]
  <2> HIDE DEF g, h, T
  <2> QED BY <1>1, <1>2, FoldsAgree
<1>5. g[S] = IF S = {} THEN 0 ELSE f[Chosen(S)] + g[T]
  <2> HIDE DEF g
  <2> QED BY <1>1, <1>2, FoldAt
<1> HIDE DEF g, h
<1> QED BY <1>3, <1>4, <1>5

LEMMA FoldExists ==
    ASSUME NEW f, NEW S, IsFiniteSet(S)
    PROVE  \E g : IsFold(f, S, g)
<1> DEFINE Bad == {s \in SUBSET S : ~\E g : IsFold(f, s, g)}
<1>1. ASSUME Bad # {}
      PROVE  FALSE
  <2>1. PICK s \in Bad : IsFiniteSet(s) /\ \A t \in Bad : ~(t \subseteq s /\ t # s)
    <3>1. Bad \in SUBSET (SUBSET S)
      OBVIOUS
    <3> HIDE DEF Bad
    <3> QED BY <3>1, <1>1, MinimalSubset
  <2>2. ASSUME NEW t, t \subseteq s, t # s
        PROVE  SumFunctionOnSet(f, t) =
                   IF t = {} THEN 0 ELSE f[Chosen(t)] + SumFunctionOnSet(f, t \ {Chosen(t)})
    <3>1. ASSUME NEW u \in SUBSET t
          PROVE  \E g : IsFold(f, u, g)
      BY <2>1, <2>2
    <3>2. IsFiniteSet(t)
      BY <2>1, <2>2, FS_Subset
    <3> QED BY <3>1, <3>2, SumStepIfFolds
  <2> DEFINE g == [t \in SUBSET s |->
                      IF t = {} THEN 0
                      ELSE f[Chosen(t)] + SumFunctionOnSet(f, t \ {Chosen(t)})]
  <2>3. ASSUME NEW t \in SUBSET s, t # {}
        PROVE  g[t \ {Chosen(t)}] = SumFunctionOnSet(f, t \ {Chosen(t)})
    <3>1. Chosen(t) \in t
      BY <2>3 DEF Chosen
    <3>2. t \ {Chosen(t)} \subseteq s /\ t \ {Chosen(t)} # s
      BY <3>1
    <3> QED BY <3>2, <2>2
  <2>4. IsFold(f, s, g)
    <3>1. ASSUME NEW t \in SUBSET s
          PROVE  g[t] = IF t = {} THEN 0 ELSE f[Chosen(t)] + g[t \ {Chosen(t)}]
      BY <2>3
    <3> QED BY <3>1 DEF IsFold
  <2> QED BY <2>4
<1> QED BY <1>1

LEMMA SumStep ==
    ASSUME NEW f, NEW S, IsFiniteSet(S)
    PROVE  SumFunctionOnSet(f, S) =
               IF S = {} THEN 0
               ELSE f[Chosen(S)] + SumFunctionOnSet(f, S \ {Chosen(S)})
    BY FoldExists, FS_Subset, SumStepIfFolds
----------------------------------------------------------------------------
(***************************************************************************)
(* The sum over a finite set.                                              *)
(***************************************************************************)
LEMMA SumEmpty ==
    ASSUME NEW f
    PROVE  SumFunctionOnSet(f, {}) = 0
    BY SumStep, FS_EmptySet

LEMMA SumInt ==
    ASSUME NEW f, NEW S, IsFiniteSet(S), \A x \in S : f[x] \in Int
    PROVE  SumFunctionOnSet(f, S) \in Int
<1> DEFINE Bad == {s \in SUBSET S : SumFunctionOnSet(f, s) \notin Int}
<1>1. ASSUME Bad # {}
      PROVE  FALSE
  <2>1. PICK s \in Bad : IsFiniteSet(s) /\ \A t \in Bad : ~(t \subseteq s /\ t # s)
    <3>1. Bad \in SUBSET (SUBSET S)
      OBVIOUS
    <3> HIDE DEF Bad
    <3> QED BY <3>1, <1>1, MinimalSubset
  <2>2. s # {}
    BY SumEmpty
  <2>3. Chosen(s) \in s
    BY <2>2 DEF Chosen
  <2>4. SumFunctionOnSet(f, s \ {Chosen(s)}) \in Int
    BY <2>1, <2>3
  <2>5. f[Chosen(s)] \in Int
    BY <2>3
  <2>6. SumFunctionOnSet(f, s) = f[Chosen(s)] + SumFunctionOnSet(f, s \ {Chosen(s)})
    BY <2>1, <2>2, SumStep
  <2> QED BY <2>4, <2>5, <2>6
<1> QED BY <1>1

LEMMA SumRemove ==
    ASSUME NEW f, NEW S, IsFiniteSet(S), \A x \in S : f[x] \in Int, NEW x \in S
    PROVE  SumFunctionOnSet(f, S) = f[x] + SumFunctionOnSet(f, S \ {x})
<1> DEFINE Bad == {s \in SUBSET S :
              \E y \in s : SumFunctionOnSet(f, s) # f[y] + SumFunctionOnSet(f, s \ {y})}
<1>1. ASSUME Bad # {}
      PROVE  FALSE
  <2>1. PICK s \in Bad : IsFiniteSet(s) /\ \A t \in Bad : ~(t \subseteq s /\ t # s)
    <3>1. Bad \in SUBSET (SUBSET S)
      OBVIOUS
    <3> HIDE DEF Bad
    <3> QED BY <3>1, <1>1, MinimalSubset
  <2>2. PICK y \in s : SumFunctionOnSet(f, s) # f[y] + SumFunctionOnSet(f, s \ {y})
    OBVIOUS
  <2> DEFINE c == Chosen(s)
             both == (s \ {c}) \ {y}
  <2>3. c \in s
    BY DEF Chosen
  <2>4. SumFunctionOnSet(f, s) = f[c] + SumFunctionOnSet(f, s \ {c})
    BY <2>1, SumStep
  <2>5. y # c
    BY <2>2, <2>4
  <2>6. SumFunctionOnSet(f, s \ {c}) = f[y] + SumFunctionOnSet(f, both)
    <3>1. s \ {c} \notin Bad /\ s \ {c} \in SUBSET S
      BY <2>1, <2>3
    <3>2. y \in s \ {c}
      BY <2>5
    <3> HIDE DEF c
    <3> QED BY <3>1, <3>2
  <2>7. SumFunctionOnSet(f, s \ {y}) = f[c] + SumFunctionOnSet(f, both)
    <3>1. both = (s \ {y}) \ {c}
      OBVIOUS
    <3>2. s \ {y} \notin Bad
      BY <2>1
    <3> QED BY <3>1, <3>2, <2>3, <2>5
  <2>8. SumFunctionOnSet(f, both) \in Int /\ f[c] \in Int /\ f[y] \in Int
    <3>1. IsFiniteSet(both) /\ \A z \in both : f[z] \in Int
      BY <2>1, FS_Subset
    <3> QED BY <3>1, <2>3, SumInt
  <2> HIDE DEF c, both
  <2> QED BY <2>2, <2>4, <2>6, <2>7, <2>8
<1> QED BY <1>1

LEMMA SumAdd ==
    ASSUME NEW f, NEW S, IsFiniteSet(S), NEW x, x \notin S,
           \A y \in S \cup {x} : f[y] \in Int
    PROVE  SumFunctionOnSet(f, S \cup {x}) = f[x] + SumFunctionOnSet(f, S)
<1>1. IsFiniteSet(S \cup {x}) /\ (S \cup {x}) \ {x} = S
  BY FS_AddElement
<1> QED BY <1>1, SumRemove

LEMMA SumSame ==
    ASSUME NEW f, NEW g, NEW S, IsFiniteSet(S), \A x \in S : f[x] = g[x]
    PROVE  SumFunctionOnSet(f, S) = SumFunctionOnSet(g, S)
<1> DEFINE Bad == {s \in SUBSET S : SumFunctionOnSet(f, s) # SumFunctionOnSet(g, s)}
<1>1. ASSUME Bad # {}
      PROVE  FALSE
  <2>1. PICK s \in Bad : IsFiniteSet(s) /\ \A t \in Bad : ~(t \subseteq s /\ t # s)
    <3>1. Bad \in SUBSET (SUBSET S)
      OBVIOUS
    <3> HIDE DEF Bad
    <3> QED BY <3>1, <1>1, MinimalSubset
  <2>2. s # {}
    BY SumEmpty
  <2>3. Chosen(s) \in s
    BY <2>2 DEF Chosen
  <2>4. SumFunctionOnSet(f, s \ {Chosen(s)}) = SumFunctionOnSet(g, s \ {Chosen(s)})
    BY <2>1, <2>3
  <2> QED BY <2>1, <2>2, <2>3, <2>4, SumStep
<1> QED BY <1>1

\* The sum of the whole function.
LEMMA SumOfFunction ==
    ASSUME NEW f
    PROVE  SumFunction(f) = SumFunctionOnSet(f, DOMAIN f)
    BY DEF SumFunction, SumFunctionOnSet, FoldFunction

\* One summand changes.
LEMMA SumChange ==
    ASSUME NEW f, NEW g, NEW S, IsFiniteSet(S), NEW x \in S,
           \A y \in S : f[y] \in Int, \A y \in S : g[y] \in Int,
           \A y \in S : y # x => g[y] = f[y]
    PROVE  SumFunctionOnSet(g, S) = SumFunctionOnSet(f, S) + g[x] - f[x]
<1>1. IsFiniteSet(S \ {x}) /\ \A y \in S \ {x} : f[y] \in Int
  BY FS_Subset
<1>2. SumFunctionOnSet(f, S \ {x}) = SumFunctionOnSet(g, S \ {x})
  BY <1>1, SumSame
<1>3. SumFunctionOnSet(f, S \ {x}) \in Int
  BY <1>1, SumInt
<1>4. /\ SumFunctionOnSet(f, S) = f[x] + SumFunctionOnSet(f, S \ {x})
      /\ SumFunctionOnSet(g, S) = g[x] + SumFunctionOnSet(g, S \ {x})
  BY SumRemove
<1> QED BY <1>2, <1>3, <1>4

\* Two of them change.
LEMMA SumChangeTwo ==
    ASSUME NEW f, NEW g, NEW S, IsFiniteSet(S), NEW x \in S, NEW z \in S, x # z,
           \A y \in S : f[y] \in Int, \A y \in S : g[y] \in Int,
           \A y \in S : y # x /\ y # z => g[y] = f[y]
    PROVE  SumFunctionOnSet(g, S) = SumFunctionOnSet(f, S) + g[x] - f[x] + g[z] - f[z]
<1> DEFINE h == [y \in S |-> IF y = x THEN g[y] ELSE f[y]]
<1>0. \A y \in S : h[y] = IF y = x THEN g[y] ELSE f[y]
  OBVIOUS
<1> HIDE DEF h
<1>1. SumFunctionOnSet(h, S) = SumFunctionOnSet(f, S) + h[x] - f[x]
  <2>1. \A y \in S : h[y] \in Int
    BY <1>0
  <2>2. \A y \in S : y # x => h[y] = f[y]
    BY <1>0
  <2> QED BY <2>1, <2>2, SumChange
<1>2. SumFunctionOnSet(g, S) = SumFunctionOnSet(h, S) + g[z] - h[z]
  <2>1. \A y \in S : h[y] \in Int
    BY <1>0
  <2>2. \A y \in S : y # z => g[y] = h[y]
    BY <1>0
  <2> QED BY <2>1, <2>2, SumChange
<1>3. SumFunctionOnSet(f, S) \in Int
  BY SumInt
<1> QED BY <1>0, <1>1, <1>2, <1>3

LEMMA SumNat ==
    ASSUME NEW f, NEW S, IsFiniteSet(S), \A x \in S : f[x] \in Nat
    PROVE  /\ SumFunctionOnSet(f, S) \in Nat
           /\ \A x \in S : f[x] <= SumFunctionOnSet(f, S)
<1>1. ASSUME NEW T \in SUBSET S
      PROVE  SumFunctionOnSet(f, T) \in Nat
  <2> DEFINE Bad == {s \in SUBSET S : SumFunctionOnSet(f, s) \notin Nat}
  <2>1. ASSUME Bad # {}
        PROVE  FALSE
    <3>1. PICK s \in Bad : IsFiniteSet(s) /\ \A t \in Bad : ~(t \subseteq s /\ t # s)
      <4>1. Bad \in SUBSET (SUBSET S)
        OBVIOUS
      <4> HIDE DEF Bad
      <4> QED BY <4>1, <2>1, MinimalSubset
    <3>2. s # {}
      BY SumEmpty
    <3>3. Chosen(s) \in s
      BY <3>2 DEF Chosen
    <3>4. SumFunctionOnSet(f, s \ {Chosen(s)}) \in Nat
      BY <3>1, <3>3
    <3>5. f[Chosen(s)] \in Nat
      BY <3>3
    <3>6. SumFunctionOnSet(f, s) = f[Chosen(s)] + SumFunctionOnSet(f, s \ {Chosen(s)})
      BY <3>1, <3>2, SumStep
    <3> QED BY <3>4, <3>5, <3>6
  <2> QED BY <2>1
<1>2. ASSUME NEW x \in S
      PROVE  f[x] <= SumFunctionOnSet(f, S)
  <2>1. SumFunctionOnSet(f, S) = f[x] + SumFunctionOnSet(f, S \ {x})
    BY SumRemove
  <2>2. SumFunctionOnSet(f, S \ {x}) \in Nat /\ f[x] \in Nat
    BY <1>1
  <2> QED BY <2>1, <2>2
<1> QED BY <1>1, <1>2

LEMMA SumSubset ==
    ASSUME NEW f, NEW S, IsFiniteSet(S), \A x \in S : f[x] \in Nat, NEW T \in SUBSET S
    PROVE  SumFunctionOnSet(f, T) <= SumFunctionOnSet(f, S)
<1> DEFINE Bad == {s \in SUBSET S :
              T \subseteq s /\ ~(SumFunctionOnSet(f, T) <= SumFunctionOnSet(f, s))}
<1>1. ASSUME Bad # {}
      PROVE  FALSE
  <2>1. PICK s \in Bad : IsFiniteSet(s) /\ \A t \in Bad : ~(t \subseteq s /\ t # s)
    <3>1. Bad \in SUBSET (SUBSET S)
      OBVIOUS
    <3> HIDE DEF Bad
    <3> QED BY <3>1, <1>1, MinimalSubset
  <2>2. IsFiniteSet(T) /\ SumFunctionOnSet(f, T) \in Nat
    BY FS_Subset, SumNat
  <2>3. PICK x \in s : x \notin T
    <3>1. T \subseteq s /\ ~(SumFunctionOnSet(f, T) <= SumFunctionOnSet(f, s))
      OBVIOUS
    <3>2. s # T
      BY <2>2, <3>1
    <3> HIDE DEF Bad
    <3> QED BY <3>1, <3>2
  <2>4. SumFunctionOnSet(f, T) <= SumFunctionOnSet(f, s \ {x})
    BY <2>1, <2>3
  <2>5. SumFunctionOnSet(f, s) = f[x] + SumFunctionOnSet(f, s \ {x})
    BY <2>1, SumRemove
  <2>6. SumFunctionOnSet(f, s \ {x}) \in Nat /\ f[x] \in Nat
    BY <2>1, FS_Subset, SumNat
  <2>7. SumFunctionOnSet(f, T) <= SumFunctionOnSet(f, s)
    <3> HIDE DEF Bad
    <3> QED BY <2>2, <2>4, <2>5, <2>6
  <2> QED BY <2>7
<1>2. S \notin Bad
  BY <1>1
<1> QED BY <1>2

LEMMA SumZero ==
    ASSUME NEW f, NEW S, IsFiniteSet(S), \A x \in S : f[x] = 0
    PROVE  SumFunctionOnSet(f, S) = 0
<1> DEFINE Bad == {s \in SUBSET S : SumFunctionOnSet(f, s) # 0}
<1>1. ASSUME Bad # {}
      PROVE  FALSE
  <2>1. PICK s \in Bad : IsFiniteSet(s) /\ \A t \in Bad : ~(t \subseteq s /\ t # s)
    <3>1. Bad \in SUBSET (SUBSET S)
      OBVIOUS
    <3> HIDE DEF Bad
    <3> QED BY <3>1, <1>1, MinimalSubset
  <2>2. PICK x \in s : TRUE
    BY SumEmpty
  <2>3. SumFunctionOnSet(f, s \ {x}) = 0 /\ f[x] = 0
    BY <2>1
  <2>4. SumFunctionOnSet(f, s) = f[x] + SumFunctionOnSet(f, s \ {x})
    BY <2>1, SumRemove
  <2> QED BY <2>3, <2>4
<1> QED BY <1>1

\* Equal summands.
LEMMA SumConstant ==
    ASSUME NEW f, NEW S, IsFiniteSet(S), NEW c \in Int, \A x \in S : f[x] = c
    PROVE  SumFunctionOnSet(f, S) = c * Cardinality(S)
<1> DEFINE Bad == {s \in SUBSET S : SumFunctionOnSet(f, s) # c * Cardinality(s)}
<1>1. ASSUME Bad # {}
      PROVE  FALSE
  <2>1. PICK s \in Bad : IsFiniteSet(s) /\ \A r \in Bad : ~(r \subseteq s /\ r # s)
    <3>1. Bad \in SUBSET (SUBSET S)
      OBVIOUS
    <3> HIDE DEF Bad
    <3> QED BY <1>1, <3>1, MinimalSubset
  <2>2. s \in SUBSET S /\ SumFunctionOnSet(f, s) # c * Cardinality(s)
    BY <2>1
  <2> HIDE DEF Bad
  <2>3. PICK x \in s : TRUE
    <3>1. SumFunctionOnSet(f, {}) = 0 /\ Cardinality({}) = 0 /\ c * 0 = 0
      BY SumEmpty, FS_EmptySet
    <3> QED BY <2>2, <3>1
  <2> DEFINE rest == s \ {x}
  <2>4. SumFunctionOnSet(f, rest) = c * Cardinality(rest)
    BY <2>1, <2>2, <2>3 DEF Bad
  <2>5. SumFunctionOnSet(f, s) = f[x] + SumFunctionOnSet(f, rest)
    BY <2>1, <2>2, <2>3, SumRemove
  <2>6. Cardinality(rest) = Cardinality(s) - 1 /\ Cardinality(s) \in Int
    BY <2>1, <2>3, FS_RemoveElement, FS_CardinalityType
  <2>7. f[x] = c
    BY <2>2, <2>3
  <2> HIDE DEF rest
  <2>8. \A n \in Int : c + c * (n - 1) = c * n
    OBVIOUS
  <2> QED BY <2>2, <2>4, <2>5, <2>6, <2>7, <2>8
<1> QED BY <1>1

\* A sum over consecutive numbers is the last of its running totals.
LEMMA SumRuns ==
    ASSUME NEW f, NEW n \in Nat, NEW R, R[0] = 0,
           \A k \in 1..n : f[k] \in Int,
           \A k \in 1..n : R[k] = R[k - 1] + f[k]
    PROVE  SumFunctionOnSet(f, 1..n) = R[n]
<1> DEFINE Bad == {k \in 0..n : SumFunctionOnSet(f, 1..k) # R[k]}
<1>1. ASSUME Bad # {}
      PROVE  FALSE
  <2>1. PICK k \in Bad : \A j \in Bad : k <= j
    <3>1. Bad \subseteq Nat
      OBVIOUS
    <3> HIDE DEF Bad
    <3> QED BY <3>1, <1>1, LeastNat
  <2>2. k # 0
    <3>1. 1..0 = {}
      OBVIOUS
    <3> QED BY <3>1, SumEmpty
  <2>3. k \in 1..n /\ k - 1 \in 0..n /\ k - 1 \notin Bad
    BY <2>1, <2>2
  <2>4. SumFunctionOnSet(f, 1..(k - 1)) = R[k - 1]
    BY <2>3
  <2>5. /\ (1..(k - 1)) \cup {k} = 1..k
        /\ k \notin 1..(k - 1)
        /\ IsFiniteSet(1..(k - 1))
        /\ \A y \in 1..k : f[y] \in Int
    <3>1. k \in Nat /\ k - 1 \in Int /\ 1 <= k /\ k <= n
      BY <2>3
    <3>2. IsFiniteSet(1..(k - 1))
      BY <3>1, FS_Interval
    <3> QED BY <3>1, <3>2
  <2>6. SumFunctionOnSet(f, 1..k) = f[k] + SumFunctionOnSet(f, 1..(k - 1))
    <3> DEFINE below == 1..(k - 1)
    <3> HIDE DEF below
    <3>1. below \cup {k} = 1..k /\ k \notin below /\ IsFiniteSet(below)
      BY <2>5 DEF below
    <3> QED BY <3>1, <2>5, SumAdd DEF below
  <2>7. SumFunctionOnSet(f, 1..(k - 1)) \in Int
    BY <2>5, SumInt
  <2>8. f[k] \in Int /\ R[k] = R[k - 1] + f[k]
    BY <2>3
  <2> QED BY <2>4, <2>6, <2>7, <2>8
<1> QED BY <1>1

\* Sums of functions that add up to the same, place by place.
LEMMA SumTogether ==
    ASSUME NEW f, NEW g, NEW h, NEW k, NEW S, IsFiniteSet(S),
           \A x \in S : f[x] \in Int, \A x \in S : g[x] \in Int,
           \A x \in S : h[x] \in Int, \A x \in S : k[x] \in Int,
           \A x \in S : f[x] + g[x] = h[x] + k[x]
    PROVE  SumFunctionOnSet(f, S) + SumFunctionOnSet(g, S) =
               SumFunctionOnSet(h, S) + SumFunctionOnSet(k, S)
<1> DEFINE Both(s) == SumFunctionOnSet(f, s) + SumFunctionOnSet(g, s)
           Others(s) == SumFunctionOnSet(h, s) + SumFunctionOnSet(k, s)
           Bad == {s \in SUBSET S : Both(s) # Others(s)}
<1>1. ASSUME Bad # {}
      PROVE  FALSE
  <2>1. PICK s \in Bad : IsFiniteSet(s) /\ \A t \in Bad : ~(t \subseteq s /\ t # s)
    <3>1. Bad \in SUBSET (SUBSET S)
      OBVIOUS
    <3> HIDE DEF Bad
    <3> QED BY <3>1, <1>1, MinimalSubset
  <2>2. s # {}
    BY SumEmpty
  <2>3. Chosen(s) \in s
    BY <2>2 DEF Chosen
  <2> DEFINE x == Chosen(s)
             rest == s \ {x}
  <2>4. Both(rest) = Others(rest)
    BY <2>1, <2>3
  <2>5. /\ f[x] \in Int /\ g[x] \in Int /\ h[x] \in Int /\ k[x] \in Int
        /\ f[x] + g[x] = h[x] + k[x]
    BY <2>3
  <2>6. /\ SumFunctionOnSet(f, rest) \in Int /\ SumFunctionOnSet(g, rest) \in Int
        /\ SumFunctionOnSet(h, rest) \in Int /\ SumFunctionOnSet(k, rest) \in Int
    <3>1. IsFiniteSet(rest) /\ rest \subseteq S
      BY <2>1, FS_Subset
    <3> QED BY <3>1, SumInt
  <2>7. /\ SumFunctionOnSet(f, s) = f[x] + SumFunctionOnSet(f, rest)
        /\ SumFunctionOnSet(g, s) = g[x] + SumFunctionOnSet(g, rest)
        /\ SumFunctionOnSet(h, s) = h[x] + SumFunctionOnSet(h, rest)
        /\ SumFunctionOnSet(k, s) = k[x] + SumFunctionOnSet(k, rest)
    BY <2>1, <2>2, SumStep
  <2>8. Both(s) # Others(s)
    BY <2>1
  <2> HIDE DEF x, rest
  <2> QED BY <2>4, <2>5, <2>6, <2>7, <2>8
<1> QED BY <1>1

\* The smaller summands, the smaller sum.
LEMMA SumLess ==
    ASSUME NEW f, NEW g, NEW S, IsFiniteSet(S),
           \A x \in S : f[x] \in Int, \A x \in S : g[x] \in Int, \A x \in S : f[x] <= g[x]
    PROVE  SumFunctionOnSet(f, S) <= SumFunctionOnSet(g, S)
<1> DEFINE h == [x \in S |-> g[x] - f[x]]
           z == [x \in S |-> 0]
<1>1. \A x \in S : /\ h[x] \in Nat /\ h[x] \in Int /\ z[x] \in Int /\ z[x] = 0
                   /\ f[x] + h[x] = g[x] + z[x]
  OBVIOUS
<1> HIDE DEF h, z
<1>2. SumFunctionOnSet(f, S) + SumFunctionOnSet(h, S) = SumFunctionOnSet(g, S) + SumFunctionOnSet(z, S)
  BY <1>1, SumTogether
<1>3. SumFunctionOnSet(h, S) \in Nat /\ SumFunctionOnSet(z, S) = 0
  BY <1>1, SumNat, SumZero
<1>4. SumFunctionOnSet(f, S) \in Int /\ SumFunctionOnSet(g, S) \in Int
  BY SumInt
<1> QED BY <1>2, <1>3, <1>4

\* What is zero outside a part sums to the part.
LEMMA SumWithin ==
    ASSUME NEW f, NEW g, NEW S, IsFiniteSet(S), NEW T \in SUBSET S,
           \A x \in S : g[x] \in Int, \A x \in T : f[x] = g[x], \A x \in S \ T : g[x] = 0
    PROVE  SumFunctionOnSet(g, S) = SumFunctionOnSet(f, T)
<1> DEFINE Bad == {s \in SUBSET S : T \subseteq s /\ SumFunctionOnSet(g, s) # SumFunctionOnSet(g, T)}
<1>1. ASSUME Bad # {}
      PROVE  FALSE
  <2>1. PICK s \in Bad : IsFiniteSet(s) /\ \A t \in Bad : ~(t \subseteq s /\ t # s)
    <3>1. Bad \in SUBSET (SUBSET S)
      OBVIOUS
    <3> HIDE DEF Bad
    <3> QED BY <3>1, <1>1, MinimalSubset
  <2>2. PICK x \in s : x \notin T
    <3>1. T \subseteq s /\ SumFunctionOnSet(g, s) # SumFunctionOnSet(g, T)
      OBVIOUS
    <3>2. s # T
      BY <3>1
    <3> HIDE DEF Bad
    <3> QED BY <3>1, <3>2
  <2>3. SumFunctionOnSet(g, s \ {x}) = SumFunctionOnSet(g, T)
    BY <2>1, <2>2
  <2>4. SumFunctionOnSet(g, s) = g[x] + SumFunctionOnSet(g, s \ {x})
    BY <2>1, SumRemove
  <2>5. SumFunctionOnSet(g, s \ {x}) \in Int /\ g[x] = 0
    BY <2>1, <2>2, FS_Subset, SumInt
  <2>6. SumFunctionOnSet(g, s) = SumFunctionOnSet(g, T)
    <3> HIDE DEF Bad
    <3> QED BY <2>3, <2>4, <2>5
  <2> QED BY <2>6
<1>2. SumFunctionOnSet(g, S) = SumFunctionOnSet(g, T)
  BY <1>1
<1>3. SumFunctionOnSet(f, T) = SumFunctionOnSet(g, T)
  <2>1. IsFiniteSet(T)
    BY FS_Subset
  <2> QED BY <2>1, SumSame
<1> QED BY <1>2, <1>3

\* One summand.
LEMMA SumSingle ==
    ASSUME NEW f, NEW S, IsFiniteSet(S), NEW x \in S, f[x] \in Int,
           \A y \in S : y # x => f[y] = 0
    PROVE  SumFunctionOnSet(f, S) = f[x]
<1>1. SumFunctionOnSet(f, S) = f[x] + SumFunctionOnSet(f, S \ {x})
  BY SumRemove
<1>2. SumFunctionOnSet(f, S \ {x}) = 0
  <2>1. IsFiniteSet(S \ {x})
    BY FS_Subset
  <2> QED BY <2>1, SumZero
<1> QED BY <1>1, <1>2

\* A sum counted over other names.
LEMMA SumRenamed ==
    ASSUME NEW f, NEW S, IsFiniteSet(S), \A x \in S : f[x] \in Int,
           NEW g, NEW T, NEW h \in Bijection(S, T), \A x \in S : g[h[x]] = f[x]
    PROVE  SumFunctionOnSet(g, T) = SumFunctionOnSet(f, S)
<1> DEFINE To(s) == {h[x] : x \in s}
           Bad == {s \in SUBSET S : SumFunctionOnSet(g, To(s)) # SumFunctionOnSet(f, s)}
<1>0. /\ h \in [S -> T] /\ \A x, y \in S : h[x] = h[y] => x = y
      /\ \A y \in T : \E x \in S : h[x] = y
  BY DEF Bijection, Injection, IsInjective, Surjection
<1>1. ASSUME Bad # {}
      PROVE  FALSE
  <2>1. PICK s \in Bad : IsFiniteSet(s) /\ \A t \in Bad : ~(t \subseteq s /\ t # s)
    <3>1. Bad \in SUBSET (SUBSET S)
      OBVIOUS
    <3> HIDE DEF Bad
    <3> QED BY <3>1, <1>1, MinimalSubset
  <2>2. s # {}
    <3>1. SUFFICES ASSUME s = {} PROVE FALSE
      OBVIOUS
    <3>2. To(s) = {}
      BY <3>1
    <3> QED BY <2>1, <3>1, <3>2, SumEmpty
  <2>3. PICK x \in s : TRUE
    BY <2>2
  <2> DEFINE t == s \ {x}
  <2>4. t \in SUBSET S /\ t \notin Bad /\ IsFiniteSet(t) /\ t \subseteq s /\ t # s
    BY <2>1, <2>3, FS_RemoveElement
  <2>5. SumFunctionOnSet(g, To(t)) = SumFunctionOnSet(f, t)
    BY <2>4
  <2>6. To(s) = To(t) \cup {h[x]} /\ h[x] \notin To(t)
    BY <2>3, <1>0
  <2>7. IsFiniteSet(To(t))
    <3> DEFINE k == [y \in t |-> h[y]]
    <3>1. k \in Surjection(t, To(t))
      BY DEF Surjection
    <3> HIDE DEF k
    <3> QED BY <3>1, <2>4, FS_Surjection
  <2>8. \A y \in To(t) \cup {h[x]} : g[y] \in Int
    BY <2>3, <2>4
  <2> HIDE DEF To, t
  <2>9. SumFunctionOnSet(g, To(s)) = g[h[x]] + SumFunctionOnSet(g, To(t))
    BY <2>6, <2>7, <2>8, SumAdd
  <2>10. SumFunctionOnSet(f, s) = f[x] + SumFunctionOnSet(f, t)
    BY <2>1, <2>3, SumRemove DEF t
  <2> QED BY <2>1, <2>3, <2>5, <2>9, <2>10
<1>2. SumFunctionOnSet(g, To(S)) = SumFunctionOnSet(f, S)
  BY <1>1
<1>3. To(S) = T
  BY <1>0
<1> HIDE DEF To
<1> QED BY <1>2, <1>3

\* The sum over two sets that share nothing.
LEMMA SumApart ==
    ASSUME NEW f, NEW S, IsFiniteSet(S), NEW T, IsFiniteSet(T), S \cap T = {},
           \A x \in S \cup T : f[x] \in Int
    PROVE  SumFunctionOnSet(f, S \cup T) = SumFunctionOnSet(f, S) + SumFunctionOnSet(f, T)
<1> DEFINE U == S \cup T
           inS == [x \in U |-> IF x \in S THEN f[x] ELSE 0]
           inT == [x \in U |-> IF x \in T THEN f[x] ELSE 0]
           none == [x \in U |-> 0]
<1>1. IsFiniteSet(U) /\ S \in SUBSET U /\ T \in SUBSET U
  BY FS_Union
<1>2. /\ \A x \in U : inS[x] \in Int /\ inT[x] \in Int /\ none[x] \in Int
      /\ \A x \in U : inS[x] + inT[x] = f[x] + none[x]
  OBVIOUS
<1>3. /\ \A x \in S : f[x] = inS[x]
      /\ \A x \in U \ S : inS[x] = 0
      /\ \A x \in T : f[x] = inT[x]
      /\ \A x \in U \ T : inT[x] = 0
      /\ \A x \in U : none[x] = 0
  OBVIOUS
<1>4. \A x \in U : f[x] \in Int
  OBVIOUS
<1> HIDE DEF inS, inT, none, U
<1>5. \A x \in U : inS[x] \in Int
  BY <1>2
<1>6. \A x \in U : inT[x] \in Int
  BY <1>2
<1>7. \A x \in U : none[x] \in Int
  BY <1>2
<1>8. SumFunctionOnSet(inS, U) + SumFunctionOnSet(inT, U) =
          SumFunctionOnSet(f, U) + SumFunctionOnSet(none, U)
  BY <1>1, <1>2, <1>4, <1>5, <1>6, <1>7, SumTogether
<1>9. SumFunctionOnSet(inS, U) = SumFunctionOnSet(f, S)
  BY <1>1, <1>3, <1>5, SumWithin
<1>10. SumFunctionOnSet(inT, U) = SumFunctionOnSet(f, T)
  BY <1>1, <1>3, <1>6, SumWithin
<1>11. SumFunctionOnSet(none, U) = 0
  BY <1>1, <1>3, SumZero
<1>12. SumFunctionOnSet(f, U) \in Int
  BY <1>1, <1>4, SumInt
<1> QED BY <1>8, <1>9, <1>10, <1>11, <1>12 DEF U
----------------------------------------------------------------------------
(***************************************************************************)
(* Places in their order.                                                  *)
(***************************************************************************)
LEMMA InstrumentFacts ==
    /\ PriceMax \in Nat \ {0} /\ Prices \subseteq Nat /\ Payout \in Nat
    /\ \A action \in Actions : Opposite(action) \in Actions /\ Opposite(action) # action
    /\ \A side \in Actions, price \in Prices : Rank(side, price) \in Prices
    /\ \A side \in Actions, p, q \in Prices : Rank(side, p) = Rank(side, q) => p = q
    /\ \A action \in Actions : Boundary(action) \in Prices
BY PriceMaxAssumption DEF Prices, PriceMin, Actions, Opposite, Rank, Boundary, Payout

LEMMA BeforeFacts ==
    ASSUME NEW side \in Actions
    PROVE  /\ \A a \in Prices \X Nat : ~Before(side, a, a)
           /\ \A a, b \in Prices \X Nat : a = b \/ Before(side, a, b) \/ Before(side, b, a)
           /\ \A a, b, c \in Prices \X Nat :
                 Before(side, a, b) /\ Before(side, b, c) => Before(side, a, c)
<1>1. \A p \in Prices : Rank(side, p) \in Nat
  BY InstrumentFacts
<1>2. \A a \in Prices \X Nat : a[1] \in Prices /\ a[2] \in Nat /\ a = <<a[1], a[2]>>
  OBVIOUS
<1>3. \A a \in Prices \X Nat : ~Before(side, a, a)
  BY <1>1, <1>2 DEF Before
<1>4. ASSUME NEW a \in Prices \X Nat, NEW b \in Prices \X Nat
      PROVE  a = b \/ Before(side, a, b) \/ Before(side, b, a)
  <2>1. Rank(side, a[1]) = Rank(side, b[1]) => a[1] = b[1]
    BY <1>2, InstrumentFacts
  <2>2. a[1] = b[1] /\ a[2] = b[2] => a = b
    BY <1>2
  <2> QED BY <1>1, <1>2, <2>1, <2>2 DEF Before
<1>5. ASSUME NEW a \in Prices \X Nat, NEW b \in Prices \X Nat, NEW c \in Prices \X Nat,
             Before(side, a, b), Before(side, b, c)
      PROVE  Before(side, a, c)
  BY <1>1, <1>2, <1>5 DEF Before
<1> QED BY <1>3, <1>4, <1>5

LEMMA LastPlace ==
    ASSUME NEW side \in Actions, NEW S \in SUBSET (Prices \X Nat), IsFiniteSet(S), S # {}
    PROVE  \E last \in S : \A a \in S : a # last => Before(side, a, last)
<1> DEFINE Bad == {s \in SUBSET S : s # {} /\ ~\E last \in s : \A a \in s : a # last => Before(side, a, last)}
<1>1. ASSUME Bad # {}
      PROVE  FALSE
  <2>1. PICK s \in Bad : IsFiniteSet(s) /\ \A t \in Bad : ~(t \subseteq s /\ t # s)
    <3>1. Bad \in SUBSET (SUBSET S)
      OBVIOUS
    <3> HIDE DEF Bad
    <3> QED BY <3>1, <1>1, MinimalSubset
  <2>2. PICK x \in s : TRUE
    OBVIOUS
  <2>3. s \ {x} # {} /\ s \ {x} \notin Bad /\ s \ {x} \in SUBSET S
    BY <2>1
  <2>4. PICK m \in s \ {x} : \A a \in s \ {x} : a # m => Before(side, a, m)
    BY <2>3
  <2>5. Before(side, m, x) \/ Before(side, x, m)
    BY BeforeFacts
  <2>6. CASE Before(side, m, x)
    BY <2>4, <2>6, BeforeFacts
  <2>7. CASE Before(side, x, m)
    BY <2>4, <2>7
  <2> QED BY <2>5, <2>6, <2>7
<1> QED BY <1>1

Ordered(side, queue) ==
    \A i, j \in DOMAIN queue : i < j => Before(side, queue[i], queue[j])

LEMMA OrderExists ==
    ASSUME NEW side \in Actions, NEW S \in SUBSET (Prices \X Nat), IsFiniteSet(S)
    PROVE  \E queue \in [1..Cardinality(S) -> S] : Ordered(side, queue)
<1> DEFINE Bad == {s \in SUBSET S : ~\E queue \in [1..Cardinality(s) -> s] : Ordered(side, queue)}
<1>1. ASSUME Bad # {}
      PROVE  FALSE
  <2>1. PICK s \in Bad : IsFiniteSet(s) /\ \A t \in Bad : ~(t \subseteq s /\ t # s)
    <3>1. Bad \in SUBSET (SUBSET S)
      OBVIOUS
    <3> HIDE DEF Bad
    <3> QED BY <3>1, <1>1, MinimalSubset
  <2>2. s # {}
    <3>1. SUFFICES ASSUME s = {} PROVE FALSE
      OBVIOUS
    <3>2. 1..Cardinality(s) = {}
      BY <3>1, FS_EmptySet
    <3>3. [i \in {} |-> i] \in [1..Cardinality(s) -> s] /\ Ordered(side, [i \in {} |-> i])
      BY <3>1, <3>2 DEF Ordered
    <3> QED BY <3>3
  <2>3. PICK last \in s : \A a \in s : a # last => Before(side, a, last)
    BY <2>1, <2>2, LastPlace
  <2> DEFINE n == Cardinality(s)
             rest == s \ {last}
  <2>4. n \in Nat \ {0} /\ Cardinality(rest) = n - 1 /\ IsFiniteSet(rest)
    BY <2>1, <2>2, FS_RemoveElement, FS_CardinalityType, FS_EmptySet
  <2>5. PICK queue \in [1..(n - 1) -> rest] : Ordered(side, queue)
    BY <2>1, <2>3, <2>4
  <2> DEFINE longer == [i \in 1..n |-> IF i = n THEN last ELSE queue[i]]
  <2>6. longer \in [1..n -> s]
    BY <2>4
  <2>7. Ordered(side, longer)
    <3> SUFFICES ASSUME NEW i \in 1..n, NEW j \in 1..n, i < j
                 PROVE  Before(side, longer[i], longer[j])
      BY DEF Ordered
    <3>1. i \in 1..(n - 1) /\ queue[i] \in rest
      BY <2>4
    <3>2. CASE j = n
      BY <2>3, <2>4, <3>1, <3>2
    <3>3. CASE j # n
      BY <2>4, <2>5, <3>1, <3>3 DEF Ordered
    <3> QED BY <3>2, <3>3
  <2> QED BY <2>6, <2>7
<1> QED BY <1>1

\* InOrder lists the places of a finite set, each once, in their order.
LEMMA InOrderFacts ==
    ASSUME NEW side \in Actions, NEW S \in SUBSET (Prices \X Nat), IsFiniteSet(S)
    PROVE  /\ InOrder(side, S) \in [1..Cardinality(S) -> S]
           /\ Cardinality(S) \in Nat
           /\ Ordered(side, InOrder(side, S))
           /\ \A i, j \in 1..Cardinality(S) : InOrder(side, S)[i] = InOrder(side, S)[j] => i = j
           /\ \A a \in S : \E i \in 1..Cardinality(S) : InOrder(side, S)[i] = a
<1> DEFINE n == Cardinality(S)
           queue == InOrder(side, S)
<1>1. n \in Nat
  BY FS_CardinalityType
<1>2. queue \in [1..n -> S] /\ Ordered(side, queue)
  BY OrderExists DEF InOrder, Ordered
<1>3. ASSUME NEW i \in 1..n, NEW j \in 1..n, queue[i] = queue[j]
      PROVE  i = j
  <2>1. queue[i] \in Prices \X Nat /\ ~Before(side, queue[i], queue[i])
    BY <1>2, BeforeFacts
  <2>2. ~(i < j) /\ ~(j < i)
    BY <1>2, <1>3, <2>1 DEF Ordered
  <2> QED BY <1>1, <2>2
<1>4. queue \in Injection(1..n, S)
  <2> HIDE DEF n, queue
  <2> QED BY <1>2, <1>3 DEF Injection, IsInjective
<1>5. Cardinality(1..n) = n
  BY <1>1, FS_Interval
<1>6. queue \in Surjection(1..n, S)
  BY <1>4, <1>5, FS_Injection
<1>7. \A a \in S : \E i \in 1..n : queue[i] = a
  BY <1>6 DEF Surjection
<1> QED BY <1>1, <1>2, <1>3, <1>7
----------------------------------------------------------------------------
(***************************************************************************)
(* The places a taker meets.                                               *)
(***************************************************************************)
LEMMA EntryAt ==
    ASSUME NEW ids, NEW owners, NEW book \in Books(ids, owners), NEW side \in Actions,
           NEW price \in Prices, NEW k \in DOMAIN book[side][price]
    PROVE  /\ k \in Nat \ {0} /\ k <= Len(book[side][price])
           /\ book[side][price][k] \in RestingEntries(ids, owners)
<1>1. book[side][price] \in Seq(RestingEntries(ids, owners))
  BY DEF Books
<1> QED BY <1>1, ElementOfSeq

LEMMA PlaceFacts ==
    ASSUME NEW ids, NEW owners, NEW book \in Books(ids, owners), NEW side \in Actions,
           NEW prices \in SUBSET Prices
    PROVE  /\ IsFiniteSet(Places(book, side, prices))
           /\ Places(book, side, prices) \subseteq Prices \X Nat
           /\ \A place \in Places(book, side, prices) :
                 /\ place[1] \in prices /\ place[2] \in DOMAIN book[side][place[1]]
                 /\ OrderAt(book, side, place) \in RestingEntries(ids, owners)
<1> DEFINE At(price) == {price} \X DOMAIN book[side][price]
<1>1. IsFiniteSet({At(price) : price \in prices})
  <2>1. IsFiniteSet(Prices)
    BY PriceMaxAssumption, FS_Interval DEF Prices, PriceMin
  <2>2. IsFiniteSet(prices)
    BY <2>1, FS_Subset
  <2> DEFINE T == {At(price) : price \in prices}
             f == [price \in prices |-> At(price)]
  <2>3. f \in Surjection(prices, T)
    BY DEF Surjection
  <2> HIDE DEF T, f
  <2>4. IsFiniteSet(T)
    BY <2>2, <2>3, FS_Surjection
  <2> QED BY <2>4 DEF T
<1>2. ASSUME NEW price \in prices PROVE IsFiniteSet(At(price))
  <2>1. book[side][price] \in Seq(RestingEntries(ids, owners))
    BY DEF Books
  <2>2. DOMAIN book[side][price] = 1..Len(book[side][price]) /\ Len(book[side][price]) \in Nat
    BY <2>1
  <2>3. IsFiniteSet(DOMAIN book[side][price])
    BY <2>2, FS_Interval
  <2> QED BY <2>3, FS_Singleton, FS_Product
<1>3. IsFiniteSet(Places(book, side, prices))
  <2>1. \A T \in {At(price) : price \in prices} : IsFiniteSet(T)
    BY <1>2
  <2> QED BY <1>1, <2>1, FS_UNION DEF Places
<1>4. ASSUME NEW place \in Places(book, side, prices)
      PROVE  /\ place[1] \in prices /\ place[2] \in DOMAIN book[side][place[1]]
             /\ place \in Prices \X Nat
             /\ OrderAt(book, side, place) \in RestingEntries(ids, owners)
  <2>1. PICK price \in prices : place \in At(price)
    BY DEF Places
  <2>2. place[1] = price /\ place[2] \in DOMAIN book[side][price] /\ place = <<place[1], place[2]>>
    BY <2>1
  <2>3. price \in Prices
    OBVIOUS
  <2> QED BY <2>2, <2>3, EntryAt DEF OrderAt
<1> QED BY <1>3, <1>4

LEMMA OfferedNat ==
    ASSUME NEW ids, NEW owners, NEW book \in Books(ids, owners), NEW side \in Actions,
           NEW S \in SUBSET Places(book, side, Prices)
    PROVE  /\ Offered(book, side, S) \in Nat
           /\ Offered(book, side, S) =
                 SumFunctionOnSet([place \in S |-> OrderAt(book, side, place).remaining], S)
<1> DEFINE f == [place \in S |-> OrderAt(book, side, place).remaining]
<1>1. IsFiniteSet(S)
  BY PlaceFacts, FS_Subset
<1>2. \A place \in S : f[place] \in Nat
  BY PlaceFacts DEF RestingEntries
<1>3. Offered(book, side, S) = SumFunctionOnSet(f, S)
  BY SumOfFunction DEF Offered
<1> HIDE DEF f
<1> QED BY <1>1, <1>2, <1>3, SumNat DEF f

\* A taker on a book it can be given to.
LEMMA ReachedFacts ==
    ASSUME NEW ids, NEW owners, NEW book \in Books(ids, owners),
           NEW order \in EngineOrders(ids, owners)
    PROVE  /\ Opposite(order.action) \in Actions
           /\ LimitPrice(order) \in Prices
           /\ IsFiniteSet(Reached(book, order))
           /\ Reached(book, order) \subseteq Places(book, Opposite(order.action), Prices)
           /\ Reached(book, order) \subseteq Prices \X Nat
           /\ \A place \in Reached(book, order) :
                 /\ place[1] \in Prices
                 /\ Acceptable(Opposite(order.action), LimitPrice(order), place[1])
                 /\ place[2] \in DOMAIN book[Opposite(order.action)][place[1]]
                 /\ OrderAt(book, Opposite(order.action), place) \in RestingEntries(ids, owners)
<1> DEFINE side == Opposite(order.action)
           prices == {price \in Prices : Acceptable(side, LimitPrice(order), price)}
<1>1. order.action \in Actions /\ side \in Actions
  BY InstrumentFacts DEF EngineOrders
<1>2. LimitPrice(order) \in Prices
  BY <1>1, InstrumentFacts DEF EngineOrders, LimitPrice
<1>3. Reached(book, order) = Places(book, side, prices)
  BY DEF Reached
<1>4. prices \in SUBSET Prices
  OBVIOUS
<1>5. Places(book, side, prices) \subseteq Places(book, side, Prices)
  BY <1>4 DEF Places
<1> HIDE DEF side
<1>6. \A place \in Places(book, side, prices) :
        /\ place[1] \in prices /\ place[2] \in DOMAIN book[side][place[1]]
        /\ OrderAt(book, side, place) \in RestingEntries(ids, owners)
  BY <1>1, <1>4, PlaceFacts
<1>7. IsFiniteSet(Places(book, side, prices)) /\ Places(book, side, prices) \subseteq Prices \X Nat
  BY <1>1, <1>4, PlaceFacts
<1> QED BY <1>1, <1>2, <1>3, <1>5, <1>6, <1>7 DEF side

LEMMA TakenFacts ==
    ASSUME NEW ids, NEW owners, NEW book \in Books(ids, owners),
           NEW order \in EngineOrders(ids, owners)
    PROVE  /\ \A place \in Reached(book, order) : Ahead(book, order, place) \in Nat
           /\ Touched(book, order) \subseteq Reached(book, order)
           /\ \A place \in Touched(book, order) :
                 /\ Taken(book, order, place) \in Nat \ {0}
                 /\ Taken(book, order, place) <= OrderAt(book, Opposite(order.action), place).remaining
           /\ \A place \in Places(book, Opposite(order.action), Prices) :
                 /\ Left(book, order, place) \in Nat
                 /\ Left(book, order, place) <= OrderAt(book, Opposite(order.action), place).remaining
<1> DEFINE side == Opposite(order.action)
<1>1. side \in Actions /\ order.quantity \in Nat
  BY ReachedFacts DEF EngineOrders
<1>2. ASSUME NEW place \in Reached(book, order) PROVE Ahead(book, order, place) \in Nat
  <2> DEFINE others == {other \in Reached(book, order) : Before(side, other, place) /\ ~Own(book, order, other)}
  <2>1. others \in SUBSET Places(book, side, Prices)
    BY ReachedFacts
  <2>2. Ahead(book, order, place) = Offered(book, side, others)
    BY DEF Ahead
  <2> HIDE DEF others, side
  <2>3. Offered(book, side, others) \in Nat
    BY <1>1, <2>1, OfferedNat
  <2> QED BY <2>2, <2>3
<1>3. Touched(book, order) \subseteq Reached(book, order)
  BY DEF Touched
<1>4. ASSUME NEW place \in Touched(book, order)
      PROVE  /\ Taken(book, order, place) \in Nat \ {0}
             /\ Taken(book, order, place) <= OrderAt(book, side, place).remaining
  <2>1. place \in Reached(book, order) /\ Ahead(book, order, place) < order.quantity
    BY DEF Touched
  <2>2. OrderAt(book, side, place).remaining \in Nat \ {0}
    BY <2>1, ReachedFacts DEF RestingEntries
  <2>3. Ahead(book, order, place) \in Nat
    BY <1>2, <2>1
  <2> QED BY <1>1, <2>1, <2>2, <2>3 DEF Taken
<1>5. ASSUME NEW place \in Places(book, side, Prices)
      PROVE  /\ Left(book, order, place) \in Nat
             /\ Left(book, order, place) <= OrderAt(book, side, place).remaining
  <2>1. OrderAt(book, side, place).remaining \in Nat \ {0}
    BY <1>1, PlaceFacts DEF RestingEntries
  <2> QED BY <1>4, <2>1 DEF Left
<1> QED BY <1>2, <1>3, <1>4, <1>5
----------------------------------------------------------------------------
(***************************************************************************)
(* What a match leaves, and what it trades.                                *)
(***************************************************************************)
\* An entry is what is left of another.
Remains(new, old) ==
    /\ new.id = old.id /\ new.owner = old.owner /\ new.price = old.price
    /\ new.remaining <= old.remaining

LEMMA QueueLeftFacts ==
    ASSUME NEW ids, NEW owners, NEW book \in Books(ids, owners),
           NEW order \in EngineOrders(ids, owners), NEW price \in Prices
    PROVE  LET side == Opposite(order.action)
               queue == QueueLeft(book, order, price)
           IN  /\ queue \in Seq(RestingEntries(ids, owners))
               /\ \A k \in DOMAIN queue :
                     \E j \in DOMAIN book[side][price] : Remains(queue[k], book[side][price][j])
<1> DEFINE side == Opposite(order.action)
           places == {place \in Places(book, side, {price}) : Left(book, order, place) > 0}
           kept == InOrder(side, places)
           n == Cardinality(places)
           queue == QueueLeft(book, order, price)
<1>1. side \in Actions
  BY ReachedFacts
<1>2. /\ IsFiniteSet(Places(book, side, {price}))
      /\ Places(book, side, {price}) \subseteq Prices \X Nat
      /\ \A place \in Places(book, side, {price}) :
            /\ place[1] = price /\ place[2] \in DOMAIN book[side][place[1]]
            /\ OrderAt(book, side, place) \in RestingEntries(ids, owners)
  <2>1. {price} \in SUBSET Prices
    OBVIOUS
  <2> HIDE DEF side
  <2> QED BY <1>1, <2>1, PlaceFacts
<1>3. IsFiniteSet(places) /\ places \in SUBSET (Prices \X Nat)
  BY <1>2, FS_Subset
<1>4. kept \in [1..n -> places] /\ n \in Nat
  <2> HIDE DEF side, places
  <2> QED BY <1>1, <1>3, InOrderFacts
<1>5. ASSUME NEW k \in 1..n
      PROVE  /\ kept[k][1] = price /\ kept[k][2] \in DOMAIN book[side][price]
             /\ OrderAt(book, side, kept[k]) = book[side][price][kept[k][2]]
             /\ OrderAt(book, side, kept[k]) \in RestingEntries(ids, owners)
             /\ Left(book, order, kept[k]) \in Nat \ {0}
             /\ Left(book, order, kept[k]) <= OrderAt(book, side, kept[k]).remaining
  <2>1. kept[k] \in places
    BY <1>4
  <2>2. kept[k] \in Places(book, side, {price}) /\ Left(book, order, kept[k]) > 0
    BY <2>1
  <2>3. kept[k] \in Places(book, side, Prices)
    BY <2>2 DEF Places
  <2>4. Left(book, order, kept[k]) \in Nat
        /\ Left(book, order, kept[k]) <= OrderAt(book, side, kept[k]).remaining
    <3> HIDE DEF kept
    <3> QED BY <2>3, TakenFacts
  <2> HIDE DEF kept, places, side
  <2>5. /\ kept[k][1] = price /\ kept[k][2] \in DOMAIN book[side][kept[k][1]]
        /\ OrderAt(book, side, kept[k]) \in RestingEntries(ids, owners)
    BY <1>2, <2>2
  <2>6. OrderAt(book, side, kept[k]) = book[side][price][kept[k][2]]
    BY <2>5 DEF OrderAt
  <2>7. Left(book, order, kept[k]) \in Nat \ {0}
    BY <2>2, <2>4
  <2> QED BY <2>4, <2>5, <2>6, <2>7
<1>6. /\ DOMAIN queue = 1..n
      /\ \A k \in 1..n :
            queue[k] = [id |-> OrderAt(book, side, kept[k]).id,
                        owner |-> OrderAt(book, side, kept[k]).owner,
                        price |-> OrderAt(book, side, kept[k]).price,
                        remaining |-> Left(book, order, kept[k])]
  <2>1. DOMAIN kept = 1..n
    BY <1>4
  <2> QED BY <2>1 DEF QueueLeft
<1> HIDE DEF kept, places, side, queue, n
<1>7. \A k \in 1..n : queue[k] \in RestingEntries(ids, owners)
  BY <1>5, <1>6 DEF RestingEntries
<1>8. queue = [k \in 1..n |-> queue[k]]
  BY <1>6 DEF queue, QueueLeft
<1>9. queue \in Seq(RestingEntries(ids, owners))
  BY <1>4, <1>7, <1>8
<1>10. \A k \in DOMAIN queue :
         \E j \in DOMAIN book[side][price] : Remains(queue[k], book[side][price][j])
  BY <1>5, <1>6 DEF Remains
<1> QED BY <1>9, <1>10 DEF queue, side

\* Every fill is of an order of somebody else at a price its taker accepts.
LEMMA FillFacts ==
    ASSUME NEW ids, NEW owners, NEW book \in Books(ids, owners),
           NEW order \in EngineOrders(ids, owners)
    PROVE  LET side == Opposite(order.action)
           IN  /\ Fills(book, order) \in Seq(EngineFills(ids, owners))
               /\ \A k \in DOMAIN Fills(book, order) :
                     /\ Acceptable(side, LimitPrice(order), Fills(book, order)[k].price)
                     /\ \E j \in DOMAIN book[side][Fills(book, order)[k].price] :
                           LET maker == book[side][Fills(book, order)[k].price][j]
                           IN  /\ maker.id = Fills(book, order)[k].maker
                               /\ maker.owner = Fills(book, order)[k].owner
                               /\ maker.owner # order.owner
                               /\ Fills(book, order)[k].quantity <= maker.remaining
<1> DEFINE side == Opposite(order.action)
           places == {place \in Touched(book, order) : ~Own(book, order, place)}
           traded == InOrder(side, places)
           n == Cardinality(places)
           fills == Fills(book, order)
<1>1. side \in Actions
  BY ReachedFacts
<1>2. places \subseteq Reached(book, order) /\ places \subseteq Touched(book, order)
  BY TakenFacts
<1>3. IsFiniteSet(places) /\ places \in SUBSET (Prices \X Nat)
  BY <1>2, ReachedFacts, FS_Subset
<1>4. traded \in [1..n -> places] /\ n \in Nat
  <2> HIDE DEF side, places
  <2> QED BY <1>1, <1>3, InOrderFacts
<1>5. ASSUME NEW k \in 1..n
      PROVE  /\ traded[k][1] \in Prices /\ traded[k][2] \in DOMAIN book[side][traded[k][1]]
             /\ Acceptable(side, LimitPrice(order), traded[k][1])
             /\ OrderAt(book, side, traded[k]) = book[side][traded[k][1]][traded[k][2]]
             /\ OrderAt(book, side, traded[k]) \in RestingEntries(ids, owners)
             /\ OrderAt(book, side, traded[k]).owner # order.owner
             /\ Taken(book, order, traded[k]) \in Nat \ {0}
             /\ Taken(book, order, traded[k]) <= OrderAt(book, side, traded[k]).remaining
  <2>1. traded[k] \in places
    BY <1>4
  <2>2. traded[k] \in Touched(book, order) /\ traded[k] \in Reached(book, order)
        /\ ~Own(book, order, traded[k])
    BY <1>2, <2>1
  <2> HIDE DEF traded, places
  <2>3. Taken(book, order, traded[k]) \in Nat \ {0}
        /\ Taken(book, order, traded[k]) <= OrderAt(book, side, traded[k]).remaining
    BY <2>2, TakenFacts
  <2>4. OrderAt(book, side, traded[k]).owner # order.owner
    BY <2>2 DEF Own
  <2>5. /\ traded[k][1] \in Prices /\ traded[k][2] \in DOMAIN book[side][traded[k][1]]
        /\ Acceptable(side, LimitPrice(order), traded[k][1])
        /\ OrderAt(book, side, traded[k]) \in RestingEntries(ids, owners)
    BY <2>2, ReachedFacts
  <2> QED BY <2>3, <2>4, <2>5 DEF OrderAt
<1>6. /\ DOMAIN fills = 1..n
      /\ \A k \in 1..n :
            fills[k] = [maker |-> OrderAt(book, side, traded[k]).id,
                        owner |-> OrderAt(book, side, traded[k]).owner,
                        price |-> traded[k][1],
                        quantity |-> Taken(book, order, traded[k])]
  <2>1. DOMAIN traded = 1..n
    BY <1>4
  <2> QED BY <2>1 DEF Fills
<1>7. fills = [k \in 1..n |-> fills[k]]
  BY <1>6 DEF Fills
<1> HIDE DEF traded, places, side, fills, n
<1>8. \A k \in 1..n : fills[k] \in EngineFills(ids, owners)
  BY <1>5, <1>6 DEF RestingEntries, EngineFills
<1>9. fills \in Seq(EngineFills(ids, owners))
  BY <1>4, <1>7, <1>8
<1>10. ASSUME NEW k \in DOMAIN fills
       PROVE  /\ Acceptable(side, LimitPrice(order), fills[k].price)
              /\ \E j \in DOMAIN book[side][fills[k].price] :
                    LET maker == book[side][fills[k].price][j]
                    IN  /\ maker.id = fills[k].maker
                        /\ maker.owner = fills[k].owner
                        /\ maker.owner # order.owner
                        /\ fills[k].quantity <= maker.remaining
  <2>1. k \in 1..n /\ fills[k].price = traded[k][1] /\ fills[k].maker = OrderAt(book, side, traded[k]).id
        /\ fills[k].owner = OrderAt(book, side, traded[k]).owner
        /\ fills[k].quantity = Taken(book, order, traded[k])
    BY <1>6
  <2> QED BY <1>5, <2>1
<1> QED BY <1>9, <1>10 DEF fills, side
----------------------------------------------------------------------------
(***************************************************************************)
(* submit and cancel.                                                      *)
(***************************************************************************)
LEMMA FilledNat ==
    ASSUME NEW ids, NEW owners, NEW fills \in Seq(EngineFills(ids, owners))
    PROVE  /\ Filled(fills) \in Nat
           /\ Filled(fills) = SumFunctionOnSet([i \in DOMAIN fills |-> fills[i].quantity], DOMAIN fills)
<1> DEFINE f == [i \in DOMAIN fills |-> fills[i].quantity]
<1>1. DOMAIN fills = 1..Len(fills) /\ Len(fills) \in Nat
  OBVIOUS
<1>2. IsFiniteSet(DOMAIN fills)
  BY <1>1, FS_Interval
<1>3. \A i \in DOMAIN fills : f[i] \in Nat
  <2>1. \A i \in 1..Len(fills) : fills[i] \in EngineFills(ids, owners)
    BY ElementOfSeq
  <2> QED BY <1>1, <2>1 DEF EngineFills
<1>4. Filled(fills) = SumFunctionOnSet(f, DOMAIN fills)
  BY SumOfFunction DEF Filled
<1> HIDE DEF f
<1> QED BY <1>2, <1>3, <1>4, SumNat DEF f

\* What the book holds after a submit was there before, or is what is left of the
\* taker.
LEMMA SubmittedBook ==
    ASSUME NEW ids, NEW owners, NEW book \in Books(ids, owners),
           NEW order \in EngineOrders(ids, owners)
    PROVE  /\ Submitted(book, order).book \in Books(ids, owners)
           /\ \A side \in Actions, price \in Prices :
                 \A k \in DOMAIN Submitted(book, order).book[side][price] :
                    LET entry == Submitted(book, order).book[side][price][k]
                    IN  \/ \E j \in DOMAIN book[side][price] : Remains(entry, book[side][price][j])
                        \/ /\ entry.id = order.id /\ entry.owner = order.owner
                           /\ side = order.action /\ price = LimitPrice(order)
                           /\ entry.price = price /\ MayRest(order)
<1> DEFINE opposite == Opposite(order.action)
           left == [book EXCEPT ![opposite] = [price \in Prices |-> QueueLeft(book, order, price)]]
           filled == Filled(Fills(book, order))
           remaining == order.quantity - filled
           entry == [id |-> order.id, owner |-> order.owner,
                     price |-> LimitPrice(order), remaining |-> remaining]
           rests == MayRest(order) /\ remaining > 0
           after == Submitted(book, order).book
<1>1. opposite \in Actions /\ LimitPrice(order) \in Prices /\ order.action \in Actions
  BY ReachedFacts DEF EngineOrders
<1>2. /\ left \in Books(ids, owners)
      /\ \A side \in Actions, price \in Prices :
            left[side][price] = IF side = opposite THEN QueueLeft(book, order, price)
                                ELSE book[side][price]
  <2>1. \A price \in Prices : QueueLeft(book, order, price) \in Seq(RestingEntries(ids, owners))
    BY QueueLeftFacts
  <2> HIDE DEF opposite
  <2> QED BY <1>1, <2>1 DEF Books
<1>3. ASSUME NEW side \in Actions, NEW price \in Prices, NEW k \in DOMAIN left[side][price]
      PROVE  \E j \in DOMAIN book[side][price] : Remains(left[side][price][k], book[side][price][j])
  <2>1. CASE side = opposite
    BY <1>2, <2>1, QueueLeftFacts
  <2>2. CASE side # opposite
    <3>1. left[side][price] = book[side][price]
      BY <1>2, <2>2
    <3>2. book[side][price][k] \in RestingEntries(ids, owners)
      BY <3>1, EntryAt
    <3> HIDE DEF left
    <3> QED BY <3>1, <3>2 DEF Remains, RestingEntries
  <2> QED BY <2>1, <2>2
<1>4. after = IF Killed(book, order) THEN book
              ELSE IF rests THEN [left EXCEPT ![order.action][LimitPrice(order)] = Append(@, entry)]
              ELSE left
  BY DEF Submitted, Match
<1>5. rests => entry \in RestingEntries(ids, owners)
  <2>1. filled \in Nat
    BY FillFacts, FilledNat
  <2>2. order.id \in ids /\ order.owner \in owners /\ order.quantity \in Nat
    BY DEF EngineOrders
  <2> HIDE DEF filled
  <2> QED BY <1>1, <2>1, <2>2 DEF RestingEntries
<1> HIDE DEF left, entry, rests, after
<1>6. CASE Killed(book, order)
  <2>1. after = book
    BY <1>4, <1>6
  <2>2. ASSUME NEW side \in Actions, NEW price \in Prices, NEW k \in DOMAIN book[side][price]
        PROVE  Remains(book[side][price][k], book[side][price][k])
    <3>1. book[side][price][k] \in RestingEntries(ids, owners)
      BY EntryAt
    <3> QED BY <3>1 DEF Remains, RestingEntries
  <2> QED BY <2>1, <2>2 DEF after
<1>7. CASE ~Killed(book, order) /\ ~rests
  <2>1. after = left
    BY <1>4, <1>7
  <2> QED BY <1>2, <1>3, <2>1 DEF after
<1>8. CASE ~Killed(book, order) /\ rests
  <2> DEFINE action == order.action
             limit == LimitPrice(order)
             queue == left[action][limit]
  <2>1. after = [left EXCEPT ![action][limit] = Append(queue, entry)]
    BY <1>1, <1>2, <1>4, <1>8 DEF Books
  <2>2. queue \in Seq(RestingEntries(ids, owners))
    BY <1>1, <1>2 DEF Books
  <2>3. /\ Append(queue, entry) \in Seq(RestingEntries(ids, owners))
        /\ Len(Append(queue, entry)) = Len(queue) + 1
        /\ \A k \in 1..Len(queue) : Append(queue, entry)[k] = queue[k]
        /\ Append(queue, entry)[Len(queue) + 1] = entry
    BY <1>5, <1>8, <2>2, AppendProperties
  <2> HIDE DEF action, limit, queue
  <2>4. action \in Actions /\ limit \in Prices
    BY <1>1 DEF action, limit
  <2>5. \A side \in Actions, price \in Prices :
          after[side][price] = IF side = action /\ price = limit THEN Append(queue, entry)
                               ELSE left[side][price]
    BY <1>2, <2>1, <2>4 DEF Books
  <2>6. after \in Books(ids, owners)
    BY <1>2, <2>1, <2>3, <2>4 DEF Books
  <2>7. ASSUME NEW side \in Actions, NEW price \in Prices, NEW k \in DOMAIN after[side][price]
        PROVE  \/ \E j \in DOMAIN book[side][price] : Remains(after[side][price][k], book[side][price][j])
               \/ /\ after[side][price][k].id = order.id /\ after[side][price][k].owner = order.owner
                  /\ side = order.action /\ price = LimitPrice(order)
                  /\ after[side][price][k].price = price /\ MayRest(order)
    <3>1. CASE side = action /\ price = limit
      <4>1. after[side][price] = Append(queue, entry) /\ queue = left[side][price]
        BY <2>5, <3>1 DEF queue
      <4>2. k \in 1..Len(queue) + 1 /\ Len(queue) \in Nat
        BY <2>2, <2>3, <4>1
      <4>3. CASE k = Len(queue) + 1
        BY <1>8, <2>3, <3>1, <4>1, <4>3 DEF entry, action, limit, rests
      <4>4. CASE k # Len(queue) + 1
        <5>1. k \in 1..Len(queue) /\ k \in DOMAIN queue
          BY <2>2, <4>2, <4>4
        <5>2. after[side][price][k] = left[side][price][k] /\ k \in DOMAIN left[side][price]
          BY <2>3, <4>1, <5>1
        <5> QED BY <1>3, <5>2
      <4> QED BY <4>3, <4>4
    <3>2. CASE ~(side = action /\ price = limit)
      <4>1. after[side][price] = left[side][price]
        BY <2>5, <3>2
      <4> QED BY <1>3, <4>1
    <3> QED BY <3>1, <3>2
  <2> QED BY <2>6, <2>7 DEF after
<1> QED BY <1>6, <1>7, <1>8

\* What a submit answers.
LEMMA SubmittedResult ==
    ASSUME NEW ids, NEW owners, NEW book \in Books(ids, owners),
           NEW order \in EngineOrders(ids, owners)
    PROVE  LET result == Submitted(book, order).result
           IN  /\ result \in Results(ids, owners)
               /\ result.fills = <<>> \/ result.fills = Fills(book, order)
<1> DEFINE filled == Filled(Fills(book, order))
           remaining == order.quantity - filled
           rests == MayRest(order) /\ remaining > 0
           result == Submitted(book, order).result
<1>1. Fills(book, order) \in Seq(EngineFills(ids, owners))
  BY FillFacts
<1>2. filled \in Nat
  BY <1>1, FilledNat
<1>3. order.quantity \in Nat /\ order.id \in ids
  BY DEF EngineOrders
<1>4. result = IF Killed(book, order) THEN OrderResult(order.id, "cancelled", <<>>, 0)
               ELSE OrderResult(order.id, ResultStatus(filled, remaining, rests),
                                Fills(book, order), IF rests THEN remaining ELSE 0)
  BY DEF Submitted, Match
<1>5. ResultStatus(filled, remaining, rests) \in {"open", "partially_filled", "filled", "cancelled"}
  BY DEF ResultStatus
<1>6. (IF rests THEN remaining ELSE 0) \in Nat
  <2> HIDE DEF filled
  <2> QED BY <1>2, <1>3
<1> HIDE DEF filled, remaining, rests, result
<1>7. <<>> \in Seq(EngineFills(ids, owners))
  OBVIOUS
<1> QED BY <1>1, <1>3, <1>4, <1>5, <1>6, <1>7 DEF OrderResult, Results, result

\* A cancel takes one entry off its queue, and what stays was there before.
\* Only what rested is pulled.
LEMMA SubmittedPulled ==
    ASSUME NEW ids, NEW owners, NEW book \in Books(ids, owners),
           NEW order \in EngineOrders(ids, owners)
    PROVE  \A id \in Submitted(book, order).pulled :
              \E price \in Prices : \E k \in DOMAIN book[Opposite(order.action)][price] :
                  book[Opposite(order.action)][price][k].id = id
<1> DEFINE side == Opposite(order.action)
<1>1. \A place \in Touched(book, order) :
         place[1] \in Prices /\ place[2] \in DOMAIN book[side][place[1]]
  BY TakenFacts, ReachedFacts
<1>2. \A id \in Match(book, order).pulled :
         \E place \in Touched(book, order) : OrderAt(book, side, place).id = id
  BY DEF Match
<1>3. \A id \in Match(book, order).pulled :
         \E price \in Prices : \E k \in DOMAIN book[side][price] : book[side][price][k].id = id
  BY <1>1, <1>2 DEF OrderAt
<1>4. Submitted(book, order).pulled = {} \/ Submitted(book, order).pulled = Match(book, order).pulled
  BY DEF Submitted
<1> QED BY <1>3, <1>4

LEMMA CancelledBook ==
    ASSUME NEW ids, NEW owners, NEW book \in Books(ids, owners), NEW id
    PROVE  /\ Cancelled(book, id).book \in Books(ids, owners)
           /\ \A side \in Actions, price \in Prices :
                 \A k \in DOMAIN Cancelled(book, id).book[side][price] :
                    \E j \in DOMAIN book[side][price] :
                        Cancelled(book, id).book[side][price][k] = book[side][price][j]
           /\ Cancelled(book, id).result.status \in {"not_found", "cancelled"}
<1>1. CASE Levels(book, id) = {}
  BY <1>1 DEF Cancelled, CancelResult
<1>2. CASE Levels(book, id) # {}
  <2> DEFINE level == CHOOSE l \in Levels(book, id) : TRUE
             queue == book[level[1]][level[2]]
             here == CHOOSE k \in DOMAIN queue : queue[k].id = id
             after == Cancelled(book, id).book
  <2>1. level \in Levels(book, id)
    BY <1>2
  <2>2. level[1] \in Actions /\ level[2] \in Prices /\ \E k \in DOMAIN queue : queue[k].id = id
    <3> HIDE DEF level
    <3>1. level \in Actions \X Prices /\ \E k \in DOMAIN book[level[1]][level[2]] : book[level[1]][level[2]][k].id = id
      BY <2>1 DEF Levels
    <3> QED BY <3>1
  <2>3. here \in DOMAIN queue
    BY <2>2
  <2>4. after = [book EXCEPT ![level[1]][level[2]] = RemoveAt(queue, here)]
        /\ Cancelled(book, id).result.status = "cancelled"
    BY <1>2, <2>2 DEF Cancelled, CancelResult, Books
  <2> HIDE DEF level, queue, here, after
  <2>5. queue \in Seq(RestingEntries(ids, owners))
    BY <2>2 DEF Books, queue
  <2>6. here \in 1..Len(queue) /\ Len(queue) \in Nat
    BY <2>3, <2>5
  <2>7. /\ RemoveAt(queue, here) \in Seq(RestingEntries(ids, owners))
        /\ \A k \in DOMAIN RemoveAt(queue, here) :
              \E j \in DOMAIN queue : RemoveAt(queue, here)[k] = queue[j]
    <3> DEFINE front == SubSeq(queue, 1, here - 1)
               back == SubSeq(queue, here + 1, Len(queue))
    <3>1. /\ front \in Seq(RestingEntries(ids, owners)) /\ Len(front) = here - 1
          /\ \A i \in 1..(here - 1) : front[i] = queue[i]
      BY <2>5, <2>6
    <3>2. /\ back \in Seq(RestingEntries(ids, owners)) /\ Len(back) = Len(queue) - here
          /\ \A i \in 1..(Len(queue) - here) : back[i] = queue[here + i]
      BY <2>5, <2>6
    <3> HIDE DEF front, back
    <3>3. /\ front \o back \in Seq(RestingEntries(ids, owners))
          /\ Len(front \o back) = Len(queue) - 1
          /\ \A i \in 1..Len(queue) - 1 :
                (front \o back)[i] = IF i <= here - 1 THEN front[i] ELSE back[i - (here - 1)]
      <4>1. Len(front) + Len(back) = Len(queue) - 1
        BY <2>6, <3>1, <3>2
      <4>2. /\ front \o back \in Seq(RestingEntries(ids, owners))
            /\ Len(front \o back) = Len(front) + Len(back)
            /\ \A i \in 1..Len(front) + Len(back) :
                  (front \o back)[i] = IF i <= Len(front) THEN front[i] ELSE back[i - Len(front)]
        BY <3>1, <3>2, ConcatProperties
      <4> QED BY <3>1, <4>1, <4>2
    <3>4. ASSUME NEW k \in DOMAIN (front \o back)
          PROVE  \E j \in DOMAIN queue : (front \o back)[k] = queue[j]
      <4>1. k \in 1..Len(queue) - 1
        BY <3>3
      <4>2. CASE k <= here - 1
        <5>1. (front \o back)[k] = queue[k] /\ k \in 1..Len(queue)
          BY <2>6, <3>1, <3>3, <4>1, <4>2
        <5> QED BY <2>5, <5>1
      <4>3. CASE ~(k <= here - 1)
        <5>1. k - (here - 1) \in 1..(Len(queue) - here)
          BY <2>6, <4>1, <4>3
        <5>2. (front \o back)[k] = queue[here + (k - (here - 1))]
          BY <2>6, <3>2, <3>3, <4>1, <4>3, <5>1
        <5>3. here + (k - (here - 1)) \in 1..Len(queue)
          BY <2>6, <4>1, <4>3
        <5> QED BY <2>5, <5>2, <5>3
      <4> QED BY <4>2, <4>3
    <3> QED BY <3>3, <3>4 DEF RemoveAt, front, back
  <2>8. \A side \in Actions, price \in Prices :
          after[side][price] = IF side = level[1] /\ price = level[2] THEN RemoveAt(queue, here)
                               ELSE book[side][price]
    BY <2>2, <2>4 DEF Books
  <2>9. after \in Books(ids, owners)
    BY <2>2, <2>4, <2>7 DEF Books
  <2>10. \A side \in Actions, price \in Prices : \A k \in DOMAIN after[side][price] :
           \E j \in DOMAIN book[side][price] : after[side][price][k] = book[side][price][j]
    BY <2>7, <2>8 DEF queue
  <2> QED BY <2>4, <2>9, <2>10 DEF after
<1> QED BY <1>1, <1>2
----------------------------------------------------------------------------
(***************************************************************************)
(* An id rests once: what a match takes from a maker and what it leaves    *)
(* are together what the maker had.                                        *)
(***************************************************************************)
IdsDiffer(book) ==
    \A side, side2 \in Actions, price, price2 \in Prices :
        \A k \in DOMAIN book[side][price], j \in DOMAIN book[side2][price2] :
            book[side][price][k].id = book[side2][price2][j].id =>
                side = side2 /\ price = price2 /\ k = j

\* Every entry of a book has an id of the other, none of them twice in a queue.
KeepsIds(after, book) ==
    \A side \in Actions, price \in Prices :
        /\ \A k \in DOMAIN after[side][price] :
              \E j \in DOMAIN book[side][price] : after[side][price][k].id = book[side][price][j].id
        /\ \A k, l \in DOMAIN after[side][price] :
              after[side][price][k].id = after[side][price][l].id => k = l

\* A fill takes its quantity from a maker the taker meets.
TakesFrom(book, order, fill) ==
    LET queue == book[Opposite(order.action)][fill.price]
    IN  /\ fill.price \in Prices
        /\ \E j \in DOMAIN queue :
              /\ fill.maker = queue[j].id
              /\ queue[j].remaining \in Nat /\ fill.quantity \in Nat \ {0}
              /\ fill.quantity <= queue[j].remaining
              /\ Left(book, order, <<fill.price, j>>) = queue[j].remaining - fill.quantity

\* The places of what a match leaves at a price, and of what it trades.
LEMMA QueueLeftPlaces ==
    ASSUME NEW ids, NEW owners, NEW book \in Books(ids, owners), IdsDiffer(book),
           NEW order \in EngineOrders(ids, owners), NEW price \in Prices
    PROVE  LET side == Opposite(order.action)
               queue == QueueLeft(book, order, price)
           IN  /\ \A k \in DOMAIN queue :
                     \E j \in DOMAIN book[side][price] :
                        /\ queue[k].id = book[side][price][j].id
                        /\ queue[k].remaining = Left(book, order, <<price, j>>)
               /\ \A k, l \in DOMAIN queue : queue[k].id = queue[l].id => k = l
<1> DEFINE side == Opposite(order.action)
           places == {place \in Places(book, side, {price}) : Left(book, order, place) > 0}
           kept == InOrder(side, places)
           n == Cardinality(places)
           queue == QueueLeft(book, order, price)
<1>1. side \in Actions
  BY ReachedFacts
<1>2. /\ IsFiniteSet(Places(book, side, {price}))
      /\ Places(book, side, {price}) \subseteq Prices \X Nat
      /\ \A place \in Places(book, side, {price}) :
            place[1] = price /\ place[2] \in DOMAIN book[side][price] /\ place = <<price, place[2]>>
  <2>1. {price} \in SUBSET Prices
    OBVIOUS
  <2>2. \A place \in Places(book, side, {price}) : place = <<price, place[2]>>
    BY DEF Places
  <2> HIDE DEF side
  <2> QED BY <1>1, <2>1, <2>2, PlaceFacts
<1>3. IsFiniteSet(places) /\ places \in SUBSET (Prices \X Nat)
  BY <1>2, FS_Subset
<1>4. /\ kept \in [1..n -> places] /\ n \in Nat
      /\ \A i, j \in 1..n : kept[i] = kept[j] => i = j
  <2> HIDE DEF side, places
  <2> QED BY <1>1, <1>3, InOrderFacts
<1>5. ASSUME NEW k \in 1..n
      PROVE  /\ kept[k] = <<price, kept[k][2]>> /\ kept[k][2] \in DOMAIN book[side][price]
             /\ OrderAt(book, side, kept[k]) = book[side][price][kept[k][2]]
  <2>1. kept[k] \in Places(book, side, {price})
    BY <1>4
  <2>2. kept[k][1] = price
    BY <1>2, <2>1
  <2> HIDE DEF kept, places, side
  <2> QED BY <1>2, <2>1, <2>2 DEF OrderAt
<1>6. /\ DOMAIN queue = 1..n
      /\ \A k \in 1..n :
            queue[k].id = OrderAt(book, side, kept[k]).id /\ queue[k].remaining = Left(book, order, kept[k])
  <2>1. DOMAIN kept = 1..n
    BY <1>4
  <2> QED BY <2>1 DEF QueueLeft
<1> HIDE DEF kept, places, side, queue, n
<1>7. \A k \in DOMAIN queue :
         \E j \in DOMAIN book[side][price] :
            /\ queue[k].id = book[side][price][j].id
            /\ queue[k].remaining = Left(book, order, <<price, j>>)
  BY <1>5, <1>6
<1>8. ASSUME NEW k \in DOMAIN queue, NEW l \in DOMAIN queue, queue[k].id = queue[l].id PROVE k = l
  <2>1. /\ k \in 1..n /\ l \in 1..n
        /\ book[side][price][kept[k][2]].id = book[side][price][kept[l][2]].id
    BY <1>5, <1>6, <1>8
  <2>2. kept[k][2] = kept[l][2]
    BY <1>1, <1>5, <2>1 DEF IdsDiffer
  <2>3. kept[k] = kept[l]
    BY <1>5, <2>1, <2>2
  <2> QED BY <1>4, <2>1, <2>3
<1> QED BY <1>7, <1>8 DEF queue, side

LEMMA FillPlaces ==
    ASSUME NEW ids, NEW owners, NEW book \in Books(ids, owners), IdsDiffer(book),
           NEW order \in EngineOrders(ids, owners)
    PROVE  LET fills == Fills(book, order)
           IN  /\ \A k \in DOMAIN fills : TakesFrom(book, order, fills[k])
               /\ \A k, l \in DOMAIN fills : fills[k].maker = fills[l].maker => k = l
<1> DEFINE side == Opposite(order.action)
           places == {place \in Touched(book, order) : ~Own(book, order, place)}
           traded == InOrder(side, places)
           n == Cardinality(places)
           fills == Fills(book, order)
<1>1. side \in Actions
  BY ReachedFacts
<1>2. places \subseteq Reached(book, order) /\ places \subseteq Touched(book, order)
  BY TakenFacts
<1>3. IsFiniteSet(places) /\ places \in SUBSET (Prices \X Nat)
  BY <1>2, ReachedFacts, FS_Subset
<1>4. /\ traded \in [1..n -> places] /\ n \in Nat
      /\ \A i, j \in 1..n : traded[i] = traded[j] => i = j
  <2> HIDE DEF side, places
  <2> QED BY <1>1, <1>3, InOrderFacts
<1>5. ASSUME NEW k \in 1..n
      PROVE  /\ traded[k][1] \in Prices /\ traded[k][2] \in DOMAIN book[side][traded[k][1]]
             /\ traded[k] = <<traded[k][1], traded[k][2]>>
             /\ OrderAt(book, side, traded[k]) = book[side][traded[k][1]][traded[k][2]]
             /\ OrderAt(book, side, traded[k]) \in RestingEntries(ids, owners)
             /\ Taken(book, order, traded[k]) \in Nat \ {0}
             /\ Taken(book, order, traded[k]) <= OrderAt(book, side, traded[k]).remaining
             /\ Left(book, order, traded[k]) =
                   OrderAt(book, side, traded[k]).remaining - Taken(book, order, traded[k])
  <2>1. traded[k] \in places
    BY <1>4
  <2>2. traded[k] \in Touched(book, order) /\ traded[k] \in Reached(book, order)
    BY <1>2, <2>1
  <2> HIDE DEF traded, places
  <2>3. /\ Taken(book, order, traded[k]) \in Nat \ {0}
        /\ Taken(book, order, traded[k]) <= OrderAt(book, side, traded[k]).remaining
    BY <2>2, TakenFacts
  <2>4. Left(book, order, traded[k]) =
           OrderAt(book, side, traded[k]).remaining - Taken(book, order, traded[k])
    BY <2>2 DEF Left
  <2>5. /\ traded[k][1] \in Prices /\ traded[k][2] \in DOMAIN book[side][traded[k][1]]
        /\ OrderAt(book, side, traded[k]) \in RestingEntries(ids, owners)
        /\ traded[k] \in Prices \X Nat
    BY <2>2, ReachedFacts
  <2>6. traded[k] = <<traded[k][1], traded[k][2]>>
    BY <2>5
  <2> HIDE DEF side
  <2> QED BY <2>3, <2>4, <2>5, <2>6 DEF OrderAt
<1>6. /\ DOMAIN fills = 1..n
      /\ \A k \in 1..n :
            /\ fills[k].maker = OrderAt(book, side, traded[k]).id
            /\ fills[k].price = traded[k][1]
            /\ fills[k].quantity = Taken(book, order, traded[k])
  <2>1. DOMAIN traded = 1..n
    BY <1>4
  <2> QED BY <2>1 DEF Fills
<1> HIDE DEF traded, places, side, fills, n
<1>7. ASSUME NEW k \in DOMAIN fills PROVE TakesFrom(book, order, fills[k])
  <2> DEFINE place == traded[k]
             maker == book[side][place[1]][place[2]]
  <2>1. k \in 1..n
    BY <1>6
  <2>2. /\ place[1] \in Prices /\ place[2] \in DOMAIN book[side][place[1]]
        /\ place = <<place[1], place[2]>>
        /\ maker \in RestingEntries(ids, owners)
        /\ fills[k].maker = maker.id /\ fills[k].price = place[1]
        /\ fills[k].quantity \in Nat \ {0}
        /\ fills[k].quantity <= maker.remaining
        /\ Left(book, order, place) = maker.remaining - fills[k].quantity
    BY <1>5, <1>6, <2>1
  <2>3. maker.remaining \in Nat
    BY <2>2 DEF RestingEntries
  <2>4. Opposite(order.action) = side
    BY DEF side
  <2> HIDE DEF place
  <2> QED BY <2>2, <2>3, <2>4 DEF TakesFrom
<1>8. ASSUME NEW k \in DOMAIN fills, NEW l \in DOMAIN fills, fills[k].maker = fills[l].maker PROVE k = l
  <2>1. /\ k \in 1..n /\ l \in 1..n
        /\ book[side][traded[k][1]][traded[k][2]].id = book[side][traded[l][1]][traded[l][2]].id
    BY <1>5, <1>6, <1>8
  <2>2. traded[k][1] = traded[l][1] /\ traded[k][2] = traded[l][2]
    BY <1>1, <1>5, <2>1 DEF IdsDiffer
  <2>3. traded[k] = traded[l]
    BY <1>5, <2>1, <2>2
  <2> QED BY <1>4, <2>1, <2>3
<1> QED BY <1>7, <1>8 DEF fills, side

LEMMA IdsStay ==
    ASSUME NEW book, IdsDiffer(book), NEW after, KeepsIds(after, book)
    PROVE  IdsDiffer(after)
<1> SUFFICES ASSUME NEW side \in Actions, NEW side2 \in Actions,
                    NEW price \in Prices, NEW price2 \in Prices,
                    NEW k \in DOMAIN after[side][price], NEW l \in DOMAIN after[side2][price2],
                    after[side][price][k].id = after[side2][price2][l].id
             PROVE  side = side2 /\ price = price2 /\ k = l
  BY DEF IdsDiffer
<1>1. PICK i \in DOMAIN book[side][price] : after[side][price][k].id = book[side][price][i].id
  BY DEF KeepsIds
<1>2. PICK j \in DOMAIN book[side2][price2] : after[side2][price2][l].id = book[side2][price2][j].id
  BY DEF KeepsIds
<1>3. side = side2 /\ price = price2
  <2>1. book[side][price][i].id = book[side2][price2][j].id
    BY <1>1, <1>2
  <2> QED BY <2>1 DEF IdsDiffer
<1>4. l \in DOMAIN after[side][price] /\ after[side][price][k].id = after[side][price][l].id
  BY <1>3
<1>5. k = l
  BY <1>4 DEF KeepsIds
<1> QED BY <1>3, <1>5

\* What rests after a submit, and what it has traded, is what rested before; what
\* the taker has left is in its answer.
LEMMA SubmittedShares ==
    ASSUME NEW ids, NEW owners, NEW book \in Books(ids, owners), IdsDiffer(book),
           NEW order \in EngineOrders(ids, owners),
           \A side \in Actions, price \in Prices :
              \A k \in DOMAIN book[side][price] : book[side][price][k].id # order.id
    PROVE  LET after == Submitted(book, order).book
               result == Submitted(book, order).result
               fills == result.fills
           IN  /\ IdsDiffer(after)
               /\ \A side \in Actions, price \in Prices : \A k \in DOMAIN after[side][price] :
                     LET entry == after[side][price][k]
                     IN  \/ \E j \in DOMAIN book[side][price] :
                               LET old == book[side][price][j]
                               IN  /\ entry.id = old.id /\ entry.remaining <= old.remaining
                                   /\ \A f \in DOMAIN fills :
                                         fills[f].maker = old.id =>
                                            entry.remaining + fills[f].quantity <= old.remaining
                         \/ /\ entry.id = order.id /\ entry.remaining = result.remaining
                            /\ result.remaining > 0
               /\ \A k \in DOMAIN fills :
                     \E side \in Actions, price \in Prices : \E j \in DOMAIN book[side][price] :
                        /\ fills[k].maker = book[side][price][j].id
                        /\ fills[k].quantity <= book[side][price][j].remaining
               /\ \A k, l \in DOMAIN fills : fills[k].maker = fills[l].maker => k = l
               /\ \/ result.remaining = 0
                  \/ /\ result.status \in {"open", "partially_filled"}
                     /\ result.remaining = order.quantity - Filled(fills)
<1> DEFINE side == Opposite(order.action)
           left == [book EXCEPT ![side] = [price \in Prices |-> QueueLeft(book, order, price)]]
           made == Fills(book, order)
           filled == Filled(made)
           remaining == order.quantity - filled
           entry == [id |-> order.id, owner |-> order.owner,
                     price |-> LimitPrice(order), remaining |-> remaining]
           rests == MayRest(order) /\ remaining > 0
           after == Submitted(book, order).book
           result == Submitted(book, order).result
           New(s, p, k, queue, fills) ==
              \E j \in DOMAIN book[s][p] :
                 /\ queue[k].id = book[s][p][j].id /\ queue[k].remaining <= book[s][p][j].remaining
                 /\ \A f \in DOMAIN fills :
                       fills[f].maker = book[s][p][j].id =>
                          queue[k].remaining + fills[f].quantity <= book[s][p][j].remaining
           Traded(fills) ==
              /\ \A k \in DOMAIN fills :
                    \E s \in Actions, price \in Prices : \E j \in DOMAIN book[s][price] :
                       /\ fills[k].maker = book[s][price][j].id
                       /\ fills[k].quantity <= book[s][price][j].remaining
              /\ \A k, l \in DOMAIN fills : fills[k].maker = fills[l].maker => k = l
<1>1. side \in Actions /\ LimitPrice(order) \in Prices /\ order.action \in Actions
  BY ReachedFacts DEF EngineOrders
<1>2. /\ left \in Books(ids, owners)
      /\ \A s \in Actions, price \in Prices :
            left[s][price] = IF s = side THEN QueueLeft(book, order, price) ELSE book[s][price]
  <2>1. \A price \in Prices : QueueLeft(book, order, price) \in Seq(RestingEntries(ids, owners))
    BY QueueLeftFacts
  <2> HIDE DEF side
  <2> QED BY <1>1, <2>1 DEF Books
<1>3. Traded(made)
  <2>1. \A k, l \in DOMAIN made : made[k].maker = made[l].maker => k = l
    BY FillPlaces
  <2>2. \A k \in DOMAIN made : TakesFrom(book, order, made[k])
    BY FillPlaces
  <2> HIDE DEF made
  <2> QED BY <1>1, <2>1, <2>2 DEF TakesFrom
<1>4. ASSUME NEW s \in Actions, NEW price \in Prices, NEW k \in DOMAIN left[s][price]
      PROVE  New(s, price, k, left[s][price], made)
  <2>1. ASSUME NEW f \in DOMAIN made
        PROVE  /\ made[f].price \in Prices
               /\ \E j \in DOMAIN book[side][made[f].price] :
                     LET maker == book[side][made[f].price][j]
                     IN  /\ made[f].maker = maker.id
                         /\ maker.remaining \in Nat /\ made[f].quantity \in Nat \ {0}
                         /\ made[f].quantity <= maker.remaining
                         /\ Left(book, order, <<made[f].price, j>>) = maker.remaining - made[f].quantity
    <3>1. TakesFrom(book, order, made[f])
      BY FillPlaces
    <3> HIDE DEF made
    <3> QED BY <3>1 DEF TakesFrom
  <2>2. CASE s = side
    <3>1. left[s][price] = QueueLeft(book, order, price)
      BY <1>2, <2>2
    <3>2. PICK j \in DOMAIN book[side][price] :
             /\ left[s][price][k].id = book[side][price][j].id
             /\ left[s][price][k].remaining = Left(book, order, <<price, j>>)
      BY <3>1, QueueLeftPlaces
    <3>3. /\ <<price, j>> \in Places(book, side, Prices)
          /\ OrderAt(book, side, <<price, j>>) = book[side][price][j]
      BY <3>2 DEF Places, OrderAt
    <3>4. /\ Left(book, order, <<price, j>>) \in Nat
          /\ Left(book, order, <<price, j>>) <= book[side][price][j].remaining
      BY <3>3, TakenFacts
    <3>5. ASSUME NEW f \in DOMAIN made, made[f].maker = book[side][price][j].id
          PROVE  left[s][price][k].remaining + made[f].quantity <= book[side][price][j].remaining
      <4>1. PICK i \in DOMAIN book[side][made[f].price] :
               LET maker == book[side][made[f].price][i]
               IN  /\ made[f].maker = maker.id
                   /\ maker.remaining \in Nat /\ made[f].quantity \in Nat \ {0}
                   /\ made[f].quantity <= maker.remaining
                   /\ Left(book, order, <<made[f].price, i>>) = maker.remaining - made[f].quantity
        BY <2>1
      <4>2. made[f].price \in Prices
        BY <2>1
      <4>3. made[f].price = price /\ i = j
        <5>1. book[side][made[f].price][i].id = book[side][price][j].id
          BY <3>5, <4>1
        <5> HIDE DEF made, left, side
        <5> QED BY <1>1, <4>2, <5>1 DEF IdsDiffer
      <4> HIDE DEF made, left, side
      <4> QED BY <3>2, <4>1, <4>3
    <3> HIDE DEF made, left, side
    <3> QED BY <2>2, <3>2, <3>4, <3>5
  <2>3. CASE s # side
    <3>1. left[s][price] = book[s][price]
      BY <1>2, <2>3
    <3>2. book[s][price][k].remaining \in Nat
      BY <3>1, EntryAt DEF RestingEntries
    <3>3. ASSUME NEW f \in DOMAIN made, made[f].maker = book[s][price][k].id PROVE FALSE
      <4>1. PICK i \in DOMAIN book[side][made[f].price] :
               made[f].maker = book[side][made[f].price][i].id
        BY <2>1
      <4>2. made[f].price \in Prices
        BY <2>1
      <4>3. book[side][made[f].price][i].id = book[s][price][k].id /\ k \in DOMAIN book[s][price]
        BY <3>1, <3>3, <4>1
      <4> HIDE DEF made, left, side
      <4> QED BY <1>1, <2>3, <4>2, <4>3 DEF IdsDiffer
    <3> HIDE DEF made, left, side
    <3> QED BY <3>1, <3>2, <3>3
  <2> QED BY <2>2, <2>3
<1>5. IdsDiffer(left)
  <2>1. ASSUME NEW s \in Actions, NEW price \in Prices,
               NEW k \in DOMAIN left[s][price], NEW l \in DOMAIN left[s][price],
               left[s][price][k].id = left[s][price][l].id
        PROVE  k = l
    <3>1. CASE s = side
      <4>1. left[s][price] = QueueLeft(book, order, price)
        BY <1>2, <3>1
      <4> HIDE DEF left, side
      <4> QED BY <2>1, <4>1, QueueLeftPlaces
    <3>2. CASE s # side
      <4>1. left[s][price] = book[s][price]
        BY <1>2, <3>2
      <4> HIDE DEF left, side
      <4> QED BY <2>1, <4>1 DEF IdsDiffer
    <3> QED BY <3>1, <3>2
  <2>2. \A s \in Actions, price \in Prices : \A k \in DOMAIN left[s][price] :
           \E j \in DOMAIN book[s][price] : left[s][price][k].id = book[s][price][j].id
    BY <1>4
  <2>3. KeepsIds(left, book)
    BY <2>1, <2>2 DEF KeepsIds
  <2> HIDE DEF left, made
  <2> QED BY <2>3, IdsStay
<1>6. /\ after = IF Killed(book, order) THEN book
                 ELSE IF rests THEN [left EXCEPT ![order.action][LimitPrice(order)] = Append(@, entry)]
                 ELSE left
      /\ result = IF Killed(book, order) THEN OrderResult(order.id, "cancelled", <<>>, 0)
                  ELSE OrderResult(order.id, ResultStatus(filled, remaining, rests),
                                   made, IF rests THEN remaining ELSE 0)
  BY DEF Submitted, Match
<1>7. filled \in Nat /\ order.quantity \in Nat
  <2>1. made \in Seq(EngineFills(ids, owners))
    BY FillFacts
  <2> HIDE DEF made
  <2> QED BY <2>1, FilledNat DEF EngineOrders
<1>8. rests => entry \in RestingEntries(ids, owners)
  <2>1. order.id \in ids /\ order.owner \in owners
    BY DEF EngineOrders
  <2> HIDE DEF filled
  <2> QED BY <1>1, <1>7, <2>1 DEF RestingEntries
<1>9. CASE Killed(book, order)
  <2>1. after = book /\ result.fills = <<>> /\ result.remaining = 0
    BY <1>6, <1>9 DEF OrderResult
  <2>2. ASSUME NEW s \in Actions, NEW price \in Prices, NEW k \in DOMAIN book[s][price]
        PROVE  book[s][price][k].remaining <= book[s][price][k].remaining
    BY EntryAt DEF RestingEntries
  <2>3. DOMAIN result.fills = {}
    BY <2>1
  <2> HIDE DEF after, result
  <2> QED BY <2>1, <2>2, <2>3 DEF after, result
<1> HIDE DEF left, made, entry, filled
<1>10. CASE ~Killed(book, order) /\ ~rests
  <2>1. after = left /\ result.fills = made /\ result.remaining = 0
    BY <1>6, <1>10 DEF OrderResult
  <2> HIDE DEF after, result, rests, remaining
  <2> QED BY <1>3, <1>4, <1>5, <2>1 DEF after, result
<1>11. CASE ~Killed(book, order) /\ rests
  <2> DEFINE action == order.action
             limit == LimitPrice(order)
             queue == left[action][limit]
  <2>1. after = [left EXCEPT ![action][limit] = Append(queue, entry)]
    BY <1>1, <1>2, <1>6, <1>11 DEF Books
  <2>2. queue \in Seq(RestingEntries(ids, owners))
    BY <1>1, <1>2 DEF Books
  <2>3. /\ Append(queue, entry) \in Seq(RestingEntries(ids, owners))
        /\ Len(Append(queue, entry)) = Len(queue) + 1
        /\ \A k \in 1..Len(queue) : Append(queue, entry)[k] = queue[k]
        /\ Append(queue, entry)[Len(queue) + 1] = entry
    BY <1>8, <1>11, <2>2, AppendProperties
  <2>4. /\ result.fills = made /\ result.remaining = remaining /\ remaining > 0
        /\ result.status \in {"open", "partially_filled"}
    BY <1>6, <1>7, <1>11 DEF OrderResult, ResultStatus
  <2> HIDE DEF action, limit, queue, rests, after, result
  <2>5. action \in Actions /\ limit \in Prices
    BY <1>1 DEF action, limit
  <2>6. \A s \in Actions, price \in Prices :
          after[s][price] = IF s = action /\ price = limit THEN Append(queue, entry)
                            ELSE left[s][price]
    BY <1>2, <2>1, <2>5 DEF Books
  <2>7. ASSUME NEW s \in Actions, NEW price \in Prices, NEW k \in DOMAIN after[s][price]
        PROVE  \/ /\ k \in DOMAIN left[s][price] /\ after[s][price][k] = left[s][price][k]
               \/ /\ s = action /\ price = limit /\ k = Len(queue) + 1 /\ after[s][price][k] = entry
    <3>1. CASE s = action /\ price = limit
      <4>1. after[s][price] = Append(queue, entry) /\ queue = left[s][price]
        BY <2>6, <3>1 DEF queue
      <4>2. k \in 1..Len(queue) + 1 /\ Len(queue) \in Nat
        BY <2>2, <2>3, <4>1
      <4>3. CASE k = Len(queue) + 1
        BY <2>3, <3>1, <4>1, <4>3
      <4>4. CASE k # Len(queue) + 1
        <5>1. k \in 1..Len(queue) /\ k \in DOMAIN queue
          BY <2>2, <4>2, <4>4
        <5> QED BY <2>3, <4>1, <5>1
      <4> QED BY <4>3, <4>4
    <3>2. CASE ~(s = action /\ price = limit)
      BY <2>6, <3>2
    <3> QED BY <3>1, <3>2
  <2>8. entry.id = order.id /\ entry.remaining = remaining
    BY DEF entry
  <2>9. \A s \in Actions, price \in Prices : \A k \in DOMAIN left[s][price] : left[s][price][k].id # order.id
    BY <1>4
  <2>10. IdsDiffer(after)
    <3> SUFFICES ASSUME NEW s \in Actions, NEW s2 \in Actions, NEW p \in Prices, NEW p2 \in Prices,
                        NEW k \in DOMAIN after[s][p], NEW l \in DOMAIN after[s2][p2],
                        after[s][p][k].id = after[s2][p2][l].id
                 PROVE  s = s2 /\ p = p2 /\ k = l
      BY DEF IdsDiffer
    <3>1. \/ /\ k \in DOMAIN left[s][p] /\ after[s][p][k] = left[s][p][k]
          \/ /\ s = action /\ p = limit /\ k = Len(queue) + 1 /\ after[s][p][k] = entry
      BY <2>7
    <3>2. \/ /\ l \in DOMAIN left[s2][p2] /\ after[s2][p2][l] = left[s2][p2][l]
          \/ /\ s2 = action /\ p2 = limit /\ l = Len(queue) + 1 /\ after[s2][p2][l] = entry
      BY <2>7
    <3> QED BY <1>5, <2>8, <2>9, <3>1, <3>2 DEF IdsDiffer
  <2>11. ASSUME NEW s \in Actions, NEW price \in Prices, NEW k \in DOMAIN after[s][price]
         PROVE  \/ New(s, price, k, after[s][price], made)
                \/ /\ after[s][price][k].id = order.id /\ after[s][price][k].remaining = remaining
    <3>1. CASE k \in DOMAIN left[s][price] /\ after[s][price][k] = left[s][price][k]
      BY <1>4, <3>1
    <3>2. CASE after[s][price][k] = entry
      BY <2>8, <3>2
    <3> QED BY <2>7, <3>1, <3>2
  <2>12. remaining = order.quantity - Filled(made)
    BY DEF filled
  <2> HIDE DEF remaining
  <2> QED BY <1>3, <2>4, <2>10, <2>11, <2>12 DEF after, result
<1> QED BY <1>9, <1>10, <1>11

\* A cancel takes the one entry of its id.
LEMMA CancelledTakes ==
    ASSUME NEW ids, NEW owners, NEW book \in Books(ids, owners), IdsDiffer(book), NEW id
    PROVE  LET after == Cancelled(book, id).book
               found == Cancelled(book, id).result.status # "not_found"
           IN  /\ IdsDiffer(after)
               /\ found <=> \E side \in Actions, price \in Prices :
                               \E k \in DOMAIN book[side][price] : book[side][price][k].id = id
               /\ \A side \in Actions, price \in Prices :
                     \A k \in DOMAIN after[side][price] : after[side][price][k].id # id
<1> DEFINE after == Cancelled(book, id).book
<1>1. CASE Levels(book, id) = {}
  <2>1. after = book /\ Cancelled(book, id).result.status = "not_found"
    BY <1>1 DEF Cancelled, CancelResult
  <2>2. \A side \in Actions, price \in Prices :
           \A k \in DOMAIN book[side][price] : book[side][price][k].id # id
    <3>1. \A side \in Actions, price \in Prices :
             (\E k \in DOMAIN book[side][price] : book[side][price][k].id = id)
                => <<side, price>> \in Levels(book, id)
      BY DEF Levels
    <3> QED BY <1>1, <3>1
  <2> QED BY <2>1, <2>2
<1>2. CASE Levels(book, id) # {}
  <2> DEFINE level == CHOOSE l \in Levels(book, id) : TRUE
             queue == book[level[1]][level[2]]
             here == CHOOSE k \in DOMAIN queue : queue[k].id = id
  <2>1. level \in Levels(book, id)
    BY <1>2
  <2>2. level[1] \in Actions /\ level[2] \in Prices /\ \E k \in DOMAIN queue : queue[k].id = id
    <3> HIDE DEF level
    <3>1. level \in Actions \X Prices /\ \E k \in DOMAIN book[level[1]][level[2]] : book[level[1]][level[2]][k].id = id
      BY <2>1 DEF Levels
    <3> QED BY <3>1
  <2>3. here \in DOMAIN queue /\ queue[here].id = id
    BY <2>2
  <2>4. after = [book EXCEPT ![level[1]][level[2]] = RemoveAt(queue, here)]
    BY <1>2, <2>2 DEF Cancelled, CancelResult, Books
  <2>14. Cancelled(book, id).result.status = "cancelled"
    BY <1>2 DEF Cancelled, CancelResult
  <2> HIDE DEF level, queue, here, after
  <2>5. queue \in Seq(RestingEntries(ids, owners))
    BY <2>2 DEF Books, queue
  <2>6. here \in 1..Len(queue) /\ Len(queue) \in Nat
    BY <2>3, <2>5
  <2>7. /\ DOMAIN RemoveAt(queue, here) = 1..(Len(queue) - 1)
        /\ \A k \in 1..(Len(queue) - 1) :
              RemoveAt(queue, here)[k] = queue[IF k < here THEN k ELSE k + 1]
    <3> DEFINE front == SubSeq(queue, 1, here - 1)
               back == SubSeq(queue, here + 1, Len(queue))
    <3>1. /\ front \in Seq(RestingEntries(ids, owners)) /\ Len(front) = here - 1
          /\ \A i \in 1..(here - 1) : front[i] = queue[i]
      BY <2>5, <2>6
    <3>2. /\ back \in Seq(RestingEntries(ids, owners)) /\ Len(back) = Len(queue) - here
          /\ \A i \in 1..(Len(queue) - here) : back[i] = queue[here + i]
      BY <2>5, <2>6
    <3> HIDE DEF front, back
    <3>3. /\ front \o back \in Seq(RestingEntries(ids, owners))
          /\ Len(front \o back) = Len(queue) - 1
          /\ \A i \in 1..Len(queue) - 1 :
                (front \o back)[i] = IF i <= here - 1 THEN front[i] ELSE back[i - (here - 1)]
      <4>1. Len(front) + Len(back) = Len(queue) - 1
        BY <2>6, <3>1, <3>2
      <4>2. /\ front \o back \in Seq(RestingEntries(ids, owners))
            /\ Len(front \o back) = Len(front) + Len(back)
            /\ \A i \in 1..Len(front) + Len(back) :
                  (front \o back)[i] = IF i <= Len(front) THEN front[i] ELSE back[i - Len(front)]
        BY <3>1, <3>2, ConcatProperties
      <4> QED BY <3>1, <4>1, <4>2
    <3>4. ASSUME NEW k \in 1..(Len(queue) - 1)
          PROVE  (front \o back)[k] = queue[IF k < here THEN k ELSE k + 1]
      <4>1. CASE k < here
        <5>1. k \in 1..(here - 1) /\ k <= here - 1
          BY <2>6, <4>1
        <5> QED BY <3>1, <3>3, <4>1, <5>1
      <4>2. CASE ~(k < here)
        <5>1. k - (here - 1) \in 1..(Len(queue) - here) /\ ~(k <= here - 1)
              /\ here + (k - (here - 1)) = k + 1
          BY <2>6, <4>2
        <5> QED BY <3>2, <3>3, <4>2, <5>1
      <4> QED BY <4>1, <4>2
    <3>5. RemoveAt(queue, here) = front \o back
      BY DEF RemoveAt, front, back
    <3>6. DOMAIN (front \o back) = 1..(Len(queue) - 1)
      BY <3>3
    <3> HIDE DEF RemoveAt
    <3> QED BY <3>4, <3>5, <3>6
  <2>8. \A side \in Actions, price \in Prices :
          after[side][price] = IF side = level[1] /\ price = level[2] THEN RemoveAt(queue, here)
                               ELSE book[side][price]
    BY <2>2, <2>4 DEF Books
  <2>9. ASSUME NEW side \in Actions, NEW price \in Prices, NEW k \in DOMAIN after[side][price]
        PROVE  \E j \in DOMAIN book[side][price] :
                  /\ after[side][price][k] = book[side][price][j]
                  /\ ~(side = level[1] /\ price = level[2] /\ j = here)
                  /\ j = IF side = level[1] /\ price = level[2] /\ k >= here THEN k + 1 ELSE k
    <3>1. CASE side = level[1] /\ price = level[2]
      <4>1. after[side][price] = RemoveAt(queue, here) /\ queue = book[side][price]
        BY <2>8, <3>1 DEF queue
      <4>2. k \in 1..(Len(queue) - 1) /\ queue = [i \in 1..Len(queue) |-> queue[i]]
        BY <2>5, <2>7, <4>1
      <4>3. CASE k < here
        <5>1. k \in DOMAIN queue /\ ~(k >= here) /\ k # here
          BY <2>5, <2>6, <4>2, <4>3
        <5> QED BY <2>7, <3>1, <4>1, <4>2, <4>3, <5>1
      <4>4. CASE ~(k < here)
        <5>1. k + 1 \in DOMAIN queue /\ k >= here /\ k + 1 # here
          BY <2>5, <2>6, <4>2, <4>4
        <5> QED BY <2>7, <3>1, <4>1, <4>2, <4>4, <5>1
      <4> QED BY <4>3, <4>4
    <3>2. CASE ~(side = level[1] /\ price = level[2])
      BY <2>8, <3>2
    <3> QED BY <3>1, <3>2
  <2>10. ASSUME NEW side \in Actions, NEW price \in Prices, NEW k \in DOMAIN after[side][price]
         PROVE  after[side][price][k].id # id
    <3>1. PICK j \in DOMAIN book[side][price] :
             /\ after[side][price][k] = book[side][price][j]
             /\ ~(side = level[1] /\ price = level[2] /\ j = here)
      BY <2>9
    <3> QED BY <2>2, <2>3, <3>1 DEF IdsDiffer, queue
  <2>11. ASSUME NEW side \in Actions, NEW price \in Prices,
                NEW k \in DOMAIN after[side][price], NEW l \in DOMAIN after[side][price],
                after[side][price][k].id = after[side][price][l].id
         PROVE  k = l
    <3> DEFINE There == side = level[1] /\ price = level[2]
    <3>1. PICK i \in DOMAIN book[side][price] :
             /\ after[side][price][k] = book[side][price][i]
             /\ i = IF There /\ k >= here THEN k + 1 ELSE k
      BY <2>9
    <3>2. PICK j \in DOMAIN book[side][price] :
             /\ after[side][price][l] = book[side][price][j]
             /\ j = IF There /\ l >= here THEN l + 1 ELSE l
      BY <2>9
    <3>3. i = j
      BY <2>11, <3>1, <3>2 DEF IdsDiffer
    <3>4. k \in Nat /\ l \in Nat
      <4>1. after[side][price] \in Seq(RestingEntries(ids, owners))
        BY CancelledBook DEF after, Books
      <4> QED BY <4>1
    <3> HIDE DEF There
    <3> QED BY <2>6, <3>1, <3>2, <3>3, <3>4
  <2>12. IdsDiffer(after)
    <3>1. \A side \in Actions, price \in Prices : \A k \in DOMAIN after[side][price] :
             \E j \in DOMAIN book[side][price] : after[side][price][k].id = book[side][price][j].id
      BY <2>9
    <3>2. KeepsIds(after, book)
      BY <2>11, <3>1 DEF KeepsIds
    <3> QED BY <3>2, IdsStay
  <2>13. \E side \in Actions, price \in Prices : \E k \in DOMAIN book[side][price] : book[side][price][k].id = id
    BY <2>2 DEF queue
  <2> QED BY <2>10, <2>12, <2>13, <2>14 DEF after
<1> QED BY <1>1, <1>2

----------------------------------------------------------------------------
(***************************************************************************)
(* Places in order, under other names.                                     *)
(***************************************************************************)
\* A sequence is known by its length and its elements.
LEMMA SequenceIs ==
    ASSUME NEW S, NEW queue \in Seq(S), NEW n, Len(queue) = n,
           NEW other, other = [i \in 1..n |-> other[i]],
           \A i \in 1..n : queue[i] = other[i]
    PROVE  other = queue
<1>1. queue = [i \in 1..n |-> queue[i]]
  OBVIOUS
<1> QED BY <1>1

\* There is one order.
LEMMA OrderUnique ==
    ASSUME NEW side \in Actions, NEW S \in SUBSET (Prices \X Nat), IsFiniteSet(S),
           NEW queue \in [1..Cardinality(S) -> S], Ordered(side, queue)
    PROVE  queue = InOrder(side, S)
<1> DEFINE n == Cardinality(S)
           other == InOrder(side, S)
           Bad == {i \in 1..n : queue[i] # other[i]}
<1>1. n \in Nat /\ other \in [1..n -> S] /\ Ordered(side, other)
  BY InOrderFacts
<1>2. \A i \in 1..n : queue[i] \in Prices \X Nat /\ other[i] \in Prices \X Nat
  BY <1>1
<1>3. \A a \in S : \E i \in 1..n : other[i] = a
  BY InOrderFacts
<1>4. \A i, j \in 1..n : queue[i] = queue[j] => i = j
  <2> SUFFICES ASSUME NEW i \in 1..n, NEW j \in 1..n, queue[i] = queue[j]
               PROVE  i = j
    OBVIOUS
  <2>1. ~(i < j) /\ ~(j < i)
    BY <1>2, BeforeFacts DEF Ordered
  <2> QED BY <1>1, <2>1
<1>5. \A a \in S : \E i \in 1..n : queue[i] = a
  <2>1. Cardinality(1..n) = n
    BY <1>1, FS_Interval
  <2> HIDE DEF n
  <2>2. queue \in Injection(1..n, S)
    BY <1>4 DEF Injection, IsInjective, n
  <2>3. queue \in Surjection(1..n, S)
    BY <2>1, <2>2, FS_Injection DEF n
  <2> QED BY <2>3 DEF Surjection
<1>6. ASSUME Bad # {}
      PROVE  FALSE
  <2>1. PICK i \in Bad : \A j \in Bad : i <= j
    <3>1. Bad \subseteq Nat
      OBVIOUS
    <3> HIDE DEF Bad
    <3> QED BY <3>1, <1>6, LeastNat
  <2>2. PICK j \in 1..n : other[j] = queue[i]
    BY <1>3
  <2>3. PICK k \in 1..n : queue[k] = other[i]
    BY <1>1, <1>5
  <2>4. \A l \in 1..n : l < i => queue[l] = other[l]
    BY <2>1
  <2>5. i < j
    <3>1. ~(j < i)
      BY <2>1, <2>2, <2>4, <1>4
    <3>2. j # i
      BY <2>1, <2>2
    <3> QED BY <3>1, <3>2, <2>1
  <2>6. i < k
    <3>1. ~(k < i)
      <4> SUFFICES ASSUME k < i PROVE FALSE
        OBVIOUS
      <4>1. other[k] = other[i]
        BY <2>3, <2>4
      <4>2. k = i
        BY <2>1, <4>1, InOrderFacts
      <4> QED BY <4>2, <2>1
    <3>2. k # i
      BY <2>1, <2>3
    <3> QED BY <3>1, <3>2, <2>1
  <2>7. Before(side, other[i], queue[i])
    BY <2>1, <2>2, <2>5, <1>1 DEF Ordered
  <2>8. Before(side, queue[i], other[i])
    BY <2>1, <2>3, <2>6 DEF Ordered
  <2> QED BY <2>1, <2>7, <2>8, <1>2, BeforeFacts
<1>7. \A i \in 1..n : queue[i] = other[i]
  BY <1>6
<1>8. queue \in [1..n -> S] /\ other \in [1..n -> S]
  BY <1>1
<1> HIDE DEF n, other
<1>9. queue = [i \in 1..n |-> queue[i]] /\ other = [i \in 1..n |-> other[i]]
  BY <1>8
<1>10. [i \in 1..n |-> queue[i]] = [i \in 1..n |-> other[i]]
  BY <1>7
<1> QED BY <1>9, <1>10 DEF other

\* Places renamed in their order.
Renames(side, S, T, h) ==
    /\ h \in [S -> T]
    /\ \A a \in T : \E b \in S : h[b] = a
    /\ \A a, b \in S : Before(side, a, b) => Before(side, h[a], h[b])

LEMMA OrderRenamed ==
    ASSUME NEW side \in Actions, NEW S \in SUBSET (Prices \X Nat), IsFiniteSet(S),
           NEW T \in SUBSET (Prices \X Nat), NEW h, Renames(side, S, T, h)
    PROVE  /\ IsFiniteSet(T) /\ Cardinality(T) = Cardinality(S)
           /\ h \in Bijection(S, T)
           /\ DOMAIN InOrder(side, T) = 1..Cardinality(S)
           /\ \A i \in 1..Cardinality(S) : InOrder(side, T)[i] = h[InOrder(side, S)[i]]
<1>0. /\ h \in [S -> T]
      /\ \A a \in T : \E b \in S : h[b] = a
      /\ \A a, b \in S : Before(side, a, b) => Before(side, h[a], h[b])
  BY DEF Renames
<1>1. \A a, b \in S : h[a] = h[b] => a = b
  <2> SUFFICES ASSUME NEW a \in S, NEW b \in S, h[a] = h[b]
               PROVE  a = b
    OBVIOUS
  <2>1. a \in Prices \X Nat /\ b \in Prices \X Nat /\ h[a] \in Prices \X Nat
    BY <1>0
  <2>2. ~Before(side, h[a], h[a])
    BY <2>1, BeforeFacts
  <2>3. ~Before(side, a, b) /\ ~Before(side, b, a)
    BY <1>0, <2>2
  <2> QED BY <2>1, <2>3, BeforeFacts
<1>2. h \in Bijection(S, T)
  BY <1>0, <1>1 DEF Bijection, Injection, IsInjective, Surjection
<1>3. IsFiniteSet(T) /\ Cardinality(T) = Cardinality(S)
  BY <1>2, FS_Bijection DEF ExistsBijection
<1> DEFINE n == Cardinality(S)
           from == InOrder(side, S)
           queue == [i \in 1..n |-> h[from[i]]]
<1>4. n \in Nat /\ from \in [1..n -> S] /\ Ordered(side, from)
  BY InOrderFacts
<1>5. queue \in [1..Cardinality(T) -> T]
  BY <1>0, <1>3, <1>4
<1>6. Ordered(side, queue)
  BY <1>0, <1>4 DEF Ordered
<1> HIDE DEF queue
<1>7. queue = InOrder(side, T)
  BY <1>3, <1>5, <1>6, OrderUnique
<1>8. DOMAIN queue = 1..n /\ \A i \in 1..n : queue[i] = h[from[i]]
  BY DEF queue
<1> QED BY <1>2, <1>3, <1>7, <1>8

\* The first place, and the others.
LEMMA OrderFirst ==
    ASSUME NEW side \in Actions, NEW S \in SUBSET (Prices \X Nat), IsFiniteSet(S),
           NEW first \in S, \A a \in S : a # first => Before(side, first, a)
    PROVE  /\ InOrder(side, S) = <<first>> \o InOrder(side, S \ {first})
           /\ Cardinality(S) = Cardinality(S \ {first}) + 1
<1> DEFINE rest == S \ {first}
           n == Cardinality(rest)
           from == InOrder(side, rest)
           queue == [i \in 1..(n + 1) |-> IF i = 1 THEN first ELSE from[i - 1]]
<1>1. IsFiniteSet(rest) /\ rest \in SUBSET (Prices \X Nat) /\ Cardinality(S) \in Nat
      /\ Cardinality(rest) = Cardinality(S) - 1
  BY FS_RemoveElement, FS_CardinalityType
<1> HIDE DEF rest
<1>2. n \in Nat /\ from \in [1..n -> rest] /\ Ordered(side, from)
  BY <1>1, InOrderFacts
<1>3. Cardinality(S) = n + 1
  BY <1>1, <1>2
<1>4. rest \subseteq S /\ \A a \in rest : Before(side, first, a)
  BY DEF rest
<1> HIDE DEF n, from
<1>5. queue \in [1..Cardinality(S) -> S]
  BY <1>2, <1>3, <1>4
<1>6. Ordered(side, queue)
  <2> SUFFICES ASSUME NEW i \in 1..(n + 1), NEW j \in 1..(n + 1), i < j
               PROVE  Before(side, queue[i], queue[j])
    BY DEF Ordered
  <2>1. j - 1 \in 1..n /\ queue[j] = from[j - 1] /\ from[j - 1] \in rest
    BY <1>2
  <2>2. CASE i = 1
    BY <2>1, <2>2, <1>2, <1>4
  <2>3. CASE i # 1
    <3>1. i - 1 \in 1..n /\ queue[i] = from[i - 1] /\ i - 1 < j - 1
      BY <1>2, <2>3
    <3>2. Before(side, from[i - 1], from[j - 1])
      BY <1>2, <2>1, <3>1 DEF Ordered
    <3> QED BY <2>1, <3>1, <3>2
  <2> QED BY <2>2, <2>3
<1>7. queue = <<first>> \o from
  <2>1. from \in Seq(rest) /\ Len(from) = n
    BY <1>2
  <2>2. Len(<<first>> \o from) = n + 1 /\ DOMAIN (<<first>> \o from) = 1..(n + 1)
    BY <2>1, <1>2
  <2>3. \A i \in 1..(n + 1) : (<<first>> \o from)[i] = queue[i]
    BY <2>1, <1>2
  <2>4. <<first>> \o from \in Seq(S)
    BY <2>1, <1>4
  <2> QED BY <2>2, <2>3, <2>4
<1> HIDE DEF queue
<1>8. queue = InOrder(side, S)
  BY <1>5, <1>6, OrderUnique
<1> QED BY <1>3, <1>7, <1>8 DEF rest, from, n

LEMMA OrderLast ==
    ASSUME NEW side \in Actions, NEW S \in SUBSET (Prices \X Nat), IsFiniteSet(S),
           NEW last \in Prices \X Nat, \A a \in S : Before(side, a, last)
    PROVE  InOrder(side, S \cup {last}) = Append(InOrder(side, S), last)
<1> DEFINE all == S \cup {last}
           n == Cardinality(S)
           from == InOrder(side, S)
           queue == [i \in 1..(n + 1) |-> IF i = n + 1 THEN last ELSE from[i]]
<1>1. last \notin S
  BY BeforeFacts
<1>2. IsFiniteSet(all) /\ all \in SUBSET (Prices \X Nat) /\ Cardinality(all) = n + 1
  BY <1>1, FS_AddElement
<1>3. n \in Nat /\ from \in [1..n -> S] /\ Ordered(side, from)
  BY InOrderFacts
<1>4. S \subseteq all /\ last \in all
  OBVIOUS
<1> HIDE DEF n, from, all
<1>5. queue \in [1..Cardinality(all) -> all]
  BY <1>2, <1>3, <1>4
<1>6. Ordered(side, queue)
  <2> SUFFICES ASSUME NEW i \in 1..(n + 1), NEW j \in 1..(n + 1), i < j
               PROVE  Before(side, queue[i], queue[j])
    BY DEF Ordered
  <2>1. i \in 1..n /\ queue[i] = from[i] /\ from[i] \in S
    BY <1>3
  <2>2. CASE j = n + 1
    BY <2>1, <2>2, <1>3
  <2>3. CASE j # n + 1
    <3>1. j \in 1..n /\ queue[j] = from[j]
      BY <1>3, <2>3
    <3> QED BY <1>3, <2>1, <3>1 DEF Ordered
  <2> QED BY <2>2, <2>3
<1>7. queue = Append(from, last)
  <2>1. from \in Seq(all) /\ Len(from) = n
    BY <1>3, <1>4
  <2> DEFINE longer == Append(from, last)
  <2>2. /\ longer \in Seq(all) /\ Len(longer) = n + 1
        /\ \A i \in 1..n : longer[i] = from[i]
        /\ longer[n + 1] = last
    BY <2>1, <1>3, <1>4
  <2>3. \A i \in 1..(n + 1) : longer[i] = queue[i]
    BY <2>2, <1>3
  <2> HIDE DEF queue, longer
  <2>4. queue = [i \in 1..(n + 1) |-> queue[i]]
    BY DEF queue
  <2>5. queue = longer
    BY <2>2, <2>3, <2>4, SequenceIs
  <2> QED BY <2>5 DEF longer
<1> HIDE DEF queue
<1>8. queue = InOrder(side, all)
  BY <1>2, <1>5, <1>6, OrderUnique
<1> QED BY <1>7, <1>8 DEF all, from

\* One place less.
LEMMA OrderWithout ==
    ASSUME NEW side \in Actions, NEW S \in SUBSET (Prices \X Nat), IsFiniteSet(S),
           NEW k \in 1..Cardinality(S)
    PROVE  /\ Cardinality(S \ {InOrder(side, S)[k]}) = Cardinality(S) - 1
           /\ InOrder(side, S \ {InOrder(side, S)[k]}) =
                 [i \in 1..(Cardinality(S) - 1) |-> InOrder(side, S)[IF i < k THEN i ELSE i + 1]]
<1> DEFINE n == Cardinality(S)
           from == InOrder(side, S)
           rest == S \ {from[k]}
           queue == [i \in 1..(n - 1) |-> from[IF i < k THEN i ELSE i + 1]]
<1>1. n \in Nat /\ from \in [1..n -> S] /\ Ordered(side, from)
  BY InOrderFacts
<1>2. \A i, j \in 1..n : from[i] = from[j] => i = j
  BY InOrderFacts
<1>3. from[k] \in S
  BY <1>1
<1>4. IsFiniteSet(rest) /\ rest \in SUBSET (Prices \X Nat) /\ Cardinality(rest) = n - 1
  BY <1>3, FS_RemoveElement
<1> HIDE DEF from
<1>5. queue \in [1..Cardinality(rest) -> rest]
  <2> SUFFICES ASSUME NEW i \in 1..(n - 1)
               PROVE  queue[i] \in rest
    BY <1>4
  <2> DEFINE j == IF i < k THEN i ELSE i + 1
  <2>1. j \in 1..n /\ j # k /\ queue[i] = from[j]
    BY <1>1
  <2> HIDE DEF j, queue
  <2> QED BY <2>1, <1>1, <1>2
<1>6. Ordered(side, queue)
  <2> SUFFICES ASSUME NEW i \in 1..(n - 1), NEW j \in 1..(n - 1), i < j
               PROVE  Before(side, queue[i], queue[j])
    BY DEF Ordered
  <2> DEFINE a == IF i < k THEN i ELSE i + 1
             b == IF j < k THEN j ELSE j + 1
  <2>1. a \in 1..n /\ b \in 1..n /\ a < b /\ queue[i] = from[a] /\ queue[j] = from[b]
    BY <1>1
  <2> HIDE DEF a, b, queue
  <2> QED BY <2>1, <1>1 DEF Ordered
<1> HIDE DEF queue, rest
<1>7. queue = InOrder(side, rest)
  BY <1>4, <1>5, <1>6, OrderUnique
<1> QED BY <1>4, <1>7 DEF queue, rest, from, n

\* What the match reads of an order.
IsTaker(order) ==
    order.action \in Actions /\ LimitPrice(order) \in Prices /\ order.quantity \in Nat

\* Two orders that differ in their quantity at most.
SameButQuantity(a, b) ==
    a.action = b.action /\ a.owner = b.owner /\ LimitPrice(a) = LimitPrice(b)

\* The places a taker reaches, and what is offered ahead of one.
LEMMA TakerReach ==
    ASSUME NEW ids, NEW owners, NEW book \in Books(ids, owners), NEW order, IsTaker(order)
    PROVE  /\ Opposite(order.action) \in Actions
           /\ IsFiniteSet(Reached(book, order))
           /\ Reached(book, order) \subseteq Prices \X Nat
           /\ Reached(book, order) =
                 {place \in Places(book, Opposite(order.action), Prices) :
                     Acceptable(Opposite(order.action), LimitPrice(order), place[1])}
           /\ \A place : Ahead(book, order, place) \in Nat
<1> DEFINE side == Opposite(order.action)
           prices == {price \in Prices : Acceptable(side, LimitPrice(order), price)}
<1>1. side \in Actions
  BY InstrumentFacts DEF IsTaker
<1>2. Reached(book, order) = Places(book, side, prices)
  BY DEF Reached
<1>3. prices \in SUBSET Prices
  OBVIOUS
<1>4. Places(book, side, prices) =
          {place \in Places(book, side, Prices) : Acceptable(side, LimitPrice(order), place[1])}
  BY DEF Places
<1> HIDE DEF side
<1>5. IsFiniteSet(Places(book, side, prices)) /\ Places(book, side, prices) \subseteq Prices \X Nat
  BY <1>1, <1>3, PlaceFacts
<1>6. ASSUME NEW place
      PROVE  Ahead(book, order, place) \in Nat
  <2> DEFINE others == {other \in Reached(book, order) : Before(side, other, place) /\ ~Own(book, order, other)}
  <2>1. others \in SUBSET Places(book, side, Prices)
    BY <1>2, <1>4
  <2>2. Ahead(book, order, place) = Offered(book, side, others)
    BY DEF Ahead, side
  <2> HIDE DEF others
  <2>3. Offered(book, side, others) \in Nat
    BY <1>1, <2>1, OfferedNat
  <2> QED BY <2>2, <2>3
<1> QED BY <1>1, <1>2, <1>4, <1>5, <1>6 DEF side
----------------------------------------------------------------------------
(***************************************************************************)
(* The head of a queue leaves the book: the places behind it move up.      *)
(***************************************************************************)
Popped(book, side, price) == [book EXCEPT ![side][price] = Tail(@)]

\* Where a place of the popped book was before.
Was(price, place) == IF place[1] = price THEN <<price, place[2] + 1>> ELSE place

\* The popped book is a book, which differs at one level.
LEMMA PoppedBook ==
    ASSUME NEW ids, NEW owners, NEW book \in Books(ids, owners), NEW side \in Actions,
           NEW price \in Prices, book[side][price] # <<>>
    PROVE  /\ Popped(book, side, price) \in Books(ids, owners)
           /\ Popped(book, side, price)[side][price] = Tail(book[side][price])
           /\ \A s \in Actions, p \in Prices :
                 s # side \/ p # price => Popped(book, side, price)[s][p] = book[s][p]
<1>1. \A s \in Actions, p \in Prices : book[s][p] \in Seq(RestingEntries(ids, owners))
  BY DEF Books
<1>2. Tail(book[side][price]) \in Seq(RestingEntries(ids, owners))
  BY <1>1, EmptySeq, HeadTailProperties
<1> QED BY <1>1, <1>2 DEF Books, Popped

\* The tail of a queue, position by position.
LEMMA TailAt ==
    ASSUME NEW S, NEW queue \in Seq(S), queue # <<>>
    PROVE  /\ Len(queue) \in Nat \ {0} /\ Len(Tail(queue)) = Len(queue) - 1
           /\ DOMAIN queue = 1..Len(queue) /\ DOMAIN Tail(queue) = 1..(Len(queue) - 1)
           /\ \A k \in 1..(Len(queue) - 1) : Tail(queue)[k] = queue[k + 1]
<1>1. /\ Len(queue) \in Nat \ {0} /\ Tail(queue) \in Seq(S)
      /\ Len(Tail(queue)) = Len(queue) - 1
      /\ \A k \in 1..Len(Tail(queue)) : Tail(queue)[k] = queue[k + 1]
  BY EmptySeq, HeadTailProperties
<1> DEFINE rest == Tail(queue)
<1>2. DOMAIN queue = 1..Len(queue)
  OBVIOUS
<1> HIDE DEF rest
<1>3. DOMAIN rest = 1..Len(rest)
  BY <1>1 DEF rest
<1> QED BY <1>1, <1>2, <1>3 DEF rest

\* A position of a queue is a place of the book.
LEMMA PlaceIn ==
    ASSUME NEW book, NEW side, NEW prices, NEW price \in prices, NEW k \in DOMAIN book[side][price]
    PROVE  <<price, k>> \in Places(book, side, prices)
    BY DEF Places

\* The places of the popped book are those of the book, but the head.
LEMMA PoppedPlaces ==
    ASSUME NEW ids, NEW owners, NEW book \in Books(ids, owners), NEW side \in Actions,
           NEW price \in Prices, book[side][price] # <<>>, NEW prices \in SUBSET Prices
    PROVE  LET popped == Popped(book, side, price)
           IN  /\ \A place \in Places(popped, side, prices) :
                     /\ Was(price, place) \in Places(book, side, prices)
                     /\ Was(price, place) # <<price, 1>>
                     /\ Was(price, place)[1] = place[1]
                     /\ OrderAt(popped, side, place) = OrderAt(book, side, Was(price, place))
               /\ \A old \in Places(book, side, prices) :
                     old # <<price, 1>> =>
                        \E place \in Places(popped, side, prices) : Was(price, place) = old
<1> DEFINE popped == Popped(book, side, price)
           queue == book[side][price]
<1>1. /\ popped \in Books(ids, owners)
      /\ popped[side][price] = Tail(queue)
      /\ \A p \in Prices : p # price => popped[side][p] = book[side][p]
  BY PoppedBook
<1>2. queue \in Seq(RestingEntries(ids, owners)) /\ queue # <<>>
  BY DEF Books
<1> HIDE DEF popped, queue
<1>3. /\ Len(queue) \in Nat \ {0}
      /\ DOMAIN queue = 1..Len(queue) /\ DOMAIN Tail(queue) = 1..(Len(queue) - 1)
      /\ \A k \in 1..(Len(queue) - 1) : Tail(queue)[k] = queue[k + 1]
  BY <1>2, TailAt
<1>4. ASSUME NEW place \in Places(popped, side, prices)
      PROVE  /\ Was(price, place) \in Places(book, side, prices)
             /\ Was(price, place) # <<price, 1>>
             /\ Was(price, place)[1] = place[1]
             /\ OrderAt(popped, side, place) = OrderAt(book, side, Was(price, place))
  <2>1. PICK p \in prices : place \in {p} \X DOMAIN popped[side][p]
    BY DEF Places
  <2>2. place = <<p, place[2]>> /\ place[1] = p /\ place[2] \in DOMAIN popped[side][p]
    BY <2>1
  <2>3. CASE p = price
    <3>1. place[2] \in 1..(Len(queue) - 1)
      BY <1>1, <1>3, <2>2, <2>3
    <3>2. place[2] + 1 \in DOMAIN book[side][price] /\ place[2] + 1 # 1
      BY <1>3, <3>1 DEF queue
    <3>3. Was(price, place) = <<price, place[2] + 1>>
      BY <2>2, <2>3 DEF Was
    <3>4. Was(price, place) \in Places(book, side, prices)
      BY <2>3, <3>2, <3>3, PlaceIn
    <3>5. OrderAt(popped, side, place) = OrderAt(book, side, <<price, place[2] + 1>>)
      <4> DEFINE rest == Tail(queue)
      <4>1. rest[place[2]] = queue[place[2] + 1]
        BY <1>3, <3>1
      <4>2. popped[side][price] = rest
        BY <1>1
      <4> HIDE DEF rest
      <4>3. OrderAt(popped, side, place) = queue[place[2] + 1]
        BY <2>2, <2>3, <4>1, <4>2 DEF OrderAt
      <4>4. <<price, place[2] + 1>>[1] = price /\ <<price, place[2] + 1>>[2] = place[2] + 1
        OBVIOUS
      <4> QED BY <4>3, <4>4 DEF OrderAt, queue
    <3> QED BY <2>2, <2>3, <3>2, <3>3, <3>4, <3>5
  <2>4. CASE p # price
    <3>1. Was(price, place) = place /\ popped[side][p] = book[side][p]
      BY <1>1, <2>2, <2>4 DEF Was
    <3>2. Was(price, place) \in Places(book, side, prices)
      BY <2>2, <3>1, PlaceIn
    <3> QED BY <2>2, <2>4, <3>1, <3>2 DEF OrderAt
  <2> QED BY <2>3, <2>4
<1>5. ASSUME NEW old \in Places(book, side, prices), old # <<price, 1>>
      PROVE  \E place \in Places(popped, side, prices) : Was(price, place) = old
  <2>1. PICK p \in prices : old \in {p} \X DOMAIN book[side][p]
    BY DEF Places
  <2>2. old = <<p, old[2]>> /\ old[1] = p /\ old[2] \in DOMAIN book[side][p]
    BY <2>1
  <2>3. CASE p = price
    <3>1. old[2] \in 1..Len(queue) /\ old[2] # 1
      BY <1>3, <1>5, <2>2, <2>3 DEF queue
    <3>2. old[2] - 1 \in DOMAIN popped[side][p] /\ (old[2] - 1) + 1 = old[2]
      BY <1>1, <1>3, <2>3, <3>1
    <3>3. <<p, old[2] - 1>> \in Places(popped, side, prices)
      BY <3>2, PlaceIn
    <3>4. Was(price, <<p, old[2] - 1>>) = old
      BY <2>2, <2>3, <3>2 DEF Was
    <3> QED BY <3>3, <3>4
  <2>4. CASE p # price
    <3>1. old \in Places(popped, side, prices)
      BY <1>1, <2>2, <2>4, PlaceIn
    <3> QED BY <2>2, <2>4, <3>1 DEF Was
  <2> QED BY <2>3, <2>4
<1> QED BY <1>4, <1>5 DEF popped

\* Their order stays.
LEMMA WasOrder ==
    ASSUME NEW side \in Actions, NEW price \in Prices,
           NEW a \in Prices \X Nat, NEW b \in Prices \X Nat
    PROVE  /\ Was(price, a) \in Prices \X Nat
           /\ Before(side, Was(price, a), Was(price, b)) <=> Before(side, a, b)
           /\ Was(price, a) = Was(price, b) => a = b
<1>1. a = <<a[1], a[2]>> /\ a[1] \in Prices /\ a[2] \in Nat
  OBVIOUS
<1>2. b = <<b[1], b[2]>> /\ b[1] \in Prices /\ b[2] \in Nat
  OBVIOUS
<1> QED BY <1>1, <1>2 DEF Was, Before

\* Places moved up offer what they did.
LEMMA PoppedOffered ==
    ASSUME NEW ids, NEW owners, NEW book \in Books(ids, owners), NEW side \in Actions,
           NEW price \in Prices, book[side][price] # <<>>,
           NEW S \in SUBSET Places(Popped(book, side, price), side, Prices),
           NEW T \in SUBSET Places(book, side, Prices),
           T = {Was(price, place) : place \in S}
    PROVE  Offered(book, side, T) = Offered(Popped(book, side, price), side, S)
<1> DEFINE popped == Popped(book, side, price)
           f == [place \in S |-> OrderAt(popped, side, place).remaining]
           g == [place \in T |-> OrderAt(book, side, place).remaining]
           h == [place \in S |-> Was(price, place)]
<1>1. popped \in Books(ids, owners)
  BY PoppedBook
<1> HIDE DEF popped
<1>2. S \in SUBSET Places(popped, side, Prices)
  BY DEF popped
<1>3. /\ IsFiniteSet(S) /\ S \subseteq Prices \X Nat
      /\ \A place \in S : OrderAt(popped, side, place) \in RestingEntries(ids, owners)
  BY <1>1, <1>2, PlaceFacts, FS_Subset
<1>4. \A place \in S : f[place] \in Int
  BY <1>3 DEF RestingEntries
<1>5. \A place \in S : OrderAt(popped, side, place) = OrderAt(book, side, Was(price, place))
  BY <1>2, PoppedPlaces DEF popped
<1>6. h \in Bijection(S, T)
  <2>1. \A a, b \in S : Was(price, a) = Was(price, b) => a = b
    BY <1>3, WasOrder
  <2> QED BY <2>1 DEF Bijection, Injection, IsInjective, Surjection
<1>7. \A place \in S : g[h[place]] = f[place]
  BY <1>5
<1>8. Offered(book, side, T) = SumFunctionOnSet(g, T)
  BY SumOfFunction DEF Offered
<1>9. Offered(popped, side, S) = SumFunctionOnSet(f, S)
  BY SumOfFunction DEF Offered
<1> HIDE DEF f, g, h
<1> QED BY <1>3, <1>4, <1>6, <1>7, <1>8, <1>9, SumRenamed DEF popped

\* The order that stands first among those a taker trades with.
Meets(book, order, price) ==
    LET side == Opposite(order.action)
    IN  /\ IsTaker(order) /\ order.quantity > 0
        /\ price \in Prices /\ Acceptable(side, LimitPrice(order), price)
        /\ book[side][price] # <<>>
        /\ \A p \in Prices : Rank(side, p) < Rank(side, price) => book[side][p] = <<>>

\* It is reached, and before every other place.
LEMMA HeadFirst ==
    ASSUME NEW ids, NEW owners, NEW book \in Books(ids, owners),
           NEW order, NEW price, Meets(book, order, price)
    PROVE  LET side == Opposite(order.action)
           IN  /\ <<price, 1>> \in Reached(book, order)
               /\ OrderAt(book, side, <<price, 1>>) = book[side][price][1]
               /\ OrderAt(book, side, <<price, 1>>) \in RestingEntries(ids, owners)
               /\ \A place \in Places(book, side, Prices) :
                     place # <<price, 1>> => Before(side, <<price, 1>>, place)
               /\ \A place \in Places(book, side, Prices) : ~Before(side, place, <<price, 1>>)
<1> DEFINE side == Opposite(order.action)
           head == <<price, 1>>
<1>1. /\ side \in Actions /\ price \in Prices /\ book[side][price] # <<>>
      /\ Acceptable(side, LimitPrice(order), price)
      /\ \A p \in Prices : Rank(side, p) < Rank(side, price) => book[side][p] = <<>>
  BY InstrumentFacts DEF Meets, IsTaker
<1>2. head[1] = price /\ head[2] = 1 /\ head \in Prices \X Nat
  BY <1>1
<1> HIDE DEF side
<1>3. /\ book[side][price] \in Seq(RestingEntries(ids, owners))
      /\ \A p \in Prices : book[side][p] \in Seq(RestingEntries(ids, owners))
  BY <1>1 DEF Books
<1>4. 1 \in DOMAIN book[side][price]
  BY <1>1, <1>3
<1>5. head \in Places(book, side, Prices)
  BY <1>1, <1>4, PlaceIn
<1>6. head \in Reached(book, order)
  <2>1. Acceptable(side, LimitPrice(order), head[1])
    BY <1>1, <1>2
  <2>2. IsTaker(order)
    BY DEF Meets
  <2> QED BY <1>5, <2>1, <2>2, TakerReach DEF side
<1>7. OrderAt(book, side, head) = book[side][price][1]
  BY <1>2 DEF OrderAt
<1>8. OrderAt(book, side, head) \in RestingEntries(ids, owners)
  BY <1>1, <1>5, PlaceFacts
<1>9. ASSUME NEW place \in Places(book, side, Prices), place # head
      PROVE  Before(side, head, place)
  <2>1. place[1] \in Prices /\ place[2] \in DOMAIN book[side][place[1]] /\ place \in Prices \X Nat
    BY <1>1, PlaceFacts
  <2>2. book[side][place[1]] # <<>> /\ place[2] \in Nat \ {0}
    BY <1>3, <2>1
  <2>3. ~(Rank(side, place[1]) < Rank(side, price))
    BY <1>1, <2>1, <2>2
  <2>4. Rank(side, place[1]) \in Nat /\ Rank(side, price) \in Nat
    BY <1>1, <2>1, InstrumentFacts
  <2>5. Rank(side, place[1]) = Rank(side, price) => place[1] = price
    BY <1>1, <2>1, InstrumentFacts
  <2>6. CASE place[1] = price
    <3>1. place = <<place[1], place[2]>>
      BY <2>1
    <3>2. place[2] # 1
      BY <1>9, <2>6, <3>1
    <3> QED BY <1>2, <2>2, <2>6, <3>2 DEF Before
  <2>7. CASE place[1] # price
    BY <1>2, <2>3, <2>4, <2>5, <2>7 DEF Before
  <2> QED BY <2>6, <2>7
<1>10. ASSUME NEW place \in Places(book, side, Prices)
       PROVE  ~Before(side, place, head)
  <2>1. place \in Prices \X Nat
    BY <1>1, PlaceFacts
  <2>2. place = head \/ Before(side, head, place)
    BY <1>9
  <2> HIDE DEF head
  <2>3. ~Before(side, head, head)
    BY <1>1, <1>2, BeforeFacts
  <2>4. Before(side, head, place) /\ Before(side, place, head) => Before(side, head, head)
    BY <1>1, <1>2, <2>1, BeforeFacts
  <2> QED BY <2>2, <2>3, <2>4
<1> QED BY <1>6, <1>7, <1>8, <1>9, <1>10 DEF side

\* What a taker reaches without the head it reached with it.
LEMMA PoppedReach ==
    ASSUME NEW ids, NEW owners, NEW book \in Books(ids, owners),
           NEW order, NEW price, Meets(book, order, price),
           NEW next, IsTaker(next), SameButQuantity(next, order)
    PROVE  LET side == Opposite(order.action)
               popped == Popped(book, side, price)
           IN  /\ \A place \in Places(popped, side, Prices) :
                     /\ place \in Reached(popped, next) <=> Was(price, place) \in Reached(book, order)
                     /\ Own(popped, next, place) <=> Own(book, order, Was(price, place))
               /\ Reached(book, order) =
                     {<<price, 1>>} \cup {Was(price, place) : place \in Reached(popped, next)}
               /\ Reached(popped, next) \subseteq Places(popped, side, Prices)
<1> DEFINE side == Opposite(order.action)
           popped == Popped(book, side, price)
<1>1. /\ side \in Actions /\ Opposite(next.action) = side /\ price \in Prices
      /\ book[side][price] # <<>> /\ popped \in Books(ids, owners) /\ IsTaker(order)
  BY InstrumentFacts, PoppedBook DEF Meets, IsTaker, SameButQuantity
<1>2. /\ Reached(book, order) =
            {place \in Places(book, side, Prices) : Acceptable(side, LimitPrice(order), place[1])}
      /\ Reached(popped, next) =
            {place \in Places(popped, side, Prices) : Acceptable(side, LimitPrice(next), place[1])}
  <2> HIDE DEF popped
  <2> QED BY <1>1, TakerReach
<1>3. LimitPrice(next) = LimitPrice(order) /\ next.owner = order.owner
  BY DEF SameButQuantity
<1>4. /\ \A place \in Places(popped, side, Prices) :
            /\ Was(price, place) \in Places(book, side, Prices)
            /\ Was(price, place) # <<price, 1>>
            /\ Was(price, place)[1] = place[1]
            /\ OrderAt(popped, side, place) = OrderAt(book, side, Was(price, place))
      /\ \A old \in Places(book, side, Prices) :
            old # <<price, 1>> =>
               \E place \in Places(popped, side, Prices) : Was(price, place) = old
  BY <1>1, PoppedPlaces
<1>5. <<price, 1>> \in Reached(book, order)
  BY HeadFirst
<1> HIDE DEF side, popped
<1>6. \A place \in Places(popped, side, Prices) :
         place \in Reached(popped, next) <=> Was(price, place) \in Reached(book, order)
  BY <1>2, <1>3, <1>4
<1>7. \A place \in Places(popped, side, Prices) :
         Own(popped, next, place) <=> Own(book, order, Was(price, place))
  BY <1>1, <1>3, <1>4 DEF Own, side
<1>8. Reached(book, order) =
          {<<price, 1>>} \cup {Was(price, place) : place \in Reached(popped, next)}
  <2>1. ASSUME NEW old \in Reached(book, order), old # <<price, 1>>
        PROVE  \E place \in Reached(popped, next) : Was(price, place) = old
    <3>1. PICK place \in Places(popped, side, Prices) : Was(price, place) = old
      BY <1>2, <1>4, <2>1
    <3> QED BY <1>6, <3>1
  <2>2. \A place \in Reached(popped, next) : Was(price, place) \in Reached(book, order)
    BY <1>2, <1>6
  <2> QED BY <1>5, <2>1, <2>2
<1> QED BY <1>2, <1>6, <1>7, <1>8 DEF side, popped

\* One place more offers what its order has.
LEMMA OfferedAdd ==
    ASSUME NEW ids, NEW owners, NEW book \in Books(ids, owners), NEW side \in Actions,
           NEW S \in SUBSET Places(book, side, Prices),
           NEW place \in Places(book, side, Prices), place \notin S
    PROVE  Offered(book, side, S \cup {place}) =
               OrderAt(book, side, place).remaining + Offered(book, side, S)
<1> DEFINE T == S \cup {place}
           f == [p \in T |-> OrderAt(book, side, p).remaining]
           g == [p \in S |-> OrderAt(book, side, p).remaining]
<1>1. IsFiniteSet(S)
  BY PlaceFacts, FS_Subset
<1>2. \A p \in T : f[p] \in Int
  BY PlaceFacts DEF RestingEntries
<1>3. Offered(book, side, T) = SumFunctionOnSet(f, T)
  BY SumOfFunction DEF Offered
<1>4. Offered(book, side, S) = SumFunctionOnSet(g, S)
  BY SumOfFunction DEF Offered
<1>5. \A p \in S : g[p] = f[p]
  OBVIOUS
<1>6. f[place] = OrderAt(book, side, place).remaining
  OBVIOUS
<1> HIDE DEF f, g
<1>7. SumFunctionOnSet(g, S) = SumFunctionOnSet(f, S)
  BY <1>1, <1>5, SumSame
<1>8. SumFunctionOnSet(f, T) = f[place] + SumFunctionOnSet(f, S)
  BY <1>1, <1>2, SumAdd
<1> QED BY <1>3, <1>4, <1>6, <1>7, <1>8

\* What the first order takes of a taker's quantity.
HeadTakes(book, order, price) ==
    LET maker == book[Opposite(order.action)][price][1]
    IN  IF maker.owner = order.owner THEN 0 ELSE maker.remaining

\* Nothing is offered ahead of the head, so a taker touches it.
LEMMA NothingAheadOfHead ==
    ASSUME NEW ids, NEW owners, NEW book \in Books(ids, owners),
           NEW order, NEW price, Meets(book, order, price)
    PROVE  /\ Ahead(book, order, <<price, 1>>) = 0
           /\ <<price, 1>> \in Touched(book, order)
<1> DEFINE side == Opposite(order.action)
           head == <<price, 1>>
           others == {other \in Reached(book, order) :
                         Before(side, other, head) /\ ~Own(book, order, other)}
<1>1. IsTaker(order) /\ order.quantity \in Nat /\ order.quantity > 0
  BY DEF Meets, IsTaker
<1>2. Reached(book, order) \subseteq Places(book, side, Prices)
  BY <1>1, TakerReach
<1>3. others = {}
  BY <1>2, HeadFirst
<1>4. Ahead(book, order, head) = Offered(book, side, others)
  BY DEF Ahead
<1>5. Offered(book, side, {}) = 0
  <2> DEFINE f == [place \in {} |-> OrderAt(book, side, place).remaining]
  <2>1. Offered(book, side, {}) = SumFunctionOnSet(f, {})
    BY SumOfFunction DEF Offered
  <2> HIDE DEF f
  <2> QED BY <2>1, SumEmpty
<1>6. Ahead(book, order, head) = 0
  BY <1>3, <1>4, <1>5
<1>7. head \in Reached(book, order)
  BY HeadFirst
<1> HIDE DEF head
<1> QED BY <1>1, <1>6, <1>7 DEF Touched, head

\* What is offered ahead of a place: what the head takes of the taker, then the rest.
LEMMA AheadPopped ==
    ASSUME NEW ids, NEW owners, NEW book \in Books(ids, owners),
           NEW order, NEW price, Meets(book, order, price),
           NEW next, IsTaker(next), SameButQuantity(next, order),
           NEW place \in Places(Popped(book, Opposite(order.action), price),
                                Opposite(order.action), Prices)
    PROVE  Ahead(book, order, Was(price, place)) =
               HeadTakes(book, order, price)
                   + Ahead(Popped(book, Opposite(order.action), price), next, place)
<1> DEFINE side == Opposite(order.action)
           popped == Popped(book, side, price)
           head == <<price, 1>>
           was == Was(price, place)
           S == {other \in Reached(popped, next) :
                    Before(side, other, place) /\ ~Own(popped, next, other)}
           moved == {Was(price, other) : other \in S}
           T == {other \in Reached(book, order) :
                    Before(side, other, was) /\ ~Own(book, order, other)}
<1>1. /\ side \in Actions /\ Opposite(next.action) = side /\ price \in Prices
      /\ book[side][price] # <<>> /\ popped \in Books(ids, owners) /\ IsTaker(order)
  BY InstrumentFacts, PoppedBook DEF Meets, IsTaker, SameButQuantity
<1>2. /\ \A p \in Places(popped, side, Prices) :
            Own(popped, next, p) <=> Own(book, order, Was(price, p))
      /\ Reached(book, order) = {head} \cup {Was(price, p) : p \in Reached(popped, next)}
      /\ Reached(popped, next) \subseteq Places(popped, side, Prices)
  BY PoppedReach
<1>3. /\ \A p \in Places(popped, side, Prices) :
            Was(price, p) \in Places(book, side, Prices) /\ Was(price, p) # head
      /\ Places(popped, side, Prices) \subseteq Prices \X Nat
  <2>1. \A p \in Places(popped, side, Prices) :
            Was(price, p) \in Places(book, side, Prices) /\ Was(price, p) # head
    BY <1>1, PoppedPlaces
  <2> HIDE DEF popped
  <2>2. Places(popped, side, Prices) \subseteq Prices \X Nat
    BY <1>1, PlaceFacts
  <2> QED BY <2>1, <2>2
<1>4. \A p \in Places(popped, side, Prices) : Before(side, Was(price, p), was) <=> Before(side, p, place)
  BY <1>1, <1>3, WasOrder
<1>5. /\ head \in Places(book, side, Prices) /\ Before(side, head, was)
      /\ OrderAt(book, side, head) = book[side][price][1]
      /\ book[side][price][1] \in RestingEntries(ids, owners)
  <2>1. head \in Reached(book, order)
    BY HeadFirst
  <2> QED BY <1>1, <1>3, <2>1, TakerReach, HeadFirst
<1>6. /\ Ahead(book, order, was) = Offered(book, side, T)
      /\ Ahead(popped, next, place) = Offered(popped, side, S)
  BY <1>1 DEF Ahead
<1>7. S \in SUBSET Places(popped, side, Prices) /\ moved \in SUBSET Places(book, side, Prices)
  BY <1>2, <1>3
<1>8. head \notin moved
  BY <1>2, <1>3
<1>9. T = IF Own(book, order, head) THEN moved ELSE moved \cup {head}
  <2>1. moved \subseteq T
    BY <1>2, <1>4
  <2>2. ASSUME NEW other \in T, other # head
        PROVE  other \in moved
    <3>1. PICK p \in Reached(popped, next) : other = Was(price, p)
      BY <1>2, <2>2
    <3> QED BY <1>2, <1>4, <3>1
  <2>3. head \in T <=> ~Own(book, order, head)
    BY <1>2, <1>5
  <2> HIDE DEF T, moved
  <2> QED BY <2>1, <2>2, <2>3, <1>8
<1>10. Offered(book, side, moved) = Offered(popped, side, S)
  <2> HIDE DEF S
  <2> QED BY <1>1, <1>7, PoppedOffered
<1>11. Own(book, order, head) <=> book[side][price][1].owner = order.owner
  BY <1>5 DEF Own
<1>12. Offered(popped, side, S) \in Nat
  <2> HIDE DEF popped, S
  <2> QED BY <1>1, <1>7, OfferedNat
<1> HIDE DEF T, S, moved, popped, was, head
<1>13. CASE Own(book, order, head)
  BY <1>6, <1>9, <1>10, <1>11, <1>12, <1>13 DEF HeadTakes, popped, was
<1>14. CASE ~Own(book, order, head)
  <2>1. Offered(book, side, moved \cup {head}) =
            OrderAt(book, side, head).remaining + Offered(book, side, moved)
    BY <1>1, <1>5, <1>7, <1>8, OfferedAdd
  <2> QED BY <1>5, <1>6, <1>9, <1>10, <1>11, <1>14, <2>1 DEF HeadTakes, popped, was
<1> QED BY <1>13, <1>14

\* The taker as it is when the order at the head has traded or been pulled.
Proceeds(next, order, book, price) ==
    /\ IsTaker(next) /\ SameButQuantity(next, order)
    /\ next.quantity + HeadTakes(book, order, price) = order.quantity

\* The order at the head.
LEMMA HeadEntry ==
    ASSUME NEW ids, NEW owners, NEW book \in Books(ids, owners),
           NEW order, NEW price, Meets(book, order, price)
    PROVE  /\ OrderAt(book, Opposite(order.action), <<price, 1>>) =
                  book[Opposite(order.action)][price][1]
           /\ book[Opposite(order.action)][price][1] \in RestingEntries(ids, owners)
<1>1. OrderAt(book, Opposite(order.action), <<price, 1>>) = book[Opposite(order.action)][price][1]
  BY HeadFirst
<1>2. OrderAt(book, Opposite(order.action), <<price, 1>>) \in RestingEntries(ids, owners)
  BY HeadFirst
<1> QED BY <1>1, <1>2

\* It takes nothing, if it is the taker's owner's, or all it has.
LEMMA HeadTakesNat ==
    ASSUME NEW ids, NEW owners, NEW book \in Books(ids, owners),
           NEW order, NEW price, Meets(book, order, price)
    PROVE  HeadTakes(book, order, price) \in Nat
<1>1. book[Opposite(order.action)][price][1] \in RestingEntries(ids, owners)
  BY HeadEntry
<1> QED BY <1>1 DEF HeadTakes, RestingEntries

\* Touched, taken and left are the same with the head there and without it.
LEMMA TouchedPopped ==
    ASSUME NEW ids, NEW owners, NEW book \in Books(ids, owners),
           NEW order, NEW price, Meets(book, order, price),
           NEW next, Proceeds(next, order, book, price),
           NEW place \in Places(Popped(book, Opposite(order.action), price),
                                Opposite(order.action), Prices)
    PROVE  LET popped == Popped(book, Opposite(order.action), price)
           IN  /\ place \in Touched(popped, next) <=> Was(price, place) \in Touched(book, order)
               /\ Taken(popped, next, place) = Taken(book, order, Was(price, place))
               /\ Left(popped, next, place) = Left(book, order, Was(price, place))
<1> DEFINE side == Opposite(order.action)
           popped == Popped(book, side, price)
           was == Was(price, place)
           takes == HeadTakes(book, order, price)
           ahead == Ahead(popped, next, place)
<1>1. /\ side \in Actions /\ Opposite(next.action) = side /\ price \in Prices
      /\ book[side][price] # <<>> /\ popped \in Books(ids, owners)
      /\ IsTaker(next) /\ IsTaker(order) /\ SameButQuantity(next, order)
  BY InstrumentFacts, PoppedBook DEF Meets, IsTaker, SameButQuantity, Proceeds
<1>2. /\ place \in Reached(popped, next) <=> was \in Reached(book, order)
      /\ Own(popped, next, place) <=> Own(book, order, was)
  BY <1>1, PoppedReach
<1>3. OrderAt(popped, side, place) = OrderAt(book, side, was)
  BY <1>1, PoppedPlaces
<1>4. Ahead(book, order, was) = takes + ahead
  BY <1>1, AheadPopped
<1>5. takes \in Nat
  BY HeadTakesNat
<1>6. ahead \in Nat
  <2> HIDE DEF popped
  <2> QED BY <1>1, TakerReach
<1>7. next.quantity \in Nat /\ order.quantity = next.quantity + takes
  BY <1>1, <1>5 DEF IsTaker, Proceeds
<1>8. place \in Touched(popped, next) <=> was \in Touched(book, order)
  <2>1. Ahead(book, order, was) < order.quantity <=> ahead < next.quantity
    BY <1>4, <1>5, <1>6, <1>7
  <2> QED BY <1>2, <2>1 DEF Touched
<1>9. Taken(popped, next, place) = Taken(book, order, was)
  <2>1. order.quantity - Ahead(book, order, was) = next.quantity - ahead
    BY <1>4, <1>5, <1>6, <1>7
  <2> HIDE DEF popped, was, side
  <2> QED BY <1>1, <1>2, <1>3, <2>1 DEF Taken, side
<1>10. Left(popped, next, place) = Left(book, order, was)
  <2> HIDE DEF popped, was
  <2> QED BY <1>1, <1>3, <1>8, <1>9 DEF Left
<1> QED BY <1>8, <1>9, <1>10

\* The order at the head is taken whole.
LEMMA HeadTaken ==
    ASSUME NEW ids, NEW owners, NEW book \in Books(ids, owners),
           NEW order, NEW price, Meets(book, order, price),
           HeadTakes(book, order, price) <= order.quantity
    PROVE  /\ Taken(book, order, <<price, 1>>) = book[Opposite(order.action)][price][1].remaining
           /\ Left(book, order, <<price, 1>>) = 0
           /\ Own(book, order, <<price, 1>>) <=>
                 book[Opposite(order.action)][price][1].owner = order.owner
<1> DEFINE side == Opposite(order.action)
           head == <<price, 1>>
           maker == book[side][price][1]
<1>1. /\ OrderAt(book, side, head) = maker /\ maker \in RestingEntries(ids, owners)
  BY HeadEntry
<1>2. Ahead(book, order, head) = 0 /\ head \in Touched(book, order)
  BY NothingAheadOfHead
<1>3. order.quantity \in Nat /\ maker.remaining \in Nat
  BY <1>1 DEF Meets, IsTaker, RestingEntries
<1>4. Own(book, order, head) <=> maker.owner = order.owner
  BY <1>1 DEF Own
<1>5. Taken(book, order, head) = maker.remaining
  <2> HIDE DEF head, maker
  <2>1. Own(book, order, head) \/ maker.remaining <= order.quantity
    BY <1>4 DEF HeadTakes, maker
  <2> QED BY <1>1, <1>2, <1>3, <2>1 DEF Taken
<1>6. Left(book, order, head) = 0
  <2> HIDE DEF head, maker
  <2> QED BY <1>1, <1>2, <1>3, <1>5 DEF Left
<1> QED BY <1>4, <1>5, <1>6

\* What is left of an order is no more than it had, and a touched order loses some.
LEMMA LeftNat ==
    ASSUME NEW ids, NEW owners, NEW book \in Books(ids, owners), NEW order, IsTaker(order),
           NEW place \in Places(book, Opposite(order.action), Prices)
    PROVE  /\ Left(book, order, place) \in Nat
           /\ Left(book, order, place) <= OrderAt(book, Opposite(order.action), place).remaining
           /\ place \in Touched(book, order) => Taken(book, order, place) \in Nat \ {0}
<1> DEFINE side == Opposite(order.action)
<1>1. side \in Actions /\ order.quantity \in Nat /\ Ahead(book, order, place) \in Nat
  BY TakerReach DEF IsTaker
<1>2. OrderAt(book, side, place).remaining \in Nat \ {0}
  BY <1>1, PlaceFacts DEF RestingEntries
<1>3. ASSUME place \in Touched(book, order)
      PROVE  /\ Taken(book, order, place) \in Nat \ {0}
             /\ Taken(book, order, place) <= OrderAt(book, side, place).remaining
  <2>1. Ahead(book, order, place) < order.quantity
    BY <1>3 DEF Touched
  <2> QED BY <1>1, <1>2, <2>1 DEF Taken
<1> QED BY <1>2, <1>3 DEF Left

\* A queue is left as it would be had its head not been there.
LEMMA QueueLeftPopped ==
    ASSUME NEW ids, NEW owners, NEW book \in Books(ids, owners),
           NEW order, NEW price, Meets(book, order, price),
           NEW next, Proceeds(next, order, book, price), NEW p \in Prices
    PROVE  QueueLeft(Popped(book, Opposite(order.action), price), next, p) =
               QueueLeft(book, order, p)
<1> DEFINE side == Opposite(order.action)
           popped == Popped(book, side, price)
           head == <<price, 1>>
           S == {place \in Places(popped, side, {p}) : Left(popped, next, place) > 0}
           T == {place \in Places(book, side, {p}) : Left(book, order, place) > 0}
           h == [place \in S |-> Was(price, place)]
           n == Cardinality(S)
           from == InOrder(side, S)
           to == InOrder(side, T)
<1>1. /\ side \in Actions /\ Opposite(next.action) = side /\ price \in Prices
      /\ book[side][price] # <<>> /\ popped \in Books(ids, owners)
  BY InstrumentFacts, PoppedBook DEF Meets, IsTaker, SameButQuantity, Proceeds
<1>2. HeadTakes(book, order, price) <= order.quantity
  <2>1. next.quantity \in Nat /\ order.quantity = next.quantity + HeadTakes(book, order, price)
    BY DEF Proceeds, IsTaker
  <2> QED BY <2>1, HeadTakesNat
<1>3. Left(book, order, head) = 0
  BY <1>2, HeadTaken
<1>4. /\ \A place \in Places(popped, side, {p}) :
            /\ Was(price, place) \in Places(book, side, {p})
            /\ Was(price, place) # head
            /\ OrderAt(popped, side, place) = OrderAt(book, side, Was(price, place))
      /\ \A old \in Places(book, side, {p}) :
            old # head => \E place \in Places(popped, side, {p}) : Was(price, place) = old
  <2> DEFINE only == {p}
  <2>1. only \in SUBSET Prices
    OBVIOUS
  <2> HIDE DEF only
  <2>2. \A place \in Places(popped, side, only) :
           /\ Was(price, place) \in Places(book, side, only)
           /\ Was(price, place) # head
           /\ OrderAt(popped, side, place) = OrderAt(book, side, Was(price, place))
    BY <1>1, <2>1, PoppedPlaces
  <2>3. \A old \in Places(book, side, only) :
           old # head => \E place \in Places(popped, side, only) : Was(price, place) = old
    BY <1>1, <2>1, PoppedPlaces
  <2> QED BY <2>2, <2>3 DEF only
<1>5. /\ Places(popped, side, {p}) \subseteq Places(popped, side, Prices)
      /\ Places(popped, side, {p}) \subseteq Prices \X Nat
      /\ IsFiniteSet(Places(popped, side, {p}))
      /\ Places(book, side, {p}) \subseteq Prices \X Nat
  <2>1. {p} \in SUBSET Prices
    OBVIOUS
  <2>2. Places(popped, side, {p}) \subseteq Places(popped, side, Prices)
    BY DEF Places
  <2> HIDE DEF popped, side
  <2> QED BY <1>1, <2>1, <2>2, PlaceFacts
<1>6. \A place \in Places(popped, side, {p}) :
         Left(popped, next, place) = Left(book, order, Was(price, place))
  BY <1>5, TouchedPopped
<1>7. S \in SUBSET (Prices \X Nat) /\ IsFiniteSet(S) /\ T \in SUBSET (Prices \X Nat)
  BY <1>5, FS_Subset
<1>8. h \in [S -> T]
  BY <1>4, <1>6
<1>9. \A a \in T : \E b \in S : h[b] = a
  <2> SUFFICES ASSUME NEW a \in T
               PROVE  \E b \in S : h[b] = a
    OBVIOUS
  <2>1. a # head
    BY <1>3
  <2>2. PICK b \in Places(popped, side, {p}) : Was(price, b) = a
    BY <1>4, <2>1
  <2>3. b \in S
    BY <1>6, <2>2
  <2> QED BY <2>2, <2>3
<1>10. \A a, b \in S : Before(side, a, b) => Before(side, h[a], h[b])
  BY <1>1, <1>7, WasOrder
<1>11. n \in Nat /\ from \in [1..n -> S]
  <2> HIDE DEF S
  <2> QED BY <1>1, <1>7, InOrderFacts
<1>12. DOMAIN to = 1..n /\ \A i \in 1..n : to[i] = h[from[i]]
  <2>1. Renames(side, S, T, h)
    BY <1>8, <1>9, <1>10 DEF Renames
  <2> HIDE DEF S, T, h
  <2> QED BY <1>1, <1>7, <2>1, OrderRenamed
<1>13. \A i \in 1..n :
          /\ to[i] = Was(price, from[i])
          /\ OrderAt(popped, side, from[i]) = OrderAt(book, side, to[i])
          /\ Left(popped, next, from[i]) = Left(book, order, to[i])
  <2> SUFFICES ASSUME NEW i \in 1..n
               PROVE  /\ to[i] = Was(price, from[i])
                      /\ OrderAt(popped, side, from[i]) = OrderAt(book, side, to[i])
                      /\ Left(popped, next, from[i]) = Left(book, order, to[i])
    OBVIOUS
  <2>1. from[i] \in S
    BY <1>11
  <2>2. to[i] = h[from[i]]
    <3> HIDE DEF to, h, from, n
    <3> QED BY <1>12
  <2>3. h[from[i]] = Was(price, from[i]) /\ from[i] \in Places(popped, side, {p})
    BY <2>1
  <2> HIDE DEF from, to, h, popped, n
  <2> QED BY <1>4, <1>6, <2>2, <2>3
<1>14. QueueLeft(popped, next, p) =
          [k \in DOMAIN from |->
             [id |-> OrderAt(popped, side, from[k]).id,
              owner |-> OrderAt(popped, side, from[k]).owner, price |-> OrderAt(popped, side, from[k]).price,
              remaining |-> Left(popped, next, from[k])]]
  BY <1>1 DEF QueueLeft
<1>15. QueueLeft(book, order, p) =
          [k \in DOMAIN to |->
             [id |-> OrderAt(book, side, to[k]).id,
              owner |-> OrderAt(book, side, to[k]).owner, price |-> OrderAt(book, side, to[k]).price,
              remaining |-> Left(book, order, to[k])]]
  BY DEF QueueLeft
<1>16. DOMAIN from = 1..n /\ DOMAIN to = 1..n
  BY <1>11, <1>12
<1> HIDE DEF from, to, popped, side, n
<1> QED BY <1>13, <1>14, <1>15, <1>16 DEF popped, side

\* The touched places are the head and those touched without it.
LEMMA TouchedSets ==
    ASSUME NEW ids, NEW owners, NEW book \in Books(ids, owners),
           NEW order, NEW price, Meets(book, order, price),
           NEW next, Proceeds(next, order, book, price)
    PROVE  LET popped == Popped(book, Opposite(order.action), price)
           IN  /\ Touched(popped, next) \subseteq Places(popped, Opposite(order.action), Prices)
               /\ Touched(book, order) =
                     {<<price, 1>>} \cup {Was(price, place) : place \in Touched(popped, next)}
               /\ \A place \in Touched(popped, next) :
                     Own(popped, next, place) <=> Own(book, order, Was(price, place))
<1> DEFINE side == Opposite(order.action)
           popped == Popped(book, side, price)
           head == <<price, 1>>
<1>1. IsTaker(next) /\ SameButQuantity(next, order)
  BY DEF Proceeds
<1>2. /\ \A place \in Places(popped, side, Prices) :
            Own(popped, next, place) <=> Own(book, order, Was(price, place))
      /\ Reached(book, order) = {head} \cup {Was(price, place) : place \in Reached(popped, next)}
      /\ Reached(popped, next) \subseteq Places(popped, side, Prices)
  BY <1>1, PoppedReach
<1>3. Touched(popped, next) \subseteq Reached(popped, next)
  BY DEF Touched
<1>4. \A place \in Places(popped, side, Prices) :
         place \in Touched(popped, next) <=> Was(price, place) \in Touched(book, order)
  BY TouchedPopped
<1>5. head \in Touched(book, order)
  BY NothingAheadOfHead
<1>6. Touched(book, order) \subseteq Reached(book, order)
  BY DEF Touched
<1> HIDE DEF popped, side, head
<1>7. Touched(book, order) = {head} \cup {Was(price, place) : place \in Touched(popped, next)}
  <2>1. ASSUME NEW old \in Touched(book, order), old # head
        PROVE  old \in {Was(price, place) : place \in Touched(popped, next)}
    <3>1. PICK place \in Reached(popped, next) : Was(price, place) = old
      BY <1>2, <1>6, <2>1
    <3>2. place \in Touched(popped, next)
      BY <1>2, <1>4, <3>1
    <3> QED BY <3>1, <3>2
  <2>2. \A place \in Touched(popped, next) : Was(price, place) \in Touched(book, order)
    BY <1>2, <1>3, <1>4
  <2> QED BY <1>5, <2>1, <2>2
<1> QED BY <1>2, <1>3, <1>7 DEF popped, side, head

\* The fill with the order at a place.
FillAt(book, order, place) ==
    LET maker == OrderAt(book, Opposite(order.action), place)
    IN  [maker |-> maker.id, owner |-> maker.owner, price |-> place[1],
         quantity |-> Taken(book, order, place)]

\* The orders of others that a taker touches.
Traded(book, order) == {place \in Touched(book, order) : ~Own(book, order, place)}

\* Places of the popped book, as the book has them.
Shifted(price, S) == {Was(price, place) : place \in S}

\* The fills are those with the orders traded, in order.
LEMMA FillsAre ==
    ASSUME NEW book, NEW order
    PROVE  LET traded == InOrder(Opposite(order.action), Traded(book, order))
           IN  Fills(book, order) = [k \in DOMAIN traded |-> FillAt(book, order, traded[k])]
    BY DEF Fills, FillAt, Traded

\* They are the head, if it is another's, and those touched without it.
TradesOnFrom(book, order, price, next) ==
    LET side == Opposite(order.action)
        S == Traded(Popped(book, side, price), next)
        T == Traded(book, order)
        moved == Shifted(price, S)
    IN  /\ T = IF Own(book, order, <<price, 1>>) THEN moved ELSE moved \cup {<<price, 1>>}
        /\ <<price, 1>> \notin moved
        /\ IsFiniteSet(S) /\ S \subseteq Prices \X Nat
        /\ S \subseteq Places(Popped(book, side, price), side, Prices)
        /\ IsFiniteSet(moved) /\ moved \subseteq Prices \X Nat
        /\ Cardinality(moved) = Cardinality(S)
        /\ \A place \in moved : Before(side, <<price, 1>>, place)
        /\ DOMAIN InOrder(side, moved) = 1..Cardinality(S)
        /\ \A i \in 1..Cardinality(S) :
              InOrder(side, moved)[i] = Was(price, InOrder(side, S)[i])

\* Places keep their order when the head is put back in front of them.
LEMMA TradedPopped ==
    ASSUME NEW ids, NEW owners, NEW book \in Books(ids, owners),
           NEW order, NEW price, Meets(book, order, price),
           NEW next, Proceeds(next, order, book, price)
    PROVE  TradesOnFrom(book, order, price, next)
<1> DEFINE side == Opposite(order.action)
           popped == Popped(book, side, price)
           head == <<price, 1>>
           S == {place \in Touched(popped, next) : ~Own(popped, next, place)}
           T == {place \in Touched(book, order) : ~Own(book, order, place)}
           moved == {Was(price, place) : place \in S}
           h == [place \in S |-> Was(price, place)]
<1>1. /\ side \in Actions /\ price \in Prices
      /\ book[side][price] # <<>> /\ popped \in Books(ids, owners)
  BY InstrumentFacts, PoppedBook DEF Meets, IsTaker
<1>2. /\ Touched(popped, next) \subseteq Places(popped, side, Prices)
      /\ Touched(book, order) =
             {head} \cup {Was(price, place) : place \in Touched(popped, next)}
      /\ \A place \in Touched(popped, next) :
             Own(popped, next, place) <=> Own(book, order, Was(price, place))
  BY TouchedSets
<1>3. \A place \in Places(popped, side, Prices) :
         Was(price, place) \in Places(book, side, Prices) /\ Was(price, place) # head
  BY <1>1, PoppedPlaces
<1>4. \A place \in Places(book, side, Prices) : place # head => Before(side, head, place)
  BY HeadFirst
<1> HIDE DEF popped
<1>5. /\ IsFiniteSet(Places(popped, side, Prices))
      /\ Places(popped, side, Prices) \subseteq Prices \X Nat
      /\ Places(book, side, Prices) \subseteq Prices \X Nat
  BY <1>1, PlaceFacts
<1>6. T = IF Own(book, order, head) THEN moved ELSE moved \cup {head}
  <2>1. moved \subseteq T
    BY <1>2
  <2>2. ASSUME NEW place \in T, place # head
        PROVE  place \in moved
    <3>1. PICK p \in Touched(popped, next) : place = Was(price, p)
      BY <1>2, <2>2
    <3> QED BY <1>2, <3>1
  <2>3. head \in T <=> ~Own(book, order, head)
    BY <1>2
  <2>4. head \notin moved
    BY <1>2, <1>3
  <2> HIDE DEF T, moved
  <2> QED BY <2>1, <2>2, <2>3, <2>4
<1>7. S \in SUBSET Places(popped, side, Prices)
  BY <1>2
<1>8. IsFiniteSet(S) /\ S \subseteq Prices \X Nat
  BY <1>5, <1>7, FS_Subset
<1>9. head \notin moved /\ moved \subseteq Prices \X Nat
  BY <1>2, <1>3, <1>5
<1>10. \A place \in moved : Before(side, head, place)
  BY <1>2, <1>3, <1>4
<1>11. Renames(side, S, moved, h)
  <2>1. h \in [S -> moved] /\ \A a \in moved : \E b \in S : h[b] = a
    OBVIOUS
  <2>2. \A a, b \in S : Before(side, a, b) => Before(side, h[a], h[b])
    BY <1>1, <1>8, WasOrder
  <2> HIDE DEF h, S, moved
  <2> QED BY <2>1, <2>2 DEF Renames
<1>12. /\ IsFiniteSet(moved) /\ Cardinality(moved) = Cardinality(S)
       /\ DOMAIN InOrder(side, moved) = 1..Cardinality(S)
       /\ \A i \in 1..Cardinality(S) : InOrder(side, moved)[i] = h[InOrder(side, S)[i]]
  <2> HIDE DEF h, S, moved
  <2> QED BY <1>1, <1>8, <1>9, <1>11, OrderRenamed
<1>13. InOrder(side, S) \in [1..Cardinality(S) -> S]
  <2> HIDE DEF S
  <2> QED BY <1>1, <1>8, InOrderFacts
<1>14. \A i \in 1..Cardinality(S) : InOrder(side, moved)[i] = Was(price, InOrder(side, S)[i])
  <2> SUFFICES ASSUME NEW i \in 1..Cardinality(S)
               PROVE  InOrder(side, moved)[i] = Was(price, InOrder(side, S)[i])
    OBVIOUS
  <2>1. InOrder(side, S)[i] \in S
    <3> HIDE DEF S
    <3> QED BY <1>13
  <2>2. h[InOrder(side, S)[i]] = Was(price, InOrder(side, S)[i])
    BY <2>1
  <2> HIDE DEF h, S, moved
  <2> QED BY <1>12, <2>2
<1>15. S = Traded(popped, next) /\ T = Traded(book, order) /\ moved = Shifted(price, S)
  BY DEF Traded, Shifted
<1> HIDE DEF h, S, T, moved
<1> QED BY <1>6, <1>7, <1>8, <1>9, <1>10, <1>12, <1>14, <1>15 DEF popped, TradesOnFrom

\* What the whole of a maker trades.
WholeFill(maker, price) ==
    [maker |-> maker.id, owner |-> maker.owner, price |-> price, quantity |-> maker.remaining]

\* What a taker trades is what it trades with the head, then the rest.
FillsOn(book, order, price, next) ==
    LET side == Opposite(order.action)
        maker == book[side][price][1]
        rest == Fills(Popped(book, side, price), next)
    IN  Fills(book, order) =
           IF maker.owner = order.owner THEN rest ELSE <<WholeFill(maker, price)>> \o rest

LEMMA FillsPopped ==
    ASSUME NEW ids, NEW owners, NEW book \in Books(ids, owners),
           NEW order, NEW price, Meets(book, order, price),
           NEW next, Proceeds(next, order, book, price)
    PROVE  FillsOn(book, order, price, next)
<1> DEFINE side == Opposite(order.action)
           popped == Popped(book, side, price)
           head == <<price, 1>>
           maker == book[side][price][1]
           S == Traded(popped, next)
           T == Traded(book, order)
           moved == Shifted(price, S)
           n == Cardinality(S)
           rest == Fills(popped, next)
           first == [maker |-> maker.id, owner |-> maker.owner, price |-> price,
                     quantity |-> maker.remaining]
<1>1. /\ side \in Actions /\ Opposite(next.action) = side /\ price \in Prices
      /\ book[side][price] # <<>> /\ popped \in Books(ids, owners) /\ IsTaker(order)
  BY InstrumentFacts, PoppedBook DEF Meets, IsTaker, SameButQuantity, Proceeds
<1>2. /\ T = IF Own(book, order, head) THEN moved ELSE moved \cup {head}
      /\ head \notin moved
      /\ IsFiniteSet(S) /\ S \subseteq Prices \X Nat
      /\ S \subseteq Places(popped, side, Prices)
      /\ IsFiniteSet(moved) /\ moved \subseteq Prices \X Nat
      /\ Cardinality(moved) = n
      /\ \A place \in moved : Before(side, head, place)
      /\ DOMAIN InOrder(side, moved) = 1..n
      /\ \A i \in 1..n : InOrder(side, moved)[i] = Was(price, InOrder(side, S)[i])
  <2>1. TradesOnFrom(book, order, price, next)
    BY TradedPopped
  <2> QED BY <2>1 DEF TradesOnFrom
<1>3. InOrder(side, S) \in [1..n -> S] /\ n \in Nat
  <2> HIDE DEF S
  <2> QED BY <1>1, <1>2, InOrderFacts
<1>4. \A place \in Places(popped, side, Prices) :
         /\ OrderAt(popped, side, place) = OrderAt(book, side, Was(price, place))
         /\ Was(price, place)[1] = place[1]
  BY <1>1, PoppedPlaces
<1>5. \A place \in Places(popped, side, Prices) :
         Taken(popped, next, place) = Taken(book, order, Was(price, place))
  BY TouchedPopped
<1> HIDE DEF popped, S, T, moved, head
<1>7. \A place \in S : FillAt(popped, next, place) = FillAt(book, order, Was(price, place))
  BY <1>1, <1>2, <1>4, <1>5 DEF FillAt
<1>8. /\ rest = [k \in 1..n |-> FillAt(popped, next, InOrder(side, S)[k])]
      /\ Fills(book, order) = [k \in DOMAIN InOrder(side, T) |-> FillAt(book, order, InOrder(side, T)[k])]
  <2>1. rest = [k \in DOMAIN InOrder(side, S) |-> FillAt(popped, next, InOrder(side, S)[k])]
    BY <1>1, FillsAre DEF S
  <2>2. DOMAIN InOrder(side, S) = 1..n
    BY <1>3
  <2>3. Fills(book, order) = [k \in DOMAIN InOrder(side, T) |-> FillAt(book, order, InOrder(side, T)[k])]
    BY FillsAre DEF T
  <2> QED BY <2>1, <2>2, <2>3
<1>9. \A k \in 1..n : rest[k] = FillAt(book, order, InOrder(side, moved)[k])
  BY <1>2, <1>3, <1>7, <1>8
<1>10. /\ OrderAt(book, side, head) = maker
       /\ Own(book, order, head) <=> maker.owner = order.owner
       /\ HeadTakes(book, order, price) <= order.quantity
  <2>1. next.quantity \in Nat /\ order.quantity = next.quantity + HeadTakes(book, order, price)
    BY DEF Proceeds, IsTaker
  <2>2. HeadTakes(book, order, price) <= order.quantity
    BY <2>1, HeadTakesNat
  <2> QED BY <2>2, HeadTaken, HeadEntry DEF head
<1>11. FillAt(book, order, head) = first
  <2>1. Taken(book, order, head) = maker.remaining
    BY <1>10, HeadTaken DEF head
  <2>2. head[1] = price
    BY DEF head
  <2> QED BY <1>10, <2>1, <2>2 DEF FillAt
<1>12. CASE maker.owner = order.owner
  <2>1. T = moved
    BY <1>2, <1>10, <1>12
  <2>2. Fills(book, order) = [k \in 1..n |-> FillAt(book, order, InOrder(side, moved)[k])]
    BY <1>2, <1>8, <2>1
  <2>3. Fills(book, order) = rest
    BY <1>8, <1>9, <2>2
  <2> QED BY <1>12, <2>3 DEF FillsOn, popped
<1>13. CASE maker.owner # order.owner
  <2>1. T = moved \cup {head} /\ head \in T /\ T \ {head} = moved
    BY <1>2, <1>10, <1>13
  <2>2. IsFiniteSet(T) /\ T \in SUBSET (Prices \X Nat)
    <3>1. head \in Prices \X Nat
      BY <1>1 DEF head
    <3> QED BY <1>2, <2>1, <3>1, FS_AddElement
  <2>3. InOrder(side, T) = <<head>> \o InOrder(side, moved) /\ Cardinality(T) = n + 1
    <3>1. \A a \in T : a # head => Before(side, head, a)
      BY <1>2, <2>1
    <3>2. side \in Actions
      BY <1>1
    <3>3. head \in T
      BY <2>1
    <3> HIDE DEF side
    <3>4. /\ InOrder(side, T) = <<head>> \o InOrder(side, T \ {head})
          /\ Cardinality(T) = Cardinality(T \ {head}) + 1
      BY <2>2, <3>1, <3>2, <3>3, OrderFirst
    <3> QED BY <1>2, <2>1, <3>4
  <2> DEFINE from == InOrder(side, moved)
             all == InOrder(side, T)
             whole == <<first>> \o rest
  <2>4. from \in Seq(moved) /\ Len(from) = n
    <3>1. from \in [1..n -> moved]
      <4> HIDE DEF from
      <4> QED BY <1>1, <1>2, InOrderFacts DEF from
    <3> HIDE DEF from
    <3> QED BY <1>3, <3>1
  <2>5. /\ DOMAIN all = 1..(n + 1) /\ all[1] = head
        /\ \A k \in 2..(n + 1) : all[k] = from[k - 1]
    <3> HIDE DEF from
    <3> QED BY <1>3, <2>3, <2>4 DEF from
  <2>6. rest \in Seq({rest[k] : k \in 1..n}) /\ Len(rest) = n
    <3>1. rest \in [1..n -> {rest[k] : k \in 1..n}]
      BY <1>8
    <3> HIDE DEF rest
    <3> QED BY <1>3, <3>1
  <2> HIDE DEF first, all, from
  <2>7. /\ whole \in Seq({first} \cup {rest[k] : k \in 1..n}) /\ Len(whole) = n + 1
        /\ whole[1] = first /\ \A k \in 2..(n + 1) : whole[k] = rest[k - 1]
    <3> HIDE DEF rest
    <3> QED BY <1>3, <2>6
  <2> HIDE DEF whole, rest
  <2>8. \A k \in 1..(n + 1) : whole[k] = FillAt(book, order, all[k])
    <3> SUFFICES ASSUME NEW k \in 1..(n + 1)
                 PROVE  whole[k] = FillAt(book, order, all[k])
      OBVIOUS
    <3>1. CASE k = 1
      BY <1>11, <2>5, <2>7, <3>1
    <3>2. CASE k # 1
      <4>1. k \in 2..(n + 1) /\ k - 1 \in 1..n
        BY <1>3, <3>2
      <4> QED BY <1>9, <2>5, <2>7, <4>1 DEF from
    <3> QED BY <3>1, <3>2
  <2> DEFINE made == [k \in 1..(n + 1) |-> FillAt(book, order, all[k])]
  <2>9. Fills(book, order) = made
    BY <1>8, <2>5 DEF all
  <2>10. made = [k \in 1..(n + 1) |-> made[k]] /\ \A k \in 1..(n + 1) : whole[k] = made[k]
    BY <2>8
  <2> HIDE DEF made
  <2>11. made = whole
    BY <2>7, <2>10, SequenceIs
  <2>12. Fills(book, order) = <<first>> \o rest
    BY <2>9, <2>11 DEF whole
  <2> QED BY <1>13, <2>12 DEF FillsOn, WholeFill, first, rest, popped
<1> QED BY <1>12, <1>13

\* The two cases: the head is the taker's owner's, or another's.
LEMMA FillsPopOwn ==
    ASSUME NEW ids, NEW owners, NEW book \in Books(ids, owners),
           NEW order, NEW price, Meets(book, order, price),
           NEW next, Proceeds(next, order, book, price),
           book[Opposite(order.action)][price][1].owner = order.owner
    PROVE  Fills(book, order) = Fills(Popped(book, Opposite(order.action), price), next)
<1>1. FillsOn(book, order, price, next)
  BY FillsPopped
<1> QED BY <1>1 DEF FillsOn

LEMMA FillsPopOther ==
    ASSUME NEW ids, NEW owners, NEW book \in Books(ids, owners),
           NEW order, NEW price, Meets(book, order, price),
           NEW next, Proceeds(next, order, book, price),
           book[Opposite(order.action)][price][1].owner # order.owner
    PROVE  Fills(book, order) =
               <<WholeFill(book[Opposite(order.action)][price][1], price)>>
                   \o Fills(Popped(book, Opposite(order.action), price), next)
<1>1. FillsOn(book, order, price, next)
  BY FillsPopped
<1> QED BY <1>1 DEF FillsOn

\* What a match leaves of the book, level by level.
LEMMA MatchBook ==
    ASSUME NEW ids, NEW owners, NEW book \in Books(ids, owners), NEW order, IsTaker(order)
    PROVE  /\ \A price \in Prices :
                 Match(book, order).book[Opposite(order.action)][price] = QueueLeft(book, order, price)
           /\ \A side \in Actions : side # Opposite(order.action) =>
                 Match(book, order).book[side] = book[side]
           /\ Match(book, order).book =
                 [side \in Actions |-> [price \in Prices |-> Match(book, order).book[side][price]]]
           /\ Match(book, order).fills = Fills(book, order)
<1>1. Opposite(order.action) \in Actions
  BY InstrumentFacts DEF IsTaker
<1> DEFINE opposite == Opposite(order.action)
           left == [price \in Prices |-> QueueLeft(book, order, price)]
           after == [book EXCEPT ![opposite] = left]
<1>2. Match(book, order).book = after /\ Match(book, order).fills = Fills(book, order)
  BY DEF Match
<1>3. /\ after[opposite] = left
      /\ \A side \in Actions : side # opposite => after[side] = book[side]
      /\ DOMAIN after = Actions /\ after = [side \in Actions |-> after[side]]
  BY <1>1 DEF Books
<1>4. \A side \in Actions : after[side] = [price \in Prices |-> after[side][price]]
  <2>1. \A side \in Actions : book[side] = [price \in Prices |-> book[side][price]]
    BY DEF Books
  <2> HIDE DEF after
  <2> QED BY <1>3, <2>1
<1>5. after = [side \in Actions |-> [price \in Prices |-> after[side][price]]]
  <2> HIDE DEF after
  <2> QED BY <1>3, <1>4
<1>6. \A price \in Prices : after[opposite][price] = QueueLeft(book, order, price)
  <2> HIDE DEF after
  <2> QED BY <1>3
<1> HIDE DEF after, opposite
<1> QED BY <1>2, <1>3, <1>5, <1>6 DEF opposite

\* What a match leaves of a book is what it leaves without the head.
LEMMA MatchPopped ==
    ASSUME NEW ids, NEW owners, NEW book \in Books(ids, owners),
           NEW order, NEW price, Meets(book, order, price),
           NEW next, Proceeds(next, order, book, price)
    PROVE  Match(book, order).book =
               Match(Popped(book, Opposite(order.action), price), next).book
<1> DEFINE side == Opposite(order.action)
           popped == Popped(book, side, price)
           a == Match(book, order).book
           b == Match(popped, next).book
<1>1. /\ side \in Actions /\ Opposite(next.action) = side /\ price \in Prices
      /\ book[side][price] # <<>> /\ IsTaker(order) /\ IsTaker(next)
  BY InstrumentFacts DEF Meets, IsTaker, SameButQuantity, Proceeds
<1>2. /\ popped \in Books(ids, owners)
      /\ \A s \in Actions : s # side => popped[s] = book[s]
  <2>1. popped \in Books(ids, owners)
    BY <1>1, PoppedBook
  <2> QED BY <1>1, <2>1 DEF Popped, Books
<1>3. \A p \in Prices : QueueLeft(popped, next, p) = QueueLeft(book, order, p)
  BY QueueLeftPopped
<1>4. /\ \A p \in Prices : a[side][p] = QueueLeft(book, order, p)
      /\ \A s \in Actions : s # side => a[s] = book[s]
      /\ a = [s \in Actions |-> [p \in Prices |-> a[s][p]]]
  BY <1>1, MatchBook
<1> HIDE DEF popped
<1>5. /\ \A p \in Prices : b[side][p] = QueueLeft(popped, next, p)
      /\ \A s \in Actions : s # side => b[s] = popped[s]
      /\ b = [s \in Actions |-> [p \in Prices |-> b[s][p]]]
  BY <1>1, <1>2, MatchBook
<1>6. \A s \in Actions, p \in Prices : a[s][p] = b[s][p]
  <2> HIDE DEF a, b
  <2> SUFFICES ASSUME NEW s \in Actions, NEW p \in Prices PROVE a[s][p] = b[s][p]
    OBVIOUS
  <2>1. CASE s = side
    BY <2>1, <1>3, <1>4, <1>5
  <2>2. CASE s # side
    BY <2>2, <1>2, <1>4, <1>5
  <2> QED BY <2>1, <2>2
<1> HIDE DEF a, b
<1>7. a = b
  BY <1>4, <1>5, <1>6
<1> QED BY <1>7 DEF a, b, popped

\* The places of one price, in order.
LEMMA LevelInOrder ==
    ASSUME NEW ids, NEW owners, NEW book \in Books(ids, owners), NEW side \in Actions,
           NEW price \in Prices
    PROVE  InOrder(side, Places(book, side, {price})) =
               [k \in DOMAIN book[side][price] |-> <<price, k>>]
<1> DEFINE n == Len(book[side][price])
           S == {price} \X (1..n)
           queue == [k \in 1..n |-> <<price, k>>]
<1>1. n \in Nat /\ DOMAIN book[side][price] = 1..n
  BY DEF Books
<1>2. Places(book, side, {price}) = S
  BY <1>1 DEF Places
<1>3. queue \in Bijection(1..n, S)
  <2>1. queue \in [1..n -> S] /\ \A a, b \in 1..n : queue[a] = queue[b] => a = b
    OBVIOUS
  <2>2. \A s \in S : \E k \in 1..n : queue[k] = s
    OBVIOUS
  <2> HIDE DEF queue, S
  <2> QED BY <2>1, <2>2 DEF Bijection, Injection, IsInjective, Surjection
<1>4. IsFiniteSet(S) /\ Cardinality(S) = n
  <2> HIDE DEF S, queue, n
  <2>0. IsFiniteSet(1..n) /\ Cardinality(1..n) = IF 1 > n THEN 0 ELSE n - 1 + 1
    <3>1. 1 \in Int /\ n \in Int
      BY <1>1
    <3> QED BY <3>1, FS_Interval
  <2>1. IsFiniteSet(1..n) /\ Cardinality(1..n) = n
    BY <1>1, <2>0
  <2>2. ExistsBijection(1..n, S)
    BY <1>3 DEF ExistsBijection
  <2> QED BY <2>1, <2>2, FS_Bijection
<1>5. Ordered(side, queue)
  BY <1>1 DEF Ordered, Before
<1>6. queue \in [1..Cardinality(S) -> S]
  BY <1>4
<1>7. S \in SUBSET (Prices \X Nat)
  BY <1>1
<1> HIDE DEF S, queue
<1>8. queue = InOrder(side, S)
  BY <1>4, <1>5, <1>6, <1>7, OrderUnique
<1> QED BY <1>1, <1>2, <1>8 DEF queue

\* A level after a match, if all its orders stay.
LevelLeft(book, order, price) ==
    LET queue == book[Opposite(order.action)][price]
    IN  [k \in DOMAIN queue |->
            [id |-> queue[k].id, owner |-> queue[k].owner, price |-> queue[k].price,
             remaining |-> Left(book, order, <<price, k>>)]]

\* A level none of whose orders is used up keeps them all.
LEMMA WholeQueueLeft ==
    ASSUME NEW ids, NEW owners, NEW book \in Books(ids, owners), NEW order, IsTaker(order),
           NEW price \in Prices,
           \A place \in Places(book, Opposite(order.action), {price}) : Left(book, order, place) > 0
    PROVE  QueueLeft(book, order, price) = LevelLeft(book, order, price)
<1> DEFINE side == Opposite(order.action)
           S == {place \in Places(book, side, {price}) : Left(book, order, place) > 0}
           queue == book[side][price]
           kept == [k \in DOMAIN queue |-> <<price, k>>]
<1>1. side \in Actions
  BY InstrumentFacts DEF IsTaker
<1>2. S = Places(book, side, {price})
  OBVIOUS
<1>3. InOrder(side, S) = kept
  <2> HIDE DEF S, side
  <2> QED BY <1>1, <1>2, LevelInOrder
<1>4. QueueLeft(book, order, price) =
         [k \in DOMAIN kept |->
            [id |-> OrderAt(book, side, kept[k]).id, owner |-> OrderAt(book, side, kept[k]).owner,
             price |-> OrderAt(book, side, kept[k]).price,
             remaining |-> Left(book, order, kept[k])]]
  <2> HIDE DEF kept
  <2> QED BY <1>3 DEF QueueLeft
<1>5. DOMAIN kept = DOMAIN queue /\ \A k \in DOMAIN queue : kept[k] = <<price, k>>
  OBVIOUS
<1>6. \A k \in DOMAIN queue : OrderAt(book, side, kept[k]) = queue[k]
  BY DEF OrderAt
<1> HIDE DEF kept
<1> QED BY <1>4, <1>5, <1>6 DEF LevelLeft

\* A taker that touches nothing changes nothing.
LEMMA MatchNothing ==
    ASSUME NEW ids, NEW owners, NEW book \in Books(ids, owners), NEW order, IsTaker(order),
           Touched(book, order) = {}
    PROVE  Match(book, order).book = book /\ Match(book, order).fills = <<>>
<1> DEFINE side == Opposite(order.action)
           a == Match(book, order).book
<1>1. side \in Actions
  BY InstrumentFacts DEF IsTaker
<1>2. /\ \A p \in Prices : a[side][p] = QueueLeft(book, order, p)
      /\ \A s \in Actions : s # side => a[s] = book[s]
      /\ a = [s \in Actions |-> [p \in Prices |-> a[s][p]]]
  BY MatchBook
<1>3. ASSUME NEW p \in Prices
      PROVE  a[side][p] = book[side][p]
  <2> DEFINE queue == book[side][p]
             left == [k \in DOMAIN queue |->
                        [id |-> queue[k].id, owner |-> queue[k].owner, price |-> queue[k].price,
                         remaining |-> Left(book, order, <<p, k>>)]]
  <2>1. \A place \in Places(book, side, {p}) :
            /\ Left(book, order, place) = OrderAt(book, side, place).remaining
            /\ OrderAt(book, side, place) \in RestingEntries(ids, owners)
    <3> SUFFICES ASSUME NEW place \in Places(book, side, {p})
                 PROVE  /\ Left(book, order, place) = OrderAt(book, side, place).remaining
                        /\ OrderAt(book, side, place) \in RestingEntries(ids, owners)
      OBVIOUS
    <3>1. OrderAt(book, side, place) \in RestingEntries(ids, owners)
      <4>1. {p} \in SUBSET Prices
        OBVIOUS
      <4> HIDE DEF side
      <4> QED BY <1>1, <4>1, PlaceFacts
    <3>2. Left(book, order, place) = OrderAt(book, side, place).remaining - 0
      BY DEF Left
    <3> QED BY <3>1, <3>2 DEF RestingEntries
  <2>2. \A place \in Places(book, side, {p}) : Left(book, order, place) > 0
    BY <2>1 DEF RestingEntries
  <2>3. QueueLeft(book, order, p) = left
    <3>1. QueueLeft(book, order, p) = LevelLeft(book, order, p)
      BY <2>2, WholeQueueLeft
    <3> QED BY <3>1 DEF LevelLeft
  <2>4. queue \in Seq(RestingEntries(ids, owners))
    BY <1>1 DEF Books
  <2>5. \A k \in DOMAIN queue : left[k] = queue[k]
    <3> SUFFICES ASSUME NEW k \in DOMAIN queue PROVE left[k] = queue[k]
      OBVIOUS
    <3>1. queue[k] \in RestingEntries(ids, owners)
      BY <2>4
    <3>2. <<p, k>> \in Places(book, side, {p})
      BY PlaceIn
    <3>3. OrderAt(book, side, <<p, k>>) = queue[k]
      BY DEF OrderAt
    <3>4. Left(book, order, <<p, k>>) = queue[k].remaining
      BY <2>1, <3>2, <3>3
    <3> QED BY <3>1, <3>4 DEF RestingEntries
  <2>6. queue = [k \in DOMAIN queue |-> queue[k]] /\ left = [k \in DOMAIN queue |-> left[k]]
    BY <2>4
  <2> HIDE DEF left, queue
  <2>7. left = queue
    BY <2>5, <2>6
  <2> QED BY <1>2, <2>3, <2>7 DEF queue
<1>4. book = [s \in Actions |-> [p \in Prices |-> book[s][p]]]
  BY DEF Books
<1>5. \A s \in Actions, p \in Prices : a[s][p] = book[s][p]
  <2> HIDE DEF a
  <2> SUFFICES ASSUME NEW s \in Actions, NEW p \in Prices PROVE a[s][p] = book[s][p]
    OBVIOUS
  <2>1. CASE s = side
    BY <2>1, <1>3
  <2>2. CASE s # side
    BY <2>2, <1>2
  <2> QED BY <2>1, <2>2
<1>6. a = book
  <2> HIDE DEF a
  <2> QED BY <1>2, <1>4, <1>5
<1>7. Fills(book, order) = <<>>
  <2>1. Traded(book, order) = {}
    BY DEF Traded
  <2> DEFINE none == {}
             queue == InOrder(side, none)
  <2>2. IsFiniteSet(none) /\ Cardinality(none) = 0
    BY FS_EmptySet
  <2>3. none \in SUBSET (Prices \X Nat)
    OBVIOUS
  <2>4. queue \in [1..0 -> none]
    <3> HIDE DEF none
    <3> QED BY <1>1, <2>2, <2>3, InOrderFacts
  <2>5. Fills(book, order) = [k \in DOMAIN queue |-> FillAt(book, order, queue[k])]
    BY <2>1, FillsAre
  <2>6. DOMAIN queue = 1..0
    BY <2>4
  <2> DEFINE made == [k \in DOMAIN queue |-> FillAt(book, order, queue[k])]
  <2> HIDE DEF queue
  <2>7. made \in Seq({}) /\ Len(made) = 0
    BY <2>6
  <2> HIDE DEF made
  <2>8. made = <<>>
    BY <2>7
  <2> QED BY <2>5, <2>8 DEF made
<1>8. Match(book, order).fills = Fills(book, order)
  BY DEF Match
<1> QED BY <1>6, <1>7, <1>8

\* A taker that wants less than the first order offers.
Satisfies(book, order, price) ==
    LET maker == book[Opposite(order.action)][price][1]
    IN  maker.owner # order.owner /\ order.quantity < maker.remaining

\* The head of a queue loses a part.
HeadReduced(book, side, price, quantity) ==
    [book EXCEPT ![side][price][1].remaining = @ - quantity]

\* It touches that order only, and gets all it wants.
LEMMA OnlyHeadTouched ==
    ASSUME NEW ids, NEW owners, NEW book \in Books(ids, owners),
           NEW order, NEW price, Meets(book, order, price), Satisfies(book, order, price)
    PROVE  /\ Touched(book, order) = {<<price, 1>>}
           /\ ~Own(book, order, <<price, 1>>)
           /\ Taken(book, order, <<price, 1>>) = order.quantity
<1> DEFINE side == Opposite(order.action)
           head == <<price, 1>>
           maker == book[side][price][1]
<1>1. /\ side \in Actions /\ IsTaker(order) /\ order.quantity \in Nat /\ order.quantity > 0
  BY InstrumentFacts DEF Meets, IsTaker
<1>2. /\ OrderAt(book, side, head) = maker /\ maker \in RestingEntries(ids, owners)
      /\ maker.owner # order.owner /\ order.quantity < maker.remaining
      /\ maker.remaining \in Nat
  <2>1. OrderAt(book, side, head) = maker /\ maker \in RestingEntries(ids, owners)
    BY HeadEntry
  <2> QED BY <2>1 DEF Satisfies, RestingEntries
<1>3. head \in Touched(book, order) /\ Ahead(book, order, head) = 0
  BY NothingAheadOfHead
<1>4. ~Own(book, order, head)
  BY <1>2 DEF Own
<1>5. /\ Reached(book, order) \subseteq Places(book, side, Prices)
      /\ head \in Reached(book, order)
      /\ \A place \in Places(book, side, Prices) : place # head => Before(side, head, place)
  <2>1. Reached(book, order) \subseteq Places(book, side, Prices)
    BY <1>1, TakerReach
  <2> QED BY <2>1, HeadFirst
<1>6. ASSUME NEW place \in Touched(book, order), place # head
      PROVE  FALSE
  <2> DEFINE others == {other \in Reached(book, order) :
                            Before(side, other, place) /\ ~Own(book, order, other)}
             f == [other \in others |-> OrderAt(book, side, other).remaining]
  <2>1. place \in Reached(book, order) /\ Ahead(book, order, place) < order.quantity
    BY <1>6 DEF Touched
  <2>2. head \in others
    BY <1>4, <1>5, <1>6, <2>1
  <2>3. others \in SUBSET Places(book, side, Prices)
    BY <1>5
  <2>4. Ahead(book, order, place) = Offered(book, side, others)
    BY DEF Ahead
  <2>5. IsFiniteSet(others) /\ \A other \in others : OrderAt(book, side, other) \in RestingEntries(ids, owners)
    <3> HIDE DEF others
    <3> QED BY <1>1, <2>3, PlaceFacts, FS_Subset
  <2>6. \A other \in others : f[other] \in Nat
    BY <2>5 DEF RestingEntries
  <2>7. f[head] = maker.remaining
    BY <1>2, <2>2
  <2>8. Offered(book, side, others) = SumFunctionOnSet(f, others)
    BY SumOfFunction DEF Offered
  <2> HIDE DEF others, f
  <2>9. f[head] <= SumFunctionOnSet(f, others) /\ SumFunctionOnSet(f, others) \in Nat
    BY <2>2, <2>5, <2>6, SumNat
  <2> QED BY <1>1, <1>2, <2>1, <2>4, <2>7, <2>8, <2>9
<1>7. Taken(book, order, head) = order.quantity
  BY <1>1, <1>2, <1>3, <1>4 DEF Taken
<1> HIDE DEF head
<1>8. Touched(book, order) = {head}
  BY <1>3, <1>6
<1> QED BY <1>4, <1>7, <1>8 DEF head

\* The head of the queue keeps what the taker did not want.
LEMMA MatchPartial ==
    ASSUME NEW ids, NEW owners, NEW book \in Books(ids, owners),
           NEW order, NEW price, Meets(book, order, price), Satisfies(book, order, price)
    PROVE  LET side == Opposite(order.action)
               maker == book[side][price][1]
           IN  /\ Match(book, order).book = HeadReduced(book, side, price, order.quantity)
               /\ Match(book, order).fills =
                     <<[maker |-> maker.id, owner |-> maker.owner, price |-> price,
                        quantity |-> order.quantity]>>
<1> DEFINE side == Opposite(order.action)
           head == <<price, 1>>
           maker == book[side][price][1]
           a == Match(book, order).book
           b == HeadReduced(book, side, price, order.quantity)
           entry == [maker EXCEPT !.remaining = @ - order.quantity]
<1>1. /\ side \in Actions /\ IsTaker(order) /\ order.quantity \in Nat /\ order.quantity > 0
      /\ price \in Prices /\ book[side][price] # <<>>
  BY InstrumentFacts DEF Meets, IsTaker
<1>2. /\ OrderAt(book, side, head) = maker /\ maker \in RestingEntries(ids, owners)
      /\ maker.owner # order.owner /\ order.quantity < maker.remaining
      /\ maker.remaining \in Nat
  <2>1. OrderAt(book, side, head) = maker /\ maker \in RestingEntries(ids, owners)
    BY HeadEntry
  <2> QED BY <2>1 DEF Satisfies, RestingEntries
<1>3. /\ Touched(book, order) = {head} /\ ~Own(book, order, head)
      /\ Taken(book, order, head) = order.quantity
  BY OnlyHeadTouched
<1>4. /\ \A p \in Prices : a[side][p] = QueueLeft(book, order, p)
      /\ \A s \in Actions : s # side => a[s] = book[s]
      /\ a = [s \in Actions |-> [p \in Prices |-> a[s][p]]]
  BY <1>1, MatchBook
<1>5. \A s \in Actions, p \in Prices :
          book[s][p] \in Seq(RestingEntries(ids, owners))
  BY DEF Books
<1>6. /\ b[side][price] = [book[side][price] EXCEPT ![1] = entry]
      /\ \A s \in Actions, p \in Prices : s # side \/ p # price => b[s][p] = book[s][p]
      /\ b = [s \in Actions |-> [p \in Prices |-> b[s][p]]]
  BY <1>1 DEF HeadReduced, Books
<1>7. ASSUME NEW p \in Prices
      PROVE  a[side][p] = b[side][p]
  <2> DEFINE queue == book[side][p]
             left == [k \in DOMAIN queue |->
                        [id |-> queue[k].id, owner |-> queue[k].owner, price |-> queue[k].price,
                         remaining |-> Left(book, order, <<p, k>>)]]
  <2>1. queue \in Seq(RestingEntries(ids, owners))
    BY <1>1, <1>5
  <2>2. ASSUME NEW place \in Places(book, side, {p})
        PROVE  /\ OrderAt(book, side, place).remaining \in Nat \ {0}
               /\ Left(book, order, place) =
                     IF place = head THEN maker.remaining - order.quantity
                     ELSE OrderAt(book, side, place).remaining
    <3>1. OrderAt(book, side, place) \in RestingEntries(ids, owners)
      <4>1. {p} \in SUBSET Prices
        OBVIOUS
      <4> HIDE DEF side
      <4> QED BY <1>1, <4>1, PlaceFacts
    <3>2. OrderAt(book, side, place).remaining \in Nat \ {0}
      BY <3>1 DEF RestingEntries
    <3> HIDE DEF head
    <3>3. CASE place = head
      BY <1>2, <1>3, <3>2, <3>3 DEF Left
    <3>4. CASE place # head
      BY <1>3, <3>2, <3>4 DEF Left
    <3> QED BY <3>2, <3>3, <3>4
  <2>3. \A place \in Places(book, side, {p}) : Left(book, order, place) > 0
    <3> HIDE DEF head
    <3> QED BY <1>1, <1>2, <2>2
  <2>4. QueueLeft(book, order, p) = left
    <3>1. QueueLeft(book, order, p) = LevelLeft(book, order, p)
      BY <1>1, <2>3, WholeQueueLeft
    <3> QED BY <3>1 DEF LevelLeft
  <2>5. \A k \in DOMAIN queue : left[k] = IF p = price /\ k = 1 THEN entry ELSE queue[k]
    <3> SUFFICES ASSUME NEW k \in DOMAIN queue
                 PROVE left[k] = IF p = price /\ k = 1 THEN entry ELSE queue[k]
      OBVIOUS
    <3>1. queue[k] \in RestingEntries(ids, owners)
      BY <2>1
    <3>2. <<p, k>> \in Places(book, side, {p})
      BY PlaceIn
    <3>3. OrderAt(book, side, <<p, k>>) = queue[k]
      BY DEF OrderAt
    <3>4. Left(book, order, <<p, k>>) =
              IF p = price /\ k = 1 THEN maker.remaining - order.quantity ELSE queue[k].remaining
      <4>1. <<p, k>> = head <=> p = price /\ k = 1
        OBVIOUS
      <4> QED BY <2>2, <3>2, <3>3, <4>1
    <3>5. left[k] = [id |-> queue[k].id, owner |-> queue[k].owner, price |-> queue[k].price,
                     remaining |-> Left(book, order, <<p, k>>)]
      OBVIOUS
    <3>6. CASE p = price /\ k = 1
      <4>1. queue[k] = maker
        BY <3>6
      <4>2. entry = [id |-> maker.id, owner |-> maker.owner, price |-> maker.price,
                     remaining |-> maker.remaining - order.quantity]
        <5> HIDE DEF maker
        <5> QED BY <1>2 DEF RestingEntries
      <4> QED BY <3>4, <3>5, <3>6, <4>1, <4>2
    <3>7. CASE ~(p = price /\ k = 1)
      <4>1. left[k] = [id |-> queue[k].id, owner |-> queue[k].owner, price |-> queue[k].price,
                       remaining |-> queue[k].remaining]
        BY <3>4, <3>5, <3>7
      <4>2. queue[k] = [id |-> queue[k].id, owner |-> queue[k].owner, price |-> queue[k].price,
                       remaining |-> queue[k].remaining]
        BY <3>1 DEF RestingEntries
      <4> QED BY <3>7, <4>1, <4>2
    <3> QED BY <3>6, <3>7
  <2>6. left = [k \in DOMAIN queue |-> left[k]]
    OBVIOUS
  <2>7. \A k \in DOMAIN queue : b[side][p][k] = IF p = price /\ k = 1 THEN entry ELSE queue[k]
    <3> HIDE DEF b, entry, maker
    <3>1. CASE p = price
      BY <1>1, <1>6, <2>1, <3>1
    <3>2. CASE p # price
      BY <1>1, <1>6, <2>1, <3>2
    <3> QED BY <3>1, <3>2
  <2>8. b[side][p] = [k \in DOMAIN queue |-> b[side][p][k]]
    <3> HIDE DEF b, entry, maker
    <3>1. CASE p = price
      BY <1>1, <1>6, <2>1, <3>1
    <3>2. CASE p # price
      BY <1>1, <1>6, <2>1, <3>2
    <3> QED BY <3>1, <3>2
  <2> HIDE DEF left, queue, entry, b, a, maker
  <2>9. left = b[side][p]
    BY <2>5, <2>6, <2>7, <2>8
  <2> QED BY <1>4, <2>4, <2>9
<1>8. \A s \in Actions, p \in Prices : a[s][p] = b[s][p]
  <2> HIDE DEF a, b, entry, side
  <2> SUFFICES ASSUME NEW s \in Actions, NEW p \in Prices PROVE a[s][p] = b[s][p]
    OBVIOUS
  <2>1. CASE s = side
    BY <2>1, <1>7
  <2>2. CASE s # side
    <3>1. a[s] = book[s]
      BY <1>4, <2>2
    <3>2. b[s][p] = book[s][p]
      BY <1>6, <2>2
    <3> QED BY <3>1, <3>2
  <2> QED BY <2>1, <2>2
<1>9. a = b
  <2> HIDE DEF a, b
  <2> QED BY <1>4, <1>6, <1>8
<1>10. Fills(book, order) = <<[maker |-> maker.id, owner |-> maker.owner, price |-> price,
                               quantity |-> order.quantity]>>
  <2> DEFINE only == {head}
             queue == InOrder(side, only)
             fill == FillAt(book, order, head)
             made == [k \in DOMAIN queue |-> FillAt(book, order, queue[k])]
  <2>1. Traded(book, order) = only
    BY <1>3 DEF Traded
  <2>2. IsFiniteSet(only) /\ Cardinality(only) = 1 /\ only \in SUBSET (Prices \X Nat)
    <3> HIDE DEF head
    <3>1. IsFiniteSet(only) /\ Cardinality(only) = 1
      BY FS_Singleton
    <3>2. head \in Prices \X Nat
      BY <1>1 DEF head
    <3> QED BY <3>1, <3>2
  <2> HIDE DEF head
  <2>3. queue \in [1..1 -> only]
    <3> HIDE DEF only
    <3> QED BY <1>1, <2>2, InOrderFacts
  <2>4. Fills(book, order) = made
    BY <2>1, FillsAre
  <2>5. DOMAIN queue = {1} /\ queue[1] = head
    BY <2>3
  <2> HIDE DEF queue, fill
  <2>6. made \in Seq({fill}) /\ Len(made) = 1 /\ made[1] = fill
    <3>1. made = [k \in 1..1 |-> fill]
      BY <2>5 DEF fill
    <3> HIDE DEF made
    <3> QED BY <3>1
  <2> HIDE DEF made
  <2>7. made = <<fill>>
    BY <2>6
  <2>8. fill = [maker |-> maker.id, owner |-> maker.owner, price |-> price,
                quantity |-> order.quantity]
    BY <1>2, <1>3 DEF fill, FillAt, head
  <2> QED BY <2>4, <2>7, <2>8
<1>11. Match(book, order).fills = Fills(book, order)
  BY DEF Match
<1> HIDE DEF a, b, maker
<1> QED BY <1>9, <1>10, <1>11 DEF a, b, maker

\* What a level offers is the total of its queue.
LEMMA LevelOffers ==
    ASSUME NEW ids, NEW owners, NEW book \in Books(ids, owners), NEW side \in Actions,
           NEW price \in Prices
    PROVE  /\ Offered(book, side, Places(book, side, {price})) = Total(book[side][price])
           /\ Total(book[side][price]) \in Nat
<1> DEFINE queue == book[side][price]
           S == DOMAIN queue
           T == Places(book, side, {price})
           f == Quantities(queue)
           g == [place \in T |-> OrderAt(book, side, place).remaining]
           h == [k \in S |-> <<price, k>>]
<1>1. queue \in Seq(RestingEntries(ids, owners)) /\ S = 1..Len(queue) /\ Len(queue) \in Nat
  BY DEF Books
<1>2. IsFiniteSet(S)
  BY <1>1, FS_Interval
<1>3. \A k \in S : f[k] \in Nat
  <2> SUFFICES ASSUME NEW k \in S PROVE f[k] \in Nat
    OBVIOUS
  <2>1. queue[k] \in RestingEntries(ids, owners)
    BY <1>1
  <2>2. f[k] = queue[k].remaining
    BY DEF Quantities
  <2> HIDE DEF f, queue
  <2> QED BY <2>1, <2>2 DEF RestingEntries
<1>4. T = {price} \X S
  BY DEF Places
<1>5. h \in Bijection(S, T)
  <2>1. h \in [S -> T] /\ \A a, b \in S : h[a] = h[b] => a = b
    BY <1>4
  <2>2. \A t \in T : \E k \in S : h[k] = t
    BY <1>4
  <2> HIDE DEF h, S, T
  <2> QED BY <2>1, <2>2 DEF Bijection, Injection, IsInjective, Surjection
<1>6. \A k \in S : g[h[k]] = f[k]
  <2> SUFFICES ASSUME NEW k \in S PROVE g[h[k]] = f[k]
    OBVIOUS
  <2>1. h[k] = <<price, k>> /\ <<price, k>> \in T
    BY <1>4
  <2>2. g[<<price, k>>] = OrderAt(book, side, <<price, k>>).remaining
    BY <2>1
  <2>3. OrderAt(book, side, <<price, k>>) = queue[k]
    BY DEF OrderAt
  <2> QED BY <2>1, <2>2, <2>3 DEF Quantities
<1>7. Offered(book, side, T) = SumFunctionOnSet(g, T)
  BY SumOfFunction DEF Offered
<1>8. Total(queue) = SumFunctionOnSet(f, S)
  <2>1. DOMAIN f = S
    BY DEF Quantities
  <2> QED BY <2>1, SumOfFunction DEF Total
<1> HIDE DEF f, g, h, T, S
<1>9. SumFunctionOnSet(g, T) = SumFunctionOnSet(f, S)
  <2>1. \A k \in S : f[k] \in Int
    BY <1>3
  <2> QED BY <1>2, <1>5, <1>6, <2>1, SumRenamed
<1>10. SumFunctionOnSet(f, S) \in Nat
  BY <1>2, <1>3, SumNat
<1> QED BY <1>7, <1>8, <1>9, <1>10 DEF T

\* What two sets of places that share nothing offer.
LEMMA OfferedApart ==
    ASSUME NEW ids, NEW owners, NEW book \in Books(ids, owners), NEW side \in Actions,
           NEW S \in SUBSET Places(book, side, Prices),
           NEW T \in SUBSET Places(book, side, Prices), S \cap T = {}
    PROVE  Offered(book, side, S \cup T) = Offered(book, side, S) + Offered(book, side, T)
<1> DEFINE U == S \cup T
           f == [p \in U |-> OrderAt(book, side, p).remaining]
           g == [p \in S |-> OrderAt(book, side, p).remaining]
           h == [p \in T |-> OrderAt(book, side, p).remaining]
<1>1. IsFiniteSet(S) /\ IsFiniteSet(T)
  BY PlaceFacts, FS_Subset
<1>2. \A p \in S \cup T : f[p] \in Int
  BY PlaceFacts DEF RestingEntries
<1>3. Offered(book, side, U) = SumFunctionOnSet(f, U)
  BY SumOfFunction DEF Offered
<1>4. Offered(book, side, S) = SumFunctionOnSet(g, S)
  BY SumOfFunction DEF Offered
<1>5. Offered(book, side, T) = SumFunctionOnSet(h, T)
  BY SumOfFunction DEF Offered
<1>6. (\A p \in S : g[p] = f[p]) /\ (\A p \in T : h[p] = f[p])
  OBVIOUS
<1> HIDE DEF f, g, h
<1>7. SumFunctionOnSet(g, S) = SumFunctionOnSet(f, S)
  BY <1>1, <1>6, SumSame
<1>8. SumFunctionOnSet(h, T) = SumFunctionOnSet(f, T)
  BY <1>1, <1>6, SumSame
<1>9. SumFunctionOnSet(f, S \cup T) = SumFunctionOnSet(f, S) + SumFunctionOnSet(f, T)
  BY <1>1, <1>2, SumApart
<1> QED BY <1>3, <1>4, <1>5, <1>7, <1>8, <1>9

\* What some levels offer is the sum of their totals.
LEMMA LevelsOffer ==
    ASSUME NEW ids, NEW owners, NEW book \in Books(ids, owners), NEW side \in Actions,
           NEW prices \in SUBSET Prices, NEW total, \A p \in Prices : total[p] = Total(book[side][p])
    PROVE  Offered(book, side, Places(book, side, prices)) = SumFunctionOnSet(total, prices)
<1> DEFINE Bad == {s \in SUBSET prices :
                      Offered(book, side, Places(book, side, s)) # SumFunctionOnSet(total, s)}
<1>0. \A p \in Prices : total[p] \in Int
  <2> SUFFICES ASSUME NEW p \in Prices PROVE total[p] \in Int
    OBVIOUS
  <2>1. Total(book[side][p]) \in Nat
    BY LevelOffers
  <2> QED BY <2>1
<1>1. IsFiniteSet(prices)
  <2>1. IsFiniteSet(Prices)
    BY InstrumentFacts, FS_Interval DEF Prices, PriceMin
  <2> QED BY <2>1, FS_Subset
<1>2. ASSUME Bad # {}
      PROVE  FALSE
  <2>1. PICK s \in Bad : IsFiniteSet(s) /\ \A t \in Bad : ~(t \subseteq s /\ t # s)
    <3>1. Bad \in SUBSET (SUBSET prices)
      OBVIOUS
    <3> HIDE DEF Bad
    <3> QED BY <3>1, <1>1, <1>2, MinimalSubset
  <2>2. s # {}
    <3>1. SUFFICES ASSUME s = {} PROVE FALSE
      OBVIOUS
    <3>2. Places(book, side, {}) = {}
      BY DEF Places
    <3> DEFINE f == [place \in {} |-> OrderAt(book, side, place).remaining]
    <3>3. Offered(book, side, {}) = SumFunctionOnSet(f, {})
      BY SumOfFunction DEF Offered
    <3> HIDE DEF f
    <3>4. SumFunctionOnSet(f, {}) = 0 /\ SumFunctionOnSet(total, {}) = 0
      BY SumEmpty
    <3> QED BY <2>1, <3>1, <3>2, <3>3, <3>4
  <2>3. PICK p \in s : TRUE
    BY <2>2
  <2> DEFINE t == s \ {p}
             only == {p}
  <2>4. t \in SUBSET prices /\ t \notin Bad /\ p \in Prices
    BY <2>1, <2>3
  <2>5. Offered(book, side, Places(book, side, t)) = SumFunctionOnSet(total, t)
    BY <2>4
  <2>6. /\ Places(book, side, s) = Places(book, side, t) \cup Places(book, side, only)
        /\ Places(book, side, t) \cap Places(book, side, only) = {}
    <3>1. s = t \cup only
      BY <2>3
    <3>2. Places(book, side, s) = Places(book, side, t) \cup Places(book, side, only)
      BY <3>1 DEF Places
    <3>3. ASSUME NEW place \in Places(book, side, t), place \in Places(book, side, only)
          PROVE  FALSE
      <4>1. place[1] \in t /\ place[1] \in only
        BY <3>3 DEF Places
      <4> QED BY <4>1
    <3> QED BY <3>2, <3>3
  <2>7. /\ Places(book, side, t) \in SUBSET Places(book, side, Prices)
        /\ Places(book, side, only) \in SUBSET Places(book, side, Prices)
    BY <2>4 DEF Places
  <2>8. Offered(book, side, Places(book, side, only)) = total[p]
    BY <2>4, LevelOffers
  <2> HIDE DEF t, only
  <2>9. Offered(book, side, Places(book, side, t) \cup Places(book, side, only)) =
            Offered(book, side, Places(book, side, t)) + Offered(book, side, Places(book, side, only))
    BY <2>6, <2>7, OfferedApart
  <2>10. SumFunctionOnSet(total, s) = total[p] + SumFunctionOnSet(total, t)
    <3>1. \A q \in s : total[q] \in Int
      BY <1>0, <2>1
    <3> QED BY <2>1, <2>3, <3>1, SumRemove DEF t
  <2>11. total[p] \in Int /\ SumFunctionOnSet(total, t) \in Int
    <3>1. \A q \in t : total[q] \in Int
      BY <1>0, <2>4
    <3>2. IsFiniteSet(t)
      BY <1>1, <2>4, FS_Subset
    <3> QED BY <1>0, <2>4, <3>1, <3>2, SumInt
  <2>12. SumFunctionOnSet(total, s) = Offered(book, side, Places(book, side, s))
    BY <2>5, <2>6, <2>8, <2>9, <2>10, <2>11
  <2> QED BY <2>1, <2>12
<1> QED BY <1>2

\* The fills of a match, one more at a time.
LEMMA FilledAppend ==
    ASSUME NEW S, NEW fills \in Seq(S), NEW fill \in S, \A f \in S : f.quantity \in Int
    PROVE  /\ Filled(fills) \in Int
           /\ Filled(Append(fills, fill)) = Filled(fills) + fill.quantity
<1> DEFINE n == Len(fills)
           longer == Append(fills, fill)
           f == [i \in DOMAIN fills |-> fills[i].quantity]
           g == [i \in DOMAIN longer |-> longer[i].quantity]
<1>1. /\ n \in Nat /\ DOMAIN fills = 1..n /\ longer \in Seq(S) /\ DOMAIN longer = 1..(n + 1)
      /\ longer[n + 1] = fill /\ \A i \in 1..n : longer[i] = fills[i]
  OBVIOUS
<1>2. \A i \in 1..n : fills[i] \in S
  BY <1>1
<1>3. DOMAIN f = 1..n /\ \A i \in 1..n : f[i] \in Int /\ f[i] = fills[i].quantity
  BY <1>1, <1>2
<1> HIDE DEF longer
<1>4. /\ DOMAIN g = 1..(n + 1) /\ g[n + 1] = fill.quantity
      /\ \A i \in 1..n : f[i] = g[i]
      /\ \A i \in (1..n) \cup {n + 1} : g[i] \in Int
  BY <1>1, <1>2, <1>3
<1>5. Filled(fills) = SumFunctionOnSet(f, 1..n) /\ Filled(longer) = SumFunctionOnSet(g, 1..(n + 1))
  BY <1>3, <1>4, SumOfFunction DEF Filled
<1> HIDE DEF f, g, n
<1>6. IsFiniteSet(1..n) /\ 1..(n + 1) = (1..n) \cup {n + 1} /\ n + 1 \notin 1..n
  <2>1. IsFiniteSet(1..n)
    BY <1>1, FS_Interval
  <2>2. 1..(n + 1) = (1..n) \cup {n + 1} /\ n + 1 \notin 1..n
    BY <1>1
  <2> QED BY <2>1, <2>2
<1>7. SumFunctionOnSet(f, 1..n) \in Int
  BY <1>3, <1>6, SumInt
<1>8. SumFunctionOnSet(g, (1..n) \cup {n + 1}) = g[n + 1] + SumFunctionOnSet(g, 1..n)
  BY <1>4, <1>6, SumAdd
<1>9. SumFunctionOnSet(f, 1..n) = SumFunctionOnSet(g, 1..n)
  BY <1>4, <1>6, SumSame
<1>10. fill.quantity \in Int
  OBVIOUS
<1>11. SumFunctionOnSet(g, 1..(n + 1)) = fill.quantity + SumFunctionOnSet(f, 1..n)
  BY <1>4, <1>6, <1>8, <1>9
<1> QED BY <1>5, <1>7, <1>10, <1>11 DEF longer
----------------------------------------------------------------------------
(***************************************************************************)
(* What a match leaves: nothing but its fills and its owner's orders goes. *)
(***************************************************************************)
\* What the fills trade is what the places traded lose.
LEMMA FilledTaken ==
    ASSUME NEW ids, NEW owners, NEW book \in Books(ids, owners),
           NEW order \in EngineOrders(ids, owners)
    PROVE  LET taken == [place \in Traded(book, order) |-> Taken(book, order, place)]
           IN  /\ IsFiniteSet(Traded(book, order))
               /\ \A place \in Traded(book, order) : taken[place] \in Nat \ {0}
               /\ Filled(Fills(book, order)) = SumFunctionOnSet(taken, Traded(book, order))
<1> DEFINE side == Opposite(order.action)
           places == Traded(book, order)
           traded == InOrder(side, places)
           n == Cardinality(places)
           fills == Fills(book, order)
           taken == [place \in places |-> Taken(book, order, place)]
           f == [k \in DOMAIN fills |-> fills[k].quantity]
<1>1. side \in Actions
  BY ReachedFacts
<1>2. places \subseteq Reached(book, order) /\ places \subseteq Touched(book, order)
  BY TakenFacts DEF Traded
<1>3. IsFiniteSet(places) /\ places \in SUBSET (Prices \X Nat)
  BY <1>2, ReachedFacts, FS_Subset
<1>4. \A place \in places : taken[place] \in Nat \ {0}
  BY <1>2, TakenFacts
<1>5. /\ traded \in [1..n -> places] /\ n \in Nat
      /\ \A i, j \in 1..n : traded[i] = traded[j] => i = j
      /\ \A a \in places : \E i \in 1..n : traded[i] = a
  <2> HIDE DEF side, places
  <2> QED BY <1>1, <1>3, InOrderFacts
<1>6. fills = [k \in DOMAIN traded |-> FillAt(book, order, traded[k])]
  BY FillsAre
<1>7. DOMAIN traded = 1..n
  BY <1>5
<1> HIDE DEF side, places, traded, fills
<1>8. DOMAIN fills = 1..n /\ \A k \in 1..n : fills[k].quantity = Taken(book, order, traded[k])
  BY <1>6, <1>7 DEF FillAt
<1>9. \A k \in 1..n : taken[traded[k]] = f[k] /\ f[k] \in Int
  BY <1>4, <1>5, <1>8
<1>10. traded \in Bijection(1..n, places)
  BY <1>5 DEF Bijection, Injection, Surjection, IsInjective
<1>11. IsFiniteSet(1..n)
  BY <1>5, FS_Interval
<1>12. Filled(fills) = SumFunctionOnSet(f, 1..n)
  <2>1. Filled(fills) = SumFunction(f)
    BY DEF Filled
  <2>2. DOMAIN f = 1..n
    BY <1>8
  <2> HIDE DEF f
  <2> QED BY <2>1, <2>2, SumOfFunction
<1> HIDE DEF f, taken, n
<1>13. SumFunctionOnSet(taken, places) = SumFunctionOnSet(f, 1..n)
  <2> DEFINE S == 1..n
  <2>1. \A k \in S : f[k] \in Int
    BY <1>9
  <2>2. \A k \in S : taken[traded[k]] = f[k]
    BY <1>9
  <2>3. IsFiniteSet(S) /\ traded \in Bijection(S, places)
    BY <1>10, <1>11
  <2> HIDE DEF S
  <2>4. SumFunctionOnSet(taken, places) = SumFunctionOnSet(f, S)
    BY <2>1, <2>2, <2>3, SumRenamed
  <2> QED BY <2>4 DEF S
<1> QED BY <1>3, <1>4, <1>12, <1>13 DEF taken, places, fills

\* A taker gets no more than it asks for.
LEMMA FilledWithin ==
    ASSUME NEW ids, NEW owners, NEW book \in Books(ids, owners),
           NEW order \in EngineOrders(ids, owners)
    PROVE  Filled(Fills(book, order)) <= order.quantity
<1> DEFINE side == Opposite(order.action)
           places == Traded(book, order)
           taken == [place \in places |-> Taken(book, order, place)]
<1>1. /\ side \in Actions /\ order.quantity \in Nat
      /\ Reached(book, order) \subseteq Places(book, side, Prices)
      /\ Reached(book, order) \subseteq Prices \X Nat
  BY ReachedFacts DEF EngineOrders
<1>2. /\ IsFiniteSet(places) /\ \A place \in places : taken[place] \in Nat \ {0}
      /\ Filled(Fills(book, order)) = SumFunctionOnSet(taken, places)
  BY FilledTaken
<1>3. places \subseteq Reached(book, order) /\ places \subseteq Touched(book, order)
      /\ \A place \in places : ~Own(book, order, place)
  BY TakenFacts DEF Traded
<1>4. CASE places = {}
  BY <1>1, <1>2, <1>4, SumEmpty
<1>5. CASE places # {}
  <2>1. places \in SUBSET (Prices \X Nat)
    BY <1>1, <1>3
  <2>2. PICK last \in places : \A a \in places : a # last => Before(side, a, last)
    <3> HIDE DEF places, side
    <3> QED BY <1>1, <1>2, <1>5, <2>1, LastPlace
  <2> DEFINE rest == places \ {last}
             ahead == {other \in Reached(book, order) : Before(side, other, last) /\ ~Own(book, order, other)}
             remaining == [place \in ahead |-> OrderAt(book, side, place).remaining]
  <2>3. rest \in SUBSET ahead /\ ahead \in SUBSET Places(book, side, Prices)
    BY <1>1, <1>3, <2>2
  <2>4. Ahead(book, order, last) = Offered(book, side, ahead)
    BY DEF Ahead
  <2>5. IsFiniteSet(ahead) /\ \A place \in ahead : remaining[place] \in Nat
    <3>1. IsFiniteSet(ahead)
      BY ReachedFacts, FS_Subset
    <3>2. \A place \in ahead : OrderAt(book, side, place) \in RestingEntries(ids, owners)
      BY ReachedFacts
    <3> HIDE DEF ahead, side
    <3> QED BY <3>1, <3>2 DEF RestingEntries
  <2>6. /\ Ahead(book, order, last) \in Nat
        /\ Ahead(book, order, last) = SumFunctionOnSet(remaining, ahead)
    <3> HIDE DEF side, ahead
    <3> QED BY <1>1, <2>3, <2>4, OfferedNat
  <2>7. \A place \in rest : taken[place] <= remaining[place]
    BY <1>3, <2>3, TakenFacts
  <2>8. taken[last] <= order.quantity - Ahead(book, order, last)
    <3>1. OrderAt(book, side, last) \in RestingEntries(ids, owners)
      BY <1>3, <2>2, ReachedFacts
    <3>2. ~Own(book, order, last)
      BY <1>3, <2>2
    <3>3. OrderAt(book, side, last).remaining \in Nat
      BY <3>1 DEF RestingEntries
    <3> QED BY <1>1, <2>6, <3>2, <3>3 DEF Taken
  <2>9. SumFunctionOnSet(taken, places) = taken[last] + SumFunctionOnSet(taken, rest)
    <3>1. \A place \in places : taken[place] \in Int
      BY <1>2
    <3> HIDE DEF taken, places
    <3> QED BY <1>2, <3>1, <2>2, SumRemove
  <2>10. SumFunctionOnSet(taken, rest) <= SumFunctionOnSet(remaining, rest)
    <3>1. IsFiniteSet(rest)
      BY <1>2, FS_Subset
    <3>2. \A place \in rest : taken[place] \in Int /\ remaining[place] \in Int
      BY <1>2, <2>3, <2>5
    <3> HIDE DEF taken, rest, remaining
    <3> QED BY <3>1, <3>2, <2>7, SumLess
  <2>11. SumFunctionOnSet(remaining, rest) <= SumFunctionOnSet(remaining, ahead)
    <3> HIDE DEF rest, ahead, remaining
    <3> QED BY <2>3, <2>5, SumSubset
  <2>12. /\ SumFunctionOnSet(taken, rest) \in Int /\ SumFunctionOnSet(remaining, rest) \in Int
         /\ taken[last] \in Int
    <3>1. IsFiniteSet(rest)
      BY <1>2, FS_Subset
    <3>2. \A place \in rest : taken[place] \in Int /\ remaining[place] \in Int
      BY <1>2, <2>3, <2>5
    <3>3. taken[last] \in Int
      BY <1>2, <2>2
    <3> HIDE DEF taken, rest, remaining
    <3> QED BY <3>1, <3>2, <3>3, SumInt
  <2> HIDE DEF taken, rest, remaining, ahead, places
  <2> QED BY <1>1, <1>2, <2>6, <2>8, <2>9, <2>10, <2>11, <2>12
<1> QED BY <1>4, <1>5

\* What is left at a price is in its queue.
LEMMA QueueLeftKeeps ==
    ASSUME NEW ids, NEW owners, NEW book \in Books(ids, owners),
           NEW order \in EngineOrders(ids, owners), NEW price \in Prices,
           NEW j \in DOMAIN book[Opposite(order.action)][price],
           Left(book, order, <<price, j>>) > 0
    PROVE  LET queue == QueueLeft(book, order, price)
           IN  \E k \in DOMAIN queue :
                  /\ queue[k].id = book[Opposite(order.action)][price][j].id
                  /\ queue[k].remaining = Left(book, order, <<price, j>>)
<1> DEFINE side == Opposite(order.action)
           places == {place \in Places(book, side, {price}) : Left(book, order, place) > 0}
           kept == InOrder(side, places)
           n == Cardinality(places)
           place == <<price, j>>
<1>1. side \in Actions
  BY ReachedFacts
<1>2. IsFiniteSet(places) /\ places \in SUBSET (Prices \X Nat)
  <2>1. {price} \in SUBSET Prices
    OBVIOUS
  <2>2. IsFiniteSet(Places(book, side, {price})) /\ Places(book, side, {price}) \subseteq Prices \X Nat
    <3> HIDE DEF side
    <3> QED BY <1>1, <2>1, PlaceFacts
  <2> QED BY <2>2, FS_Subset
<1>3. place \in places
  BY DEF Places
<1>4. /\ kept \in [1..n -> places] /\ n \in Nat
      /\ \A a \in places : \E i \in 1..n : kept[i] = a
  <2> HIDE DEF side, places
  <2> QED BY <1>1, <1>2, InOrderFacts
<1>5. DOMAIN kept = 1..n
  BY <1>4
<1>6. PICK i \in 1..n : kept[i] = place
  BY <1>3, <1>4
<1>7. QueueLeft(book, order, price) =
         [k \in DOMAIN kept |->
            [id |-> OrderAt(book, side, kept[k]).id, owner |-> OrderAt(book, side, kept[k]).owner,
             price |-> OrderAt(book, side, kept[k]).price,
             remaining |-> Left(book, order, kept[k])]]
  BY DEF QueueLeft
<1>8. OrderAt(book, side, place) = book[side][price][j]
  BY DEF OrderAt
<1> HIDE DEF kept, places, n, place
<1> QED BY <1>5, <1>6, <1>7, <1>8 DEF place, side

\* What a match leaves of a book: an order that is not pulled has lost the one fill
\* with it, if any, and rests with what is left; those pulled are gone.
Leaves(old, after, fills, pulledIds, own, remaining) ==
    /\ \A side \in Actions, price \in Prices : \A j \in DOMAIN old[side][price] :
          LET entry == old[side][price][j]
          IN  \/ entry.id \in pulledIds
              \/ \E left \in Nat :
                    /\ \/ left = entry.remaining /\ \A f \in DOMAIN fills : fills[f].maker # entry.id
                       \/ \E f \in DOMAIN fills : /\ fills[f].maker = entry.id
                                                  /\ left = entry.remaining - fills[f].quantity
                    /\ left > 0 => \E k \in DOMAIN after[side][price] :
                                      /\ after[side][price][k].id = entry.id
                                      /\ after[side][price][k].remaining = left
    /\ \A side \in Actions, price \in Prices : \A k \in DOMAIN after[side][price] :
          after[side][price][k].id \notin pulledIds
    /\ remaining > 0 =>
          \E side \in Actions, price \in Prices : \E k \in DOMAIN after[side][price] :
             after[side][price][k].id = own /\ after[side][price][k].remaining = remaining

\* A place traded with has a fill.
LEMMA TradedFill ==
    ASSUME NEW ids, NEW owners, NEW book \in Books(ids, owners),
           NEW order \in EngineOrders(ids, owners), NEW place \in Traded(book, order)
    PROVE  \E f \in DOMAIN Fills(book, order) : Fills(book, order)[f] = FillAt(book, order, place)
<1> DEFINE side == Opposite(order.action)
           places == Traded(book, order)
           traded == InOrder(side, places)
           n == Cardinality(places)
<1>1. side \in Actions
  BY ReachedFacts
<1>2. IsFiniteSet(places) /\ places \in SUBSET (Prices \X Nat)
  BY TakenFacts, ReachedFacts, FS_Subset DEF Traded
<1>3. traded \in [1..n -> places] /\ \A a \in places : \E i \in 1..n : traded[i] = a
  <2> HIDE DEF side, places
  <2> QED BY <1>1, <1>2, InOrderFacts
<1>4. Fills(book, order) = [k \in DOMAIN traded |-> FillAt(book, order, traded[k])]
  BY FillsAre
<1>5. DOMAIN traded = 1..n
  BY <1>3
<1>6. PICK i \in 1..n : traded[i] = place
  BY <1>3
<1> HIDE DEF traded, n
<1> QED BY <1>4, <1>5, <1>6

LEMMA MatchLeaves ==
    ASSUME NEW ids, NEW owners, NEW book \in Books(ids, owners), IdsDiffer(book),
           NEW order \in EngineOrders(ids, owners)
    PROVE  Leaves(book, Match(book, order).book, Fills(book, order), Match(book, order).pulled, order.id, 0)
<1> DEFINE side == Opposite(order.action)
           after == Match(book, order).book
           fills == Fills(book, order)
           lost == Match(book, order).pulled
<1>1. /\ side \in Actions /\ order.action \in Actions
  BY ReachedFacts DEF EngineOrders
<1>2. /\ \A price \in Prices : after[side][price] = QueueLeft(book, order, price)
      /\ \A s \in Actions, price \in Prices : s # side => after[s][price] = book[s][price]
  BY <1>1 DEF Match, Books
<1>3. lost = {OrderAt(book, side, place).id : place \in {p \in Touched(book, order) : Own(book, order, p)}}
  BY DEF Match
<1>4. ASSUME NEW f \in DOMAIN fills, NEW s \in Actions, NEW price \in Prices,
             NEW j \in DOMAIN book[s][price], fills[f].maker = book[s][price][j].id
      PROVE  /\ s = side /\ book[s][price][j].remaining \in Nat /\ fills[f].quantity \in Nat \ {0}
             /\ Left(book, order, <<price, j>>) = book[s][price][j].remaining - fills[f].quantity
  <2>1. TakesFrom(book, order, fills[f])
    BY FillPlaces
  <2> HIDE DEF fills
  <2>2. PICK i \in DOMAIN book[side][fills[f].price] :
           LET maker == book[side][fills[f].price][i]
           IN  /\ fills[f].maker = maker.id
               /\ maker.remaining \in Nat /\ fills[f].quantity \in Nat \ {0}
               /\ Left(book, order, <<fills[f].price, i>>) = maker.remaining - fills[f].quantity
    BY <2>1 DEF TakesFrom
  <2>3. fills[f].price \in Prices
    BY <2>1 DEF TakesFrom
  <2>4. s = side /\ price = fills[f].price /\ i = j
    <3>1. book[s][price][j].id = book[side][fills[f].price][i].id
      BY <1>4, <2>2
    <3> HIDE DEF side
    <3> QED BY <1>1, <2>3, <3>1 DEF IdsDiffer
  <2> HIDE DEF side
  <2> QED BY <2>2, <2>4
<1>5. ASSUME NEW s \in Actions, NEW price \in Prices, NEW j \in DOMAIN book[s][price],
             book[s][price][j].id \notin lost
      PROVE  \E left \in Nat :
                /\ \/ left = book[s][price][j].remaining /\ \A f \in DOMAIN fills : fills[f].maker # book[s][price][j].id
                   \/ \E f \in DOMAIN fills : /\ fills[f].maker = book[s][price][j].id
                                              /\ left = book[s][price][j].remaining - fills[f].quantity
                /\ left > 0 => \E k \in DOMAIN after[s][price] :
                                  /\ after[s][price][k].id = book[s][price][j].id
                                  /\ after[s][price][k].remaining = left
  <2> DEFINE entry == book[s][price][j]
             place == <<price, j>>
  <2>1. entry \in RestingEntries(ids, owners) /\ entry.remaining \in Nat
    <3>1. entry \in RestingEntries(ids, owners)
      BY EntryAt
    <3> QED BY <3>1 DEF RestingEntries
  <2>2. CASE s # side
    <3>1. \A f \in DOMAIN fills : fills[f].maker # entry.id
      BY <1>4, <2>2
    <3>2. after[s][price] = book[s][price]
      BY <1>2, <2>2
    <3> HIDE DEF after, fills
    <3> QED BY <2>1, <3>1, <3>2
  <2>3. CASE s = side
    <3> DEFINE left == Left(book, order, place)
    <3>1. place \in Places(book, side, Prices) /\ OrderAt(book, side, place) = entry
      BY <2>3 DEF Places, OrderAt
    <3>2. left \in Nat
      BY <3>1, TakenFacts
    <3>3. left > 0 => \E k \in DOMAIN after[s][price] :
             /\ after[s][price][k].id = entry.id /\ after[s][price][k].remaining = left
      BY <1>2, <2>3, QueueLeftKeeps
    <3>4. CASE place \notin Touched(book, order)
      <4>1. left = entry.remaining
        BY <2>1, <3>1, <3>4 DEF Left
      <4>2. \A f \in DOMAIN fills : fills[f].maker # entry.id
        BY <1>4, <2>1, <4>1
      <4> HIDE DEF left, after, fills, entry
      <4> QED BY <3>2, <3>3, <4>1, <4>2 DEF entry
    <3>5. CASE place \in Touched(book, order)
      <4>1. ~Own(book, order, place)
        BY <1>3, <1>5, <3>1, <3>5
      <4>2. place \in Traded(book, order)
        BY <3>5, <4>1 DEF Traded
      <4>3. PICK f \in DOMAIN fills : fills[f] = FillAt(book, order, place)
        BY <4>2, TradedFill
      <4>4. fills[f].maker = entry.id
        BY <3>1, <4>3 DEF FillAt
      <4>5. left = entry.remaining - fills[f].quantity
        BY <1>4, <4>4
      <4> HIDE DEF left, after, fills, entry
      <4> QED BY <3>2, <3>3, <4>4, <4>5 DEF entry
    <3> QED BY <3>4, <3>5
  <2> QED BY <2>2, <2>3
<1>6. ASSUME NEW s \in Actions, NEW price \in Prices, NEW k \in DOMAIN after[s][price],
             after[s][price][k].id \in lost
      PROVE  FALSE
  <2>1. PICK place \in Touched(book, order) :
           Own(book, order, place) /\ OrderAt(book, side, place).id = after[s][price][k].id
    BY <1>3, <1>6
  <2>2. /\ place[1] \in Prices /\ place[2] \in DOMAIN book[side][place[1]]
        /\ place \in Places(book, side, Prices) /\ place = <<place[1], place[2]>>
        /\ OrderAt(book, side, place) \in RestingEntries(ids, owners)
    BY TakenFacts, ReachedFacts
  <2>3. Left(book, order, place) = 0
    <3>1. Taken(book, order, place) = OrderAt(book, side, place).remaining
      BY <2>1 DEF Taken
    <3>2. OrderAt(book, side, place).remaining \in Nat
      BY <2>2 DEF RestingEntries
    <3> QED BY <3>1, <3>2 DEF Left
  <2>4. CASE s # side
    <3>1. after[s][price] = book[s][price]
      BY <1>2, <2>4
    <3>2. book[s][price][k].id = book[side][place[1]][place[2]].id /\ k \in DOMAIN book[s][price]
      BY <2>1, <3>1 DEF OrderAt
    <3> HIDE DEF side, after
    <3> QED BY <1>1, <2>2, <2>4, <3>2 DEF IdsDiffer
  <2>5. CASE s = side
    <3> DEFINE queue == QueueLeft(book, order, price)
    <3>1. after[s][price] = queue
      BY <1>2, <2>5
    <3>2. PICK j \in DOMAIN book[side][price] :
             /\ queue[k].id = book[side][price][j].id
             /\ queue[k].remaining = Left(book, order, <<price, j>>)
      BY <3>1, QueueLeftPlaces
    <3>3. queue[k].remaining \in Nat \ {0}
      <4>1. queue \in Seq(RestingEntries(ids, owners)) /\ k \in DOMAIN queue
        BY <3>1, QueueLeftFacts
      <4>2. queue[k] \in RestingEntries(ids, owners)
        <5> HIDE DEF queue
        <5> QED BY <4>1, ElementOfSeq
      <4> QED BY <4>2 DEF RestingEntries
    <3>4. book[side][price][j].id = book[side][place[1]][place[2]].id
      BY <2>1, <3>1, <3>2 DEF OrderAt
    <3>5. price = place[1] /\ j = place[2]
      <4> HIDE DEF side, queue
      <4> QED BY <1>1, <2>2, <3>4 DEF IdsDiffer
    <3>6. <<price, j>> = place
      BY <2>2, <3>5
    <3> HIDE DEF queue
    <3> QED BY <2>3, <3>2, <3>3, <3>6
  <2> QED BY <2>4, <2>5
<1> HIDE DEF after, fills, lost
<1> QED BY <1>5, <1>6 DEF Leaves, after, fills, lost

LEMMA SubmittedLeaves ==
    ASSUME NEW ids, NEW owners, NEW book \in Books(ids, owners), IdsDiffer(book),
           NEW order \in EngineOrders(ids, owners),
           \A side \in Actions, price \in Prices :
              \A k \in DOMAIN book[side][price] : book[side][price][k].id # order.id
    PROVE  LET submitted == Submitted(book, order)
               result == submitted.result
           IN  /\ Leaves(book, submitted.book, result.fills, submitted.pulled, order.id, result.remaining)
               /\ result.status = "filled" <=> Filled(result.fills) = order.quantity
               /\ Filled(result.fills) <= order.quantity
<1> DEFINE left == Match(book, order).book
           made == Fills(book, order)
           lost == Match(book, order).pulled
           filled == Filled(made)
           remaining == order.quantity - filled
           entry == [id |-> order.id, owner |-> order.owner,
                     price |-> LimitPrice(order), remaining |-> remaining]
           rests == MayRest(order) /\ remaining > 0
           submitted == Submitted(book, order)
<1>1. /\ LimitPrice(order) \in Prices /\ order.action \in Actions /\ order.quantity \in Nat \ {0}
      /\ Opposite(order.action) \in Actions /\ order.id \in ids /\ order.owner \in owners
  BY ReachedFacts DEF EngineOrders
<1>2. made \in Seq(EngineFills(ids, owners)) /\ filled \in Nat /\ filled <= order.quantity
  <2>1. made \in Seq(EngineFills(ids, owners))
    BY FillFacts
  <2>2. filled \in Nat
    <3> HIDE DEF made
    <3> QED BY <2>1, FilledNat
  <2> QED BY <2>1, <2>2, FilledWithin
<1>3. Leaves(book, left, made, lost, order.id, 0)
  BY MatchLeaves
<1>4. order.id \notin lost
  <2>1. \A place \in Touched(book, order) :
           place[1] \in Prices /\ place[2] \in DOMAIN book[Opposite(order.action)][place[1]]
    BY TakenFacts, ReachedFacts
  <2> QED BY <1>1, <2>1 DEF Match, OrderAt
<1>5. CASE Killed(book, order)
  <2>1. /\ submitted.book = book /\ submitted.pulled = {} /\ submitted.result.fills = <<>>
        /\ submitted.result.remaining = 0 /\ submitted.result.status = "cancelled"
    BY <1>5 DEF Submitted, OrderResult
  <2>2. Filled(<<>>) = 0
    <3> DEFINE none == <<>>
               f == [i \in DOMAIN none |-> none[i].quantity]
    <3>1. Filled(none) = SumFunction(f) /\ DOMAIN f = {}
      BY DEF Filled
    <3> HIDE DEF f
    <3> QED BY <3>1, SumOfFunction, SumEmpty
  <2>3. \A s \in Actions, price \in Prices : \A j \in DOMAIN book[s][price] : book[s][price][j].remaining \in Nat
    <3>1. \A s \in Actions, price \in Prices : \A j \in DOMAIN book[s][price] :
             book[s][price][j] \in RestingEntries(ids, owners)
      BY EntryAt
    <3> QED BY <3>1 DEF RestingEntries
  <2>4. Leaves(book, book, <<>>, {}, order.id, 0)
    BY <2>3 DEF Leaves
  <2> HIDE DEF submitted
  <2> QED BY <1>1, <2>1, <2>2, <2>4 DEF submitted
<1>6. CASE ~Killed(book, order) /\ ~rests
  <2>1. /\ submitted.book = left /\ submitted.pulled = lost /\ submitted.result.fills = made
        /\ submitted.result.remaining = 0 /\ submitted.result.status = ResultStatus(filled, remaining, FALSE)
    BY <1>6 DEF Submitted, OrderResult, Match
  <2>2. submitted.result.status = "filled" <=> filled = order.quantity
    BY <1>1, <1>2, <2>1 DEF ResultStatus
  <2> HIDE DEF submitted, made, left, lost
  <2> QED BY <1>2, <1>3, <2>1, <2>2 DEF submitted
<1>7. CASE ~Killed(book, order) /\ rests
  <2>1. /\ submitted.book = [left EXCEPT ![order.action][LimitPrice(order)] = Append(@, entry)]
        /\ submitted.pulled = lost /\ submitted.result.fills = made
        /\ submitted.result.remaining = remaining /\ submitted.result.status = ResultStatus(filled, remaining, TRUE)
    BY <1>7 DEF Submitted, OrderResult, Match
  <2>2. submitted.result.status = "filled" <=> filled = order.quantity
    BY <1>1, <1>2, <2>1 DEF ResultStatus
  <2>3. left \in Books(ids, owners)
    <3>1. \A price \in Prices : QueueLeft(book, order, price) \in Seq(RestingEntries(ids, owners))
      BY QueueLeftFacts
    <3> QED BY <1>1, <3>1 DEF Match, Books
  <2> DEFINE after == submitted.book
             action == order.action
             limit == LimitPrice(order)
  <2>4. \A s \in Actions, price \in Prices :
           after[s][price] = IF s = action /\ price = limit THEN Append(left[s][price], entry) ELSE left[s][price]
    <3> HIDE DEF left, entry
    <3> QED BY <1>1, <2>1, <2>3 DEF Books
  <2>5. ASSUME NEW s \in Actions, NEW price \in Prices
        PROVE  LET queue == left[s][price]
                   longer == Append(queue, entry)
               IN  /\ Len(queue) \in Nat /\ DOMAIN queue = 1..Len(queue)
                   /\ DOMAIN longer = 1..(Len(queue) + 1) /\ longer[Len(queue) + 1] = entry
                   /\ \A k \in 1..Len(queue) : longer[k] = queue[k]
    <3>1. left[s][price] \in Seq(RestingEntries(ids, owners))
      BY <2>3 DEF Books
    <3> HIDE DEF left, entry
    <3> QED BY <3>1
  <2> HIDE DEF left, after, entry, made, lost
  <2>6. ASSUME NEW s \in Actions, NEW price \in Prices
        PROVE  /\ \A k \in DOMAIN left[s][price] : k \in DOMAIN after[s][price] /\ after[s][price][k] = left[s][price][k]
               /\ \A k \in DOMAIN after[s][price] :
                     \/ k \in DOMAIN left[s][price] /\ after[s][price][k] = left[s][price][k]
                     \/ after[s][price][k] = entry
    <3> DEFINE queue == left[s][price]
               longer == Append(queue, entry)
    <3>1. /\ Len(queue) \in Nat /\ DOMAIN queue = 1..Len(queue)
          /\ DOMAIN longer = 1..(Len(queue) + 1) /\ longer[Len(queue) + 1] = entry
          /\ \A k \in 1..Len(queue) : longer[k] = queue[k]
      BY <2>5
    <3>2. after[s][price] = longer \/ after[s][price] = queue
      BY <2>4
    <3> HIDE DEF longer, queue
    <3> QED BY <3>1, <3>2 DEF queue
  <2>7. \E k \in DOMAIN after[action][limit] : after[action][limit][k] = entry
    <3> DEFINE queue == left[action][limit]
               longer == Append(queue, entry)
    <3>1. /\ Len(queue) \in Nat /\ DOMAIN longer = 1..(Len(queue) + 1) /\ longer[Len(queue) + 1] = entry
      BY <1>1, <2>5
    <3>2. after[action][limit] = longer
      BY <1>1, <2>4
    <3> HIDE DEF longer, queue
    <3> QED BY <3>1, <3>2
  <2>8. entry.id = order.id /\ entry.remaining = remaining
    BY DEF entry
  <2>9. Leaves(book, after, made, lost, order.id, remaining)
    <3>1. ASSUME NEW s \in Actions, NEW price \in Prices, NEW k \in DOMAIN after[s][price]
          PROVE  after[s][price][k].id \notin lost
      BY <1>3, <1>4, <2>6, <2>8, <3>1 DEF Leaves
    <3>2. ASSUME NEW s \in Actions, NEW price \in Prices, NEW j \in DOMAIN book[s][price],
                 book[s][price][j].id \notin lost
          PROVE  \E rest \in Nat :
                    /\ \/ rest = book[s][price][j].remaining /\ \A f \in DOMAIN made : made[f].maker # book[s][price][j].id
                       \/ \E f \in DOMAIN made : /\ made[f].maker = book[s][price][j].id
                                                 /\ rest = book[s][price][j].remaining - made[f].quantity
                    /\ rest > 0 => \E k \in DOMAIN after[s][price] :
                                      /\ after[s][price][k].id = book[s][price][j].id
                                      /\ after[s][price][k].remaining = rest
      <4>1. PICK rest \in Nat :
               /\ \/ rest = book[s][price][j].remaining /\ \A f \in DOMAIN made : made[f].maker # book[s][price][j].id
                  \/ \E f \in DOMAIN made : /\ made[f].maker = book[s][price][j].id
                                            /\ rest = book[s][price][j].remaining - made[f].quantity
               /\ rest > 0 => \E k \in DOMAIN left[s][price] :
                                 /\ left[s][price][k].id = book[s][price][j].id
                                 /\ left[s][price][k].remaining = rest
        BY <1>3, <3>2 DEF Leaves
      <4> QED BY <2>6, <4>1
    <3>3. \E s \in Actions, price \in Prices : \E k \in DOMAIN after[s][price] :
             after[s][price][k].id = order.id /\ after[s][price][k].remaining = remaining
      BY <1>1, <2>7, <2>8
    <3> QED BY <3>1, <3>2, <3>3 DEF Leaves
  <2>10. submitted.result.fills = made /\ submitted.result.remaining = remaining
         /\ submitted.pulled = lost /\ submitted.book = after
    BY <2>1 DEF after
  <2>11. Filled(made) = filled
    BY DEF made
  <2> HIDE DEF submitted, remaining, filled
  <2> QED BY <1>2, <2>2, <2>9, <2>10, <2>11 DEF submitted, made
<1> QED BY <1>5, <1>6, <1>7

\* A cancel leaves every entry of another id as it is.
LEMMA CancelledKeeps ==
    ASSUME NEW ids, NEW owners, NEW book \in Books(ids, owners), NEW id
    PROVE  LET after == Cancelled(book, id).book
           IN  \A side \in Actions, price \in Prices : \A k \in DOMAIN book[side][price] :
                  book[side][price][k].id # id =>
                     \E j \in DOMAIN after[side][price] : after[side][price][j] = book[side][price][k]
<1> DEFINE after == Cancelled(book, id).book
<1>1. CASE Levels(book, id) = {}
  <2>1. after = book
    BY <1>1 DEF Cancelled
  <2> QED BY <2>1
<1>2. CASE Levels(book, id) # {}
  <2> DEFINE level == CHOOSE l \in Levels(book, id) : TRUE
             queue == book[level[1]][level[2]]
             here == CHOOSE k \in DOMAIN queue : queue[k].id = id
  <2>1. level \in Levels(book, id)
    BY <1>2
  <2>2. level[1] \in Actions /\ level[2] \in Prices /\ \E k \in DOMAIN queue : queue[k].id = id
    <3> HIDE DEF level
    <3>1. level \in Actions \X Prices /\ \E k \in DOMAIN book[level[1]][level[2]] : book[level[1]][level[2]][k].id = id
      BY <2>1 DEF Levels
    <3> QED BY <3>1
  <2>3. here \in DOMAIN queue /\ queue[here].id = id
    BY <2>2
  <2>4. after = [book EXCEPT ![level[1]][level[2]] = RemoveAt(queue, here)]
    BY <1>2, <2>2 DEF Cancelled, CancelResult, Books
  <2> HIDE DEF level, queue, here, after
  <2>5. queue \in Seq(RestingEntries(ids, owners))
    BY <2>2 DEF Books, queue
  <2>6. here \in 1..Len(queue) /\ Len(queue) \in Nat
    BY <2>3, <2>5
  <2>7. ASSUME NEW k \in 1..Len(queue), k # here
        PROVE  \E j \in DOMAIN RemoveAt(queue, here) : RemoveAt(queue, here)[j] = queue[k]
    <3> DEFINE front == SubSeq(queue, 1, here - 1)
               back == SubSeq(queue, here + 1, Len(queue))
    <3>1. /\ front \in Seq(RestingEntries(ids, owners)) /\ Len(front) = here - 1
          /\ \A i \in 1..(here - 1) : front[i] = queue[i]
      BY <2>5, <2>6
    <3>2. /\ back \in Seq(RestingEntries(ids, owners)) /\ Len(back) = Len(queue) - here
          /\ \A i \in 1..(Len(queue) - here) : back[i] = queue[here + i]
      BY <2>5, <2>6
    <3> HIDE DEF front, back
    <3>3. /\ DOMAIN (front \o back) = 1..(Len(queue) - 1)
          /\ \A i \in 1..(Len(queue) - 1) :
                (front \o back)[i] = IF i <= here - 1 THEN front[i] ELSE back[i - (here - 1)]
      <4>1. Len(front) + Len(back) = Len(queue) - 1
        BY <2>6, <3>1, <3>2
      <4>2. /\ front \o back \in Seq(RestingEntries(ids, owners))
            /\ Len(front \o back) = Len(front) + Len(back)
            /\ \A i \in 1..Len(front) + Len(back) :
                  (front \o back)[i] = IF i <= Len(front) THEN front[i] ELSE back[i - Len(front)]
        BY <3>1, <3>2, ConcatProperties
      <4> QED BY <3>1, <4>1, <4>2
    <3>4. \E j \in DOMAIN (front \o back) : (front \o back)[j] = queue[k]
      <4>1. CASE k < here
        <5>1. k \in 1..(here - 1) /\ k <= here - 1 /\ k \in 1..(Len(queue) - 1)
          BY <2>6, <4>1
        <5> QED BY <3>1, <3>3, <5>1
      <4>2. CASE ~(k < here)
        <5>1. /\ k - 1 \in 1..(Len(queue) - 1) /\ ~(k - 1 <= here - 1)
              /\ (k - 1) - (here - 1) \in 1..(Len(queue) - here)
              /\ here + ((k - 1) - (here - 1)) = k
          BY <2>6, <2>7, <4>2
        <5>2. (front \o back)[k - 1] = back[(k - 1) - (here - 1)]
          BY <3>3, <5>1
        <5>3. back[(k - 1) - (here - 1)] = queue[k]
          BY <3>2, <5>1
        <5> QED BY <3>3, <5>1, <5>2, <5>3
      <4> QED BY <4>1, <4>2
    <3> QED BY <3>4 DEF RemoveAt, front, back
  <2>8. \A side \in Actions, price \in Prices :
          after[side][price] = IF side = level[1] /\ price = level[2] THEN RemoveAt(queue, here)
                               ELSE book[side][price]
    BY <2>2, <2>4 DEF Books
  <2>9. ASSUME NEW side \in Actions, NEW price \in Prices, NEW k \in DOMAIN book[side][price],
               book[side][price][k].id # id
        PROVE  \E j \in DOMAIN after[side][price] : after[side][price][j] = book[side][price][k]
    <3>1. CASE side = level[1] /\ price = level[2]
      <4>1. queue = book[side][price]
        BY <3>1 DEF queue
      <4>2. k \in 1..Len(queue) /\ k # here
        BY <2>3, <2>5, <2>9, <4>1
      <4> QED BY <2>7, <2>8, <3>1, <4>1, <4>2
    <3>2. CASE ~(side = level[1] /\ price = level[2])
      BY <2>8, <3>2
    <3> QED BY <3>1, <3>2
  <2> QED BY <2>9 DEF after
<1> QED BY <1>1, <1>2
============================================================================
