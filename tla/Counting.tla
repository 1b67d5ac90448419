------------------------------ MODULE Counting ------------------------------
(***************************************************************************)
(* Sums of natural numbers over a finite set, without recursion: h[x]      *)
(* cells for every x of the set S, and the cardinality of all of them.     *)
(* The inductive invariants count with it what several threads hold.       *)
(* A sum of differences, as a fold over a set computes it, is a difference *)
(* of two such numbers.  And the highest element of a bounded set.         *)
(***************************************************************************)
EXTENDS Integers, FiniteSets, FiniteSetTheorems, WellFoundedInduction, TLAPS

Cells(S, h) == UNION {{x} \X (1 .. h[x]) : x \in S}

\* The cells of one element.
LEMMA CellsOfOne ==
    ASSUME NEW x, NEW n \in Nat
    PROVE  /\ IsFiniteSet({x} \X (1 .. n))
           /\ Cardinality({x} \X (1 .. n)) = n
<1>1. IsFiniteSet({x}) /\ Cardinality({x}) = 1
  BY FS_Singleton
<1>2. IsFiniteSet(1 .. n) /\ Cardinality(1 .. n) = n
  BY FS_Interval
<1>3. /\ IsFiniteSet({x} \X (1 .. n))
      /\ Cardinality({x} \X (1 .. n)) = Cardinality({x}) * Cardinality(1 .. n)
  BY <1>1, <1>2, FS_Product
<1>4. 1 * n = n
  OBVIOUS
<1>. QED
  BY <1>1, <1>2, <1>3, <1>4

\* Finitely many elements have finitely many cells.
LEMMA CellsFinite ==
    ASSUME NEW S, IsFiniteSet(S), NEW h, \A x \in S : h[x] \in Nat
    PROVE  IsFiniteSet(Cells(S, h)) /\ Cardinality(Cells(S, h)) \in Nat
<1>. DEFINE F == [x \in S |-> {x} \X (1 .. h[x])]
            T == {{x} \X (1 .. h[x]) : x \in S}
<1>1. F \in Surjection(S, T)
  <2>1. F \in [S -> T]
    OBVIOUS
  <2>2. \A t \in T : \E s \in S : F[s] = t
    OBVIOUS
  <2>. QED
    BY <2>1, <2>2 DEF Surjection
<1>2. IsFiniteSet(T)
  <2>. HIDE DEF F, T
  <2>. QED
    BY <1>1, FS_Surjection
<1>3. \A t \in T : IsFiniteSet(t)
  <2>. SUFFICES ASSUME NEW x \in S
                PROVE  IsFiniteSet({x} \X (1 .. h[x]))
    OBVIOUS
  <2>. QED
    BY CellsOfOne
<1>4. IsFiniteSet(UNION T)
  <2>. HIDE DEF T
  <2>. QED
    BY <1>2, <1>3, FS_UNION
<1>. QED
  BY <1>4, FS_CardinalityType DEF Cells

\* The cells of two disjoint sets add up.
LEMMA CellsOfUnion ==
    ASSUME NEW S, IsFiniteSet(S), NEW T, IsFiniteSet(T), S \cap T = {},
           NEW h, \A x \in S \union T : h[x] \in Nat
    PROVE  Cardinality(Cells(S \union T, h)) = Cardinality(Cells(S, h)) + Cardinality(Cells(T, h))
<1>1. Cells(S \union T, h) = Cells(S, h) \union Cells(T, h)
  BY DEF Cells
<1>2. Cells(S, h) \cap Cells(T, h) = {}
  <2>1. \A c \in Cells(S, h) : c[1] \in S
    BY DEF Cells
  <2>2. \A c \in Cells(T, h) : c[1] \in T
    BY DEF Cells
  <2>. QED
    BY <2>1, <2>2
<1>3. /\ IsFiniteSet(Cells(S, h)) /\ Cardinality(Cells(S, h)) \in Nat
      /\ IsFiniteSet(Cells(T, h)) /\ Cardinality(Cells(T, h)) \in Nat
  BY CellsFinite
<1>4. Cardinality(Cells(S, h) \union Cells(T, h))
        = Cardinality(Cells(S, h)) + Cardinality(Cells(T, h))
            - Cardinality(Cells(S, h) \cap Cells(T, h))
  BY <1>3, FS_Union
<1>5. Cardinality({}) = 0
  BY FS_EmptySet
<1>6. Cardinality(Cells(S, h) \cap Cells(T, h)) = 0
  BY <1>2, <1>5, Zenon
<1>7. Cardinality(Cells(S \union T, h)) = Cardinality(Cells(S, h) \union Cells(T, h))
  BY <1>1, Zenon
<1>. QED
  BY <1>3, <1>4, <1>6, <1>7

\* The cells of a singleton.
LEMMA CellsOfSingleton ==
    ASSUME NEW x, NEW h, h[x] \in Nat
    PROVE  Cardinality(Cells({x}, h)) = h[x]
<1>1. Cells({x}, h) = {x} \X (1 .. h[x])
  BY DEF Cells
<1>. QED
  BY <1>1, CellsOfOne

\* A subset has no more cells.
LEMMA CellsOfSubset ==
    ASSUME NEW S, IsFiniteSet(S), NEW T, T \subseteq S, NEW h, \A x \in S : h[x] \in Nat
    PROVE  Cardinality(Cells(T, h)) =< Cardinality(Cells(S, h))
<1>1. Cells(T, h) \in SUBSET Cells(S, h)
  BY DEF Cells
<1>2. IsFiniteSet(Cells(S, h))
  BY CellsFinite
<1>. QED
  BY <1>1, <1>2, FS_Subset

\* The cells of all but one element.
LEMMA CellsRemove ==
    ASSUME NEW S, IsFiniteSet(S), NEW h, \A y \in S : h[y] \in Nat, NEW x \in S
    PROVE  /\ Cardinality(Cells(S \ {x}, h)) \in Nat
           /\ Cardinality(Cells(S, h)) = Cardinality(Cells(S \ {x}, h)) + h[x]
<1>. DEFINE R == S \ {x}
<1>1. IsFiniteSet(R) /\ IsFiniteSet({x}) /\ R \cap {x} = {} /\ R \union {x} = S
  BY FS_Difference, FS_Singleton
<1>2. R \subseteq S
  OBVIOUS
<1>. HIDE DEF R
<1>3. Cardinality(Cells(S, h)) = Cardinality(Cells(R, h)) + h[x]
  <2>. DEFINE T == {x}
  <2>1. /\ IsFiniteSet(T) /\ R \cap T = {} /\ R \union T = S
        /\ \A y \in R \union T : h[y] \in Nat
    BY <1>1
  <2>2. Cardinality(Cells(T, h)) = h[x]
    BY CellsOfSingleton
  <2>. HIDE DEF T
  <2>3. Cardinality(Cells(R \union T, h)) = Cardinality(Cells(R, h)) + Cardinality(Cells(T, h))
    BY <1>1, <2>1, CellsOfUnion
  <2>. QED
    BY <2>1, <2>2, <2>3
<1>4. Cardinality(Cells(R, h)) \in Nat
  BY <1>1, <1>2, CellsFinite
<1>. QED
  BY <1>3, <1>4 DEF R

\* Two functions that differ at one element have numbers of cells that differ by as much.
LEMMA CellsUpdate ==
    ASSUME NEW S, IsFiniteSet(S), NEW h \in [S -> Nat], NEW g \in [S -> Nat], NEW x \in S,
           \A y \in S \ {x} : g[y] = h[y]
    PROVE  /\ h[x] =< Cardinality(Cells(S, h))
           /\ Cardinality(Cells(S, h)) \in Nat
           /\ Cardinality(Cells(S, g)) = Cardinality(Cells(S, h)) - h[x] + g[x]
<1>1. Cells(S \ {x}, g) = Cells(S \ {x}, h)
  BY DEF Cells
<1>2. /\ Cardinality(Cells(S \ {x}, h)) \in Nat
      /\ Cardinality(Cells(S, h)) = Cardinality(Cells(S \ {x}, h)) + h[x]
  BY CellsRemove
<1>3. Cardinality(Cells(S, g)) = Cardinality(Cells(S \ {x}, g)) + g[x]
  BY CellsRemove
<1>. QED
  BY <1>1, <1>2, <1>3

\* Nobody has a cell when every number is 0.
LEMMA NoCells ==
    ASSUME NEW S, NEW h, \A x \in S : h[x] = 0
    PROVE  Cardinality(Cells(S, h)) = 0
<1>1. Cells(S, h) = {}
  BY DEF Cells
<1>. QED
  BY <1>1, FS_EmptySet

\* The difference of the sums, one element less.
LEMMA DifferenceRemove ==
    ASSUME NEW S, IsFiniteSet(S), NEW c \in [S -> Nat], NEW d \in [S -> Nat],
           NEW s \in SUBSET S, NEW x \in s
    PROVE  Cardinality(Cells(s, c)) - Cardinality(Cells(s, d))
             = (c[x] - d[x]) + (Cardinality(Cells(s \ {x}, c)) - Cardinality(Cells(s \ {x}, d)))
<1>1. IsFiniteSet(s) /\ \A y \in s : c[y] \in Nat /\ d[y] \in Nat
  BY FS_Subset
<1>2. /\ Cardinality(Cells(s \ {x}, c)) \in Nat
      /\ Cardinality(Cells(s, c)) = Cardinality(Cells(s \ {x}, c)) + c[x]
  BY <1>1, CellsRemove
<1>3. /\ Cardinality(Cells(s \ {x}, d)) \in Nat
      /\ Cardinality(Cells(s, d)) = Cardinality(Cells(s \ {x}, d)) + d[x]
  BY <1>1, CellsRemove
<1>. QED
  BY <1>1, <1>2, <1>3

\* A function on the subsets of a finite set that adds up c[x] - d[x] one element at a time
\* is the difference of the sums.
LEMMA SumOfDifferences ==
    ASSUME NEW S, IsFiniteSet(S), NEW c \in [S -> Nat], NEW d \in [S -> Nat], NEW g,
           \A s \in SUBSET S : g[s] = IF s = {} THEN 0
             ELSE (c[CHOOSE x \in s : TRUE] - d[CHOOSE x \in s : TRUE]) + g[s \ {CHOOSE x \in s : TRUE}]
    PROVE  g[S] = Cardinality(Cells(S, c)) - Cardinality(Cells(S, d))
<1>. DEFINE total(s) == Cardinality(Cells(s, c)) - Cardinality(Cells(s, d))
            Bad == {s \in SUBSET S : g[s] # total(s)}
            sizes == {Cardinality(s) : s \in Bad}
<1>. SUFFICES ASSUME Bad # {} PROVE FALSE
  OBVIOUS
<1>1. \A s \in SUBSET S : IsFiniteSet(s) /\ Cardinality(s) \in Nat
  BY FS_Subset, FS_CardinalityType
<1>2. sizes \subseteq Nat /\ sizes # {}
  BY <1>1
<1>3. \E n \in sizes : \A m \in sizes : ~ (<<m, n>> \in OpToRel(<, Nat))
  <2>. HIDE DEF sizes
  <2>. QED BY <1>2, NatLessThanWellFounded, WFMin
<1>4. PICK n \in sizes : \A m \in sizes : ~ (m < n)
  BY <1>2, <1>3 DEF OpToRel
<1>5. PICK s \in Bad : n = Cardinality(s)
  OBVIOUS
<1>6. CASE s = {}
  <2>1. total(s) = 0
    BY <1>6, NoCells
  <2>. QED BY <1>5, <1>6, <2>1
<1>7. CASE s # {}
  <2>. DEFINE x == CHOOSE x \in s : TRUE
              r == s \ {x}
  <2>1. x \in s
    BY <1>7
  <2>2. s \in SUBSET S /\ r \in SUBSET S /\ IsFiniteSet(s)
    BY <1>1, <1>5
  <2>3. g[s] = (c[x] - d[x]) + g[r]
    BY <1>7, <2>2
  <2>. HIDE DEF x
  <2>4. Cardinality(r) = Cardinality(s) - 1 /\ Cardinality(s) \in Nat
    BY <1>1, <2>1, <2>2, FS_RemoveElement
  <2>5. r \notin Bad
    <3>. SUFFICES ASSUME r \in Bad PROVE FALSE
      OBVIOUS
    <3>1. Cardinality(r) \in sizes
      OBVIOUS
    <3>2. ~ (Cardinality(r) < Cardinality(s))
      <4>. HIDE DEF sizes, r
      <4>. QED BY <1>4, <1>5, <3>1
    <3>. QED BY <2>4, <3>2
  <2>6. g[r] = total(r)
    BY <2>2, <2>5
  <2>7. total(s) = (c[x] - d[x]) + total(r)
    BY <2>1, <2>2, DifferenceRemove
  <2>8. g[s] = total(s)
    <3>. HIDE DEF total, r
    <3>. QED BY <2>3, <2>6, <2>7
  <2>. QED BY <1>5, <2>8
<1>. QED BY <1>6, <1>7

\* A non-empty set of numbers below a bound has a highest element.
LEMMA HighestElement ==
    ASSUME NEW n \in Nat, NEW S \in SUBSET (0 .. n - 1), S # {}
    PROVE  \E b \in S : \A c \in S : c =< b
<1> DEFINE T == {n - b : b \in S}
<1>1. \A b \in S : b \in Nat /\ n - b \in Nat
  OBVIOUS
<1>2. T \subseteq Nat /\ T # {}
  BY <1>1
<1>3. \E x \in T : \A y \in T : ~ (<<y, x>> \in OpToRel(<, Nat))
  <2> HIDE DEF T
  <2> QED BY <1>2, NatLessThanWellFounded, WFMin
<1>4. PICK x \in T : \A y \in T : ~ (y < x)
  BY <1>2, <1>3 DEF OpToRel
<1>5. PICK b \in S : x = n - b
  BY <1>4
<1>6. \A c \in S : c =< b
  <2> SUFFICES ASSUME NEW c \in S PROVE c =< b
    OBVIOUS
  <2>1. ~ (n - c < n - b)
    BY <1>4, <1>5
  <2> QED BY <1>1, <2>1
<1> QED BY <1>6
=============================================================================
