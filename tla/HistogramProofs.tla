--------------------------- MODULE HistogramProofs ---------------------------
(***************************************************************************)
(* Proofs about the histograms of a query for any columns, bounds, scales, *)
(* defaults, label tuples and rows.                                        *)
(***************************************************************************)
EXTENDS Histogram, TLAPS, FiniteSetTheorems, WellFoundedInduction, SequenceTheorems

-----------------------------------------------------------------------------
(* A set of naturals has a least element.                                  *)
LEMMA Least ==
  ASSUME NEW T, T \subseteq Nat, T # {}
  PROVE  \E x \in T : \A y \in T : x <= y
<1> DEFINE R == {ss \in Nat \X Nat : ss[1] < ss[2]}
<1>1. IsWellFoundedOn(R, Nat)
  BY NatLessThanWellFounded, Z3 DEF OpToRel
<1>2. PICK x \in T : \A y \in T : ~ (<<y, x>> \in R)
  <2> HIDE DEF R
  <2> QED
    BY <1>1, WFMin
<1>3. \A y \in T : x <= y
  <2>1. TAKE y \in T
  <2>2. <<y, x>> \in Nat \X Nat
    OBVIOUS
  <2> QED
    BY <1>2, <2>2
<1> QED
  BY <1>3

-----------------------------------------------------------------------------
(* A function may be defined from its own values at points of lower rank:  *)
(* step says what it is at a point of Rec, given what it is below.         *)
Recursive(D, rank, T, Rec, below, base, step) ==
    /\ rank \in [D -> Nat] /\ Rec \in SUBSET D /\ below \in [Rec -> D]
    /\ \A d \in Rec : rank[below[d]] < rank[d]
    /\ base \in [D -> T] /\ step \in [Rec -> [T -> T]]

Solves(f, D, T, Rec, below, base, step) ==
    /\ f \in [D -> T]
    /\ \A d \in D : f[d] = IF d \in Rec THEN step[d][f[below[d]]] ELSE base[d]

LEMMA Recursion ==
  ASSUME NEW D, NEW rank, NEW T, NEW Rec, NEW below, NEW base, NEW step,
         Recursive(D, rank, T, Rec, below, base, step)
  PROVE  \E f : Solves(f, D, T, Rec, below, base, step)
<1> USE DEF Recursive
<1> DEFINE To(n) == {d \in D : rank[d] < n}
           Solution(f, n) == /\ f \in [To(n) -> T]
                           /\ \A d \in To(n) :
                                 f[d] = IF d \in Rec THEN step[d][f[below[d]]] ELSE base[d]
<1>1. ASSUME NEW n \in Nat, NEW m \in Nat, NEW f, NEW g, Solution(f, n), Solution(g, m)
      PROVE  \A d \in To(n) \cap To(m) : f[d] = g[d]
  <2> SUFFICES ASSUME NEW e \in To(n) \cap To(m), f[e] # g[e] PROVE FALSE
    OBVIOUS
  <2> DEFINE Bad == {d \in To(n) \cap To(m) : f[d] # g[d]}
             Ranks == {rank[d] : d \in Bad}
  <2>1. PICK r \in Ranks : \A s \in Ranks : r <= s
    <3>1. Ranks \subseteq Nat /\ Ranks # {}
      OBVIOUS
    <3> HIDE DEF Ranks
    <3> QED
      BY <3>1, Least
  <2>2. PICK d \in Bad : rank[d] = r
    OBVIOUS
  <2>3. d \in Rec
    BY <1>1, <2>2
  <2>4. below[d] \in To(n) \cap To(m)
    <3>1. rank[below[d]] \in Nat /\ rank[d] \in Nat /\ rank[below[d]] < rank[d] /\ below[d] \in D
      BY <2>2, <2>3
    <3>2. rank[d] < n /\ rank[d] < m
      BY <2>2
    <3> QED
      BY <3>1, <3>2
  <2>5. below[d] \notin Bad
    <3>1. rank[below[d]] < r /\ rank[below[d]] \in Nat /\ r \in Nat
      BY <2>2, <2>3
    <3>2. ASSUME below[d] \in Bad PROVE FALSE
      <4>1. rank[below[d]] \in Ranks
        BY <3>2
      <4>2. r <= rank[below[d]]
        <5> HIDE DEF Ranks, Bad, To
        <5> QED
          BY <2>1, <4>1
      <4> HIDE DEF Ranks, Bad, To
      <4> QED
        BY <3>1, <4>2
    <3> QED
      BY <3>2
  <2>6. f[below[d]] = g[below[d]]
    BY <2>4, <2>5
  <2>7. f[d] = step[d][f[below[d]]] /\ g[d] = step[d][g[below[d]]]
    BY <1>1, <2>2, <2>3
  <2> QED
    BY <2>2, <2>6, <2>7
<1>2. ASSUME NEW n \in Nat PROVE \E f : Solution(f, n)
  <2> DEFINE Bad == {m \in Nat : ~ \E f : Solution(f, m)}
  <2> SUFFICES ASSUME n \in Bad PROVE FALSE
    OBVIOUS
  <2>1. PICK m \in Bad : \A k \in Bad : m <= k
    <3>1. Bad \subseteq Nat /\ Bad # {}
      OBVIOUS
    <3> HIDE DEF Bad
    <3> QED
      BY <3>1, Least
  <2>2. m # 0
    <3>1. To(0) = {}
      OBVIOUS
    <3>2. Solution([d \in {} |-> 0], 0)
      BY <3>1
    <3> HIDE DEF Solution
    <3> QED
      BY <2>1, <3>2
  <2>3. m - 1 \in Nat /\ m - 1 \notin Bad
    <3>1. m - 1 \in Nat /\ ~(m <= m - 1)
      BY <2>2
    <3> HIDE DEF Solution
    <3> QED
      BY <2>1, <3>1
  <2>4. PICK f : Solution(f, m - 1)
    BY <2>3
  <2> DEFINE g == [d \in To(m) |-> IF d \in Rec THEN step[d][f[below[d]]] ELSE base[d]]
  <2>5. \A d \in To(m) : d \in Rec => below[d] \in To(m - 1)
    BY <2>1
  <2>6. \A d \in To(m - 1) : d \in To(m) /\ g[d] = f[d]
    BY <2>1, <2>4
  <2>7. g \in [To(m) -> T]
    <3> SUFFICES ASSUME NEW d \in To(m)
                 PROVE  (IF d \in Rec THEN step[d][f[below[d]]] ELSE base[d]) \in T
      OBVIOUS
    <3>1. CASE d \in Rec
      <4>1. f[below[d]] \in T
        BY <2>4, <2>5, <3>1
      <4> QED
        BY <3>1, <4>1
    <3> QED
      BY <3>1
  <2>8. \A d \in To(m) : d \in Rec => g[below[d]] = f[below[d]]
    BY <2>5, <2>6
  <2>9. Solution(g, m)
    BY <2>7, <2>8
  <2> QED
    BY <2>1, <2>9
<1>3. \A d \in D : \E f : Solution(f, rank[d] + 1)
  <2> HIDE DEF Solution
  <2> QED
    BY <1>2
<1> DEFINE F == [d \in D |-> (CHOOSE f : Solution(f, rank[d] + 1))[d]]
<1>4. ASSUME NEW d \in D, NEW n \in Nat, rank[d] < n, NEW f, Solution(f, n)
      PROVE  F[d] = f[d]
  <2>1. Solution(CHOOSE g : Solution(g, rank[d] + 1), rank[d] + 1)
    <3> HIDE DEF Solution
    <3> QED
      BY <1>3
  <2>2. d \in To(n) \cap To(rank[d] + 1)
    BY <1>4
  <2>3. rank[d] + 1 \in Nat
    OBVIOUS
  <2>4. (CHOOSE g : Solution(g, rank[d] + 1))[d] = f[d]
    <3> HIDE DEF Solution, To
    <3> QED
      BY <1>1, <1>4, <2>1, <2>2, <2>3
  <2> QED
    BY <2>4
<1>5. ASSUME NEW d \in D
      PROVE  F[d] \in T /\ F[d] = IF d \in Rec THEN step[d][F[below[d]]] ELSE base[d]
  <2>1. PICK f : Solution(f, rank[d] + 1)
    BY <1>3
  <2>2. d \in To(rank[d] + 1) /\ rank[d] + 1 \in Nat
    OBVIOUS
  <2>3. F[d] = f[d]
    <3> HIDE DEF Solution, F
    <3> QED
      BY <1>4, <2>1, <2>2
  <2>4. ASSUME d \in Rec PROVE F[below[d]] = f[below[d]]
    <3>1. below[d] \in D /\ rank[below[d]] < rank[d] + 1
      BY <2>4
    <3> HIDE DEF Solution, F
    <3> QED
      BY <1>4, <2>1, <2>2, <3>1
  <2>5. f[d] \in T /\ f[d] = IF d \in Rec THEN step[d][f[below[d]]] ELSE base[d]
    BY <2>1, <2>2
  <2> HIDE DEF F
  <2> QED
    BY <2>3, <2>4, <2>5
<1>6. F \in [D -> T]
  BY <1>5
<1> HIDE DEF F
<1> QED
  BY <1>5, <1>6 DEF Solves

-----------------------------------------------------------------------------
(* The sum of the values of a function.                                    *)

Some(s) == CHOOSE x \in s : TRUE

\* g gives every part of S the sum of its values.
Sums(g, v, S) ==
    /\ g \in [SUBSET S -> Int] /\ g[{}] = 0
    /\ \A s \in SUBSET S : \A x \in s : g[s] = v[x] + g[s \ {x}]

\* Of a set of subsets, one of which no element can be taken out.
LEMMA Smallest ==
  ASSUME NEW S, IsFiniteSet(S), NEW Bad, Bad \subseteq SUBSET S, Bad # {}
  PROVE  \E s \in Bad : \A x \in s : s \ {x} \notin Bad
<1> DEFINE Sizes == {Cardinality(s) : s \in Bad}
<1>1. \A s \in Bad : IsFiniteSet(s) /\ Cardinality(s) \in Nat
  BY FS_Subset, FS_CardinalityType
<1>2. PICK n \in Sizes : \A m \in Sizes : n <= m
  <2>1. Sizes \subseteq Nat /\ Sizes # {}
    BY <1>1
  <2> HIDE DEF Sizes
  <2> QED
    BY <2>1, Least
<1>3. PICK s \in Bad : Cardinality(s) = n
  OBVIOUS
<1>4. ASSUME NEW x \in s, s \ {x} \in Bad PROVE FALSE
  <2>1. Cardinality(s \ {x}) = n - 1 /\ n \in Nat
    BY <1>1, <1>3, FS_RemoveElement
  <2>2. Cardinality(s \ {x}) \in Sizes
    BY <1>4
  <2> HIDE DEF Sizes
  <2>3. n <= Cardinality(s \ {x})
    BY <1>2, <2>2
  <2> QED
    BY <2>1, <2>3
<1> QED
  BY <1>3, <1>4

LEMMA SumsAny ==
  ASSUME NEW S, IsFiniteSet(S), NEW v \in [S -> Int], NEW g \in [SUBSET S -> Int],
         g[{}] = 0, \A s \in SUBSET S : s # {} => g[s] = v[Some(s)] + g[s \ {Some(s)}]
  PROVE  Sums(g, v, S)
<1> SUFFICES ASSUME NEW t \in SUBSET S, NEW z \in t, g[t] # v[z] + g[t \ {z}] PROVE FALSE
  BY DEF Sums
<1> DEFINE Bad == {s \in SUBSET S : \E x \in s : g[s] # v[x] + g[s \ {x}]}
<1>1. PICK s \in Bad : \A y \in s : s \ {y} \notin Bad
  <2>1. Bad \subseteq SUBSET S /\ Bad # {}
    OBVIOUS
  <2> HIDE DEF Bad
  <2> QED
    BY <2>1, Smallest
<1>2. PICK x \in s : g[s] # v[x] + g[s \ {x}]
  OBVIOUS
<1> DEFINE c == Some(s)
<1>3. c \in s /\ g[s] = v[c] + g[s \ {c}]
  BY <1>2 DEF Some
<1>4. c # x
  BY <1>2, <1>3
<1> HIDE DEF c
<1>5. g[s \ {c}] = v[x] + g[(s \ {c}) \ {x}]
  BY <1>1, <1>3, <1>4
<1>6. g[s \ {x}] = v[c] + g[(s \ {x}) \ {c}]
  BY <1>1, <1>3, <1>4
<1>7. (s \ {c}) \ {x} = (s \ {x}) \ {c}
  OBVIOUS
<1>8. g[(s \ {x}) \ {c}] \in Int /\ v[x] \in Int /\ v[c] \in Int
  BY <1>3
<1>9. v[c] + (v[x] + g[(s \ {x}) \ {c}]) = v[x] + (v[c] + g[(s \ {x}) \ {c}])
  BY <1>8
<1> QED
  BY <1>2, <1>3, <1>5, <1>6, <1>7, <1>9

LEMMA SumFunctionSums ==
  ASSUME NEW S, IsFiniteSet(S), NEW v \in [S -> Int]
  PROVE  \E g : Sums(g, v, S) /\ SumFunction(v) = g[S]
<1> DEFINE Body(g) == [s \in SUBSET S |-> IF s = {} THEN 0 ELSE v[Some(s)] + g[s \ {Some(s)}]]
           iter == CHOOSE g : g = Body(g)
<1>1. SumFunction(v) = iter[S]
  BY DEF SumFunction, SumFunctionOnSet, FoldFunctionOnSet, MapThenFoldSet, Some
<1>2. \E g : g = Body(g)
  <2> DEFINE D == SUBSET S
             Rec == {s \in SUBSET S : s # {}}
             rank == [s \in D |-> Cardinality(s)]
             below == [s \in Rec |-> s \ {Some(s)}]
             base == [s \in D |-> 0]
             step == [s \in Rec |-> [t \in Int |-> v[Some(s)] + t]]
  <2>1. \A s \in D : IsFiniteSet(s) /\ Cardinality(s) \in Nat
    BY FS_Subset, FS_CardinalityType
  <2>2. \A s \in Rec : Some(s) \in s
    BY DEF Some
  <2>3. rank \in [D -> Nat] /\ Rec \in SUBSET D /\ below \in [Rec -> D] /\ base \in [D -> Int]
    BY <2>1
  <2>4. step \in [Rec -> [Int -> Int]]
    BY <2>2
  <2>5. \A s \in Rec : rank[below[s]] < rank[s]
    <3> TAKE s \in Rec
    <3>1. Cardinality(s \ {Some(s)}) = Cardinality(s) - 1
      BY <2>1, <2>2, FS_RemoveElement
    <3> QED
      BY <2>1, <3>1
  <2> HIDE DEF D, Rec, rank, below, base, step
  <2>6. Recursive(D, rank, Int, Rec, below, base, step)
    BY <2>3, <2>4, <2>5 DEF Recursive
  <2>7. PICK g : Solves(g, D, Int, Rec, below, base, step)
    BY <2>6, Recursion
  <2> USE DEF D, Rec, rank, below, base, step, Solves
  <2>8. \A s \in D : g[s] = IF s = {} THEN 0 ELSE v[Some(s)] + g[s \ {Some(s)}]
    <3> TAKE s \in D
    <3>1. CASE s = {}
      BY <2>7, <3>1
    <3>2. CASE s # {}
      <4>1. s \in Rec /\ below[s] = s \ {Some(s)} /\ below[s] \in D
        BY <2>2, <3>2
      <4>2. g[s] = step[s][g[s \ {Some(s)}]] /\ g[s \ {Some(s)}] \in Int
        BY <2>7, <4>1
      <4> QED
        BY <3>2, <4>1, <4>2
    <3> QED
      BY <3>1, <3>2
  <2>9. g = Body(g)
    <3>1. g \in [SUBSET S -> Int]
      BY <2>7
    <3>2. \A s \in SUBSET S : g[s] = IF s = {} THEN 0 ELSE v[Some(s)] + g[s \ {Some(s)}]
      BY <2>8
    <3> HIDE DEF D, Rec, rank, below, base, step, Solves
    <3> QED
      BY ONLY <3>1, <3>2
  <2> QED
    BY <2>9
<1>3. iter = Body(iter)
  BY <1>2
<1> HIDE DEF iter
<1>4. /\ iter \in [SUBSET S -> {iter[s] : s \in SUBSET S}]
      /\ \A s \in SUBSET S : iter[s] = IF s = {} THEN 0 ELSE v[Some(s)] + iter[s \ {Some(s)}]
  BY <1>3
<1>5. \A s \in SUBSET S : iter[s] \in Int
  <2> DEFINE Bad == {s \in SUBSET S : iter[s] \notin Int}
  <2>1. ASSUME Bad # {} PROVE FALSE
    <3>1. PICK s \in Bad : \A y \in s : s \ {y} \notin Bad
      <4>1. Bad \subseteq SUBSET S
        OBVIOUS
      <4> HIDE DEF Bad
      <4> QED
        BY <2>1, <4>1, Smallest
    <3>2. s # {} /\ Some(s) \in s
      BY <1>4 DEF Some
    <3>3. iter[s \ {Some(s)}] \in Int /\ v[Some(s)] \in Int
      BY <3>1, <3>2
    <3> QED
      BY <1>4, <3>2, <3>3
  <2> QED
    BY <2>1
<1>6. iter \in [SUBSET S -> Int]
  BY <1>4, <1>5
<1>7. Sums(iter, v, S)
  BY <1>4, <1>6, SumsAny
<1> QED
  BY <1>1, <1>7

\* The sum of no values, and of one more.
LEMMA SumEmpty ==
  ASSUME NEW v \in [{} -> Int]
  PROVE  SumFunction(v) = 0
<1>1. IsFiniteSet({})
  BY FS_EmptySet
<1>2. PICK g : Sums(g, v, {}) /\ SumFunction(v) = g[{}]
  BY <1>1, SumFunctionSums
<1> QED
  BY <1>2 DEF Sums

LEMMA SumAdd ==
  ASSUME NEW S, IsFiniteSet(S), NEW x, x \notin S, NEW v \in [S \cup {x} -> Int]
  PROVE  SumFunction(v) = SumFunction([y \in S |-> v[y]]) + v[x]
<1> DEFINE w == [y \in S |-> v[y]]
<1>1. PICK h : Sums(h, w, S) /\ SumFunction(w) = h[S]
  BY SumFunctionSums
<1>2. PICK g : Sums(g, v, S \cup {x}) /\ SumFunction(v) = g[S \cup {x}]
  BY FS_AddElement, SumFunctionSums
<1>3. \A s \in SUBSET S : g[s] = h[s]
  <2> DEFINE Bad == {s \in SUBSET S : g[s] # h[s]}
  <2>1. ASSUME Bad # {} PROVE FALSE
    <3>1. PICK s \in Bad : \A y \in s : s \ {y} \notin Bad
      <4>1. Bad \subseteq SUBSET S
        OBVIOUS
      <4> HIDE DEF Bad
      <4> QED
        BY <2>1, <4>1, Smallest
    <3>2. g[{}] = 0 /\ h[{}] = 0
      BY <1>1, <1>2 DEF Sums
    <3>3. PICK y \in s : TRUE
      BY <3>1, <3>2
    <3>4. g[s] = v[y] + g[s \ {y}]
      BY <1>2, <3>1, <3>3 DEF Sums
    <3>5. h[s] = w[y] + h[s \ {y}]
      BY <1>1, <3>1, <3>3 DEF Sums
    <3>6. w[y] = v[y] /\ g[s \ {y}] = h[s \ {y}]
      BY <3>1, <3>3
    <3> QED
      BY <3>1, <3>4, <3>5, <3>6
  <2> QED
    BY <2>1
<1>4. g[S \cup {x}] = v[x] + g[S]
  <2>1. (S \cup {x}) \ {x} = S
    OBVIOUS
  <2>2. g[S \cup {x}] = v[x] + g[(S \cup {x}) \ {x}]
    BY <1>2 DEF Sums
  <2> QED
    BY <2>1, <2>2
<1>5. g[S] = h[S] /\ h[S] \in Int /\ v[x] \in Int
  BY <1>1, <1>3 DEF Sums
<1> QED
  BY <1>1, <1>2, <1>4, <1>5

-----------------------------------------------------------------------------
(* Decimal numbers.                                                        *)

Digits == Zero..(Zero + 9)

\* The function of the definition exists, so that it satisfies its equation.
LEMMA ItoaDefined ==
  /\ Itoa \in [Nat -> Seq(Digits)]
  /\ \A n \in Nat : Itoa[n] = IF n < 10 THEN <<Zero + n>>
                                        ELSE Append(Itoa[n \div 10], Zero + (n % 10))
<1> DEFINE Body(f) == [n \in Nat |-> IF n < 10 THEN <<Zero + n>>
                                               ELSE Append(f[n \div 10], Zero + (n % 10))]
           T == Seq(Digits)
           Rec == {n \in Nat : n >= 10}
           rank == [n \in Nat |-> n]
           below == [n \in Rec |-> n \div 10]
           base == [n \in Nat |-> IF n < 10 THEN <<Zero + n>> ELSE <<>>]
           step == [n \in Rec |-> [s \in T |-> Append(s, Zero + (n % 10))]]
<1>1. \A n \in Nat : n \div 10 \in Nat /\ n % 10 \in 0..9 /\ (n >= 10 => n \div 10 < n)
  OBVIOUS
<1>2. \A n \in Nat : (n < 10 => Zero + n \in Digits) /\ Zero + (n % 10) \in Digits
  BY <1>1 DEF Zero, Digits
<1>3. rank \in [Nat -> Nat] /\ Rec \in SUBSET Nat /\ below \in [Rec -> Nat]
  BY <1>1
<1>4. \A n \in Rec : rank[below[n]] < rank[n]
  BY <1>1
<1>5. base \in [Nat -> T]
  BY <1>2
<1>6. step \in [Rec -> [T -> T]]
  BY <1>2
<1> HIDE DEF T, Rec, rank, below, base, step
<1>7. Recursive(Nat, rank, T, Rec, below, base, step)
  BY <1>3, <1>4, <1>5, <1>6 DEF Recursive
<1>8. PICK f : Solves(f, Nat, T, Rec, below, base, step)
  BY <1>7, Recursion
<1>9. f \in [Nat -> T] /\ \A n \in Nat : f[n] = IF n < 10 THEN <<Zero + n>>
                                                  ELSE Append(f[n \div 10], Zero + (n % 10))
  <2>1. f \in [Nat -> T]
    BY <1>8 DEF Solves
  <2>2. ASSUME NEW n \in Nat, n < 10 PROVE f[n] = <<Zero + n>>
    BY <1>8, <2>2 DEF Solves, Rec, base
  <2>3. ASSUME NEW n \in Nat, ~(n < 10) PROVE f[n] = Append(f[n \div 10], Zero + (n % 10))
    <3>1. n \in Rec
      BY <2>3 DEF Rec
    <3>2. f[n] = step[n][f[below[n]]] /\ below[n] = n \div 10 /\ f[n \div 10] \in T
      BY <1>1, <1>8, <2>1, <3>1 DEF Solves, below
    <3> QED
      BY <3>1, <3>2 DEF step
  <2> QED
    BY <2>1, <2>2, <2>3
<1>10. f = Body(f)
  BY <1>9
<1>11. Itoa = Body(Itoa)
  BY <1>10 DEF Itoa
<1>12. \A n \in Nat : Itoa[n] = IF n < 10 THEN <<Zero + n>>
                                ELSE Append(Itoa[n \div 10], Zero + (n % 10))
  BY <1>11
<1>13. \A n \in Nat : Itoa[n] \in T
  <2> SUFFICES ASSUME NEW m \in Nat, Itoa[m] \notin T PROVE FALSE
    OBVIOUS
  <2> DEFINE Bad == {n \in Nat : Itoa[n] \notin T}
  <2>1. PICK n \in Bad : \A k \in Bad : n <= k
    <3>1. Bad \subseteq Nat /\ Bad # {}
      OBVIOUS
    <3> HIDE DEF Bad
    <3> QED
      BY <3>1, Least
  <2>2. ~(n < 10)
    <3>1. \A d \in Digits : <<d>> \in Seq(Digits)
      OBVIOUS
    <3>2. n < 10 => Itoa[n] = <<Zero + n>> /\ Zero + n \in Digits
      BY <1>2, <1>12
    <3> QED
      BY <3>1, <3>2 DEF T
  <2>3. n \div 10 \in Nat /\ n \div 10 < n
    BY <1>1, <2>1, <2>2
  <2>4. Itoa[n \div 10] \in T
    BY <2>1, <2>3
  <2>5. Itoa[n] = Append(Itoa[n \div 10], Zero + (n % 10)) /\ Zero + (n % 10) \in Digits
    BY <1>2, <1>12, <2>2
  <2>6. Itoa[n] \in T
    <3> HIDE DEF Bad
    <3> QED
      BY <2>4, <2>5 DEF T
  <2> QED
    BY <2>6
<1>14. Itoa \in [Nat -> T]
  <2>1. Itoa = [n \in Nat |-> Itoa[n]]
    BY <1>11
  <2> QED
    BY <1>13, <2>1
<1> QED
  BY <1>12, <1>14 DEF T

\* Two numbers are written differently.
LEMMA ItoaInjective ==
  ASSUME NEW a \in Nat, NEW b \in Nat, Itoa[a] = Itoa[b]
  PROVE  a = b
<1> SUFFICES ASSUME a # b PROVE FALSE
  OBVIOUS
<1> DEFINE Bad == {n \in Nat : \E m \in Nat : Itoa[n] = Itoa[m] /\ n # m}
<1>1. PICK n \in Bad : \A k \in Bad : n <= k
  <2>1. Bad \subseteq Nat /\ Bad # {}
    OBVIOUS
  <2> HIDE DEF Bad
  <2> QED
    BY <2>1, Least
<1>2. PICK m \in Nat : Itoa[n] = Itoa[m] /\ n # m
  OBVIOUS
<1>3. \A i \in Nat : /\ i \div 10 \in Nat /\ i % 10 \in 0..9 /\ i = 10 * (i \div 10) + (i % 10)
                     /\ i >= 10 => i \div 10 < i
  OBVIOUS
<1>4. \A i \in Nat : Itoa[i] \in Seq(Digits) /\ Len(Itoa[i]) > 0
                     /\ (i < 10 <=> Len(Itoa[i]) = 1)
  <2>1. \A i \in Nat : Itoa[i] \in Seq(Digits)
    BY ItoaDefined
  <2>2. ASSUME NEW i \in Nat PROVE Len(Itoa[i]) > 0
    <3>1. CASE i < 10
      <4>1. Itoa[i] = <<Zero + i>>
        BY <3>1, ItoaDefined
      <4> QED
        BY <4>1
    <3>2. CASE ~(i < 10)
      <4>1. Itoa[i] = Append(Itoa[i \div 10], Zero + (i % 10)) /\ Itoa[i \div 10] \in Seq(Digits)
        BY <1>3, <2>1, <3>2, ItoaDefined
      <4> QED
        BY <4>1
    <3> QED
      BY <3>1, <3>2
  <2>3. ASSUME NEW i \in Nat PROVE i < 10 <=> Len(Itoa[i]) = 1
    <3>1. CASE i < 10
      <4>1. Itoa[i] = <<Zero + i>>
        BY <3>1, ItoaDefined
      <4> QED
        BY <3>1, <4>1
    <3>2. CASE ~(i < 10)
      <4>1. Itoa[i] = Append(Itoa[i \div 10], Zero + (i % 10)) /\ Itoa[i \div 10] \in Seq(Digits)
            /\ Len(Itoa[i \div 10]) > 0
        BY <1>3, <2>1, <2>2, <3>2, ItoaDefined
      <4> QED
        BY <3>2, <4>1
    <3> QED
      BY <3>1, <3>2
  <2> QED
    BY <2>1, <2>2, <2>3
<1>5. CASE n < 10
  <2>1. m < 10
    BY <1>2, <1>4, <1>5
  <2>2. <<Zero + n>> = <<Zero + m>>
    BY <1>2, <1>5, <2>1, ItoaDefined
  <2>3. Zero + n = Zero + m
    BY <2>2
  <2> QED
    BY <1>2, <2>3 DEF Zero
<1>6. CASE ~(n < 10)
  <2>1. ~(m < 10)
    BY <1>2, <1>4, <1>6
  <2> DEFINE p == Itoa[n \div 10]
             q == Itoa[m \div 10]
             x == Zero + (n % 10)
             y == Zero + (m % 10)
  <2>2. Append(p, x) = Append(q, y) /\ p \in Seq(Digits) /\ q \in Seq(Digits)
    BY <1>2, <1>3, <1>4, <1>6, <2>1, ItoaDefined
  <2>3. x \in Int /\ y \in Int /\ p \in Seq(Int) /\ q \in Seq(Int)
    <3>1. x \in Int /\ y \in Int
      BY <1>3 DEF Zero
    <3>2. Digits \subseteq Int
      BY DEF Digits, Zero
    <3> HIDE DEF p, q, x, y
    <3> QED
      BY <2>2, <3>1, <3>2, SeqMonotonic
  <2>4. p = q /\ x = y
    <3> HIDE DEF p, q, x, y
    <3> QED
      BY <2>2, <2>3, AppendInjective
  <2>5. n \div 10 = m \div 10
    BY <1>1, <1>3, <1>6, <2>4
  <2>6. n % 10 = m % 10
    BY <1>3, <2>4 DEF Zero
  <2> QED
    BY <1>2, <1>3, <2>5, <2>6
<1> QED
  BY <1>5, <1>6

-----------------------------------------------------------------------------
(* Sequences of sequences, flattened.                                      *)

Cat(s, t) == s \o t

LEMMA Associative ==
  ASSUME NEW S, NEW s \in Seq(S), NEW t \in Seq(S), NEW u \in Seq(S)
  PROVE  Cat(Cat(s, t), u) = Cat(s, Cat(t, u))
BY ConcatAssociative DEF Cat

\* F[i] is what the first i sequences of s make.
Flattens(F, s, S) ==
    /\ F \in [1..Len(s) -> Seq(S)]
    /\ \A i \in 1..Len(s) : F[i] = IF i = 1 THEN s[i] ELSE F[i - 1] \o s[i]

LEMMA FlattenPrefixes ==
  ASSUME NEW S, NEW s \in Seq(Seq(S)), Len(s) # 0
  PROVE  \E F : Flattens(F, s, S) /\ FlattenSeq(s) = F[Len(s)]
<1> DEFINE n == Len(s)
           Body(g) == [i \in 1..n |-> IF i = 1 THEN s[i] ELSE g[i - 1] \o s[i]]
           flatten == CHOOSE g : g = Body(g)
           T == Seq(S)
           Rec == {i \in 1..n : i # 1}
           rank == [i \in 1..n |-> i]
           below == [i \in Rec |-> i - 1]
           base == [i \in 1..n |-> s[i]]
           step == [i \in Rec |-> [t \in T |-> t \o s[i]]]
<1>1. n \in Nat /\ \A i \in 1..n : s[i] \in T
  OBVIOUS
<1>2. FlattenSeq(s) = flatten[n]
  BY DEF FlattenSeq
<1>3. \A t \in T : \A i \in 1..n : t \o s[i] \in T
  BY <1>1, ConcatProperties
<1>4. rank \in [1..n -> Nat] /\ Rec \in SUBSET (1..n) /\ below \in [Rec -> 1..n]
  BY <1>1
<1>5. \A i \in Rec : rank[below[i]] < rank[i]
  BY <1>1
<1>6. base \in [1..n -> T]
  BY <1>1
<1>7. step \in [Rec -> [T -> T]]
  BY <1>3
<1> HIDE DEF n, T, Rec, rank, below, base, step
<1>8. Recursive(1..n, rank, T, Rec, below, base, step)
  BY <1>4, <1>5, <1>6, <1>7 DEF Recursive
<1>9. PICK f : Solves(f, 1..n, T, Rec, below, base, step)
  BY <1>8, Recursion
<1>10. f = Body(f)
  <2>1. f \in [1..n -> T]
    BY <1>9 DEF Solves
  <2>2. ASSUME NEW i \in 1..n PROVE f[i] = IF i = 1 THEN s[i] ELSE f[i - 1] \o s[i]
    <3>1. CASE i = 1
      BY <1>9, <3>1 DEF Solves, Rec, base
    <3>2. CASE i # 1
      <4>1. i \in Rec
        BY <3>2 DEF Rec
      <4>2. f[i] = step[i][f[below[i]]] /\ below[i] = i - 1 /\ i - 1 \in 1..n /\ f[i - 1] \in T
        BY <1>1, <1>9, <2>1, <3>2, <4>1 DEF Solves, below
      <4> QED
        BY <3>2, <4>1, <4>2 DEF step
    <3> QED
      BY <3>1, <3>2
  <2> QED
    BY <2>1, <2>2
<1>11. flatten = Body(flatten)
  BY <1>10
<1> HIDE DEF flatten
<1>12. \A i \in 1..n : flatten[i] = IF i = 1 THEN s[i] ELSE flatten[i - 1] \o s[i]
  BY <1>11
<1>13. \A i \in 1..n : flatten[i] \in T
  <2> SUFFICES ASSUME NEW m \in 1..n, flatten[m] \notin T PROVE FALSE
    OBVIOUS
  <2> DEFINE Bad == {i \in 1..n : flatten[i] \notin T}
  <2>1. PICK i \in Bad : \A k \in Bad : i <= k
    <3>1. m \in Bad
      OBVIOUS
    <3>2. Bad \subseteq Nat
      BY <1>1
    <3> HIDE DEF Bad
    <3> QED
      BY <3>1, <3>2, Least
  <2>2. i # 1
    BY <1>1, <1>12, <2>1
  <2>3. i - 1 \in 1..n /\ ~(i <= i - 1)
    BY <1>1, <2>1, <2>2
  <2>4. flatten[i - 1] \in T
    BY <2>1, <2>3
  <2> QED
    BY <1>3, <1>12, <2>1, <2>2, <2>4
<1>14. flatten = [i \in 1..n |-> flatten[i]]
  BY <1>11
<1>15. Flattens(flatten, s, S)
  BY <1>12, <1>13, <1>14 DEF Flattens, n, T
<1> QED
  BY <1>2, <1>15 DEF n

LEMMA FlattenType ==
  ASSUME NEW S, NEW s \in Seq(Seq(S))
  PROVE  FlattenSeq(s) \in Seq(S)
<1>1. CASE Len(s) = 0
  BY <1>1 DEF FlattenSeq
<1>2. CASE Len(s) # 0
  <2>1. PICK F : Flattens(F, s, S) /\ FlattenSeq(s) = F[Len(s)]
    BY <1>2, FlattenPrefixes
  <2>2. Len(s) \in 1..Len(s)
    BY <1>2
  <2>3. F \in [1..Len(s) -> Seq(S)]
    BY <2>1 DEF Flattens
  <2> QED
    BY <2>1, <2>2, <2>3
<1> QED
  BY <1>1, <1>2

\* The first sequence, and the others flattened.
LEMMA FlattenCons ==
  ASSUME NEW S, NEW s \in Seq(Seq(S)), Len(s) # 0
  PROVE  FlattenSeq(s) = s[1] \o FlattenSeq(Tail(s))
<1> DEFINE n == Len(s)
           r == Tail(s)
<1>1. /\ n \in Nat \ {0} /\ s[1] \in Seq(S) /\ \A i \in 1..n : s[i] \in Seq(S)
      /\ r \in Seq(Seq(S)) /\ Len(r) = n - 1 /\ \A i \in 1..(n - 1) : r[i] = s[i + 1]
  OBVIOUS
<1>2. PICK F : Flattens(F, s, S) /\ FlattenSeq(s) = F[n]
  BY FlattenPrefixes
<1> HIDE DEF r
<1>3. CASE n = 1
  <2>1. r = <<>>
    BY <1>1, <1>3
  <2>2. FlattenSeq(r) = <<>>
    BY <2>1 DEF FlattenSeq
  <2>3. F[n] = s[1]
    BY <1>2, <1>3 DEF Flattens
  <2> QED
    BY <1>1, <1>2, <2>2, <2>3, ConcatEmptySeq DEF r
<1>4. CASE n # 1
  <2>1. PICK G : Flattens(G, r, S) /\ FlattenSeq(r) = G[n - 1]
    <3>1. Len(r) = n - 1 /\ Len(r) # 0
      BY <1>1, <1>4
    <3> HIDE DEF n
    <3>2. \E G : Flattens(G, r, S) /\ FlattenSeq(r) = G[Len(r)]
      BY <1>1, <3>1, FlattenPrefixes
    <3> QED
      BY <3>1, <3>2
  <2>2. G \in [1..(n - 1) -> Seq(S)] /\ F \in [1..n -> Seq(S)]
    BY <1>1, <1>2, <2>1 DEF Flattens
  <2>3. \A i \in 1..(n - 1) : F[i + 1] = s[1] \o G[i]
    <3> SUFFICES ASSUME NEW m \in 1..(n - 1), F[m + 1] # s[1] \o G[m] PROVE FALSE
      OBVIOUS
    <3> DEFINE Wrong(i) == F[i + 1] # s[1] \o G[i]
               Bad == {i \in 1..(n - 1) : Wrong(i)}
    <3>1. PICK i \in Bad : \A k \in Bad : i <= k
      <4>1. m \in Bad
        OBVIOUS
      <4>2. Bad \subseteq Nat
        <5> HIDE DEF Wrong
        <5> QED
          BY <1>1
      <4> HIDE DEF Bad
      <4> QED
        BY <4>1, <4>2, Least
    <3>2. i \in 1..(n - 1) /\ F[i + 1] # s[1] \o G[i]
      BY <3>1
    <3>3. F[i + 1] = F[i] \o s[i + 1]
      <4>1. i + 1 \in 1..n /\ i + 1 # 1 /\ (i + 1) - 1 = i
        BY <1>1, <3>2
      <4> QED
        BY <1>2, <4>1 DEF Flattens
    <3>4. CASE i = 1
      <4>1. 1 \in 1..n /\ 1 \in 1..(n - 1)
        BY <3>2, <3>4
      <4>2. F[1] = s[1]
        BY <1>2, <4>1 DEF Flattens
      <4>3. G[1] = r[1]
        BY <1>1, <2>1, <4>1 DEF Flattens
      <4>4. r[1] = s[1 + 1]
        BY <1>1, <4>1
      <4> QED
        BY <3>2, <3>3, <3>4, <4>2, <4>3, <4>4
    <3>5. CASE i # 1
      <4>1. i - 1 \in 1..(n - 1) /\ ~(i <= i - 1)
        BY <1>1, <3>2, <3>5
      <4>2. F[(i - 1) + 1] = s[1] \o G[i - 1]
        BY <3>1, <4>1
      <4>3. (i - 1) + 1 = i
        BY <1>1, <3>2
      <4>4. G[i] = G[i - 1] \o r[i] /\ r[i] = s[i + 1]
        BY <1>1, <2>1, <3>2, <3>5 DEF Flattens
      <4>5. s[i + 1] \in Seq(S) /\ G[i - 1] \in Seq(S)
        <5>1. i + 1 \in 1..n
          BY <1>1, <3>2
        <5> QED
          BY <1>1, <2>2, <4>1, <5>1
      <4>6. Cat(Cat(s[1], G[i - 1]), s[i + 1]) = Cat(s[1], Cat(G[i - 1], s[i + 1]))
        <5>1. s[1] \in Seq(S)
          BY <1>1
        <5> HIDE DEF Wrong, Bad
        <5> QED
          BY <4>5, <5>1, Associative
      <4>7. /\ F[i + 1] = Cat(F[i], s[i + 1]) /\ F[i] = Cat(s[1], G[i - 1])
            /\ G[i] = Cat(G[i - 1], s[i + 1])
        BY <3>3, <4>2, <4>3, <4>4 DEF Cat
      <4>8. F[i + 1] = Cat(s[1], G[i])
        BY <4>6, <4>7, Zenon
      <4> QED
        BY <3>2, <4>8 DEF Cat
    <3> QED
      BY <3>4, <3>5
  <2>4. n - 1 \in 1..(n - 1) /\ (n - 1) + 1 = n
    BY <1>1, <1>4
  <2>5. F[n] = s[1] \o G[n - 1]
    BY <2>3, <2>4
  <2> QED
    BY <1>2, <2>1, <2>5 DEF r
<1> QED
  BY <1>3, <1>4

-----------------------------------------------------------------------------
(* The key of a label tuple is read from the left.                         *)

\* The first colon ends the length.
Headed(A, X) == Append(A, Colon) \o X

LEMMA FirstColon ==
  ASSUME NEW A \in Seq(Digits), NEW B \in Seq(Digits), NEW X \in Seq(Nat), NEW Y \in Seq(Nat),
         Headed(A, X) = Headed(B, Y)
  PROVE  A = B /\ X = Y
<1> DEFINE P == Append(A, Colon)
           Q == Append(B, Colon)
<1>1. /\ Digits \subseteq Nat /\ Colon \in Nat /\ Colon \notin Digits
  BY DEF Digits, Zero, Colon
<1>2. A \in Seq(Nat) /\ B \in Seq(Nat)
  BY <1>1, SeqMonotonic
<1>3. /\ P \in Seq(Nat) /\ Len(P) = Len(A) + 1 /\ P[Len(A) + 1] = Colon
      /\ \A i \in 1..Len(A) : P[i] = A[i] /\ A[i] \in Digits
      /\ Q \in Seq(Nat) /\ Len(Q) = Len(B) + 1 /\ Q[Len(B) + 1] = Colon
      /\ \A i \in 1..Len(B) : Q[i] = B[i] /\ B[i] \in Digits
      /\ Len(A) \in Nat /\ Len(B) \in Nat
  BY <1>1, <1>2
<1> HIDE DEF P, Q
<1>4. /\ \A i \in 1..Len(P) : (P \o X)[i] = P[i]
      /\ \A i \in 1..Len(Q) : (Q \o Y)[i] = Q[i]
  <2>1. \A i \in 1..(Len(P) + Len(X)) : (P \o X)[i] = IF i <= Len(P) THEN P[i] ELSE X[i - Len(P)]
    BY <1>3, ConcatProperties
  <2>2. \A i \in 1..(Len(Q) + Len(Y)) : (Q \o Y)[i] = IF i <= Len(Q) THEN Q[i] ELSE Y[i - Len(Q)]
    BY <1>3, ConcatProperties
  <2>3. Len(X) \in Nat /\ Len(Y) \in Nat
    OBVIOUS
  <2> QED
    BY <1>3, <2>1, <2>2, <2>3
<1>5. P \o X = Q \o Y
  BY DEF P, Q, Headed
<1>6. ~(Len(A) < Len(B))
  <2> SUFFICES ASSUME Len(A) < Len(B) PROVE FALSE
    OBVIOUS
  <2>1. Len(A) + 1 \in 1..Len(P) /\ Len(A) + 1 \in 1..Len(B) /\ Len(A) + 1 \in 1..Len(Q)
    BY <1>3
  <2>2. P[Len(A) + 1] = Q[Len(A) + 1]
    BY <1>4, <1>5, <2>1
  <2> QED
    BY <1>1, <1>3, <2>1, <2>2
<1>7. ~(Len(B) < Len(A))
  <2> SUFFICES ASSUME Len(B) < Len(A) PROVE FALSE
    OBVIOUS
  <2>1. Len(B) + 1 \in 1..Len(Q) /\ Len(B) + 1 \in 1..Len(A) /\ Len(B) + 1 \in 1..Len(P)
    BY <1>3
  <2>2. P[Len(B) + 1] = Q[Len(B) + 1]
    BY <1>4, <1>5, <2>1
  <2> QED
    BY <1>1, <1>3, <2>1, <2>2
<1>8. Len(A) = Len(B)
  BY <1>3, <1>6, <1>7
<1>9. \A i \in 1..Len(A) : A[i] = B[i]
  <2> TAKE i \in 1..Len(A)
  <2>1. i \in 1..Len(P) /\ i \in 1..Len(Q) /\ i \in 1..Len(B)
    BY <1>3, <1>8
  <2> QED
    BY <1>3, <1>4, <1>5, <2>1
<1>10. A = B
  BY <1>8, <1>9, SeqEqual
<1>11. P = Q
  BY <1>10 DEF P, Q
<1>12. X = Y
  BY <1>3, <1>5, <1>11, ConcatSimplifications
<1> QED
  BY <1>10, <1>12

\* A label and what follows it can be told apart.
LabelBefore(l, X) == encodeLabel(l) \o X

LEMMA FirstLabel ==
  ASSUME NEW l \in Seq(Nat), NEW m \in Seq(Nat), NEW X \in Seq(Nat), NEW Y \in Seq(Nat),
         LabelBefore(l, X) = LabelBefore(m, Y)
  PROVE  l = m /\ X = Y
<1> DEFINE A == Itoa[Len(l)]
           B == Itoa[Len(m)]
           P == Append(A, Colon)
           Q == Append(B, Colon)
<1>1. A \in Seq(Digits) /\ B \in Seq(Digits) /\ Len(l) \in Nat /\ Len(m) \in Nat
  <2>1. Len(l) \in Nat /\ Len(m) \in Nat
    OBVIOUS
  <2>2. \A n \in Nat : Itoa[n] \in Seq(Digits)
    BY ItoaDefined
  <2> QED
    BY <2>1, <2>2
<1>2. P \in Seq(Nat) /\ Q \in Seq(Nat)
  <2>1. Digits \subseteq Nat /\ Colon \in Nat
    BY DEF Digits, Zero, Colon
  <2>2. A \in Seq(Nat) /\ B \in Seq(Nat)
    BY <1>1, <2>1, SeqMonotonic
  <2> HIDE DEF A, B
  <2> QED
    BY <2>1, <2>2
<1>3. LabelBefore(l, X) = Cat(Cat(P, l), X) /\ LabelBefore(m, Y) = Cat(Cat(Q, m), Y)
  BY DEF LabelBefore, encodeLabel, Cat
<1>4. l \o X \in Seq(Nat) /\ m \o Y \in Seq(Nat) /\ Len(l \o X) = Len(l) + Len(X)
  BY ConcatProperties
<1> HIDE DEF A, B, P, Q
<1>5. P \o (l \o X) = Q \o (m \o Y)
  <2>1. Cat(Cat(P, l), X) = Cat(P, Cat(l, X))
    BY <1>2, Associative
  <2>2. Cat(Cat(Q, m), Y) = Cat(Q, Cat(m, Y))
    BY <1>2, Associative
  <2> QED
    BY <1>3, <2>1, <2>2 DEF Cat
<1>6. A = B /\ l \o X = m \o Y
  <2> DEFINE x == l \o X
             y == m \o Y
  <2>1. x \in Seq(Nat) /\ y \in Seq(Nat) /\ Headed(A, x) = Headed(B, y)
    BY <1>4, <1>5 DEF P, Q, Headed
  <2> HIDE DEF x, y
  <2>2. A = B /\ x = y
    BY <1>1, <2>1, FirstColon
  <2> QED
    BY <2>2 DEF x, y
<1>7. Len(l) = Len(m)
  BY <1>1, <1>6, ItoaInjective DEF A, B
<1>8. l = m
  <2>1. \A i \in 1..(Len(l) + Len(X)) : (l \o X)[i] = IF i <= Len(l) THEN l[i] ELSE X[i - Len(l)]
    BY ConcatProperties
  <2>2. \A i \in 1..(Len(m) + Len(Y)) : (m \o Y)[i] = IF i <= Len(m) THEN m[i] ELSE Y[i - Len(m)]
    BY ConcatProperties
  <2>3. Len(X) \in Nat /\ Len(Y) \in Nat
    OBVIOUS
  <2>4. \A i \in 1..Len(l) : l[i] = (l \o X)[i]
    BY <1>1, <2>1, <2>3
  <2>5. \A i \in 1..Len(m) : m[i] = (m \o Y)[i]
    BY <1>1, <2>2, <2>3
  <2>6. \A i \in 1..Len(l) : l[i] = m[i]
    BY <1>6, <1>7, <2>4, <2>5
  <2> QED
    BY <1>7, <2>6, SeqEqual
<1>9. X = Y
  BY <1>6, <1>8, ConcatSimplifications
<1> QED
  BY <1>8, <1>9

LEMMA EncodeLabelType ==
  ASSUME NEW l \in Seq(Nat)
  PROVE  encodeLabel(l) \in Seq(Nat) /\ Len(encodeLabel(l)) > 0
<1> DEFINE P == Append(Itoa[Len(l)], Colon)
<1>1. Digits \subseteq Nat /\ Colon \in Nat
  BY DEF Digits, Zero, Colon
<1>2. Itoa[Len(l)] \in Seq(Nat)
  <2>1. Len(l) \in Nat /\ \A n \in Nat : Itoa[n] \in Seq(Digits)
    BY ItoaDefined
  <2>2. Itoa[Len(l)] \in Seq(Digits)
    BY <2>1
  <2> QED
    BY <1>1, <2>2, SeqMonotonic
<1>3. P \in Seq(Nat) /\ Len(P) > 0
  BY <1>1, <1>2
<1> HIDE DEF P
<1>4. P \o l \in Seq(Nat) /\ Len(P \o l) = Len(P) + Len(l) /\ Len(l) \in Nat /\ Len(P) \in Nat
  BY <1>3, ConcatProperties
<1> QED
  BY <1>3, <1>4 DEF encodeLabel, P

LEMMA EncodeCons ==
  ASSUME NEW l \in Seq(Seq(Nat))
  PROVE  /\ encodeLabelTuple(l) \in Seq(Nat)
         /\ Len(l) = 0 => encodeLabelTuple(l) = <<>>
         /\ Len(l) # 0 => /\ encodeLabelTuple(l) = encodeLabel(l[1]) \o encodeLabelTuple(Tail(l))
                          /\ Tail(l) \in Seq(Seq(Nat))
                          /\ l[1] \in Seq(Nat)
<1> DEFINE e == [i \in 1..Len(l) |-> encodeLabel(l[i])]
<1>1. Len(l) \in Nat /\ \A i \in 1..Len(l) : l[i] \in Seq(Nat) /\ encodeLabel(l[i]) \in Seq(Nat)
  BY EncodeLabelType
<1>2. e \in Seq(Seq(Nat)) /\ Len(e) = Len(l) /\ \A i \in 1..Len(l) : e[i] = encodeLabel(l[i])
  BY <1>1
<1>3. encodeLabelTuple(l) = FlattenSeq(e)
  BY DEF encodeLabelTuple
<1> HIDE DEF e
<1>4. CASE Len(l) = 0
  <2>1. e = <<>>
    BY <1>2, <1>4
  <2>2. FlattenSeq(e) = <<>>
    BY <2>1 DEF FlattenSeq
  <2> QED
    BY <1>3, <1>4, <2>2
<1>5. CASE Len(l) # 0
  <2>1. Tail(l) \in Seq(Seq(Nat)) /\ Len(Tail(l)) = Len(l) - 1
        /\ \A i \in 1..(Len(l) - 1) : Tail(l)[i] = l[i + 1]
    BY <1>5
  <2>2. Tail(e) \in Seq(Seq(Nat)) /\ Len(Tail(e)) = Len(l) - 1
        /\ \A i \in 1..(Len(l) - 1) : Tail(e)[i] = e[i + 1]
    BY <1>2, <1>5
  <2>3. Tail(e) = [i \in 1..Len(Tail(l)) |-> encodeLabel(Tail(l)[i])]
    <3>1. Tail(e) = [i \in 1..(Len(l) - 1) |-> Tail(e)[i]]
      BY <2>2, LenProperties
    <3>2. \A i \in 1..(Len(l) - 1) : Tail(e)[i] = encodeLabel(Tail(l)[i])
      BY <1>1, <1>2, <2>1, <2>2
    <3> QED
      BY <2>1, <3>1, <3>2
  <2>4. FlattenSeq(e) = e[1] \o FlattenSeq(Tail(e))
    BY <1>2, <1>5, FlattenCons
  <2>5. encodeLabelTuple(Tail(l)) = FlattenSeq(Tail(e))
    BY <2>3 DEF encodeLabelTuple
  <2>6. 1 \in 1..Len(l)
    BY <1>1, <1>5
  <2> QED
    BY <1>1, <1>2, <1>3, <1>5, <2>1, <2>4, <2>5, <2>6, FlattenType
<1> QED
  BY <1>4, <1>5

(* Two label tuples never have one key, whatever their labels hold: colons *)
(* and digits included (utils.go:184-194).                                 *)
THEOREM KeysDiffer ==
  ASSUME NEW l \in Seq(Seq(Nat)), NEW m \in Seq(Seq(Nat)),
         encodeLabelTuple(l) = encodeLabelTuple(m)
  PROVE  l = m
<1> DEFINE Bad == {n \in Nat : \E p, q \in Seq(Seq(Nat)) :
                      Len(p) = n /\ encodeLabelTuple(p) = encodeLabelTuple(q) /\ p # q}
<1>1. SUFFICES ASSUME l # m PROVE FALSE
  OBVIOUS
<1>2. PICK n \in Bad : \A k \in Bad : n <= k
  <2>1. Len(l) \in Bad
    BY <1>1
  <2>2. Bad \subseteq Nat /\ Bad # {}
    BY <2>1
  <2> HIDE DEF Bad
  <2> QED
    BY <2>2, Least
<1>3. PICK p \in Seq(Seq(Nat)), q \in Seq(Seq(Nat)) :
         Len(p) = n /\ encodeLabelTuple(p) = encodeLabelTuple(q) /\ p # q
  BY <1>2
<1>4. ASSUME NEW s \in Seq(Seq(Nat)), Len(s) # 0
      PROVE  encodeLabelTuple(s) # <<>>
  <2> DEFINE x == encodeLabel(s[1])
             y == encodeLabelTuple(Tail(s))
  <2>1. encodeLabelTuple(s) = x \o y /\ x \in Seq(Nat) /\ Len(x) > 0 /\ y \in Seq(Nat)
    BY <1>4, EncodeCons, EncodeLabelType
  <2> HIDE DEF x, y
  <2>2. Len(x \o y) = Len(x) + Len(y) /\ Len(y) \in Nat /\ Len(x) \in Nat
    BY <2>1, ConcatProperties
  <2> QED
    BY <2>1, <2>2
<1>5. Len(p) # 0 /\ Len(q) # 0
  <2>1. \A s \in Seq(Seq(Nat)) : Len(s) = 0 => encodeLabelTuple(s) = <<>>
    BY EncodeCons
  <2>2. Len(p) = 0 /\ Len(q) = 0 => p = q
    OBVIOUS
  <2> HIDE DEF Bad
  <2> QED
    BY <1>3, <1>4, <2>1, <2>2
<1>6. /\ encodeLabelTuple(p) = encodeLabel(p[1]) \o encodeLabelTuple(Tail(p))
      /\ encodeLabelTuple(q) = encodeLabel(q[1]) \o encodeLabelTuple(Tail(q))
      /\ Tail(p) \in Seq(Seq(Nat)) /\ Tail(q) \in Seq(Seq(Nat))
      /\ p[1] \in Seq(Nat) /\ q[1] \in Seq(Nat)
  BY <1>5, EncodeCons
<1>7. p[1] = q[1] /\ encodeLabelTuple(Tail(p)) = encodeLabelTuple(Tail(q))
  <2> DEFINE x == encodeLabelTuple(Tail(p))
             y == encodeLabelTuple(Tail(q))
  <2>1. x \in Seq(Nat) /\ y \in Seq(Nat)
    BY <1>6, EncodeCons
  <2>2. LabelBefore(p[1], x) = LabelBefore(q[1], y)
    BY <1>3, <1>6 DEF LabelBefore
  <2> HIDE DEF x, y, Bad
  <2>3. p[1] = q[1] /\ x = y
    BY <1>6, <2>1, <2>2, FirstLabel
  <2> QED
    BY <2>3 DEF x, y
<1>8. Tail(p) = Tail(q)
  <2>1. Len(Tail(p)) = n - 1 /\ n - 1 \in Nat /\ ~(n <= n - 1)
    BY <1>3, <1>5
  <2>2. n - 1 \notin Bad
    <3> HIDE DEF Bad
    <3> QED
      BY <1>2, <2>1
  <2> QED
    BY <1>6, <1>7, <2>1, <2>2
<1>9. p = q
  <2>1. Len(Tail(p)) = Len(p) - 1 /\ Len(Tail(q)) = Len(q) - 1
        /\ (\A i \in 1..(Len(p) - 1) : Tail(p)[i] = p[i + 1])
        /\ (\A i \in 1..(Len(q) - 1) : Tail(q)[i] = q[i + 1])
    BY <1>5
  <2>2. Len(p) = Len(q) /\ Len(p) \in Nat
    <3>1. Len(p) \in Nat /\ Len(q) \in Nat
      OBVIOUS
    <3>2. Len(p) - 1 = Len(q) - 1
      BY <1>8, <2>1, Zenon
    <3> QED
      BY <3>1, <3>2
  <2>3. \A i \in 1..Len(p) : p[i] = q[i]
    <3> TAKE i \in 1..Len(p)
    <3>1. CASE i = 1
      BY <1>7, <3>1
    <3>2. CASE i # 1
      <4>1. i - 1 \in 1..(Len(p) - 1) /\ (i - 1) + 1 = i
        BY <2>2, <3>2
      <4> QED
        BY <1>8, <2>1, <2>2, <4>1
    <3> QED
      BY <3>1, <3>2
  <2> QED
    BY <2>2, <2>3, SeqEqual
<1> QED
  BY <1>3, <1>9

-----------------------------------------------------------------------------
(* Where the search puts an observation: up to the bounds it is not above. *)
LEMMA BucketIndex ==
  ASSUME NEW c \in Columns, NEW v \in Int
  PROVE  /\ bucketIndex(c, v) \in 1..Inf(c)
         /\ \A i \in 1..Inf(c) :
               bucketIndex(c, v) <= i <=> (i <= Len(Bucket[c]) => v <= Bucket[c][i])
<1> DEFINE n == Len(Bucket[c])
           T == {i \in 1..(n + 1) : i <= n => Bucket[c][i] >= v}
<1>1. /\ n \in Nat /\ Inf(c) = n + 1
      /\ \A i \in 1..n : Bucket[c][i] \in Int
      /\ \A i, j \in 1..n : i < j => Bucket[c][i] < Bucket[c][j]
  BY HistogramAssumption DEF Inf, StrictlyIncreasing
<1>2. PICK x \in T : \A y \in T : x <= y
  <2>1. T \subseteq Nat /\ n + 1 \in T
    BY <1>1
  <2> HIDE DEF T
  <2> QED
    BY <2>1, Least
<1>3. /\ x \in 1..(n + 1)
      /\ \A j \in 1..(x - 1) : Bucket[c][j] < v
      /\ x <= n => Bucket[c][x] >= v
  <2>1. \A j \in 1..(x - 1) : j \notin T /\ j \in 1..n
    BY <1>1, <1>2
  <2>2. x \in 1..(n + 1) /\ (x <= n => Bucket[c][x] >= v)
    BY <1>2
  <2>3. ASSUME NEW j \in 1..(x - 1) PROVE Bucket[c][j] < v
    <3>1. j \in 1..n /\ Bucket[c][j] \in Int /\ ~ (Bucket[c][j] >= v)
      BY <1>1, <2>1
    <3> HIDE DEF T, n
    <3> QED
      BY <3>1
  <2> QED
    BY <2>2, <2>3
<1>4. /\ bucketIndex(c, v) \in 1..(n + 1)
      /\ \A j \in 1..(bucketIndex(c, v) - 1) : Bucket[c][j] < v
      /\ bucketIndex(c, v) <= n => Bucket[c][bucketIndex(c, v)] >= v
  BY <1>3, Zenon DEF bucketIndex
<1> HIDE DEF T
<1>5. ASSUME NEW i \in 1..(n + 1)
      PROVE  bucketIndex(c, v) <= i <=> (i <= n => v <= Bucket[c][i])
  <2> DEFINE x0 == bucketIndex(c, v)
  <2>1. x0 \in 1..(n + 1) /\ (\A j \in 1..(x0 - 1) : Bucket[c][j] < v)
        /\ (x0 <= n => Bucket[c][x0] >= v)
    BY <1>4
  <2> HIDE DEF x0
  <2>2. CASE i < x0
    <3>1. i \in 1..n /\ Bucket[c][i] < v /\ Bucket[c][i] \in Int
      BY <1>1, <2>1, <2>2
    <3> QED
      BY <2>1, <2>2, <3>1 DEF x0
  <2>3. CASE x0 <= i /\ i <= n
    <3>1. x0 \in 1..n /\ i \in 1..n /\ Bucket[c][x0] >= v /\ Bucket[c][i] \in Int
          /\ Bucket[c][x0] \in Int
      BY <1>1, <2>1, <2>3
    <3>2. Bucket[c][i] >= Bucket[c][x0]
      BY <1>1, <2>3, <3>1
    <3>3. v <= Bucket[c][i]
      BY <3>1, <3>2
    <3> QED
      BY <2>3, <3>3 DEF x0
  <2>4. CASE i = n + 1
    <3>1. x0 <= i /\ ~ (i <= n)
      BY <1>1, <2>1, <2>4
    <3> QED
      BY <3>1 DEF x0
  <2>5. i < x0 \/ (x0 <= i /\ i <= n) \/ i = n + 1
    BY <1>1, <2>1
  <2> QED
    BY <2>2, <2>3, <2>4, <2>5
<1> QED
  BY <1>1, <1>4, <1>5

(* An observation is an integer.                                           *)
LEMMA ValueInt ==
  ASSUME NEW c \in Columns, NEW d \in Data
  PROVE  value(c, d) \in Int
<1>1. defaulted(c, d) \in Datum /\ Scale[c] \in Int
  BY HistogramAssumption DEF defaulted
<1>2. defaulted(c, d).num \in Int
  BY <1>1 DEF Datum
<1>3. \A x, y \in Int : x * y \in Int
  OBVIOUS
<1> QED
  BY <1>1, <1>2, <1>3 DEF value

(* What the loop has seen of a group are finitely many rows.               *)
LEMMA ObservationsFinite ==
  ASSUME TypeOK, NEW c \in Columns, NEW k
  PROVE  /\ Observations(c, k) \subseteq Seen(c) /\ Seen(c) \subseteq 1..Len(rows)
         /\ Len(rows) \in Nat
         /\ \A S \in SUBSET Observations(c, k) : IsFiniteSet(S) /\ Cardinality(S) \in Nat
         /\ \A j \in 1..Len(rows) : /\ rows[j].labels \in LabelTuples
                                    /\ rows[j].data[c] \in Data
                                    /\ Observation(c, j) \in Int
<1>1. /\ Observations(c, k) \subseteq Seen(c) /\ Seen(c) \subseteq 1..Len(rows)
      /\ Len(rows) \in Nat
  BY DEF Observations, Seen, TypeOK
<1>2. IsFiniteSet(1..Len(rows))
  BY <1>1, FS_Interval
<1>3. \A S \in SUBSET Observations(c, k) : IsFiniteSet(S) /\ Cardinality(S) \in Nat
  BY <1>1, <1>2, FS_Subset, FS_CardinalityType
<1>4. ASSUME NEW j \in 1..Len(rows)
      PROVE  /\ rows[j].labels \in LabelTuples
             /\ rows[j].data[c] \in Data
             /\ Observation(c, j) \in Int
  <2>1. rows[j] \in Rows
    BY DEF TypeOK
  <2>2. rows[j].labels \in LabelTuples /\ rows[j].data[c] \in Data
    BY <2>1 DEF Rows
  <2> QED
    BY <2>2, ValueInt DEF Observation
<1> QED
  BY <1>1, <1>3, <1>4

-----------------------------------------------------------------------------
(* What the steps of the loop change of the observations of a group.       *)

SameObservations ==
    \A c \in Columns, k \in Keys :
        /\ Observations(c, k)' = Observations(c, k)
        /\ \A j \in Observations(c, k) : Observation(c, j)' = Observation(c, j)

LEMMA OtherStepsSee ==
  ASSUME UNCHANGED <<rows, col>>
  PROVE  SameObservations
BY DEF SameObservations, Observations, Observation, Seen

\* A new row is seen by no column yet.
LEMMA NextRowSees ==
  ASSUME TypeOK, nextRow
  PROVE  /\ SameObservations
         /\ \A c \in Columns : Seen(c)' = Seen(c) /\ \A j \in Seen(c) : rows'[j] = rows[j]
<1> PICK r \in Rows : rows' = Append(rows, r)
  BY DEF nextRow
<1>1. /\ rows \in Seq(Rows) /\ NCol \in Nat /\ col = NCol + 1 /\ col' = 1
      /\ Len(rows) \in Nat /\ Len(rows') = Len(rows) + 1
      /\ \A j \in 1..Len(rows) : rows'[j] = rows[j]
  BY HistogramAssumption DEF nextRow, TypeOK
<1>2. ASSUME NEW c \in Columns
      PROVE  Seen(c)' = 1..Len(rows) /\ Seen(c) = 1..Len(rows)
  BY <1>1 DEF Seen, Columns
<1>3. ASSUME NEW c \in Columns, NEW k \in Keys
      PROVE  /\ Observations(c, k)' = Observations(c, k)
             /\ \A j \in Observations(c, k) : Observation(c, j)' = Observation(c, j)
  BY <1>1, <1>2 DEF Observations, Observation
<1> QED
  BY <1>1, <1>2, <1>3 DEF SameObservations

LEMMA SkipNullSees ==
  ASSUME TypeOK, skipNull
  PROVE  SameObservations
<1>1. /\ NCol \in Nat /\ col \in Columns /\ col' = col + 1 /\ rows' = rows
      /\ Len(rows) \in Nat
      /\ ~present(col, rows[Len(rows)].data[col])
  BY HistogramAssumption DEF skipNull, atColumn, datum, row, TypeOK
<1>2. ASSUME NEW c \in Columns, NEW k \in Keys
      PROVE  /\ Observations(c, k)' = Observations(c, k)
             /\ \A j \in Observations(c, k) : Observation(c, j)' = Observation(c, j)
  <2>1. c # col => Seen(c)' = Seen(c)
    BY <1>1 DEF Seen, Columns
  <2>2. c = col => Seen(c)' = Seen(c) \cup ({Len(rows)} \cap 1..Len(rows))
    BY <1>1 DEF Seen, Columns
  <2> QED
    BY <1>1, <2>1, <2>2 DEF Observations, Observation
<1> QED
  BY <1>2 DEF SameObservations

LEMMA ObserveSees ==
  ASSUME TypeOK, observe
  PROVE  /\ Len(rows) \in 1..Len(rows) /\ key \in Keys
         /\ \A c \in Columns, k \in Keys :
               Observations(c, k)' = IF c = col /\ k = key THEN Observations(c, k) \cup {Len(rows)}
                                                           ELSE Observations(c, k)
         /\ Len(rows) \notin Observations(col, key)
         /\ rows' = rows
<1>1. /\ NCol \in Nat /\ col \in Columns /\ col' = col + 1 /\ rows' = rows
      /\ Len(rows) \in Nat /\ rows # <<>> /\ rows \in Seq(Rows)
      /\ present(col, rows[Len(rows)].data[col])
  BY HistogramAssumption DEF observe, atColumn, datum, row, TypeOK, Columns
<1>2. Len(rows) \in 1..Len(rows)
  BY <1>1
<1>3. ASSUME NEW c \in Columns, NEW k \in Keys
      PROVE  Observations(c, k)' = IF c = col /\ k = key THEN Observations(c, k) \cup {Len(rows)}
                                                         ELSE Observations(c, k)
  <2>1. c # col => Seen(c)' = Seen(c)
    BY <1>1 DEF Seen, Columns
  <2>2. c = col => Seen(c)' = Seen(c) \cup {Len(rows)}
    BY <1>1, <1>2 DEF Seen, Columns
  <2> QED
    BY <1>1, <2>1, <2>2 DEF Observations, key, row
<1>4. Len(rows) \notin Observations(col, key)
  <2>1. Len(rows) \notin Seen(col)
    BY <1>1 DEF Seen, Columns
  <2> QED
    BY <2>1 DEF Observations
<1>5. key \in Keys
  <2>1. rows[Len(rows)] \in Rows
    BY <1>1, <1>2
  <2> QED
    BY <2>1 DEF key, row, Keys, Rows
<1> QED
  BY <1>1, <1>2, <1>3, <1>4, <1>5

-----------------------------------------------------------------------------
(* The state stays well typed.                                             *)

LEMMA TypeInit == Init => TypeOK
<1> SUFFICES ASSUME Init PROVE TypeOK
  OBVIOUS
<1>1. NCol \in Nat /\ MaxRows \in Nat /\ \A c \in Columns : Inf(c) \in Nat \ {0}
  BY HistogramAssumption DEF Inf
<1>2. \A c \in Columns : histograms[c] \in [Keys -> Accumulators(c)]
  BY <1>1 DEF Init, Empty, NoGroup, Accumulators
<1> QED
  BY <1>1, <1>2 DEF Init, Empty, TypeOK, Columns

\* Folding one observation into an accumulator.
LEMMA Accumulate ==
  ASSUME NEW c \in Columns, NEW l \in LabelTuples, NEW v \in Int, NEW acc \in Accumulators(c),
         c = col, row.labels = l
  PROVE  /\ accumulate(acc, v) \in Accumulators(c)
         /\ accumulate(acc, v).count = acc.count + 1
         /\ accumulate(acc, v).count > 0
         /\ accumulate(acc, v).sum = acc.sum + v
         /\ accumulate(acc, v).labels = IF acc.count = 0 THEN l ELSE acc.labels
         /\ \A i \in 1..Inf(c) : accumulate(acc, v).counts[i] =
               IF i = bucketIndex(c, v) THEN acc.counts[i] + 1 ELSE acc.counts[i]
<1> DEFINE i0  == bucketIndex(c, v)
           new == [acc.counts EXCEPT ![i0] = @ + 1]
<1>1. i0 \in 1..Inf(c)
  BY BucketIndex
<1>2. /\ acc.labels \in LabelTuples \cup {<<>>} /\ acc.counts \in [1..Inf(c) -> Nat]
      /\ acc.count \in Nat /\ acc.sum \in Int
  BY DEF Accumulators
<1>3. /\ new \in [1..Inf(c) -> Nat]
      /\ \A i \in 1..Inf(c) : new[i] = IF i = i0 THEN acc.counts[i] + 1 ELSE acc.counts[i]
  <2> HIDE DEF i0
  <2> QED
    BY <1>1, <1>2 DEF Inf
<1>4. accumulate(acc, v) = [labels |-> IF acc.count = 0 THEN l ELSE acc.labels, counts |-> new,
                            count |-> acc.count + 1, sum |-> acc.sum + v]
  BY DEF accumulate
<1> HIDE DEF new
<1> QED
  BY <1>2, <1>3, <1>4 DEF Accumulators

LEMMA TypeStep == TypeOK /\ [Next]_vars => TypeOK'
<1> SUFFICES ASSUME TypeOK, [Next]_vars PROVE TypeOK'
  OBVIOUS
<1> USE DEF vars
<1>0. /\ NCol \in Nat /\ MaxRows \in Nat /\ \A c \in Columns : Inf(c) \in Nat \ {0}
      /\ \A c \in Columns : Len(Bucket[c]) \in Nat /\ Inf(c) = Len(Bucket[c]) + 1
      /\ Columns = 1..NCol
  BY HistogramAssumption DEF Inf, Columns
<1>1. CASE execute
  <2>1. \A c \in Columns : histograms'[c] \in [Keys -> Accumulators(c)]
    BY <1>0, <1>1 DEF execute, Empty, NoGroup, Accumulators
  <2> QED
    BY <1>0, <1>1, <2>1 DEF execute, Empty, TypeOK
<1>2. CASE nextRow
  <2>1. /\ rows' \in Seq(Rows) /\ Len(rows') <= MaxRows /\ rows' # <<>> /\ col' = 1
    <3>1. PICK r \in Rows : rows' = Append(rows, r)
      BY <1>2 DEF nextRow
    <3>2. rows \in Seq(Rows) /\ Len(rows) < MaxRows /\ Len(rows) \in Nat /\ col' = 1
      BY <1>2 DEF nextRow, TypeOK
    <3>3. rows' \in Seq(Rows) /\ Len(rows') = Len(rows) + 1 /\ rows' # <<>>
      BY <3>1, <3>2
    <3> QED
      BY <1>0, <3>2, <3>3
  <2> QED
    BY <1>0, <1>2, <2>1 DEF nextRow, TypeOK
<1>3. CASE skipNull
  BY <1>0, <1>3 DEF skipNull, atColumn, TypeOK
<1>4. CASE observe
  <2>1. /\ Len(rows) \in 1..Len(rows) /\ key \in Keys /\ col \in Columns /\ pc' = pc
        /\ pc = "rows" /\ rows' = rows /\ col' = col + 1
        /\ UNCHANGED <<cumulative, emitted, pending, result>>
    BY <1>4, ObserveSees DEF observe, atColumn
  <2> DEFINE v == value(col, datum)
             acc == accumulate(histograms[col][key], v)
  <2>2. v \in Int /\ row.labels \in LabelTuples
    BY <2>1, ObservationsFinite, ValueInt DEF datum, row
  <2>3. histograms[col] \in [Keys -> Accumulators(col)]
    BY <2>1 DEF TypeOK, Accumulators
  <2>4. histograms' = [histograms EXCEPT ![col] = [histograms[col] EXCEPT ![key] = acc]]
    BY <1>4 DEF observe
  <2>5. acc \in Accumulators(col)
    <3> HIDE DEF v
    <3> QED
      BY <2>1, <2>2, <2>3, Accumulate
  <2> HIDE DEF acc, v
  <2>6. DOMAIN histograms = Columns
        /\ \A c \in Columns : histograms[c] \in [Keys -> Accumulators(c)]
    BY DEF TypeOK, Accumulators
  <2>7. DOMAIN histograms' = Columns
        /\ \A c \in Columns : histograms'[c] \in [Keys -> Accumulators(c)]
    BY <2>1, <2>4, <2>5, <2>6
  <2> QED
    BY <1>0, <2>1, <2>7 DEF TypeOK
<1>5. CASE rejectObservation
  BY <1>5 DEF rejectObservation, fail, TypeOK
<1>6. CASE executionFails
  BY <1>6 DEF executionFails, fail, TypeOK
<1>7. CASE endOfRows
  BY <1>7 DEF endOfRows, TypeOK
<1>8. CASE beginGroup
  BY <1>0, <1>8 DEF beginGroup, Groups, TypeOK
<1>9. CASE finiteBucket \/ infBucket
  <2>1. /\ group \in Columns \X Keys /\ group \in Groups /\ bucket \in 1..Inf(group[1])
        /\ group[1] \in Columns /\ group[2] \in Keys
        /\ Groups' = Groups
    BY <1>9 DEF finiteBucket, infBucket, Groups, TypeOK
  <2>2. /\ accumulator \in Accumulators(group[1])
        /\ accumulator.counts[bucket] \in Nat /\ accumulator.count \in Nat
        /\ accumulator.sum \in Int
    <3>1. accumulator \in Accumulators(group[1])
      BY <2>1 DEF TypeOK, accumulator
    <3> QED
      BY <2>1, <3>1 DEF Accumulators
  <2>3. upTo \in Nat
    BY <2>2 DEF upTo, TypeOK
  <2>4. ASSUME NEW part \in {"bucket", "count", "sum"}, NEW le \in Nat, NEW v \in Int
        PROVE  metric(part, le, v) \in Metrics
    <3>1. histograms[group[1]][group[2]].labels \in LabelTuples \cup {<<>>}
      BY <2>2 DEF accumulator, Accumulators
    <3> QED
      BY <2>1, <3>1 DEF metric, Metrics
  <2>5. bucket \in Nat /\ accumulator.count \in Int /\ upTo \in Int
    BY <1>0, <2>1, <2>2, <2>3
  <2>6. CASE finiteBucket
    <3>1. metric("bucket", bucket, upTo) \in Metrics
      BY <2>4, <2>5
    <3> QED
      BY <1>0, <2>1, <2>3, <2>6, <3>1 DEF finiteBucket, TypeOK
  <2>7. CASE infBucket
    <3>1. /\ metric("bucket", bucket, upTo) \in Metrics
          /\ metric("count", 0, accumulator.count) \in Metrics
          /\ metric("sum", 0, accumulator.sum) \in Metrics
      BY <2>2, <2>4, <2>5
    <3> QED
      BY <1>0, <2>1, <2>3, <2>7, <3>1 DEF infBucket, TypeOK
  <2> QED
    BY <1>9, <2>6, <2>7
<1>10. CASE publish
  BY <1>10 DEF publish, TypeOK
<1>11. CASE UNCHANGED vars
  BY <1>11 DEF TypeOK, Groups
<1> QED
  BY <1>1, <1>2, <1>3, <1>4, <1>5, <1>6, <1>7, <1>8, <1>9, <1>10, <1>11 DEF Next

-----------------------------------------------------------------------------
(* The accumulators count what the loop has seen.                          *)

LEMMA SameInside ==
  ASSUME SameObservations
  PROVE  \A c \in Columns, k \in Keys : \A i : Inside(c, k, i)' = Inside(c, k, i)
BY DEF SameObservations, Inside

LEMMA SameSum ==
  ASSUME NEW c, NEW k, Observations(c, k)' = Observations(c, k),
         \A j \in Observations(c, k) : Observation(c, j)' = Observation(c, j)
  PROVE  SumOf(c, k)' = SumOf(c, k)
<1>1. [j \in Observations(c, k) |-> Observation(c, j)]'
        = [j \in Observations(c, k) |-> Observation(c, j)]
  OBVIOUS
<1> QED
  BY <1>1 DEF SumOf

LEMMA NothingSeen ==
  ASSUME rows = <<>>
  PROVE  \A c, k : Observations(c, k) = {} /\ SumOf(c, k) = 0
<1>1. \A c : Seen(c) = {}
  BY DEF Seen
<1>2. \A c, k : Observations(c, k) = {}
  BY <1>1 DEF Observations
<1>3. ASSUME NEW c, NEW k PROVE SumOf(c, k) = 0
  <2> DEFINE v == [j \in Observations(c, k) |-> Observation(c, j)]
  <2>1. v \in [{} -> Int]
    BY <1>2
  <2>2. SumOf(c, k) = SumFunction(v)
    BY DEF SumOf
  <2> HIDE DEF v
  <2> QED
    BY <2>1, <2>2, SumEmpty
<1> QED
  BY <1>2, <1>3

LEMMA AccumulatedInit == Init => Accumulated
<1> SUFFICES ASSUME Init, NEW c \in Columns, NEW k \in Keys
             PROVE  /\ \A i \in 1..Inf(c) : histograms[c][k].counts[i] = Cardinality(Inside(c, k, i))
                    /\ histograms[c][k].count = Cardinality(Observations(c, k))
                    /\ histograms[c][k].sum = SumOf(c, k)
                    /\ ~(histograms[c][k].count > 0)
  BY DEF Accumulated
<1>1. Observations(c, k) = {} /\ SumOf(c, k) = 0 /\ \A i : Inside(c, k, i) = {}
  BY NothingSeen DEF Init, Inside
<1>2. histograms[c][k] = NoGroup(c)
  BY DEF Init, Empty
<1>3. Cardinality({}) = 0
  BY FS_EmptySet
<1>4. ASSUME NEW i \in 1..Inf(c)
      PROVE  histograms[c][k].counts[i] = Cardinality(Inside(c, k, i))
  <2>1. Cardinality(Inside(c, k, i)) = 0
    BY <1>1, <1>3
  <2>2. NoGroup(c).counts[i] = 0
    BY DEF NoGroup
  <2> QED
    BY <1>2, <2>1, <2>2
<1>5. histograms[c][k].count = 0 /\ histograms[c][k].sum = 0
  BY <1>2 DEF NoGroup
<1>6. Cardinality(Observations(c, k)) = 0
  BY <1>1, <1>3
<1> QED
  BY <1>1, <1>4, <1>5, <1>6

LEMMA AccumulatedStep == TypeOK /\ Accumulated /\ [Next]_vars => Accumulated'
<1> SUFFICES ASSUME TypeOK, Accumulated, [Next]_vars PROVE Accumulated'
  OBVIOUS
<1>1. CASE execute
  <2> SUFFICES ASSUME NEW c \in Columns, NEW k \in Keys
               PROVE  /\ \A i \in 1..Inf(c) :
                            histograms'[c][k].counts[i] = Cardinality(Inside(c, k, i)')
                      /\ histograms'[c][k].count = Cardinality(Observations(c, k)')
                      /\ histograms'[c][k].sum = SumOf(c, k)'
                      /\ ~(histograms'[c][k].count > 0)
    BY DEF Accumulated
  <2>1. Observations(c, k)' = {} /\ \A i : Inside(c, k, i)' = {}
    <3>1. Seen(c)' = {}
      BY <1>1 DEF execute, Seen
    <3> QED
      BY <3>1 DEF Observations, Inside
  <2>2. SumOf(c, k)' = 0
    <3> DEFINE v == [j \in Observations(c, k)' |-> Observation(c, j)']
    <3>1. v \in [{} -> Int]
      BY <2>1
    <3>2. SumOf(c, k)' = SumFunction(v)
      BY DEF SumOf
    <3> HIDE DEF v
    <3> QED
      BY <3>1, <3>2, SumEmpty
  <2>3. histograms'[c][k] = NoGroup(c)
    BY <1>1 DEF execute, Empty
  <2>4. Cardinality({}) = 0
    BY FS_EmptySet
  <2>5. ASSUME NEW i \in 1..Inf(c)
        PROVE  histograms'[c][k].counts[i] = Cardinality(Inside(c, k, i)')
    <3>1. Cardinality(Inside(c, k, i)') = 0
      BY <2>1, <2>4
    <3>2. NoGroup(c).counts[i] = 0
      BY DEF NoGroup
    <3> QED
      BY <2>3, <3>1, <3>2
  <2>6. histograms'[c][k].count = 0 /\ histograms'[c][k].sum = 0
    BY <2>3 DEF NoGroup
  <2>7. Cardinality(Observations(c, k)') = 0
    BY <2>1, <2>4
  <2> QED
    BY <2>5, <2>6, <2>7, <2>2
<1>2. CASE observe
  <2>1. /\ Len(rows) \in 1..Len(rows) /\ key \in Keys /\ col \in Columns
        /\ Len(rows) \notin Observations(col, key)
        /\ rows' = rows /\ pc = "rows"
    BY <1>2, ObserveSees DEF observe, atColumn
  <2> DEFINE v   == value(col, datum)
             acc == accumulate(histograms[col][key], v)
  <2>2. v \in Int /\ row.labels \in LabelTuples /\ Observation(col, Len(rows)) = v
    BY <2>1, ObservationsFinite, ValueInt DEF datum, row, Observation
  <2>3. /\ histograms' = [histograms EXCEPT ![col] = [histograms[col] EXCEPT ![key] = acc]]
        /\ histograms[col] \in [Keys -> Accumulators(col)]
        /\ DOMAIN histograms = Columns
        /\ \A c \in Columns : histograms[c] \in [Keys -> Accumulators(c)]
    BY <1>2, <2>1 DEF observe, TypeOK
  <2>4. /\ acc \in Accumulators(col)
        /\ acc.count = histograms[col][key].count + 1
        /\ acc.count > 0
        /\ acc.sum = histograms[col][key].sum + v
        /\ acc.labels = IF histograms[col][key].count = 0 THEN row.labels
                                                          ELSE histograms[col][key].labels
        /\ \A i \in 1..Inf(col) :
             acc.counts[i] = IF i = bucketIndex(col, v) THEN histograms[col][key].counts[i] + 1
                                                        ELSE histograms[col][key].counts[i]
    <3>1. histograms[col][key] \in Accumulators(col)
      BY <2>1, <2>3
    <3> HIDE DEF v
    <3> QED
      BY <2>1, <2>2, <3>1, Accumulate
  <2> HIDE DEF acc, v
  <2>5. ASSUME NEW c \in Columns, NEW k \in Keys
        PROVE  histograms'[c][k] = IF c = col /\ k = key THEN acc ELSE histograms[c][k]
    BY <2>1, <2>3
  <2>6. ASSUME NEW c \in Columns, NEW k \in Keys
        PROVE  Observations(c, k)' = IF c = col /\ k = key THEN Observations(c, k) \cup {Len(rows)}
                                                            ELSE Observations(c, k)
    BY <1>2, ObserveSees
  <2>7. \A c, j : Observation(c, j)' = Observation(c, j)
    BY <2>1 DEF Observation
  <2> SUFFICES ASSUME NEW c \in Columns, NEW k \in Keys
               PROVE  /\ \A i \in 1..Inf(c) :
                            histograms'[c][k].counts[i] = Cardinality(Inside(c, k, i)')
                      /\ histograms'[c][k].count = Cardinality(Observations(c, k)')
                      /\ histograms'[c][k].sum = SumOf(c, k)'
                      /\ histograms'[c][k].count > 0 =>
                            /\ histograms'[c][k].labels \in LabelTuples
                            /\ encodeLabelTuple(histograms'[c][k].labels) = k
    BY DEF Accumulated
  <2>8. /\ \A i \in 1..Inf(c) : histograms[c][k].counts[i] = Cardinality(Inside(c, k, i))
        /\ histograms[c][k].count = Cardinality(Observations(c, k))
        /\ histograms[c][k].sum = SumOf(c, k)
        /\ histograms[c][k].count > 0 => /\ histograms[c][k].labels \in LabelTuples
                                         /\ encodeLabelTuple(histograms[c][k].labels) = k
    BY <2>1 DEF Accumulated
  <2>9. CASE ~(c = col /\ k = key)
    <3>1. Observations(c, k)' = Observations(c, k) /\ \A i : Inside(c, k, i)' = Inside(c, k, i)
      BY <2>6, <2>7, <2>9 DEF Inside
    <3>2. SumOf(c, k)' = SumOf(c, k)
      BY <2>7, <3>1, SameSum
    <3> QED
      BY <2>5, <2>8, <2>9, <3>1, <3>2
  <2>10. CASE c = col /\ k = key
    <3>1. IsFiniteSet(Observations(c, k)) /\ \A i : IsFiniteSet(Inside(c, k, i))
      BY ObservationsFinite DEF Inside
    <3>2. Observations(c, k)' = Observations(c, k) \cup {Len(rows)}
      BY <2>6, <2>10
    <3>3. Len(rows) \notin Observations(c, k) /\ \A i : Len(rows) \notin Inside(c, k, i)
      BY <2>1, <2>10 DEF Inside
    <3>4. \A i : Inside(c, k, i)' = IF i = bucketIndex(c, v) THEN Inside(c, k, i) \cup {Len(rows)}
                                                              ELSE Inside(c, k, i)
      BY <2>2, <2>7, <2>10, <3>2, <3>3 DEF Inside
    <3>5. Cardinality(Observations(c, k)') = Cardinality(Observations(c, k)) + 1
      BY <3>1, <3>2, <3>3, FS_AddElement
    <3>6. \A i : Cardinality(Inside(c, k, i)') =
                  IF i = bucketIndex(c, v) THEN Cardinality(Inside(c, k, i)) + 1
                                           ELSE Cardinality(Inside(c, k, i))
      BY <3>1, <3>3, <3>4, FS_AddElement
    <3>7. histograms'[c][k] = acc /\ histograms[col][key] = histograms[c][k]
      BY <2>5, <2>10
    <3>8. encodeLabelTuple(row.labels) = k
      BY <2>10 DEF key
    <3>9. \A i \in 1..Inf(c) : acc.counts[i] = Cardinality(Inside(c, k, i)')
      BY <2>4, <2>8, <2>10, <3>6
    <3>10. acc.count = Cardinality(Observations(c, k)')
      BY <2>4, <2>8, <2>10, <3>5
    <3>11. acc.labels \in LabelTuples /\ encodeLabelTuple(acc.labels) = k
      <4>1. histograms[c][k].count \in Nat
        BY <2>3 DEF Accumulators
      <4> QED
        BY <2>2, <2>4, <2>8, <2>10, <3>7, <3>8, <4>1
    <3>12. acc.sum = SumOf(c, k)'
      <4> DEFINE n == Len(rows)
                 O == Observations(c, k)
                 f == [j \in O \cup {n} |-> Observation(c, j)]
      <4>1. /\ IsFiniteSet(O) /\ n \notin O
            /\ \A j \in O \cup {n} : Observation(c, j) \in Int
        BY <2>1, <3>1, <3>3, ObservationsFinite
      <4>2. f \in [O \cup {n} -> Int] /\ f[n] = v
        BY <2>2, <2>10, <4>1
      <4>3. SumOf(c, k)' = SumFunction(f)
        <5>1. [j \in Observations(c, k) |-> Observation(c, j)]' = f
          BY <2>7, <3>2
        <5> QED
          BY <5>1 DEF SumOf
      <4>4. SumOf(c, k) = SumFunction([j \in O |-> f[j]])
        <5>1. [j \in O |-> f[j]] = [j \in Observations(c, k) |-> Observation(c, j)]
          OBVIOUS
        <5> QED
          BY <5>1 DEF SumOf
      <4> HIDE DEF f, O, n
      <4>5. SumFunction(f) = SumFunction([j \in O |-> f[j]]) + f[n]
        BY <4>1, <4>2, SumAdd
      <4> QED
        BY <2>4, <2>8, <3>7, <4>2, <4>3, <4>4, <4>5
    <3> QED
      BY <3>7, <3>9, <3>10, <3>11, <3>12
  <2> QED
    BY <2>9, <2>10
<1>3. CASE rejectObservation \/ executionFails
  BY <1>3 DEF rejectObservation, executionFails, fail, Accumulated
<1>4. ASSUME SameObservations, UNCHANGED histograms, pc # "failed"
      PROVE  Accumulated'
  <2>1. \A c \in Columns, k \in Keys :
          /\ Observations(c, k)' = Observations(c, k)
          /\ \A i : Inside(c, k, i)' = Inside(c, k, i)
    BY <1>4, SameInside DEF SameObservations
  <2>2. \A c \in Columns, k \in Keys : SumOf(c, k)' = SumOf(c, k)
    BY <1>4, SameSum DEF SameObservations
  <2> QED
    BY <1>4, <2>1, <2>2 DEF Accumulated
<1>5. CASE nextRow
  BY <1>4, <1>5, NextRowSees DEF nextRow
<1>6. CASE skipNull
  BY <1>4, <1>6, SkipNullSees DEF skipNull, atColumn
<1>7. CASE endOfRows \/ beginGroup \/ finiteBucket \/ infBucket \/ publish
  BY <1>4, <1>7, OtherStepsSee DEF endOfRows, beginGroup, finiteBucket, infBucket, publish
<1>8. CASE UNCHANGED vars
  <2>1. SameObservations /\ UNCHANGED <<histograms, pc>>
    BY <1>8, OtherStepsSee DEF vars
  <2>2. CASE pc = "failed"
    BY <2>1, <2>2 DEF Accumulated
  <2> QED
    BY <1>4, <2>1, <2>2
<1> QED
  BY <1>1, <1>2, <1>3, <1>5, <1>6, <1>7, <1>8 DEF Next

-----------------------------------------------------------------------------
(* Unrolling an accumulator: one more interval is one more bound.          *)

LEMMA Intervals ==
  ASSUME TypeOK, NEW c \in Columns, NEW k \in Keys, NEW n \in 1..Inf(c)
  PROVE  /\ Cardinality(Before(c, k, n + 1))
               = Cardinality(Before(c, k, n)) + Cardinality(Inside(c, k, n))
         /\ Before(c, k, n + 1) = Below(c, k, n)
         /\ Before(c, k, 1) = {}
         /\ Below(c, k, Inf(c)) = Observations(c, k)
<1>1. \A j \in Observations(c, k) :
        /\ bucketIndex(c, Observation(c, j)) \in 1..Inf(c)
        /\ \A i \in 1..Inf(c) : bucketIndex(c, Observation(c, j)) <= i <=>
                               (i <= Len(Bucket[c]) => Observation(c, j) <= Bucket[c][i])
  <2>1. \A j \in Observations(c, k) : Observation(c, j) \in Int
    BY ObservationsFinite
  <2> QED
    BY <2>1, BucketIndex
<1>2. Inf(c) = Len(Bucket[c]) + 1 /\ Len(Bucket[c]) \in Nat
  BY HistogramAssumption DEF Inf
<1>3. /\ Before(c, k, n + 1) = Before(c, k, n) \cup Inside(c, k, n)
      /\ Before(c, k, n) \cap Inside(c, k, n) = {}
  BY <1>1, <1>2 DEF Before, Inside
<1>4. /\ IsFiniteSet(Before(c, k, n)) /\ IsFiniteSet(Inside(c, k, n))
      /\ Cardinality(Before(c, k, n)) \in Nat /\ Cardinality(Inside(c, k, n)) \in Nat
  BY ObservationsFinite DEF Before, Inside
<1>5. Cardinality(Before(c, k, n + 1))
        = Cardinality(Before(c, k, n)) + Cardinality(Inside(c, k, n))
  <2>1. Cardinality({}) = 0
    BY FS_EmptySet
  <2>2. Cardinality(Before(c, k, n) \cup Inside(c, k, n))
          = Cardinality(Before(c, k, n)) + Cardinality(Inside(c, k, n))
            - Cardinality(Before(c, k, n) \cap Inside(c, k, n))
    BY <1>4, FS_Union
  <2>3. Cardinality(Before(c, k, n) \cup Inside(c, k, n)) = Cardinality(Before(c, k, n + 1))
    BY <1>3
  <2>4. Cardinality(Before(c, k, n) \cap Inside(c, k, n)) = 0
    BY <1>3, <2>1
  <2> QED
    BY <1>4, <2>2, <2>3, <2>4
<1>6. Before(c, k, n + 1) = Below(c, k, n)
  BY <1>1, <1>2 DEF Before, Below
<1>7. Before(c, k, 1) = {}
  BY <1>1, <1>2 DEF Before
<1>8. Below(c, k, Inf(c)) = Observations(c, k)
  BY <1>2 DEF Below
<1> QED
  BY <1>5, <1>6, <1>7, <1>8

\* The group that is being unrolled.
LEMMA AtGroup ==
  ASSUME TypeOK, Accumulated, Unrolled, pc = "buckets"
  PROVE  /\ group[1] \in Columns /\ group[2] \in Keys /\ bucket \in 1..Inf(group[1])
         /\ Inf(group[1]) \in Nat /\ bucket \in Nat /\ bucket + 1 \in Nat
         /\ upTo = Cardinality(Below(group[1], group[2], bucket))
         /\ upTo = Cardinality(Before(group[1], group[2], bucket + 1))
         /\ accumulator.count = Cardinality(Observations(group[1], group[2]))
         /\ accumulator.sum = SumOf(group[1], group[2])
         /\ accumulator.labels \in LabelTuples
         /\ encodeLabelTuple(accumulator.labels) = group[2]
<1>1. /\ group \in Columns \X Keys /\ bucket \in 1..Inf(group[1])
      /\ histograms[group[1]][group[2]].count > 0
  BY DEF TypeOK, Groups
<1>2. group[1] \in Columns /\ group[2] \in Keys
  BY <1>1
<1>3. /\ accumulator.counts[bucket] = Cardinality(Inside(group[1], group[2], bucket))
      /\ accumulator.count = Cardinality(Observations(group[1], group[2]))
      /\ accumulator.sum = SumOf(group[1], group[2])
      /\ accumulator.labels \in LabelTuples
      /\ encodeLabelTuple(accumulator.labels) = group[2]
  BY <1>1, <1>2 DEF Accumulated, accumulator
<1>4. upTo = Cardinality(Before(group[1], group[2], bucket))
               + Cardinality(Inside(group[1], group[2], bucket))
  BY <1>3 DEF Unrolled, upTo
<1>5. /\ upTo = Cardinality(Before(group[1], group[2], bucket + 1))
      /\ Before(group[1], group[2], bucket + 1) = Below(group[1], group[2], bucket)
  BY <1>1, <1>2, <1>4, Intervals
<1>6. Inf(group[1]) \in Nat
  BY <1>2, HistogramAssumption DEF Inf
<1> QED
  BY <1>1, <1>2, <1>3, <1>5, <1>6

LEMMA UnrolledStep == TypeOK /\ Accumulated /\ Unrolled /\ [Next]_vars => Unrolled'
<1> SUFFICES ASSUME TypeOK, Accumulated, Unrolled, [Next]_vars, pc' = "buckets"
             PROVE  cumulative' = Cardinality(Before(group[1], group[2], bucket)')
  BY DEF Unrolled
<1>0. UNCHANGED <<rows, col>> => \A c, k, n : Before(c, k, n)' = Before(c, k, n)
  BY DEF Before, Observations, Observation, Seen
<1>1. CASE beginGroup
  <2>1. PICK g \in Groups : group' = g
    BY <1>1 DEF beginGroup
  <2>2. g[1] \in Columns /\ g[2] \in Keys /\ 1 \in 1..Inf(g[1])
    BY <2>1, HistogramAssumption DEF Groups, Inf
  <2>3. Before(g[1], g[2], 1) = {}
    BY <2>2, Intervals
  <2>4. Before(group[1], group[2], bucket)' = Before(g[1], g[2], 1)
    BY <1>1, <2>1 DEF beginGroup, Before, Observations, Observation, Seen
  <2>5. Cardinality({}) = 0
    BY FS_EmptySet
  <2> QED
    BY <1>1, <2>3, <2>4, <2>5 DEF beginGroup
<1>2. CASE finiteBucket
  <2>1. Before(group[1], group[2], bucket)' = Before(group[1], group[2], bucket + 1)
    BY <1>2 DEF finiteBucket, Before, Observations, Observation, Seen
  <2> QED
    BY <1>2, <2>1, AtGroup DEF finiteBucket
<1>3. CASE UNCHANGED vars
  <2>1. Before(group[1], group[2], bucket)' = Before(group[1], group[2], bucket)
    BY <1>3 DEF vars, Before, Observations, Observation, Seen
  <2> QED
    BY <1>3, <2>1 DEF Unrolled, vars
<1> QED
  BY <1>1, <1>2, <1>3
  DEF Next, execute, nextRow, skipNull, atColumn, observe, rejectObservation, executionFails, fail,
      endOfRows, infBucket, publish

-----------------------------------------------------------------------------
(* What is pending counts what was observed.                               *)

LEMMA RightValuesStay ==
  ASSUME UNCHANGED <<rows, col>>, NEW S, RightValues(S)
  PROVE  \A m \in S :
            /\ m.part = "bucket" => m.le \in 1..Inf(m.col)
                                    /\ m.value = Cardinality(Below(m.col, KeyOf(m), m.le)')
            /\ m.part = "count"  => m.value = Cardinality(Observations(m.col, KeyOf(m))')
            /\ m.part = "sum"    => m.value = SumOf(m.col, KeyOf(m))'
<1>1. \A c, k : Observations(c, k)' = Observations(c, k)
  BY DEF Observations, Seen
<1>2. \A c, k : SumOf(c, k)' = SumOf(c, k)
  BY <1>1 DEF SumOf, Observation
<1>3. \A c, k, le : Below(c, k, le)' = Below(c, k, le)
  BY <1>1 DEF Below, Observation
<1> QED
  BY <1>1, <1>3, <1>2 DEF RightValues

LEMMA EmittedStep ==
  TypeOK /\ Accumulated /\ Unrolled /\ Emitted /\ [Next]_vars => Emitted'
<1> SUFFICES ASSUME TypeOK, Accumulated, Unrolled, Emitted, [Next]_vars PROVE Emitted'
  OBVIOUS
<1> DEFINE Right(m) == /\ m.part = "bucket" => m.le \in 1..Inf(m.col)
                             /\ m.value = Cardinality(Below(m.col, KeyOf(m), m.le))
                       /\ m.part = "count"  => m.value = Cardinality(Observations(m.col, KeyOf(m)))
                       /\ m.part = "sum"    => m.value = SumOf(m.col, KeyOf(m))
<1>0. \A S : RightValues(S) <=> \A m \in S : Right(m)
  BY DEF RightValues
<1>1. CASE execute
  BY <1>1 DEF execute, Emitted
<1>2. CASE nextRow \/ skipNull \/ observe
  BY <1>2 DEF nextRow, skipNull, atColumn, observe, Emitted
<1>3. CASE rejectObservation \/ executionFails
  BY <1>3 DEF rejectObservation, executionFails, fail, Emitted
<1>4. CASE endOfRows
  BY <1>4 DEF endOfRows, Emitted, RightValues
<1>5. ASSUME UNCHANGED <<rows, col>>, RightValues(pending'), col = NCol + 1,
             pc' \in {"groups", "buckets"} \/ (pc' = "done" /\ result' = pending')
      PROVE  Emitted'
  <2>1. RightValues(pending)'
    BY <1>5, RightValuesStay DEF RightValues, KeyOf, Inf
  <2> QED
    BY <1>5, <2>1 DEF Emitted
<1>6. CASE beginGroup \/ publish
  BY <1>5, <1>6 DEF beginGroup, publish, Emitted
<1>7. ASSUME pc = "buckets",
             NEW part \in {"bucket", "count", "sum"}, NEW le, NEW v
      PROVE  /\ metric(part, le, v).col = group[1] /\ KeyOf(metric(part, le, v)) = group[2]
             /\ metric(part, le, v).part = part
             /\ metric(part, le, v).le = le /\ metric(part, le, v).value = v
  <2>1. encodeLabelTuple(accumulator.labels) = group[2]
    BY <1>7, AtGroup
  <2> QED
    BY <2>1 DEF metric, KeyOf, accumulator
<1>8. ASSUME pc = "buckets" PROVE Right(metric("bucket", bucket, upTo))
  BY <1>7, <1>8, AtGroup
<1>9. ASSUME pc = "buckets"
      PROVE  /\ Right(metric("count", 0, accumulator.count))
             /\ Right(metric("sum", 0, accumulator.sum))
  BY <1>7, <1>9, AtGroup
<1> HIDE DEF Right
<1>10. CASE finiteBucket
  <2>1. RightValues(pending')
    BY <1>0, <1>8, <1>10 DEF finiteBucket, Emitted
  <2> QED
    BY <1>5, <1>10, <2>1 DEF finiteBucket, Emitted
<1>11. CASE infBucket
  <2>1. RightValues(pending')
    BY <1>0, <1>8, <1>9, <1>11 DEF infBucket, Emitted
  <2> QED
    BY <1>5, <1>11, <2>1 DEF infBucket, Emitted
<1>12. CASE UNCHANGED vars
  <2>1. CASE pc \in {"groups", "buckets", "done"}
    BY <1>5, <1>12, <2>1 DEF vars, Emitted
  <2>2. CASE pc \in {"rows", "failed"}
    BY <1>12, <2>2 DEF vars, Emitted
  <2> QED
    BY <2>1, <2>2 DEF TypeOK
<1> QED
  BY <1>1, <1>2, <1>3, <1>4, <1>6, <1>10, <1>11, <1>12 DEF Next

-----------------------------------------------------------------------------
(* What is pending is made of whole groups and of the one at hand.         *)

LEMMA NextBucketSeries ==
  ASSUME NEW n \in Nat
  PROVE  /\ BucketSeries(0) = {}
         /\ BucketSeries(n + 1) = BucketSeries(n) \cup {<<"bucket", n + 1>>}
<1>1. 1..(n + 1) = 1..n \cup {n + 1} /\ 1..0 = {}
  OBVIOUS
<1> QED
  BY <1>1 DEF BucketSeries

With(S, m) == S \cup {m}

\* A metric adds its part to the series of its own group only.
LEMMA SeriesAdd ==
  ASSUME NEW S, NEW m, NEW g \in Columns \X Keys
  PROVE  series(OfGroup(With(S, m), g)) =
            IF m.col = g[1] /\ KeyOf(m) = g[2]
            THEN series(OfGroup(S, g)) \cup {<<m.part, m.le>>}
            ELSE series(OfGroup(S, g))
<1>1. OfGroup(With(S, m), g) = IF m.col = g[1] /\ KeyOf(m) = g[2]
                               THEN OfGroup(S, g) \cup {m} ELSE OfGroup(S, g)
  BY DEF OfGroup, With
<1>2. \A A : series(A \cup {m}) = series(A) \cup {<<m.part, m.le>>}
  BY DEF series
<1> QED
  BY <1>1, <1>2, Zenon

LEMMA GroupSeriesStep ==
  TypeOK /\ Accumulated /\ Unrolled /\ Emitted /\ GroupSeries /\ [Next]_vars => GroupSeries'
<1> SUFFICES ASSUME TypeOK, Accumulated, Unrolled, Emitted, GroupSeries, [Next]_vars
             PROVE  GroupSeries'
  OBVIOUS
<1>1. CASE execute
  BY <1>1 DEF execute, GroupSeries
<1>2. CASE nextRow \/ skipNull \/ observe
  BY <1>2 DEF nextRow, skipNull, atColumn, observe, GroupSeries
<1>3. CASE rejectObservation \/ executionFails
  BY <1>3 DEF rejectObservation, executionFails, fail, GroupSeries
<1>4. CASE endOfRows
  <2>1. emitted' = {} /\ pending' = {} /\ pc' = "groups"
    BY <1>4 DEF endOfRows, Emitted, GroupSeries
  <2> QED
    BY <2>1 DEF GroupSeries
<1>5. CASE beginGroup
  <2>1. PICK g \in Groups \ emitted : group' = g /\ emitted' = emitted \cup {g}
    BY <1>5 DEF beginGroup
  <2>2. /\ pc = "groups" /\ pc' = "buckets" /\ pending' = pending /\ bucket' = 1
        /\ Groups' = Groups
    BY <1>5 DEF beginGroup, Groups
  <2>3. /\ emitted \subseteq Groups
        /\ \A m \in pending : m.labels \in LabelTuples /\ <<m.col, KeyOf(m)>> \in emitted
        /\ \A h \in emitted : series(OfGroup(pending, h)) = AllSeries(h[1])
    BY <2>2 DEF GroupSeries
  <2>4. series(OfGroup(pending, g)) = BucketSeries(0)
    <3>1. g = <<g[1], g[2]>>
      BY <2>1 DEF Groups
    <3>2. OfGroup(pending, g) = {}
      <4> SUFFICES ASSUME NEW m \in pending, m.col = g[1], KeyOf(m) = g[2] PROVE FALSE
        BY DEF OfGroup
      <4> QED
        BY <2>1, <2>3, <3>1
    <3> QED
      BY <3>2, NextBucketSeries DEF series
  <2>5. \A h \in emitted' : series(OfGroup(pending, h))' =
                               IF h = g THEN BucketSeries(0) ELSE AllSeries(h[1])
    <3>1. \A h : series(OfGroup(pending, h))' = series(OfGroup(pending, h))
      BY <2>2 DEF OfGroup, series
    <3> QED
      BY <2>1, <2>3, <2>4, <3>1
  <2>6. bucket' - 1 = 0
    BY <2>2
  <2>7. /\ emitted' \subseteq Groups'
        /\ \A m \in pending' : m.labels \in LabelTuples /\ <<m.col, KeyOf(m)>> \in emitted'
        /\ group' \in emitted'
    BY <2>1, <2>2, <2>3
  <2> QED
    BY <2>1, <2>2, <2>5, <2>6, <2>7 DEF GroupSeries
<1>6. CASE finiteBucket \/ infBucket
  <2>1. /\ pc = "buckets" /\ group \in emitted /\ emitted \subseteq Groups
        /\ \A m \in pending : m.labels \in LabelTuples /\ <<m.col, KeyOf(m)>> \in emitted
        /\ \A g \in emitted : series(OfGroup(pending, g)) =
                                IF g = group THEN BucketSeries(bucket - 1) ELSE AllSeries(g[1])
        /\ emitted' = emitted /\ group' = group /\ Groups' = Groups
    BY <1>6 DEF finiteBucket, infBucket, GroupSeries, Groups
  <2>2. /\ group[1] \in Columns /\ group[2] \in Keys /\ bucket \in 1..Inf(group[1])
        /\ Inf(group[1]) \in Nat /\ bucket \in Nat
        /\ accumulator.labels \in LabelTuples
        /\ encodeLabelTuple(accumulator.labels) = group[2]
        /\ group = <<group[1], group[2]>>
    <3>1. group \in Groups
      BY <2>1
    <3>2. group = <<group[1], group[2]>>
      BY <3>1 DEF Groups
    <3> QED
      BY <2>1, <3>2, AtGroup
  <2>3. ASSUME NEW part, NEW le, NEW v
        PROVE  /\ metric(part, le, v).labels \in LabelTuples
               /\ metric(part, le, v).col = group[1] /\ KeyOf(metric(part, le, v)) = group[2]
               /\ metric(part, le, v).part = part /\ metric(part, le, v).le = le
    BY <2>1, <2>2 DEF metric, KeyOf, accumulator
  <2>4. ASSUME NEW S, NEW part, NEW le, NEW v,
               \A m \in S : m.labels \in LabelTuples /\ <<m.col, KeyOf(m)>> \in emitted
        PROVE  \A m \in With(S, metric(part, le, v)) :
                  m.labels \in LabelTuples /\ <<m.col, KeyOf(m)>> \in emitted
    <3> DEFINE m == metric(part, le, v)
    <3>1. m.labels \in LabelTuples /\ m.col = group[1] /\ KeyOf(m) = group[2]
      BY <2>3
    <3> HIDE DEF m
    <3>2. <<m.col, KeyOf(m)>> \in emitted
      BY <2>1, <2>2, <3>1
    <3> QED
      BY <2>4, <3>1, <3>2 DEF m, With
  <2>5. emitted \subseteq Columns \X Keys
    BY DEF TypeOK
  <2>6. ASSUME NEW S, NEW g \in emitted, NEW part, NEW le, NEW v
        PROVE  series(OfGroup(With(S, metric(part, le, v)), g)) =
                  IF g = group THEN series(OfGroup(S, g)) \cup {<<part, le>>}
                               ELSE series(OfGroup(S, g))
    <3>1. g \in Columns \X Keys
      BY <2>5
    <3>2. g = <<g[1], g[2]>>
      BY <3>1
    <3>3. group[1] = g[1] /\ group[2] = g[2] <=> g = group
      BY <2>2, <3>2
    <3> DEFINE m == metric(part, le, v)
    <3>4. m.col = group[1] /\ KeyOf(m) = group[2] /\ m.part = part /\ m.le = le
      BY <2>3
    <3> HIDE DEF m
    <3>5. series(OfGroup(With(S, m), g)) = IF m.col = g[1] /\ KeyOf(m) = g[2]
                                           THEN series(OfGroup(S, g)) \cup {<<m.part, m.le>>}
                                           ELSE series(OfGroup(S, g))
      BY <3>1, SeriesAdd
    <3> QED
      BY <3>3, <3>4, <3>5 DEF m
  <2>7. BucketSeries(bucket - 1) \cup {<<"bucket", bucket>>} = BucketSeries(bucket)
    <3>1. bucket - 1 \in Nat /\ (bucket - 1) + 1 = bucket
      BY <2>2
    <3> QED
      BY <3>1, NextBucketSeries
  <2>8. ASSUME NEW g \in emitted
         PROVE  series(OfGroup(With(pending, metric("bucket", bucket, upTo)), g)) =
                   IF g = group THEN BucketSeries(bucket) ELSE AllSeries(g[1])
    <3> DEFINE A == With(pending, metric("bucket", bucket, upTo))
    <3>1. series(OfGroup(A, g)) = IF g = group
                                  THEN series(OfGroup(pending, g)) \cup {<<"bucket", bucket>>}
                                  ELSE series(OfGroup(pending, g))
      BY <2>6
    <3> HIDE DEF A
    <3>2. CASE g = group
      <4>1. series(OfGroup(pending, g)) = BucketSeries(bucket - 1)
        BY <2>1, <3>2
      <4>2. series(OfGroup(A, g)) = BucketSeries(bucket - 1) \cup {<<"bucket", bucket>>}
        BY <3>1, <3>2, <4>1
      <4> QED
        BY <2>7, <3>2, <4>2 DEF A
    <3>3. CASE g # group
      BY <2>1, <3>1, <3>3 DEF A
    <3> QED
      BY <3>2, <3>3
  <2>9. CASE finiteBucket
    <3>1. /\ pending' = With(pending, metric("bucket", bucket, upTo))
          /\ pc' = "buckets" /\ bucket' = bucket + 1
      BY <2>9 DEF finiteBucket, With
    <3>2. \A m \in pending' : m.labels \in LabelTuples /\ <<m.col, KeyOf(m)>> \in emitted
      BY <2>1, <2>4, <3>1
    <3>3. ASSUME NEW g \in emitted
          PROVE  series(OfGroup(pending, g))' =
                    IF g = group THEN BucketSeries(bucket) ELSE AllSeries(g[1])
      <4>1. series(OfGroup(pending, g))' = series(OfGroup(pending', g))
        BY DEF series, OfGroup
      <4> QED
        BY <2>8, <3>1, <4>1
    <3>4. bucket' - 1 = bucket
      BY <2>2, <3>1
    <3> QED
      BY <2>1, <3>1, <3>2, <3>3, <3>4 DEF GroupSeries
  <2>10. CASE infBucket
    <3> DEFINE A == With(pending, metric("bucket", bucket, upTo))
               B == With(A, metric("count", 0, accumulator.count))
               D == With(B, metric("sum", 0, accumulator.sum))
    <3>1. pending' = D /\ pc' = "groups" /\ bucket = Inf(group[1])
      BY <2>10 DEF infBucket, With
    <3>2. \A m \in pending' : m.labels \in LabelTuples /\ <<m.col, KeyOf(m)>> \in emitted
      <4>1. \A m \in A : m.labels \in LabelTuples /\ <<m.col, KeyOf(m)>> \in emitted
        BY <2>1, <2>4
      <4>2. \A m \in B : m.labels \in LabelTuples /\ <<m.col, KeyOf(m)>> \in emitted
        <5> HIDE DEF A
        <5> QED
          BY <2>4, <4>1
      <4>3. \A m \in D : m.labels \in LabelTuples /\ <<m.col, KeyOf(m)>> \in emitted
        <5> HIDE DEF B
        <5> QED
          BY <2>4, <4>2
      <4> HIDE DEF D
      <4> QED
        BY <3>1, <4>3
    <3>3. ASSUME NEW g \in emitted
          PROVE  series(OfGroup(pending, g))' = AllSeries(g[1])
      <4>1. series(OfGroup(pending, g))' = series(OfGroup(D, g))
        BY <3>1 DEF series, OfGroup
      <4>2. CASE g = group
        <5>1. series(OfGroup(A, g)) = BucketSeries(bucket)
          BY <2>8, <4>2
        <5>2. series(OfGroup(B, g)) = BucketSeries(bucket) \cup {<<"count", 0>>}
          <6> HIDE DEF A
          <6> QED
            BY <2>6, <4>2, <5>1
        <5>3. series(OfGroup(D, g)) = (BucketSeries(bucket) \cup {<<"count", 0>>})
                                        \cup {<<"sum", 0>>}
          <6> HIDE DEF B
          <6> QED
            BY <2>6, <4>2, <5>2
        <5> HIDE DEF D
        <5> QED
          BY <3>1, <4>1, <4>2, <5>3 DEF AllSeries
      <4>3. CASE g # group
        <5>1. series(OfGroup(A, g)) = AllSeries(g[1])
          BY <2>1, <2>6, <4>3
        <5>2. series(OfGroup(B, g)) = AllSeries(g[1])
          <6> HIDE DEF A
          <6> QED
            BY <2>6, <4>3, <5>1
        <5>3. series(OfGroup(D, g)) = AllSeries(g[1])
          <6> HIDE DEF B
          <6> QED
            BY <2>6, <4>3, <5>2
        <5> HIDE DEF D
        <5> QED
          BY <4>1, <5>3
      <4> QED
        BY <4>2, <4>3
    <3> HIDE DEF D
    <3> QED
      BY <2>1, <3>1, <3>2, <3>3 DEF GroupSeries
  <2> QED
    BY <1>6, <2>9, <2>10
<1>7. ASSUME UNCHANGED <<histograms, group, bucket, emitted, pending>>, pc' = pc \/ publish
      PROVE  GroupSeries'
  <2>1. Groups' = Groups /\ \A g : series(OfGroup(pending, g))' = series(OfGroup(pending, g))
    BY <1>7 DEF Groups, series, OfGroup
  <2>2. CASE pc' = pc
    BY <1>7, <2>1, <2>2 DEF GroupSeries
  <2>3. CASE publish
    <3>1. pc = "groups" /\ pc' = "done" /\ Groups = emitted
      BY <2>3 DEF publish
    <3> QED
      BY <1>7, <2>1, <3>1 DEF GroupSeries
  <2> QED
    BY <1>7, <2>2, <2>3
<1>8. CASE publish
  BY <1>7, <1>8 DEF publish
<1>9. CASE UNCHANGED vars
  BY <1>7, <1>9 DEF vars
<1> QED
  BY <1>1, <1>2, <1>3, <1>4, <1>5, <1>6, <1>8, <1>9 DEF Next

-----------------------------------------------------------------------------
(* What has been seen casts.                                               *)

LEMMA ValidStep == TypeOK /\ Valid /\ [Next]_vars => Valid'
<1> SUFFICES ASSUME TypeOK, Valid, [Next]_vars, pc' # "failed",
                    NEW c \in Columns, NEW j \in Seen(c)', present(c, rows'[j].data[c])
             PROVE  casts(c, rows'[j].data[c])
  BY DEF Valid
<1>1. CASE execute
  BY <1>1 DEF execute, Seen
<1>2. CASE nextRow
  <2>1. Seen(c)' = Seen(c) /\ rows'[j] = rows[j]
    BY <1>2, NextRowSees
  <2> QED
    BY <1>2, <2>1 DEF nextRow, Valid
<1>3. CASE skipNull \/ observe
  <2>1. /\ pc = "rows" /\ rows' = rows /\ NCol \in Nat /\ col \in Columns /\ col' = col + 1
        /\ Len(rows) \in Nat
        /\ present(col, rows[Len(rows)].data[col]) => casts(col, rows[Len(rows)].data[col])
    <3>1. CASE skipNull
      BY <3>1, HistogramAssumption DEF skipNull, atColumn, datum, row, TypeOK
    <3>2. CASE observe
      BY <3>2, HistogramAssumption DEF observe, atColumn, datum, row, TypeOK
    <3> QED
      BY <1>3, <3>1, <3>2
  <2>2. j \in Seen(c) \/ (c = col /\ j = Len(rows))
    BY <2>1 DEF Seen, Columns
  <2> QED
    BY <2>1, <2>2 DEF Valid
<1>4. CASE endOfRows \/ beginGroup \/ finiteBucket \/ infBucket \/ publish \/ UNCHANGED vars
  BY <1>4 DEF endOfRows, beginGroup, finiteBucket, infBucket, publish, vars, Valid, Seen
<1> QED
  BY <1>1, <1>2, <1>3, <1>4 DEF Next, rejectObservation, executionFails, fail

-----------------------------------------------------------------------------
(* The invariant, and what follows from it.                                *)

(* HistogramInv is inductive: types, exact accumulators, exact series, all *)
(* of them for each group, and no observation that does not cast.          *)
THEOREM HistogramInvariant == Spec => []HistogramInv
<1>1. Init => HistogramInv
  <2> SUFFICES ASSUME Init PROVE HistogramInv
    OBVIOUS
  <2>1. Valid
    BY DEF Init, Valid, Seen
  <2>2. Unrolled /\ Emitted /\ GroupSeries
    BY DEF Init, Unrolled, Emitted, GroupSeries
  <2> QED
    BY <2>1, <2>2, TypeInit, AccumulatedInit DEF HistogramInv
<1>2. HistogramInv /\ [Next]_vars => HistogramInv'
  BY TypeStep, AccumulatedStep, UnrolledStep, EmittedStep, GroupSeriesStep, ValidStep
  DEF HistogramInv
<1> QED
  BY <1>1, <1>2, PTL DEF Spec

(* The state stays well typed.                                             *)
THEOREM TypeCorrect == Spec => []TypeOK
<1>1. HistogramInv => TypeOK
  BY DEF HistogramInv
<1> QED
  BY <1>1, HistogramInvariant, PTL

(* Every bucket, +Inf and count of a published histogram is the number of  *)
(* the observations that belong in it (collector.go:366-371, 440-462).     *)
THEOREM BucketsCountExactly == Spec => []BucketsCount
<1>1. HistogramInv => BucketsCount
  BY DEF HistogramInv, BucketsCount, Emitted, RightValues
<1> QED
  BY <1>1, HistogramInvariant, PTL

(* The sum of a published histogram is that of its observations, scaled    *)
(* and defaulted (utils.go:140-182, collector.go:369).                     *)
THEOREM SumsAreExact == Spec => []SumOfObservations
<1>1. HistogramInv => SumOfObservations
  BY DEF HistogramInv, SumOfObservations, Emitted, RightValues
<1> QED
  BY <1>1, HistogramInvariant, PTL

(* A published histogram counts observations of its own labels only        *)
(* (utils.go:184-194).                                                     *)
THEOREM GroupsKeepApart == Spec => []GroupsNeverMixed
<1>1. HistogramInv => GroupsNeverMixed
  <2> SUFFICES ASSUME HistogramInv, pc = "done", NEW m \in result,
                      NEW j \in Observations(m.col, KeyOf(m))
               PROVE  rows[j].labels = m.labels
    BY DEF GroupsNeverMixed
  <2>1. m \in pending /\ m.labels \in LabelTuples /\ m.col \in Columns
    BY DEF HistogramInv, Emitted, GroupSeries, TypeOK, Metrics
  <2>2. j \in 1..Len(rows) /\ rows[j].labels \in LabelTuples
    BY <2>1, ObservationsFinite DEF HistogramInv
  <2>3. encodeLabelTuple(rows[j].labels) = encodeLabelTuple(m.labels)
    BY DEF Observations, KeyOf
  <2>4. rows[j].labels \in Seq(Seq(Nat)) /\ m.labels \in Seq(Seq(Nat))
    BY <2>1, <2>2, HistogramAssumption
  <2> QED
    BY <2>3, <2>4, KeysDiffer
<1> QED
  BY <1>1, HistogramInvariant, PTL

(* A label tuple that was observed has all the series of its histogram in  *)
(* the result, and any other has none (collector.go:400-420).              *)
THEOREM HistogramsAreWhole == Spec => []WholeHistograms
<1>1. HistogramInv => WholeHistograms
  <2> SUFFICES ASSUME HistogramInv, pc = "done", NEW c \in Columns, NEW l \in LabelTuples
               PROVE  series({m \in result : m.col = c /\ m.labels = l}) =
                         IF \E j \in 1..Len(rows) : rows[j].labels = l
                                                   /\ present(c, rows[j].data[c])
                         THEN AllSeries(c) ELSE {}
    BY DEF WholeHistograms
  <2> DEFINE k == encodeLabelTuple(l)
             Of == {m \in result : m.col = c /\ m.labels = l}
  <2>1. /\ k \in Keys /\ <<c, k>> \in Columns \X Keys
        /\ \A p \in LabelTuples : encodeLabelTuple(p) = k <=> p = l
    <3>1. k \in Keys
      BY DEF Keys
    <3>2. \A p \in LabelTuples : p \in Seq(Seq(Nat))
      BY HistogramAssumption
    <3> QED
      BY <3>1, <3>2, KeysDiffer
  <2>2. Of = OfGroup(pending, <<c, k>>)
    <3>1. result = pending /\ \A m \in pending : m.labels \in LabelTuples
      BY DEF HistogramInv, Emitted, GroupSeries
    <3> QED
      BY <2>1, <3>1 DEF OfGroup, KeyOf
  <2>3. (\E j \in 1..Len(rows) : rows[j].labels = l /\ present(c, rows[j].data[c]))
          <=> Observations(c, k) # {}
    <3>1. \A j \in 1..Len(rows) : rows[j].labels \in LabelTuples
      BY ObservationsFinite DEF HistogramInv
    <3>2. Seen(c) = 1..Len(rows)
      BY HistogramAssumption DEF HistogramInv, Emitted, Seen, Columns
    <3> QED
      BY <2>1, <3>1, <3>2 DEF Observations
  <2>4. Observations(c, k) # {} <=> <<c, k>> \in emitted
    <3>1. histograms[c][k].count = Cardinality(Observations(c, k)) /\ Groups = emitted
      BY <2>1 DEF HistogramInv, Accumulated, GroupSeries
    <3>2. IsFiniteSet(Observations(c, k)) /\ Cardinality(Observations(c, k)) \in Nat
      BY ObservationsFinite DEF HistogramInv
    <3>3. Observations(c, k) # {} <=> histograms[c][k].count > 0
      BY <3>1, <3>2, FS_EmptySet
    <3> QED
      BY <2>1, <3>1, <3>3 DEF Groups
  <2>5. CASE <<c, k>> \in emitted
    <3>1. series(OfGroup(pending, <<c, k>>)) = AllSeries(c)
      BY <2>5 DEF HistogramInv, GroupSeries
    <3> QED
      BY <2>2, <2>3, <2>4, <2>5, <3>1
  <2>6. CASE <<c, k>> \notin emitted
    <3>1. OfGroup(pending, <<c, k>>) = {}
      <4> SUFFICES ASSUME NEW m \in pending, m.col = c, KeyOf(m) = k PROVE FALSE
        BY DEF OfGroup
      <4> QED
        BY <2>6 DEF HistogramInv, GroupSeries
    <3>2. series({}) = {}
      BY DEF series
    <3> QED
      BY <2>2, <2>3, <2>4, <2>6, <3>1, <3>2
  <2> QED
    BY <2>5, <2>6
<1> QED
  BY <1>1, HistogramInvariant, PTL

(* A published snapshot left no invalid observation out (utils.go:138).    *)
THEOREM InvalidObservationsFail == Spec => []NoInvalidObservation
<1>1. HistogramInv => NoInvalidObservation
  <2> SUFFICES ASSUME HistogramInv, pc = "done", NEW j \in 1..Len(rows), NEW c \in Columns,
                      present(c, rows[j].data[c])
               PROVE  /\ defaulted(c, rows[j].data[c]).kind # "invalid"
                      /\ value(c, rows[j].data[c]) <= MaxFloat
                      /\ -value(c, rows[j].data[c]) <= MaxFloat
    BY DEF NoInvalidObservation
  <2>1. j \in Seen(c)
    BY HistogramAssumption DEF HistogramInv, Emitted, Seen, Columns
  <2>2. casts(c, rows[j].data[c])
    BY <2>1 DEF HistogramInv, Valid
  <2>3. value(c, rows[j].data[c]) \in Int /\ MaxFloat \in Nat
    BY ValueInt, ObservationsFinite, HistogramAssumption DEF HistogramInv
  <2> QED
    BY <2>2, <2>3 DEF casts, Finite
<1> QED
  BY <1>1, HistogramInvariant, PTL
===============================================================================
