-------------------------------- MODULE Sums --------------------------------
(***************************************************************************)
(* Lemmas on numbers: induction, recursion step by step, division, and     *)
(* sums over finite sets, which the proofs about ownership, budgets,       *)
(* consolidation, statements and analyses rest on.                         *)
(*                                                                         *)
(* SumFunctionOnSet of the community modules is a fold: the value at S of  *)
(* a function on the subsets of S that takes one element away at a time.   *)
(* What holds of every number, or of every finite set, is shown by         *)
(* induction whose claim is a set, which is a variable like any other      *)
(* (NumberInduction, FiniteInduction).                                     *)
(***************************************************************************)
EXTENDS Integers, FiniteSets, FiniteSetsExt, FiniteSetTheorems, WellFoundedInduction,
        SequenceTheorems, TLAPS

One(s) == CHOOSE x \in s : TRUE
Part(f, w, s) == IF s = {} THEN 0 ELSE w[One(s)] + f[s \ {One(s)}]
IsSum(f, w, S) == f = [s \in SUBSET S |-> Part(f, w, s)]
Numbers(w, S) == \A x \in S : w[x] \in Int
-----------------------------------------------------------------------------
(* Induction.                                                              *)

LEMMA LeastNumber ==
    ASSUME NEW P, P \subseteq Nat, P # {}
    PROVE  \E n \in P : \A m \in P : n <= m
  <1> DEFINE Less == {xy \in Nat \X Nat : xy[1] < xy[2]}
  <1>1. IsWellFoundedOn(Less, Nat)
    BY NatLessThanWellFounded, Zenon DEF OpToRel
  <1>2. PICK n \in P : \A m \in P : <<m, n>> \notin Less
    <2> HIDE DEF Less
    <2>1. QED
      BY <1>1, WFMin, Zenon
  <1>3. ASSUME NEW m \in P PROVE n <= m
    <2>1. ~(m < n)
      BY <1>2
    <2>2. QED
      BY <2>1
  <1>4. QED
    BY <1>3

LEMMA NumberInduction ==
    ASSUME NEW P, 0 \in P, \A n \in Nat : n \in P => n + 1 \in P
    PROVE  Nat \subseteq P
  <1> SUFFICES ASSUME Nat \ P # {} PROVE FALSE
    OBVIOUS
  <1>1. PICK n \in Nat \ P : \A m \in Nat \ P : n <= m
    BY LeastNumber
  <1>2. n # 0 /\ n - 1 \in Nat /\ n - 1 \in P
    BY <1>1
  <1>3. n - 1 + 1 \in P
    BY <1>2
  <1>4. QED
    BY <1>1, <1>3

(* Numbers of an interval have a greatest.                                 *)
LEMMA GreatestExists ==
    ASSUME NEW n \in Nat, NEW S, S \subseteq 1..n, S # {}
    PROVE  \E m \in S : \A k \in S : k <= m
  <1> DEFINE T == {j \in Nat : n - j \in S}
  <1>1. \A k \in S : k \in Nat /\ n - k \in T
    <2> TAKE k \in S
    <2>1. k \in Nat /\ n - k \in Nat /\ n - (n - k) = k
      OBVIOUS
    <2>2. QED
      BY <2>1
  <1>2. PICK j \in T : \A i \in T : j <= i
    <2>1. T # {} /\ T \subseteq Nat
      BY <1>1
    <2> HIDE DEF T
    <2>2. QED
      BY <2>1, LeastNumber
  <1>3. ASSUME NEW k \in S PROVE k <= n - j
    <2>1. j <= n - k /\ j \in Nat /\ k \in Nat
      BY <1>1, <1>2
    <2>2. QED
      BY <2>1
  <1>4. QED
    BY <1>2, <1>3

LEMMA OneLess ==
    ASSUME NEW s, IsFiniteSet(s), NEW x \in s, NEW n \in Nat, Cardinality(s) = n + 1
    PROVE  Cardinality(s \ {x}) = n
  <1>1. Cardinality(s \ {x}) = Cardinality(s) - 1
    BY FS_RemoveElement
  <1>2. QED
    BY <1>1

(* A finite set is reached from the empty one, an element at a time.       *)
LEMMA FiniteInduction ==
    ASSUME NEW S, IsFiniteSet(S), NEW P, {} \in P,
           \A s \in SUBSET S : \A x \in S \ s : s \in P => s \cup {x} \in P
    PROVE  S \in P
  <1> DEFINE Q == {n \in Nat : \A s \in SUBSET S : Cardinality(s) = n => s \in P}
  <1>1. \A s \in SUBSET S : IsFiniteSet(s) /\ Cardinality(s) \in Nat
    BY FS_Subset, FS_CardinalityType
  <1>2. 0 \in Q
    <2>1. ASSUME NEW s \in SUBSET S, Cardinality(s) = 0 PROVE s \in P
      BY <1>1, <2>1, FS_EmptySet
    <2>2. QED
      BY <2>1
  <1>3. ASSUME NEW n \in Nat, n \in Q PROVE n + 1 \in Q
    <2>1. ASSUME NEW s \in SUBSET S, Cardinality(s) = n + 1 PROVE s \in P
      <3>1. s # {}
        <4>1. Cardinality(s) # 0
          BY <2>1
        <4>2. QED
          BY <4>1, FS_EmptySet, Zenon
      <3>2. PICK x \in s : TRUE
        BY <3>1
      <3>3. s \ {x} \in SUBSET S /\ x \in S \ (s \ {x}) /\ s = (s \ {x}) \cup {x}
        OBVIOUS
      <3>4. Cardinality(s \ {x}) = n
        BY <1>1, <2>1, OneLess
      <3>5. s \ {x} \in P
        BY <1>3, <3>3, <3>4
      <3>6. QED
        BY <3>3, <3>5, Zenon
    <2>2. QED
      BY <2>1
  <1>4. Nat \subseteq Q
    <2> HIDE DEF Q
    <2>1. QED
      BY <1>2, <1>3, NumberInduction
  <1>5. QED
    BY <1>1, <1>4
-----------------------------------------------------------------------------
(* The sum is well defined.                                                *)

LEMMA OneOf == \A s : s # {} => One(s) \in s
  BY DEF One

(* A function that is right for the sets of up to n elements.              *)
Approximates(f, w, S, n) ==
    /\ f \in [SUBSET S -> Int]
    /\ \A s \in SUBSET S : Cardinality(s) <= n => f[s] = Part(f, w, s)

LEMMA SumExists ==
    ASSUME NEW S, IsFiniteSet(S), NEW w, Numbers(w, S)
    PROVE  \E f : f \in [SUBSET S -> Int] /\ IsSum(f, w, S)
  <1> DEFINE Q == {n \in Nat : \E f : Approximates(f, w, S, n)}
  <1>1. \A s \in SUBSET S : IsFiniteSet(s) /\ Cardinality(s) \in Nat /\ Cardinality(s) <= Cardinality(S)
    BY FS_Subset, FS_CardinalityType
  <1>2. \A s \in SUBSET S : s # {} =>
            /\ One(s) \in S /\ w[One(s)] \in Int
            /\ s \ {One(s)} \in SUBSET S /\ Cardinality(s \ {One(s)}) = Cardinality(s) - 1
    BY <1>1, OneOf, FS_RemoveElement DEF Numbers
  <1>3. 0 \in Q
    <2> DEFINE z == [s \in SUBSET S |-> 0]
    <2>1. ASSUME NEW s \in SUBSET S, Cardinality(s) <= 0 PROVE s = {}
      <3>1. Cardinality(s) = 0 /\ IsFiniteSet(s)
        BY <1>1, <2>1
      <3>2. QED
        BY <3>1, FS_EmptySet, Zenon
    <2>2. Approximates(z, w, S, 0)
      BY <2>1 DEF Approximates, Part
    <2>3. QED
      BY <2>2
  <1>4. ASSUME NEW n \in Nat, n \in Q PROVE n + 1 \in Q
    <2>1. PICK f : Approximates(f, w, S, n)
      BY <1>4
    <2> DEFINE g == [s \in SUBSET S |-> Part(f, w, s)]
    <2>2. g \in [SUBSET S -> Int]
      <3>1. ASSUME NEW s \in SUBSET S PROVE Part(f, w, s) \in Int
        <4>1. CASE s = {}
          BY <4>1 DEF Part
        <4>2. CASE s # {}
          <5>1. f[s \ {One(s)}] \in Int /\ w[One(s)] \in Int
            BY <1>2, <2>1, <4>2 DEF Approximates
          <5>2. QED
            BY <4>2, <5>1 DEF Part
        <4>3. QED
          BY <4>1, <4>2
      <3>2. QED
        BY <3>1
    <2>3. ASSUME NEW s \in SUBSET S, Cardinality(s) <= n + 1 PROVE g[s] = Part(g, w, s)
      <3>1. CASE s = {}
        BY <3>1 DEF Part
      <3>2. CASE s # {}
        <4>1. f[s \ {One(s)}] = Part(f, w, s \ {One(s)})
          BY <1>1, <1>2, <2>1, <2>3, <3>2 DEF Approximates
        <4>2. g[s \ {One(s)}] = f[s \ {One(s)}]
          BY <1>2, <3>2, <4>1
        <4>3. QED
          BY <3>2, <4>2 DEF Part
      <3>3. QED
        BY <3>1, <3>2
    <2>4. Approximates(g, w, S, n + 1)
      <3> HIDE DEF g
      <3>1. QED
        BY <2>2, <2>3 DEF Approximates
    <2>5. QED
      BY <2>4
  <1>5. Nat \subseteq Q
    <2> HIDE DEF Q
    <2>1. QED
      BY <1>3, <1>4, NumberInduction
  <1>6. PICK f : Approximates(f, w, S, Cardinality(S))
    BY <1>1, <1>5
  <1>7. f = [s \in SUBSET S |-> Part(f, w, s)]
    BY <1>1, <1>6 DEF Approximates
  <1>8. QED
    BY <1>6, <1>7 DEF Approximates, IsSum

(* Two such functions agree where their weights do.                        *)
LEMMA SumsAgree ==
    ASSUME NEW S, NEW T, NEW v, NEW w, NEW f, NEW g, IsSum(f, v, S), IsSum(g, w, T),
           NEW U, IsFiniteSet(U), U \subseteq S, U \subseteq T, \A x \in U : v[x] = w[x]
    PROVE  f[U] = g[U]
  <1> DEFINE Q == {n \in Nat : \A s \in SUBSET U : Cardinality(s) = n => f[s] = g[s]}
  <1>1. \A s \in SUBSET U : IsFiniteSet(s) /\ Cardinality(s) \in Nat
    BY FS_Subset, FS_CardinalityType
  <1>2. \A s \in SUBSET U : f[s] = Part(f, v, s) /\ g[s] = Part(g, w, s)
    BY DEF IsSum
  <1>3. 0 \in Q
    <2>1. \A s \in SUBSET U : Cardinality(s) = 0 => s = {}
      BY <1>1, FS_EmptySet
    <2>2. QED
      BY <1>2, <2>1 DEF Part
  <1>4. ASSUME NEW n \in Nat, n \in Q PROVE n + 1 \in Q
    <2>1. ASSUME NEW s \in SUBSET U, Cardinality(s) = n + 1 PROVE f[s] = g[s]
      <3>1. s # {}
        <4>1. Cardinality(s) # 0
          BY <2>1
        <4>2. QED
          BY <4>1, FS_EmptySet, Zenon
      <3>2. One(s) \in s /\ s \ {One(s)} \in SUBSET U
        BY <3>1, OneOf
      <3>3. Cardinality(s \ {One(s)}) = n
        BY <1>1, <2>1, <3>2, OneLess
      <3>4. f[s \ {One(s)}] = g[s \ {One(s)}]
        BY <1>4, <3>2, <3>3
      <3>5. v[One(s)] = w[One(s)]
        BY <3>2
      <3>6. QED
        BY <1>2, <3>1, <3>4, <3>5 DEF Part
    <2>2. QED
      BY <2>1
  <1>5. Nat \subseteq Q
    <2> HIDE DEF Q
    <2>1. QED
      BY <1>3, <1>4, NumberInduction
  <1>6. QED
    BY <1>1, <1>5
-----------------------------------------------------------------------------
(* Its values.                                                             *)

LEMMA SumIs ==
    ASSUME NEW S, IsFiniteSet(S), NEW w, Numbers(w, S), NEW f, IsSum(f, w, S),
           NEW U, U \subseteq S
    PROVE  SumFunctionOnSet(w, U) = f[U]
  <1>1. IsFiniteSet(U) /\ Numbers(w, U)
    BY FS_Subset DEF Numbers
  <1> DEFINE g == CHOOSE h : IsSum(h, w, U)
  <1>2. IsSum(g, w, U)
    <2>1. \E h : IsSum(h, w, U)
      BY <1>1, SumExists
    <2>2. QED
      BY <2>1, Zenon
  <1>3. SumFunctionOnSet(w, U) = g[U]
    BY DEF SumFunctionOnSet, FoldFunctionOnSet, MapThenFoldSet, IsSum, Part, One
  <1> HIDE DEF g
  <1>4. g[U] = f[U]
    BY <1>1, <1>2, SumsAgree
  <1>5. QED
    BY <1>3, <1>4

LEMMA SumTyped ==
    ASSUME NEW S, IsFiniteSet(S), NEW w, Numbers(w, S)
    PROVE  SumFunctionOnSet(w, S) \in Int
  <1>1. PICK f : f \in [SUBSET S -> Int] /\ IsSum(f, w, S)
    BY SumExists
  <1>2. SumFunctionOnSet(w, S) = f[S]
    BY <1>1, SumIs
  <1>3. QED
    BY <1>1, <1>2

LEMMA SumEmpty == \A w : SumFunctionOnSet(w, {}) = 0
  <1> TAKE w
  <1>1. IsFiniteSet({}) /\ Numbers(w, {})
    BY FS_EmptySet DEF Numbers
  <1>2. PICK f : IsSum(f, w, {})
    BY <1>1, SumExists
  <1>3. SumFunctionOnSet(w, {}) = f[{}]
    BY <1>1, <1>2, SumIs
  <1>4. QED
    BY <1>2, <1>3 DEF IsSum, Part

LEMMA SumSame ==
    ASSUME NEW S, IsFiniteSet(S), NEW v, NEW w, Numbers(v, S), \A x \in S : v[x] = w[x]
    PROVE  SumFunctionOnSet(v, S) = SumFunctionOnSet(w, S)
  <1>1. Numbers(w, S)
    BY DEF Numbers
  <1>2. PICK f : IsSum(f, v, S)
    BY SumExists
  <1>3. PICK g : IsSum(g, w, S)
    BY <1>1, SumExists
  <1>4. f[S] = g[S]
    BY <1>2, <1>3, SumsAgree
  <1>5. SumFunctionOnSet(v, S) = f[S] /\ SumFunctionOnSet(w, S) = g[S]
    BY <1>1, <1>2, <1>3, SumIs
  <1>6. QED
    BY <1>4, <1>5

(* Any element may be taken away first.                                    *)
LEMMA SumTakesAny ==
    ASSUME NEW S, IsFiniteSet(S), NEW w, Numbers(w, S), NEW x \in S
    PROVE  SumFunctionOnSet(w, S) = w[x] + SumFunctionOnSet(w, S \ {x})
  <1>1. PICK f : f \in [SUBSET S -> Int] /\ IsSum(f, w, S)
    BY SumExists
  <1> DEFINE Q == {n \in Nat : \A s \in SUBSET S : \A y \in s :
                      Cardinality(s) = n => f[s] = w[y] + f[s \ {y}]}
  <1>2. \A s \in SUBSET S : IsFiniteSet(s) /\ Cardinality(s) \in Nat /\ f[s] \in Int
    BY <1>1, FS_Subset, FS_CardinalityType
  <1>3. \A s \in SUBSET S : s # {} => f[s] = w[One(s)] + f[s \ {One(s)}]
    BY <1>1 DEF IsSum, Part
  <1>4. 0 \in Q
    <2>1. ASSUME NEW s \in SUBSET S, NEW y \in s, Cardinality(s) = 0 PROVE FALSE
      <3>1. s = {}
        BY <1>2, <2>1, FS_EmptySet, Zenon
      <3>2. QED
        BY <3>1
    <2>2. QED
      BY <2>1
  <1>5. ASSUME NEW n \in Nat, n \in Q PROVE n + 1 \in Q
    <2>1. ASSUME NEW s \in SUBSET S, NEW y \in s, Cardinality(s) = n + 1
          PROVE  f[s] = w[y] + f[s \ {y}]
      <3> DEFINE z == One(s)
      <3>1. z \in s /\ f[s] = w[z] + f[s \ {z}]
        BY <1>3, OneOf
      <3> HIDE DEF z
      <3>2. CASE z = y
        BY <3>1, <3>2
      <3>3. CASE z # y
        <4>1. /\ s \ {y} \in SUBSET S /\ z \in s \ {y}
              /\ s \ {z} \in SUBSET S /\ y \in s \ {z}
              /\ (s \ {z}) \ {y} = (s \ {y}) \ {z} /\ (s \ {y}) \ {z} \in SUBSET S
          BY <3>1, <3>3
        <4>2. Cardinality(s \ {y}) = n /\ Cardinality(s \ {z}) = n
          BY <1>2, <2>1, <3>1, OneLess
        <4>3. f[s \ {z}] = w[y] + f[(s \ {y}) \ {z}]
          <5>1. f[s \ {z}] = w[y] + f[(s \ {z}) \ {y}]
            BY <1>5, <4>1, <4>2
          <5>2. QED
            BY <4>1, <5>1
        <4>4. f[s \ {y}] = w[z] + f[(s \ {y}) \ {z}]
          BY <1>5, <4>1, <4>2
        <4>5. w[y] \in Int /\ w[z] \in Int /\ f[(s \ {y}) \ {z}] \in Int
          BY <1>2, <3>1, <4>1 DEF Numbers
        <4> DEFINE a == w[y]
                   b == w[z]
                   c == f[(s \ {y}) \ {z}]
        <4>6. a + (b + c) = b + (a + c)
          <5>1. a \in Int /\ b \in Int /\ c \in Int
            BY <4>5
          <5> HIDE DEF a, b, c
          <5>2. QED
            BY <5>1
        <4>7. QED
          BY <3>1, <4>3, <4>4, <4>6
      <3>4. QED
        BY <3>2, <3>3
    <2>2. QED
      BY <2>1
  <1>6. Nat \subseteq Q
    <2> HIDE DEF Q
    <2>1. QED
      BY <1>4, <1>5, NumberInduction
  <1>7. f[S] = w[x] + f[S \ {x}]
    BY <1>2, <1>6
  <1>8. SumFunctionOnSet(w, S) = f[S] /\ SumFunctionOnSet(w, S \ {x}) = f[S \ {x}]
    BY <1>1, SumIs
  <1>9. QED
    BY <1>7, <1>8

LEMMA SumAdds ==
    ASSUME NEW S, IsFiniteSet(S), NEW x, x \notin S, NEW w, Numbers(w, S), w[x] \in Int
    PROVE  SumFunctionOnSet(w, S \cup {x}) = w[x] + SumFunctionOnSet(w, S)
  <1>1. IsFiniteSet(S \cup {x})
    BY FS_AddElement
  <1>2. Numbers(w, S \cup {x})
    BY DEF Numbers
  <1>3. (S \cup {x}) \ {x} = S
    OBVIOUS
  <1>4. SumFunctionOnSet(w, S \cup {x}) = w[x] + SumFunctionOnSet(w, (S \cup {x}) \ {x})
    BY <1>1, <1>2, SumTakesAny
  <1>5. QED
    BY <1>3, <1>4
-----------------------------------------------------------------------------
(* Sums compared.                                                          *)

LEMMA SumAtMost ==
    ASSUME NEW S, IsFiniteSet(S), NEW v, NEW w, Numbers(v, S), Numbers(w, S), \A x \in S : v[x] <= w[x]
    PROVE  SumFunctionOnSet(v, S) <= SumFunctionOnSet(w, S)
  <1> DEFINE P == {s \in SUBSET S : SumFunctionOnSet(v, s) <= SumFunctionOnSet(w, s)}
  <1>1. {} \in P
    BY SumEmpty
  <1>2. ASSUME NEW s \in SUBSET S, NEW x \in S \ s, s \in P PROVE s \cup {x} \in P
    <2>1. IsFiniteSet(s) /\ Numbers(v, s) /\ Numbers(w, s) /\ v[x] \in Int /\ w[x] \in Int
      BY FS_Subset DEF Numbers
    <2>2. /\ SumFunctionOnSet(v, s \cup {x}) = v[x] + SumFunctionOnSet(v, s)
          /\ SumFunctionOnSet(w, s \cup {x}) = w[x] + SumFunctionOnSet(w, s)
      BY <2>1, SumAdds
    <2>3. SumFunctionOnSet(v, s) \in Int /\ SumFunctionOnSet(w, s) \in Int
      BY <2>1, SumTyped
    <2>4. v[x] + SumFunctionOnSet(v, s) <= w[x] + SumFunctionOnSet(w, s)
      BY <1>2, <2>1, <2>3
    <2>5. QED
      BY <2>2, <2>4
  <1>3. S \in P
    <2> HIDE DEF P
    <2>1. QED
      BY <1>1, <1>2, FiniteInduction
  <1>4. QED
    BY <1>3

(* Elements that add nothing may be left out, others that add something    *)
(* make it no smaller.                                                     *)
LEMMA SumOfSubset ==
    ASSUME NEW S, IsFiniteSet(S), NEW w, Numbers(w, S), NEW U, U \subseteq S
    PROVE  /\ (\A x \in S \ U : w[x] = 0) => SumFunctionOnSet(w, S) = SumFunctionOnSet(w, U)
           /\ (\A x \in S \ U : w[x] >= 0) => SumFunctionOnSet(w, U) <= SumFunctionOnSet(w, S)
  <1> DEFINE D == S \ U
             P == {s \in SUBSET D :
                     /\ (\A x \in D : w[x] = 0) => SumFunctionOnSet(w, U \cup s) = SumFunctionOnSet(w, U)
                     /\ (\A x \in D : w[x] >= 0) => SumFunctionOnSet(w, U) <= SumFunctionOnSet(w, U \cup s)}
  <1>1. IsFiniteSet(D) /\ D \subseteq S /\ \A s \in SUBSET D : IsFiniteSet(U \cup s) /\ Numbers(w, U \cup s)
    BY FS_Subset DEF Numbers
  <1>2. \A s \in SUBSET D : SumFunctionOnSet(w, U \cup s) \in Int
    BY <1>1, SumTyped
  <1>3. {} \in P
    <2>1. U \cup {} = U /\ {} \in SUBSET D
      OBVIOUS
    <2>2. SumFunctionOnSet(w, U) \in Int
      BY <1>2, <2>1
    <2>3. QED
      BY <2>1, <2>2
  <1>4. ASSUME NEW s \in SUBSET D, NEW x \in D \ s, s \in P PROVE s \cup {x} \in P
    <2>1. x \notin U \cup s /\ U \cup (s \cup {x}) = (U \cup s) \cup {x} /\ s \cup {x} \in SUBSET D
      OBVIOUS
    <2>2. w[x] \in Int
      BY DEF Numbers
    <2>3. SumFunctionOnSet(w, U \cup (s \cup {x})) = w[x] + SumFunctionOnSet(w, U \cup s)
      BY <1>1, <2>1, <2>2, SumAdds
    <2>4. SumFunctionOnSet(w, U \cup s) \in Int /\ SumFunctionOnSet(w, U) \in Int
      BY <1>2, <1>3, U \cup {} = U
    <2>5. QED
      BY <1>4, <2>1, <2>2, <2>3, <2>4
  <1>5. D \in P
    <2> HIDE DEF P, D
    <2>1. QED
      BY <1>1, <1>3, <1>4, FiniteInduction
  <1>6. U \cup D = S
    OBVIOUS
  <1>7. QED
    BY <1>5, <1>6

LEMMA SumOfZeros ==
    ASSUME NEW S, IsFiniteSet(S), NEW w, \A x \in S : w[x] = 0
    PROVE  SumFunctionOnSet(w, S) = 0
  <1>1. SumFunctionOnSet(w, S) = SumFunctionOnSet(w, {})
    BY SumOfSubset DEF Numbers
  <1>2. QED
    BY <1>1, SumEmpty

(* The same numbers under other names, without those that are zero.        *)
LEMMA SumMoves ==
    ASSUME NEW S, IsFiniteSet(S), NEW v, Numbers(v, S),
           NEW T, IsFiniteSet(T), NEW w, Numbers(w, T),
           NEW b \in [S -> T],
           \A x \in S : w[b[x]] = v[x],
           \A x, y \in S : b[x] = b[y] => x = y,
           \A y \in T : (\A x \in S : b[x] # y) => w[y] = 0
    PROVE  SumFunctionOnSet(v, S) = SumFunctionOnSet(w, T)
  <1> DEFINE Image(s) == {b[x] : x \in s}
             P == {s \in SUBSET S : SumFunctionOnSet(v, s) = SumFunctionOnSet(w, Image(s))}
  <1>1. {} \in P
    <2>1. Image({}) = {}
      OBVIOUS
    <2>2. QED
      BY <2>1, SumEmpty
  <1>2. ASSUME NEW s \in SUBSET S, NEW x \in S \ s, s \in P PROVE s \cup {x} \in P
    <2>1. Image(s) \subseteq T /\ b[x] \notin Image(s) /\ Image(s \cup {x}) = Image(s) \cup {b[x]}
      OBVIOUS
    <2>2. /\ IsFiniteSet(s) /\ Numbers(v, s) /\ v[x] \in Int
          /\ IsFiniteSet(Image(s)) /\ Numbers(w, Image(s)) /\ w[b[x]] \in Int
      <3>1. IsFiniteSet(s) /\ Numbers(v, s) /\ v[x] \in Int
        BY FS_Subset DEF Numbers
      <3>2. IsFiniteSet(Image(s))
        BY <2>1, FS_Subset
      <3>3. Numbers(w, Image(s)) /\ w[b[x]] \in Int
        BY <2>1 DEF Numbers
      <3>4. QED
        BY <3>1, <3>2, <3>3
    <2>3. SumFunctionOnSet(v, s \cup {x}) = v[x] + SumFunctionOnSet(v, s)
      BY <2>2, SumAdds
    <2>4. SumFunctionOnSet(w, Image(s) \cup {b[x]}) = w[b[x]] + SumFunctionOnSet(w, Image(s))
      <3> HIDE DEF Image
      <3>1. QED
        BY <2>1, <2>2, SumAdds
    <2>5. SumFunctionOnSet(v, s) = SumFunctionOnSet(w, Image(s)) /\ w[b[x]] = v[x]
      BY <1>2
    <2>6. SumFunctionOnSet(v, s \cup {x}) = SumFunctionOnSet(w, Image(s \cup {x}))
      <3> HIDE DEF Image
      <3>1. QED
        BY <2>1, <2>3, <2>4, <2>5
    <2>7. QED
      BY <2>6
  <1>3. S \in P
    <2> HIDE DEF P
    <2>1. QED
      BY <1>1, <1>2, FiniteInduction
  <1>4. SumFunctionOnSet(w, T) = SumFunctionOnSet(w, Image(S))
    <2>1. Image(S) \subseteq T /\ \A y \in T \ Image(S) : w[y] = 0
      OBVIOUS
    <2> HIDE DEF Image
    <2>2. QED
      BY <2>1, SumOfSubset
  <1>5. QED
    BY <1>3, <1>4

(* When no two numbers differ by more than a twentieth of a third, neither *)
(* do their sums.                                                          *)
LEMMA SumsDiffer ==
    ASSUME NEW S, IsFiniteSet(S), NEW a, NEW b, NEW c, Numbers(a, S), Numbers(b, S), Numbers(c, S),
           \A x \in S : 20 * (a[x] - b[x]) <= c[x] /\ 20 * (b[x] - a[x]) <= c[x]
    PROVE  /\ 20 * (SumFunctionOnSet(a, S) - SumFunctionOnSet(b, S)) <= SumFunctionOnSet(c, S)
           /\ 20 * (SumFunctionOnSet(b, S) - SumFunctionOnSet(a, S)) <= SumFunctionOnSet(c, S)
  <1> DEFINE Near(i, j, k) == 20 * (i - j) <= k /\ 20 * (j - i) <= k
             P == {s \in SUBSET S : Near(SumFunctionOnSet(a, s), SumFunctionOnSet(b, s), SumFunctionOnSet(c, s))}
  <1>1. {} \in P
    BY SumEmpty
  <1>2. \A i, j, k, x, y, z \in Int : Near(i, j, k) /\ Near(x, y, z) => Near(i + x, j + y, k + z)
    OBVIOUS
  <1>3. ASSUME NEW s \in SUBSET S, NEW x \in S \ s, s \in P PROVE s \cup {x} \in P
    <2>1. /\ IsFiniteSet(s) /\ Numbers(a, s) /\ Numbers(b, s) /\ Numbers(c, s)
          /\ a[x] \in Int /\ b[x] \in Int /\ c[x] \in Int
      BY FS_Subset DEF Numbers
    <2>2. /\ SumFunctionOnSet(a, s \cup {x}) = a[x] + SumFunctionOnSet(a, s)
          /\ SumFunctionOnSet(b, s \cup {x}) = b[x] + SumFunctionOnSet(b, s)
          /\ SumFunctionOnSet(c, s \cup {x}) = c[x] + SumFunctionOnSet(c, s)
      BY <2>1, SumAdds
    <2>3. SumFunctionOnSet(a, s) \in Int /\ SumFunctionOnSet(b, s) \in Int /\ SumFunctionOnSet(c, s) \in Int
      BY <2>1, SumTyped
    <2>4. Near(a[x], b[x], c[x]) /\ Near(SumFunctionOnSet(a, s), SumFunctionOnSet(b, s), SumFunctionOnSet(c, s))
      BY <1>3
    <2> HIDE DEF Near
    <2>5. Near(a[x] + SumFunctionOnSet(a, s), b[x] + SumFunctionOnSet(b, s), c[x] + SumFunctionOnSet(c, s))
      BY <1>2, <2>1, <2>3, <2>4
    <2>6. QED
      BY <2>2, <2>5
  <1>4. S \in P
    <2> HIDE DEF P
    <2>1. QED
      BY <1>1, <1>3, FiniteInduction
  <1>5. QED
    BY <1>4

(* Numbers that combine into others add up to sums that do.                *)
LEMMA SumsCombine ==
    ASSUME NEW S, IsFiniteSet(S), NEW a, NEW b, NEW c, NEW d,
           Numbers(a, S), Numbers(b, S), Numbers(c, S), Numbers(d, S),
           \A x \in S : a[x] - b[x] + c[x] = d[x]
    PROVE  SumFunctionOnSet(a, S) - SumFunctionOnSet(b, S) + SumFunctionOnSet(c, S) = SumFunctionOnSet(d, S)
  <1> DEFINE P == {s \in SUBSET S : SumFunctionOnSet(a, s) - SumFunctionOnSet(b, s) + SumFunctionOnSet(c, s)
                                      = SumFunctionOnSet(d, s)}
  <1>1. {} \in P
    BY SumEmpty
  <1>2. ASSUME NEW s \in SUBSET S, NEW x \in S \ s, s \in P PROVE s \cup {x} \in P
    <2>1. /\ IsFiniteSet(s) /\ Numbers(a, s) /\ Numbers(b, s) /\ Numbers(c, s) /\ Numbers(d, s)
          /\ a[x] \in Int /\ b[x] \in Int /\ c[x] \in Int /\ d[x] \in Int
      BY FS_Subset DEF Numbers
    <2>2. /\ SumFunctionOnSet(a, s \cup {x}) = a[x] + SumFunctionOnSet(a, s)
          /\ SumFunctionOnSet(b, s \cup {x}) = b[x] + SumFunctionOnSet(b, s)
          /\ SumFunctionOnSet(c, s \cup {x}) = c[x] + SumFunctionOnSet(c, s)
          /\ SumFunctionOnSet(d, s \cup {x}) = d[x] + SumFunctionOnSet(d, s)
      BY <2>1, SumAdds
    <2>3. /\ SumFunctionOnSet(a, s) \in Int /\ SumFunctionOnSet(b, s) \in Int
          /\ SumFunctionOnSet(c, s) \in Int /\ SumFunctionOnSet(d, s) \in Int
      BY <2>1, SumTyped
    <2>4. SumFunctionOnSet(a, s) - SumFunctionOnSet(b, s) + SumFunctionOnSet(c, s) = SumFunctionOnSet(d, s)
      BY <1>2
    <2>5. a[x] - b[x] + c[x] = d[x]
      OBVIOUS
    <2>6. (a[x] + SumFunctionOnSet(a, s)) - (b[x] + SumFunctionOnSet(b, s)) + (c[x] + SumFunctionOnSet(c, s))
            = d[x] + SumFunctionOnSet(d, s)
      BY <2>1, <2>3, <2>4, <2>5
    <2>7. QED
      BY <2>2, <2>6
  <1>3. S \in P
    <2> HIDE DEF P
    <2>1. QED
      BY <1>1, <1>2, FiniteInduction
  <1>4. QED
    BY <1>3

(* A sum over the first numbers takes in one at a time.                    *)
LEMMA SumUpTo ==
    ASSUME NEW w, NEW n \in Nat, Numbers(w, 1..n)
    PROVE  /\ SumFunctionOnSet(w, 1..n) \in Int
           /\ n # 0 => /\ SumFunctionOnSet(w, 1..n) = SumFunctionOnSet(w, 1..(n - 1)) + w[n]
                       /\ SumFunctionOnSet(w, 1..(n - 1)) \in Int /\ w[n] \in Int
           /\ n = 0 => SumFunctionOnSet(w, 1..n) = 0
  <1>1. IsFiniteSet(1..n)
    BY FS_Interval
  <1>2. CASE n # 0
    <2>1. /\ 1..n = (1..(n - 1)) \cup {n} /\ n \notin 1..(n - 1) /\ 1..(n - 1) \subseteq 1..n
      BY <1>2
    <2>2. IsFiniteSet(1..(n - 1)) /\ Numbers(w, 1..(n - 1)) /\ w[n] \in Int
      BY <1>2, <2>1, FS_Interval DEF Numbers
    <2> DEFINE S == 1..(n - 1)
    <2>3. SumFunctionOnSet(w, S \cup {n}) = w[n] + SumFunctionOnSet(w, S)
      <3>1. n \notin S /\ IsFiniteSet(S) /\ Numbers(w, S) /\ w[n] \in Int
        BY <2>1, <2>2
      <3> HIDE DEF S
      <3>2. QED
        BY <3>1, SumAdds
    <2>4. SumFunctionOnSet(w, S) \in Int
      BY <2>2, SumTyped
    <2>5. 1..n = S \cup {n}
      BY <2>1
    <2> HIDE DEF S
    <2>6. SumFunctionOnSet(w, 1..n) = SumFunctionOnSet(w, S) + w[n]
      <3>1. SumFunctionOnSet(w, 1..n) = w[n] + SumFunctionOnSet(w, S)
        BY <2>3, <2>5, Zenon
      <3>2. QED
        BY <2>2, <2>4, <3>1
    <2>7. QED
      BY <1>2, <2>2, <2>4, <2>6 DEF S
  <1>3. CASE n = 0
    <2>1. 1..n = {}
      BY <1>3
    <2>2. QED
      BY <1>3, <2>1, SumEmpty
  <1>4. QED
    BY <1>2, <1>3
-----------------------------------------------------------------------------
(* What is computed step by step, each value from the one before.          *)

LEMMA Written ==
    ASSUME NEW n \in Nat, NEW f, f = [i \in 1..n |-> f[i]]
    PROVE  <<>> \o f = f
  <1> DEFINE V == {f[i] : i \in 1..n}
  <1>1. f \in [1..n -> V]
    OBVIOUS
  <1> HIDE DEF V
  <1>2. f \in Seq(V)
    BY <1>1, SeqDef
  <1>3. QED
    BY <1>2, ConcatEmptySeq

LEMMA StepInduction ==
    ASSUME NEW n \in Nat, NEW P, 0 \in P, \A t \in 1..n : t - 1 \in P => t \in P
    PROVE  \A t \in 0..n : t \in P
  <1> DEFINE Q == {t \in Nat : t <= n => t \in P}
  <1>1. 0 \in Q /\ \A t \in Nat : t \in Q => t + 1 \in Q
    OBVIOUS
  <1> HIDE DEF Q
  <1>2. Nat \subseteq Q
    BY <1>1, NumberInduction
  <1>3. QED
    BY <1>2 DEF Q

(* A value that is computed from the one before, for members of V.         *)
KeepsIn(V, g, n) == \A x \in V, t \in 1..n : g[<<x, t>>] \in V
StepByStep(f, v, g, n) == f[0] = v /\ \A t \in 1..n : f[t] = g[<<f[t - 1], t>>]

LEMMA RecursionExists ==
    ASSUME NEW n \in Nat, NEW V, NEW v \in V, NEW g, KeepsIn(V, g, n)
    PROVE  \E f : f \in [0..n -> V] /\ StepByStep(f, v, g, n)
  <1> DEFINE Right(f, m) == /\ f \in [0..n -> V]
                            /\ \A t \in 0..n : t <= m => f[t] = IF t = 0 THEN v ELSE g[<<f[t - 1], t>>]
             P == {m \in 0..n : \E f : Right(f, m)}
  <1>1. 0 \in P
    <2> DEFINE z == [t \in 0..n |-> v]
    <2>1. Right(z, 0)
      OBVIOUS
    <2>2. QED
      BY <2>1
  <1>2. ASSUME NEW m \in 1..n, m - 1 \in P PROVE m \in P
    <2>1. PICK f : Right(f, m - 1)
      BY <1>2
    <2> DEFINE h == [t \in 0..n |-> IF t = m THEN g[<<f[m - 1], m>>] ELSE f[t]]
    <2>2. m - 1 \in 0..n /\ f[m - 1] \in V
      BY <2>1
    <2>3. h \in [0..n -> V]
      BY <2>1, <2>2 DEF KeepsIn
    <2>4. ASSUME NEW t \in 0..n, t <= m PROVE h[t] = IF t = 0 THEN v ELSE g[<<h[t - 1], t>>]
      <3>1. CASE t = m
        <4>1. h[t] = g[<<f[t - 1], t>>] /\ t # 0
          BY <3>1
        <4>2. h[t - 1] = f[t - 1]
          BY <2>2, <3>1
        <4> HIDE DEF h
        <4>3. QED
          BY <4>1, <4>2
      <3>2. CASE t < m
        <4>1. h[t] = f[t] /\ f[t] = IF t = 0 THEN v ELSE g[<<f[t - 1], t>>]
          BY <2>1, <3>2
        <4>2. t # 0 => h[t - 1] = f[t - 1]
          BY <3>2
        <4> HIDE DEF h
        <4>3. QED
          BY <4>1, <4>2
      <3>3. QED
        BY <2>4, <3>1, <3>2
    <2> HIDE DEF h
    <2>5. Right(h, m)
      BY <2>3, <2>4
    <2>6. QED
      BY <2>5
  <1>3. \A m \in 0..n : m \in P
    <2> HIDE DEF P
    <2>1. QED
      BY <1>1, <1>2, StepInduction
  <1>4. PICK f : Right(f, n)
    BY <1>3
  <1>5. \A t \in 0..n : f[t] = IF t = 0 THEN v ELSE g[<<f[t - 1], t>>]
    BY <1>4
  <1>6. 0 \in 0..n /\ \A t \in 1..n : t \in 0..n /\ t # 0
    OBVIOUS
  <1>7. f[0] = v /\ \A t \in 1..n : f[t] = g[<<f[t - 1], t>>]
    BY <1>5, <1>6, Zenon
  <1>8. QED
    BY <1>4, <1>7 DEF StepByStep
-----------------------------------------------------------------------------
(* Arithmetic.                                                             *)
LEMMA Division ==
    ASSUME NEW b \in Nat \ {0}, NEW x \in Int
    PROVE  x \div b \in Int /\ x = (b * (x \div b)) + (x % b) /\ x % b \in 0..(b - 1)
  OBVIOUS

LEMMA ProductsOrdered ==
    ASSUME NEW b \in Nat, NEW p \in Int, NEW q \in Int, p <= q
    PROVE  b * p <= b * q /\ b * p \in Int /\ b * q \in Int
  <1>1. b * p \in Int /\ b * q \in Int /\ b * (q - p) = b * q - b * p
    OBVIOUS
  <1>2. \A m, n \in Nat : m * n \in Nat
    OBVIOUS
  <1>3. q - p \in Nat
    OBVIOUS
  <1>4. b * (q - p) \in Nat
    BY <1>2, <1>3
  <1> DEFINE u == b * p
             v == b * q
             w == b * (q - p)
  <1>5. u \in Int /\ v \in Int /\ w \in Nat /\ w = v - u
    BY <1>1, <1>4
  <1> HIDE DEF u, v, w
  <1>6. u <= v
    BY <1>5
  <1>7. QED
    BY <1>1, <1>6 DEF u, v

LEMMA DivisionOrdered ==
    ASSUME NEW b \in Nat \ {0}, NEW x \in Int, NEW y \in Int, x <= y
    PROVE  x \div b \in Int /\ y \div b \in Int /\ x \div b <= y \div b
  <1> DEFINE p == x \div b
             q == y \div b
             r == x % b
             s == y % b
  <1>1. p \in Int /\ q \in Int /\ x = b * p + r /\ y = b * q + s /\ r \in 0..(b - 1) /\ s \in 0..(b - 1)
    BY Division
  <1> HIDE DEF p, q, r, s
  <1>2. CASE q + 1 <= p
    <2>1. b * (q + 1) <= b * p /\ b * (q + 1) = b * q + b
      BY <1>1, <1>2, ProductsOrdered
    <2> DEFINE u == b * p
               v == b * q
    <2>2. u \in Int /\ v \in Int /\ v + b <= u /\ x = u + r /\ y = v + s
      BY <1>1, <2>1
    <2> HIDE DEF u, v
    <2>3. FALSE
      BY <1>1, <2>2
    <2>4. QED
      BY <2>3
  <1>3. QED
    BY <1>1, <1>2 DEF p, q

(* The quotient of what lies between two multiples.                        *)
LEMMA DivisionWithin ==
    ASSUME NEW b \in Nat \ {0}, NEW q \in Int, NEW r \in 0..(b - 1)
    PROVE  (b * q + r) \div b = q /\ (b * q + r) % b = r
  <1> DEFINE x == b * q + r
             p == x \div b
             s == x % b
  <1>1. b * q \in Int
    OBVIOUS
  <1>2. x \in Int /\ p \in Int /\ x = b * p + s /\ s \in 0..(b - 1)
    <2>1. x \in Int
      BY <1>1
    <2> HIDE DEF x
    <2>2. QED
      BY <2>1, Division
  <1> DEFINE u == b * p
             v == b * q
  <1>3. u \in Int /\ v \in Int /\ v + r = u + s
    BY <1>2
  <1> HIDE DEF p, s, x
  <1>4. ASSUME p + 1 <= q PROVE FALSE
    <2>1. b * (p + 1) <= b * q /\ b * (p + 1) = u + b
      BY <1>2, <1>4, ProductsOrdered
    <2> HIDE DEF u, v
    <2>2. FALSE
      BY <1>2, <1>3, <2>1 DEF v
    <2>3. QED
      BY <2>2
  <1>5. ASSUME q + 1 <= p PROVE FALSE
    <2>1. b * (q + 1) <= b * p /\ b * (q + 1) = v + b
      BY <1>2, <1>5, ProductsOrdered
    <2> HIDE DEF u, v
    <2>2. FALSE
      BY <1>2, <1>3, <2>1 DEF u
    <2>3. QED
      BY <2>2
  <1>6. p = q
    <2>1. p \in Int /\ q \in Int /\ ~(p + 1 <= q) /\ ~(q + 1 <= p)
      BY <1>2, <1>4, <1>5
    <2>2. QED
      BY <2>1
  <1>7. s = r
    <2>1. u = v
      BY <1>6
    <2> HIDE DEF u, v
    <2>2. QED
      BY <1>2, <1>3, <2>1
  <1>8. QED
    BY <1>6, <1>7 DEF p, s, x
=============================================================================
