------------------------------ MODULE Induction ------------------------------
(***************************************************************************)
(* Induction over numbers and finite sets, with a set in the place of the  *)
(* predicate, so that a proof can instantiate it; and what it gives for    *)
(* the sums and powers the specifications are written with.                *)
(***************************************************************************)
EXTENDS Integers, FiniteSets, FiniteSetsExt, FiniteSetTheorems, WellFoundedInduction, TLAPS

LEMMA LeastNatural ==
  ASSUME NEW T, T \subseteq Nat, T # {}
  PROVE  \E n \in T : \A m \in T : n <= m
<1> DEFINE less == OpToRel(<, Nat)
<1>1. IsWellFoundedOn(less, Nat)
  BY NatLessThanWellFounded
<1>2. \A x, y \in Nat : <<y, x>> \in less <=> y < x
  BY DEF OpToRel
<1> HIDE DEF less
<1>3. PICK n \in T : \A m \in T : <<m, n>> \notin less
  BY <1>1, WFMin
<1>4. ASSUME NEW m \in T PROVE n <= m
  <2>1. n \in Nat /\ m \in Nat /\ <<m, n>> \notin less
    BY <1>3
  <2>2. ~(m < n)
    BY <1>2, <2>1
  <2> QED BY <2>1, <2>2
<1> QED BY <1>4

LEMMA NumberInduction ==
  ASSUME NEW S, 0 \in S, \A n \in Nat : n \in S => n + 1 \in S
  PROVE  Nat \subseteq S
<1> SUFFICES ASSUME Nat \ S # {} PROVE FALSE
  OBVIOUS
<1>1. PICK n \in Nat \ S : \A m \in Nat \ S : n <= m
  BY LeastNatural
<1>2. n # 0 /\ n - 1 \in Nat
  BY <1>1
<1>3. n - 1 \in S
  BY <1>1, <1>2
<1>4. n \in S
  BY <1>1, <1>2, <1>3
<1> QED BY <1>1, <1>4

(* A family of sets that has every subset of T once it has what remains of *)
(* the subset without any one element, has all of them.                    *)
LEMMA SubsetInduction ==
  ASSUME NEW T, IsFiniteSet(T), NEW F,
         \A A \in SUBSET T : (\A x \in A : A \ {x} \in F) => A \in F
  PROVE  SUBSET T \subseteq F
<1> DEFINE S == {n \in Nat : \A A \in SUBSET T : Cardinality(A) = n => A \in F}
<1>1. \A A \in SUBSET T : IsFiniteSet(A) /\ Cardinality(A) \in Nat
  BY FS_Subset, FS_CardinalityType
<1>2. 0 \in S
  <2> SUFFICES ASSUME NEW A \in SUBSET T, Cardinality(A) = 0 PROVE A \in F
    OBVIOUS
  <2>1. A = {}
    BY <1>1, FS_EmptySet
  <2> QED BY <2>1
<1>3. ASSUME NEW n \in Nat, n \in S PROVE n + 1 \in S
  <2> SUFFICES ASSUME NEW A \in SUBSET T, Cardinality(A) = n + 1 PROVE A \in F
    OBVIOUS
  <2>1. ASSUME NEW x \in A PROVE A \ {x} \in F
    <3>1. A \ {x} \in SUBSET T
      OBVIOUS
    <3>2. Cardinality(A \ {x}) = Cardinality(A) - 1
      BY <1>1, FS_RemoveElement
    <3> QED BY <1>3, <3>1, <3>2
  <2> QED BY <2>1
<1> HIDE DEF S
<1>4. Nat \subseteq S
  BY <1>2, <1>3, NumberInduction
<1>5. \A A \in SUBSET T : Cardinality(A) \in S
  BY <1>1, <1>4
<1> QED BY <1>5 DEF S

(* Numbers given to the members of a finite set have a largest.             *)
LEMMA LargestExists ==
  ASSUME NEW T, IsFiniteSet(T), T # {}, NEW f, \A x \in T : f[x] \in Int
  PROVE  \E m \in T : \A n \in T : f[n] <= f[m]
<1> DEFINE F == {A \in SUBSET T : A # {} => \E m \in A : \A n \in A : f[n] <= f[m]}
<1>1. ASSUME NEW A \in SUBSET T, \A x \in A : A \ {x} \in F PROVE A \in F
  <2> SUFFICES ASSUME A # {} PROVE \E m \in A : \A n \in A : f[n] <= f[m]
    OBVIOUS
  <2>1. PICK x \in A : TRUE
    OBVIOUS
  <2>2. CASE A \ {x} = {}
    <3>1. \A n \in A : f[n] = f[x]
      BY <2>2
    <3> QED BY <2>1, <3>1
  <2>3. CASE A \ {x} # {}
    <3>1. PICK y \in A \ {x} : \A n \in A \ {x} : f[n] <= f[y]
      BY <1>1, <2>1, <2>3
    <3>2. CASE f[x] <= f[y]
      BY <3>1, <3>2
    <3>3. CASE ~(f[x] <= f[y])
      <4>1. \A n \in A : f[n] \in Int
        OBVIOUS
      <4>2. \A n \in A : f[n] <= f[x]
        BY <2>1, <3>1, <3>3, <4>1
      <4> QED BY <2>1, <4>2
    <3> QED BY <3>2, <3>3
  <2> QED BY <2>2, <2>3
<1> HIDE DEF F
<1>2. SUBSET T \subseteq F
  BY <1>1, SubsetInduction
<1>3. T \in F
  BY <1>2
<1> QED BY <1>3 DEF F

-----------------------------------------------------------------------------
(* Sums of the numbers f[x], over the members x of a finite set.            *)

Chosen(S) == CHOOSE x \in S : TRUE

(* g gives the sum over each member of the family D.                        *)
IsSum(g, f, D) ==
    g = [s \in D |-> IF s = {} THEN 0 ELSE f[Chosen(s)] + g[s \ {Chosen(s)}]]

LEMMA SumDefinition ==
  ASSUME NEW f, NEW S
  PROVE  SumFunctionOnSet(f, S) = (CHOOSE g : IsSum(g, f, SUBSET S))[S]
  BY DEF SumFunctionOnSet, FoldFunctionOnSet, MapThenFoldSet, IsSum, Chosen

LEMMA SumExists ==
  ASSUME NEW f, NEW S, IsFiniteSet(S)
  PROVE  \E g : IsSum(g, f, SUBSET S)
<1> DEFINE D(k) == {s \in SUBSET S : Cardinality(s) <= k}
           N == {k \in Nat : \E g : IsSum(g, f, D(k))}
<1>1. \A s \in SUBSET S : IsFiniteSet(s) /\ Cardinality(s) \in Nat
  BY FS_Subset, FS_CardinalityType
<1>2. 0 \in N
  <2>1. \A s \in D(0) : s = {}
    BY <1>1, FS_EmptySet
  <2>2. IsSum([s \in D(0) |-> 0], f, D(0))
    BY <2>1 DEF IsSum
  <2> QED BY <2>2
<1>3. ASSUME NEW k \in Nat, k \in N PROVE k + 1 \in N
  <2>1. PICK g : IsSum(g, f, D(k))
    BY <1>3
  <2> DEFINE h == [s \in D(k + 1) |-> IF s = {} THEN 0 ELSE f[Chosen(s)] + g[s \ {Chosen(s)}]]
  <2>2. ASSUME NEW s \in D(k + 1), s # {}
        PROVE  h[s \ {Chosen(s)}] = g[s \ {Chosen(s)}]
    <3>1. Chosen(s) \in s
      BY <2>2 DEF Chosen
    <3>2. Cardinality(s \ {Chosen(s)}) = Cardinality(s) - 1
      BY <1>1, <3>1, FS_RemoveElement
    <3>3. s \ {Chosen(s)} \in D(k) /\ s \ {Chosen(s)} \in D(k + 1)
      BY <1>1, <3>2
    <3> QED BY <2>1, <3>3 DEF IsSum
  <2>3. h = [s \in D(k + 1) |-> IF s = {} THEN 0 ELSE f[Chosen(s)] + h[s \ {Chosen(s)}]]
    BY <2>2
  <2>4. IsSum(h, f, D(k + 1))
    BY <2>3 DEF IsSum
  <2> HIDE DEF h, D
  <2> QED BY <2>4
<1> HIDE DEF N
<1>4. Cardinality(S) \in N
  BY <1>1, <1>2, <1>3, NumberInduction
<1>5. D(Cardinality(S)) = SUBSET S
  <2>1. \A s \in SUBSET S : Cardinality(s) <= Cardinality(S)
    BY FS_Subset
  <2> QED BY <2>1
<1> QED BY <1>4, <1>5 DEF N

(* The sum over a set does not depend on the family it is in.               *)
LEMMA SumAgrees ==
  ASSUME NEW f, NEW S, IsFiniteSet(S), NEW D, NEW E, SUBSET S \subseteq D, SUBSET S \subseteq E,
         NEW g, NEW h, IsSum(g, f, D), IsSum(h, f, E)
  PROVE  g[S] = h[S]
<1> DEFINE F == {A \in SUBSET S : g[A] = h[A]}
<1>1. ASSUME NEW A \in SUBSET S, \A x \in A : A \ {x} \in F PROVE A \in F
  <2>1. g[A] = IF A = {} THEN 0 ELSE f[Chosen(A)] + g[A \ {Chosen(A)}]
    BY DEF IsSum
  <2>2. h[A] = IF A = {} THEN 0 ELSE f[Chosen(A)] + h[A \ {Chosen(A)}]
    BY DEF IsSum
  <2>3. A # {} => Chosen(A) \in A
    BY DEF Chosen
  <2> QED BY <1>1, <2>1, <2>2, <2>3
<1> HIDE DEF F
<1>2. SUBSET S \subseteq F
  BY <1>1, SubsetInduction
<1> QED BY <1>2 DEF F

LEMMA SumChosen ==
  ASSUME NEW f, NEW S, IsFiniteSet(S)
  PROVE  /\ S = {} => SumFunctionOnSet(f, S) = 0
         /\ S # {} => SumFunctionOnSet(f, S) =
                          f[Chosen(S)] + SumFunctionOnSet(f, S \ {Chosen(S)})
<1> DEFINE R == S \ {Chosen(S)}
           g == CHOOSE g : IsSum(g, f, SUBSET S)
           h == CHOOSE h : IsSum(h, f, SUBSET R)
<1>1. IsFiniteSet(R) /\ SUBSET R \subseteq SUBSET S
  BY FS_Subset
<1>2. IsSum(g, f, SUBSET S) /\ IsSum(h, f, SUBSET R)
  BY <1>1, SumExists
<1>3. SumFunctionOnSet(f, S) = g[S] /\ SumFunctionOnSet(f, R) = h[R]
  BY SumDefinition
<1> HIDE DEF g, h, R
<1>4. g[R] = h[R]
  BY <1>1, <1>2, SumAgrees
<1>5. g[S] = IF S = {} THEN 0 ELSE f[Chosen(S)] + g[R]
  BY <1>2 DEF IsSum, R
<1> QED BY <1>3, <1>4, <1>5 DEF R

LEMMA SumOfEmpty ==
  ASSUME NEW f PROVE SumFunctionOnSet(f, {}) = 0
  BY FS_EmptySet, SumChosen

(* A sum of integers is one, and any element may be taken out of it.        *)
LEMMA SumRemove ==
  ASSUME NEW S, IsFiniteSet(S), NEW f, \A x \in S : f[x] \in Int
  PROVE  /\ SumFunctionOnSet(f, S) \in Int
         /\ \A x \in S : SumFunctionOnSet(f, S) = f[x] + SumFunctionOnSet(f, S \ {x})
<1> DEFINE Sum(A) == SumFunctionOnSet(f, A)
           Good(A) ==
               /\ Sum(A) \in Int
               /\ \A x \in A : Sum(A \ {x}) \in Int /\ Sum(A) = f[x] + Sum(A \ {x})
           F == {A \in SUBSET S : Good(A)}
<1>1. ASSUME NEW A \in SUBSET S, \A x \in A : A \ {x} \in F PROVE A \in F
  <2>0. IsFiniteSet(A)
    BY FS_Subset
  <2>1. /\ A = {} => Sum(A) = 0
        /\ A # {} => Sum(A) = f[Chosen(A)] + Sum(A \ {Chosen(A)})
    BY <2>0, SumChosen
  <2>2. A # {} => Chosen(A) \in A
    BY DEF Chosen
  <2>3. \A x \in A : Good(A \ {x})
    BY <1>1
  <2> HIDE DEF Sum
  <2>4. Sum(A) \in Int
    BY <2>1, <2>2, <2>3
  <2>5. ASSUME NEW x \in A, x # Chosen(A) PROVE Sum(A) = f[x] + Sum(A \ {x})
    <3> DEFINE y == Chosen(A)
               both == A \ {x, y}
    <3>1. (A \ {x}) \ {y} = both /\ (A \ {y}) \ {x} = both /\ x \in A \ {y} /\ y \in A \ {x}
      BY <2>2, <2>5
    <3>2. Sum(A \ {x}) = f[y] + Sum(both) /\ Sum(A \ {y}) = f[x] + Sum(both)
      BY <2>2, <2>3, <3>1
    <3>3. y \in A /\ Sum(A) = f[y] + Sum(A \ {y})
      BY <2>1, <2>2
    <3>4. Sum(both) \in Int
      BY <2>3, <3>1
    <3> HIDE DEF y, both
    <3>5. f[x] \in Int /\ f[y] \in Int
      BY <3>3
    <3> QED BY <3>2, <3>3, <3>4, <3>5
  <2>6. \A x \in A : Sum(A \ {x}) \in Int
    BY <2>3
  <2>7. \A x \in A : Sum(A) = f[x] + Sum(A \ {x})
    BY <2>1, <2>2, <2>5
  <2> QED BY <2>4, <2>6, <2>7
<1> HIDE DEF F
<1>2. SUBSET S \subseteq F
  BY <1>1, SubsetInduction
<1>3. S \in F
  BY <1>2
<1> QED BY <1>3 DEF F

LEMMA SumOfEqual ==
  ASSUME NEW S, IsFiniteSet(S), NEW f, NEW g, \A x \in S : f[x] \in Int /\ g[x] = f[x]
  PROVE  SumFunctionOnSet(g, S) = SumFunctionOnSet(f, S)
<1> DEFINE F == {A \in SUBSET S : SumFunctionOnSet(g, A) = SumFunctionOnSet(f, A)}
<1>1. ASSUME NEW A \in SUBSET S, \A x \in A : A \ {x} \in F PROVE A \in F
  <2>1. IsFiniteSet(A)
    BY FS_Subset
  <2>2. A # {} => Chosen(A) \in A
    BY DEF Chosen
  <2>3. CASE A = {}
    BY <2>3, SumOfEmpty
  <2>4. CASE A # {}
    <3>1. g[Chosen(A)] = f[Chosen(A)]
      BY <2>2, <2>4
    <3>2. SumFunctionOnSet(g, A \ {Chosen(A)}) = SumFunctionOnSet(f, A \ {Chosen(A)})
      BY <1>1, <2>2, <2>4
    <3> QED BY <2>1, <2>4, <3>1, <3>2, SumChosen
  <2> QED BY <2>3, <2>4
<1> HIDE DEF F
<1>2. SUBSET S \subseteq F
  BY <1>1, SubsetInduction
<1>3. S \in F
  BY <1>2
<1> QED BY <1>3 DEF F

(* Changing one number changes the sum by as much.                          *)
LEMMA SumOfChanged ==
  ASSUME NEW S, IsFiniteSet(S), NEW f, NEW g, NEW x \in S,
         \A y \in S : f[y] \in Int /\ g[y] \in Int, \A y \in S \ {x} : g[y] = f[y]
  PROVE  SumFunctionOnSet(g, S) = SumFunctionOnSet(f, S) - f[x] + g[x]
<1>1. IsFiniteSet(S \ {x})
  BY FS_RemoveElement
<1>2. /\ SumFunctionOnSet(f, S) = f[x] + SumFunctionOnSet(f, S \ {x})
      /\ SumFunctionOnSet(g, S) = g[x] + SumFunctionOnSet(g, S \ {x})
  BY SumRemove
<1>3. SumFunctionOnSet(f, S \ {x}) \in Int
  BY <1>1, SumRemove
<1>4. SumFunctionOnSet(g, S \ {x}) = SumFunctionOnSet(f, S \ {x})
  BY <1>1, SumOfEqual
<1> QED BY <1>2, <1>3, <1>4

LEMMA SumOfZeros ==
  ASSUME NEW S, IsFiniteSet(S), NEW f, \A x \in S : f[x] = 0
  PROVE  SumFunctionOnSet(f, S) = 0
<1> DEFINE F == {A \in SUBSET S : SumFunctionOnSet(f, A) = 0}
<1>1. ASSUME NEW A \in SUBSET S, \A x \in A : A \ {x} \in F PROVE A \in F
  <2>1. IsFiniteSet(A)
    BY FS_Subset
  <2>2. A # {} => Chosen(A) \in A
    BY DEF Chosen
  <2>3. CASE A = {}
    BY <2>3, SumOfEmpty
  <2>4. CASE A # {}
    <3>1. f[Chosen(A)] = 0 /\ SumFunctionOnSet(f, A \ {Chosen(A)}) = 0
      BY <1>1, <2>2, <2>4
    <3> QED BY <2>1, <2>4, <3>1, SumChosen
  <2> QED BY <2>3, <2>4
<1> HIDE DEF F
<1>2. SUBSET S \subseteq F
  BY <1>1, SubsetInduction
<1>3. S \in F
  BY <1>2
<1> QED BY <1>3 DEF F

(* A function's sum grows by the number of the element added to its domain. *)
LEMMA SumOfExtended ==
  ASSUME NEW f, NEW g, IsFiniteSet(DOMAIN f), NEW x, x \notin DOMAIN f,
         DOMAIN g = (DOMAIN f) \cup {x},
         \A y \in DOMAIN f : g[y] = f[y], \A y \in DOMAIN g : g[y] \in Int
  PROVE  SumFunction(g) = SumFunction(f) + g[x]
<1>1. IsFiniteSet(DOMAIN g)
  BY FS_AddElement
<1>2. (DOMAIN g) \ {x} = DOMAIN f /\ x \in DOMAIN g
  OBVIOUS
<1>3. SumFunctionOnSet(g, DOMAIN g) = g[x] + SumFunctionOnSet(g, DOMAIN f)
  BY <1>1, <1>2, SumRemove
<1>4. \A y \in DOMAIN f : f[y] \in Int
  BY <1>2
<1>5. SumFunctionOnSet(g, DOMAIN f) = SumFunctionOnSet(f, DOMAIN f)
  BY <1>4, SumOfEqual
<1>6. SumFunctionOnSet(f, DOMAIN f) \in Int
  BY <1>4, SumRemove
<1> QED BY <1>2, <1>3, <1>5, <1>6 DEF SumFunction
-----------------------------------------------------------------------------
(* Doubling.                                                                *)

IsDoubling(h, S) == h = [n \in S |-> IF n = 0 THEN 1 ELSE 2 * h[n - 1]]

LEMMA DoublingUpTo ==
  ASSUME NEW m \in Nat PROVE \E h : IsDoubling(h, 0..m)
<1> DEFINE N == {k \in Nat : \E h : IsDoubling(h, 0..k)}
<1>1. 0 \in N
  <2>1. IsDoubling([n \in 0..0 |-> 1], 0..0)
    BY DEF IsDoubling
  <2> QED BY <2>1
<1>2. ASSUME NEW k \in Nat, k \in N PROVE k + 1 \in N
  <2>1. PICK g : IsDoubling(g, 0..k)
    BY <1>2
  <2> DEFINE h == [n \in 0..(k + 1) |-> IF n = 0 THEN 1 ELSE 2 * g[n - 1]]
  <2>2. ASSUME NEW n \in 0..(k + 1), n # 0 PROVE h[n - 1] = g[n - 1]
    <3>1. n - 1 \in 0..k /\ n - 1 \in 0..(k + 1)
      BY <2>2
    <3> QED BY <2>1, <3>1 DEF IsDoubling
  <2>3. IsDoubling(h, 0..(k + 1))
    BY <2>2 DEF IsDoubling
  <2> HIDE DEF h
  <2> QED BY <2>3
<1> HIDE DEF N
<1>3. m \in N
  BY <1>1, <1>2, NumberInduction
<1> QED BY <1>3 DEF N

LEMMA DoublingAgrees ==
  ASSUME NEW j \in Nat, NEW k \in Nat, NEW g, NEW h,
         IsDoubling(g, 0..j), IsDoubling(h, 0..k), NEW m \in Nat, m <= j, m <= k
  PROVE  g[m] = h[m]
<1> DEFINE N == {n \in Nat : n <= j /\ n <= k => g[n] = h[n]}
<1>1. 0 \in N
  BY DEF IsDoubling
<1>2. ASSUME NEW n \in Nat, n \in N PROVE n + 1 \in N
  <2> SUFFICES ASSUME n + 1 <= j, n + 1 <= k PROVE g[n + 1] = h[n + 1]
    OBVIOUS
  <2>1. n + 1 \in 0..j /\ n + 1 \in 0..k /\ n + 1 # 0 /\ (n + 1) - 1 = n
    OBVIOUS
  <2>2. g[n + 1] = 2 * g[n] /\ h[n + 1] = 2 * h[n]
    BY <2>1 DEF IsDoubling
  <2>3. g[n] = h[n]
    BY <1>2
  <2> QED BY <2>2, <2>3
<1> HIDE DEF N
<1>3. m \in N
  BY <1>1, <1>2, NumberInduction
<1> QED BY <1>3 DEF N

LEMMA DoublingExists == \E f : IsDoubling(f, Nat)
<1> DEFINE H(n) == CHOOSE h : IsDoubling(h, 0..n)
           f == [n \in Nat |-> H(n)[n]]
<1>1. \A n \in Nat : IsDoubling(H(n), 0..n)
  BY DoublingUpTo
<1> HIDE DEF H
<1>2. ASSUME NEW n \in Nat PROVE f[n] = IF n = 0 THEN 1 ELSE 2 * f[n - 1]
  <2>1. H(n)[n] = IF n = 0 THEN 1 ELSE 2 * H(n)[n - 1]
    <3>1. n \in 0..n
      OBVIOUS
    <3> QED BY <1>1, <3>1 DEF IsDoubling
  <2>2. CASE n = 0
    BY <2>1, <2>2
  <2>3. CASE n # 0
    <3>1. n - 1 \in Nat /\ n - 1 <= n /\ n - 1 <= n - 1
      BY <2>3
    <3>2. H(n)[n - 1] = H(n - 1)[n - 1]
      BY <1>1, <3>1, DoublingAgrees
    <3> QED BY <2>1, <2>3, <3>1, <3>2
  <2> QED BY <2>2, <2>3
<1>3. IsDoubling(f, Nat)
  BY <1>2 DEF IsDoubling
<1> HIDE DEF f
<1> QED BY <1>3

(* A doubling is of positive numbers.                                       *)
LEMMA DoublingIsPositive ==
  ASSUME NEW f, IsDoubling(f, Nat), NEW m \in Nat
  PROVE  f[m] \in Nat /\ 1 <= f[m]
<1> DEFINE N == {n \in Nat : f[n] \in Nat /\ 1 <= f[n]}
<1>1. 0 \in N
  BY DEF IsDoubling
<1>2. ASSUME NEW n \in Nat, n \in N PROVE n + 1 \in N
  <2>1. n + 1 \in Nat /\ n + 1 # 0 /\ (n + 1) - 1 = n
    OBVIOUS
  <2>2. f[n + 1] = 2 * f[n]
    BY <2>1 DEF IsDoubling
  <2> QED BY <1>2, <2>1, <2>2
<1> HIDE DEF N
<1>3. m \in N
  BY <1>1, <1>2, NumberInduction
<1> QED BY <1>3 DEF N
=============================================================================
