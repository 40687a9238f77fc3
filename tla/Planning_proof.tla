---------------------------- MODULE Planning_proof ---------------------------
(***************************************************************************)
(* What the gate and the planning of orders return, for any weights,       *)
(* holdings and prices of symbols that are ordered like numbers; first     *)
(* what both rest on: sums over finite sets, and smallest numbers.         *)
(***************************************************************************)
EXTENDS RiskGate, OrderPlan, FiniteSetTheorems, WellFoundedInduction, TLAPS

-----------------------------------------------------------------------------
(* Smallest members.                                                       *)

LEMMA SmallestNumber ==
  ASSUME NEW T, T \subseteq Nat, T # {}
  PROVE  \E x \in T : \A y \in T : x <= y
<1>1. PICK x \in T : \A y \in T : ~ (<<y, x>> \in OpToRel(<, Nat))
  BY NatLessThanWellFounded, WFMin
<1>2. \A y \in T : ~ (y < x)
  BY <1>1 DEF OpToRel
<1>3. QED
  BY <1>2

\* Of some subsets of a finite set, one has none of the others within it.
LEMMA SmallestSubset ==
  ASSUME NEW S, IsFiniteSet(S), NEW B \in SUBSET (SUBSET S), B # {}
  PROVE  \E T \in B : \A U \in B : U \subseteq T => U = T
<1> DEFINE sizes == {Cardinality(T) : T \in B}
<1>1. \A T \in B : IsFiniteSet(T) /\ Cardinality(T) \in Nat
  BY FS_Subset, FS_CardinalityType
<1>2. PICK n \in sizes : \A m \in sizes : n <= m
  <2>1. sizes \subseteq Nat /\ sizes # {}
    BY <1>1
  <2> HIDE DEF sizes
  <2>2. QED
    BY <2>1, SmallestNumber
<1>3. PICK T \in B : n = Cardinality(T)
  OBVIOUS
<1>4. ASSUME NEW U \in B, U \subseteq T
      PROVE  U = T
  <2>1. Cardinality(U) <= Cardinality(T) /\ (Cardinality(T) = Cardinality(U) => T = U)
    BY <1>1, <1>4, FS_Subset
  <2>2. Cardinality(T) <= Cardinality(U)
    BY <1>2, <1>3
  <2>3. QED
    BY <1>1, <2>1, <2>2
<1>5. QED
  BY <1>4

LEMMA FiniteHasLargest ==
  ASSUME NEW S, IsFiniteSet(S), \A s \in S : s \in Int
  PROVE  S # {} => \E m \in S : \A x \in S : m >= x
<1> DEFINE Fails(U) == ~(U # {} => \E m \in U : \A x \in U : m >= x)
           bad == {U \in SUBSET S : Fails(U)}
<1>1. ASSUME bad # {} PROVE FALSE
  <2>1. PICK U \in bad : \A V \in bad : V \subseteq U => V = U
    <3>1. bad \in SUBSET (SUBSET S)
      OBVIOUS
    <3> HIDE DEF bad
    <3>2. QED
      BY <1>1, <3>1, SmallestSubset
  <2>2. /\ U \in SUBSET S
        /\ U # {}
        /\ ~ \E m \in U : \A x \in U : m >= x
    OBVIOUS
  <2>3. PICK u \in U : TRUE
    BY <2>2
  <2>4. u \in Int
    BY <2>2
  <2> DEFINE rest == U \ {u}
  <2>5. rest = {} \/ \E m \in rest : \A x \in rest : m >= x
    <3>1. rest \in SUBSET S /\ rest \subseteq U /\ rest # U
      BY <2>2
    <3>2. rest \notin bad
      BY <2>1, <3>1
    <3> HIDE DEF rest
    <3>3. QED
      BY <3>1, <3>2
  <2>6. CASE rest = {}
    BY <2>2, <2>4, <2>6
  <2>7. CASE \E m \in rest : \A x \in rest : m >= x
    <3>1. PICK m \in rest : \A x \in rest : m >= x
      BY <2>7
    <3>2. m \in Int /\ \A x \in rest : x \in Int
      BY <2>2
    <3>3. CASE m >= u
      BY <2>2, <3>1, <3>3
    <3>4. CASE ~(m >= u)
      <4>1. \A x \in rest : u >= x
        BY <2>4, <3>1, <3>2, <3>4
      <4>2. \A x \in U : u >= x
        BY <2>4, <4>1
      <4>3. QED
        BY <2>2, <4>2
    <3>5. QED
      BY <3>3, <3>4
  <2>8. QED
    BY <2>5, <2>6, <2>7
<1>2. QED
  BY <1>1

LEMMA LargestIsMember ==
  ASSUME NEW S, IsFiniteSet(S), \A s \in S : s \in Int, S # {}
  PROVE  Max(S) \in S /\ \A x \in S : Max(S) >= x
<1>1. \E m \in S : \A x \in S : m >= x
  BY FiniteHasLargest
<1>2. QED
  BY <1>1, Zenon DEF Max

-----------------------------------------------------------------------------
(* Sums.                                                                   *)

SumOf(w, S) == MapThenSumSet(LAMBDA s : w[s], S)

\* The element a fold takes out of a set first.
First(S) == CHOOSE s \in S : TRUE

\* f sums w over the sets in `sets'.
Sums(f, w, sets) ==
  f = [s \in sets |-> IF s = {} THEN 0 ELSE w[First(s)] + f[s \ {First(s)}]]

LEMMA SumsExist ==
  ASSUME NEW S, IsFiniteSet(S), NEW w
  PROVE  \E f : Sums(f, w, SUBSET S)
<1> DEFINE Upto(n) == {T \in SUBSET S : Cardinality(T) <= n}
           bad == {n \in Nat : \A f : ~Sums(f, w, Upto(n))}
<1>1. \A T \in SUBSET S : IsFiniteSet(T) /\ Cardinality(T) \in Nat
  BY FS_Subset, FS_CardinalityType
<1>2. bad = {}
  <2>1. SUFFICES ASSUME bad # {} PROVE FALSE
    OBVIOUS
  <2>2. PICK n \in bad : \A m \in bad : n <= m
    <3>1. bad \subseteq Nat
      OBVIOUS
    <3> HIDE DEF bad
    <3>2. QED
      BY <2>1, <3>1, SmallestNumber
  <2>3. n \in Nat /\ \A f : ~Sums(f, w, Upto(n))
    OBVIOUS
  <2>4. CASE n = 0
    <3>1. \A T \in Upto(0) : T = {}
      BY <1>1, FS_EmptySet
    <3>2. Sums([s \in Upto(0) |-> 0], w, Upto(0))
      BY <3>1 DEF Sums
    <3>3. QED
      BY <2>3, <2>4, <3>2
  <2>5. CASE n # 0
    <3> DEFINE m == n - 1
    <3>1. m \in Nat /\ m < n
      BY <2>3, <2>5
    <3>2. m \notin bad
      BY <2>2, <3>1
    <3>3. PICK f : Sums(f, w, Upto(m))
      BY <3>1, <3>2
    <3> DEFINE g == [s \in Upto(n) |-> IF s = {} THEN 0 ELSE w[First(s)] + f[s \ {First(s)}]]
    <3>4. ASSUME NEW s \in Upto(n), s # {}
          PROVE  s \ {First(s)} \in Upto(m)
      <4>1. First(s) \in s
        BY <3>4 DEF First
      <4>2. Cardinality(s \ {First(s)}) = Cardinality(s) - 1
        BY <1>1, <4>1, FS_RemoveElement
      <4>3. QED
        BY <1>1, <2>3, <4>2
    <3>5. \A s \in Upto(m) : s \in Upto(n)
      BY <1>1, <2>3
    <3>6. \A s \in Upto(m) : g[s] = f[s]
      BY <3>3, <3>5 DEF Sums
    <3>7. Sums(g, w, Upto(n))
      <4>1. \A s \in Upto(n) : s # {} => g[s \ {First(s)}] = f[s \ {First(s)}]
        BY <3>4, <3>6
      <4>2. g = [s \in Upto(n) |-> IF s = {} THEN 0 ELSE w[First(s)] + g[s \ {First(s)}]]
        BY <4>1
      <4> HIDE DEF g, Upto
      <4>3. QED
        BY <4>2 DEF Sums
    <3>8. QED
      BY <2>3, <3>7
  <2>6. QED
    BY <2>4, <2>5
<1>3. Upto(Cardinality(S)) = SUBSET S
  BY FS_Subset
<1>4. Cardinality(S) \in Nat
  BY FS_CardinalityType
<1>5. QED
  BY <1>2, <1>3, <1>4

\* The sum of a set is the first element and the sum of the others.
LEMMA SumsSum ==
  ASSUME NEW S, IsFiniteSet(S), NEW w
  PROVE  \E f : /\ Sums(f, w, SUBSET S)
                /\ SumOf(w, S) = f[S]
<1> DEFINE f == CHOOSE iter : Sums(iter, w, SUBSET S)
<1>1. SumOf(w, S) = f[S]
  BY DEF SumOf, MapThenSumSet, MapThenFoldSet, Sums, First
<1>2. Sums(f, w, SUBSET S)
  BY SumsExist, Zenon
<1>3. QED
  BY <1>1, <1>2

\* Two sums over the sets of a family say the same of the sets in both.
LEMMA SumsAgree ==
  ASSUME NEW S, IsFiniteSet(S), NEW T \in SUBSET S, NEW w, NEW f, NEW g,
         Sums(f, w, SUBSET S), Sums(g, w, SUBSET T)
  PROVE  f[T] = g[T]
<1> DEFINE bad == {U \in SUBSET T : f[U] # g[U]}
<1>1. SUFFICES ASSUME bad # {} PROVE FALSE
  OBVIOUS
<1>2. IsFiniteSet(T)
  BY FS_Subset
<1>3. PICK U \in bad : \A V \in bad : V \subseteq U => V = U
  <2>1. bad \in SUBSET (SUBSET T)
    OBVIOUS
  <2> HIDE DEF bad
  <2>2. QED
    BY <1>1, <1>2, <2>1, SmallestSubset
<1>4. U \in SUBSET T /\ U \in SUBSET S /\ f[U] # g[U]
  OBVIOUS
<1>5. /\ f[U] = IF U = {} THEN 0 ELSE w[First(U)] + f[U \ {First(U)}]
      /\ g[U] = IF U = {} THEN 0 ELSE w[First(U)] + g[U \ {First(U)}]
  BY <1>4, Zenon DEF Sums
<1>6. U # {}
  BY <1>4, <1>5
<1>7. First(U) \in U
  BY <1>6 DEF First
<1>8. f[U \ {First(U)}] = g[U \ {First(U)}]
  BY <1>3, <1>4, <1>7
<1>9. QED
  BY <1>4, <1>5, <1>8

LEMMA SumOfNone == ASSUME NEW w PROVE SumOf(w, {}) = 0
<1>1. PICK f : Sums(f, w, SUBSET {}) /\ SumOf(w, {}) = f[{}]
  BY SumsSum, FS_EmptySet
<1>2. QED
  BY <1>1 DEF Sums

LEMMA SumOfFirst ==
  ASSUME NEW S, IsFiniteSet(S), S # {}, NEW w
  PROVE  /\ First(S) \in S /\ IsFiniteSet(S \ {First(S)})
         /\ SumOf(w, S) = w[First(S)] + SumOf(w, S \ {First(S)})
<1> DEFINE T == S \ {First(S)}
<1>1. First(S) \in S
  BY DEF First
<1>2. IsFiniteSet(T) /\ T \in SUBSET S
  BY FS_Subset
<1>3. PICK f : Sums(f, w, SUBSET S) /\ SumOf(w, S) = f[S]
  BY SumsSum
<1>4. PICK g : Sums(g, w, SUBSET T) /\ SumOf(w, T) = g[T]
  BY <1>2, SumsSum
<1>5. f[S] = w[First(S)] + f[T]
  <2>1. S \in SUBSET S
    OBVIOUS
  <2>2. f[S] = IF S = {} THEN 0 ELSE w[First(S)] + f[T]
    BY <1>3, <2>1, Zenon DEF Sums
  <2>3. QED
    BY <2>2
<1>6. f[T] = g[T]
  BY <1>2, <1>3, <1>4, SumsAgree
<1>7. QED
  BY <1>1, <1>2, <1>3, <1>4, <1>5, <1>6

\* What every sum of numbers is shown to be, if not so then not for a smallest set.
LEMMA SumIsNumber ==
  ASSUME NEW S, IsFiniteSet(S), NEW w, \A s \in S : w[s] \in Int
  PROVE  SumOf(w, S) \in Int
<1> DEFINE bad == {T \in SUBSET S : SumOf(w, T) \notin Int}
<1>1. SUFFICES ASSUME bad # {} PROVE FALSE
  OBVIOUS
<1>2. PICK T \in bad : \A U \in bad : U \subseteq T => U = T
  <2>1. bad \in SUBSET (SUBSET S)
    OBVIOUS
  <2> HIDE DEF bad
  <2>2. QED
    BY <1>1, <2>1, SmallestSubset
<1>3. T \in SUBSET S /\ IsFiniteSet(T) /\ SumOf(w, T) \notin Int
  BY FS_Subset
<1>4. T # {}
  BY <1>3, SumOfNone
<1> DEFINE x == First(T)
<1>5. x \in T /\ SumOf(w, T) = w[x] + SumOf(w, T \ {x})
  BY <1>3, <1>4, SumOfFirst
<1>6. SumOf(w, T \ {x}) \in Int
  BY <1>2, <1>3, <1>5
<1>7. QED
  BY <1>3, <1>5, <1>6

\* Where the terms compare, each times a number of its own, the sums do.
LEMMA SumsCompare ==
  ASSUME NEW S, IsFiniteSet(S), NEW v, NEW w, NEW a \in Int, NEW b \in Int,
         \A s \in S : v[s] \in Int /\ w[s] \in Int /\ a * v[s] <= b * w[s]
  PROVE  a * SumOf(v, S) <= b * SumOf(w, S)
<1> DEFINE Fails(T) == ~ (a * SumOf(v, T) <= b * SumOf(w, T))
           bad == {T \in SUBSET S : Fails(T)}
<1>1. SUFFICES ASSUME bad # {} PROVE FALSE
  OBVIOUS
<1>2. PICK T \in bad : \A U \in bad : U \subseteq T => U = T
  <2>1. bad \in SUBSET (SUBSET S)
    OBVIOUS
  <2> HIDE DEF bad
  <2>2. QED
    BY <1>1, <2>1, SmallestSubset
<1>3. T \in SUBSET S /\ IsFiniteSet(T) /\ Fails(T)
  BY FS_Subset
<1>4. T # {}
  <2>1. a * 0 = 0 /\ b * 0 = 0
    OBVIOUS
  <2>2. QED
    BY <1>3, <2>1, SumOfNone
<1> DEFINE x == First(T)
           rest == T \ {x}
<1>5. /\ x \in T /\ x \in S /\ IsFiniteSet(rest) /\ rest \in SUBSET S
      /\ SumOf(v, T) = v[x] + SumOf(v, rest) /\ SumOf(w, T) = w[x] + SumOf(w, rest)
  BY <1>3, <1>4, SumOfFirst
<1> HIDE DEF x
<1>6. ~Fails(rest)
  BY <1>2, <1>3, <1>5
<1>7. /\ SumOf(v, rest) \in Int /\ SumOf(w, rest) \in Int
      /\ v[x] \in Int /\ w[x] \in Int /\ a * v[x] <= b * w[x]
  BY <1>5, SumIsNumber
<1> HIDE DEF rest
<1>8. /\ a * SumOf(v, T) = a * v[x] + a * SumOf(v, rest)
      /\ b * SumOf(w, T) = b * w[x] + b * SumOf(w, rest)
  BY <1>5, <1>7
<1>9. QED
  BY <1>3, <1>6, <1>7, <1>8

LEMMA SumsGrow ==
  ASSUME NEW S, IsFiniteSet(S), NEW v, NEW w,
         \A s \in S : v[s] \in Int /\ w[s] \in Int /\ v[s] <= w[s]
  PROVE  SumOf(v, S) <= SumOf(w, S)
<1>1. \A s \in S : 1 * v[s] <= 1 * w[s]
  OBVIOUS
<1>2. 1 * SumOf(v, S) <= 1 * SumOf(w, S)
  BY <1>1, SumsCompare
<1>3. SumOf(v, S) \in Int /\ SumOf(w, S) \in Int
  BY SumIsNumber
<1>4. QED
  BY <1>2, <1>3

LEMMA SumIsNat ==
  ASSUME NEW S, IsFiniteSet(S), NEW w, \A s \in S : w[s] \in Nat
  PROVE  SumOf(w, S) \in Nat
<1>1. \A s \in S : w[s] \in Int /\ 0 * w[s] <= 1 * w[s]
  OBVIOUS
<1>2. 0 * SumOf(w, S) <= 1 * SumOf(w, S)
  BY <1>1, SumsCompare
<1>3. SumOf(w, S) \in Int
  BY SumIsNumber
<1>4. QED
  BY <1>2, <1>3

\* Only the terms count.
LEMMA SameSums ==
  ASSUME NEW S, IsFiniteSet(S), NEW v, NEW w, \A s \in S : v[s] = w[s]
  PROVE  SumOf(v, S) = SumOf(w, S)
<1> DEFINE bad == {T \in SUBSET S : SumOf(v, T) # SumOf(w, T)}
<1>1. SUFFICES ASSUME bad # {} PROVE FALSE
  OBVIOUS
<1>2. PICK T \in bad : \A U \in bad : U \subseteq T => U = T
  <2>1. bad \in SUBSET (SUBSET S)
    OBVIOUS
  <2> HIDE DEF bad
  <2>2. QED
    BY <1>1, <2>1, SmallestSubset
<1>3. T \in SUBSET S /\ IsFiniteSet(T) /\ SumOf(v, T) # SumOf(w, T)
  BY FS_Subset
<1>4. T # {}
  BY <1>3, SumOfNone
<1> DEFINE x == First(T)
           rest == T \ {x}
<1>5. /\ x \in T /\ rest \in SUBSET S
      /\ SumOf(v, T) = v[x] + SumOf(v, rest) /\ SumOf(w, T) = w[x] + SumOf(w, rest)
  BY <1>3, <1>4, SumOfFirst
<1> HIDE DEF x
<1>6. SumOf(v, rest) = SumOf(w, rest)
  BY <1>2, <1>3, <1>5
<1>7. QED
  BY <1>3, <1>5, <1>6

\* The sum of what is composed of two terms is composed of their sums.
LEMMA SumsCombine ==
  ASSUME NEW S, IsFiniteSet(S), NEW u, NEW v, NEW w, NEW a \in Int, NEW b \in Int,
         \A s \in S : v[s] \in Int /\ w[s] \in Int /\ u[s] = a * v[s] + b * w[s]
  PROVE  SumOf(u, S) = a * SumOf(v, S) + b * SumOf(w, S)
<1> DEFINE Fails(T) == SumOf(u, T) # a * SumOf(v, T) + b * SumOf(w, T)
           bad == {T \in SUBSET S : Fails(T)}
<1>1. SUFFICES ASSUME bad # {} PROVE FALSE
  OBVIOUS
<1>2. PICK T \in bad : \A U \in bad : U \subseteq T => U = T
  <2>1. bad \in SUBSET (SUBSET S)
    OBVIOUS
  <2> HIDE DEF bad
  <2>2. QED
    BY <1>1, <2>1, SmallestSubset
<1>3. T \in SUBSET S /\ IsFiniteSet(T) /\ Fails(T)
  BY FS_Subset
<1>4. T # {}
  <2>1. SumOf(u, {}) = 0 /\ SumOf(v, {}) = 0 /\ SumOf(w, {}) = 0
    BY SumOfNone
  <2>2. a * 0 + b * 0 = 0
    OBVIOUS
  <2>3. ~Fails({})
    BY <2>1, <2>2
  <2> HIDE DEF Fails
  <2>4. QED
    BY <1>3, <2>3
<1> DEFINE x == First(T)
           rest == T \ {x}
<1>5. /\ x \in T /\ IsFiniteSet(rest)
      /\ SumOf(u, T) = u[x] + SumOf(u, rest)
      /\ SumOf(v, T) = v[x] + SumOf(v, rest)
      /\ SumOf(w, T) = w[x] + SumOf(w, rest)
  BY <1>3, <1>4, SumOfFirst
<1>6. SumOf(u, rest) = a * SumOf(v, rest) + b * SumOf(w, rest)
  BY <1>2, <1>3, <1>5
<1>7. SumOf(v, rest) \in Int /\ SumOf(w, rest) \in Int
  BY <1>3, <1>5, SumIsNumber
<1>8. v[x] \in Int /\ w[x] \in Int /\ u[x] = a * v[x] + b * w[x]
  BY <1>3, <1>5
<1> DEFINE V == SumOf(v, rest)
           W == SumOf(w, rest)
<1>9. a * (v[x] + V) = a * v[x] + a * V /\ b * (w[x] + W) = b * w[x] + b * W
  BY <1>7, <1>8
<1>10. a * v[x] \in Int /\ a * V \in Int /\ b * w[x] \in Int /\ b * W \in Int
  BY <1>7, <1>8
<1> HIDE DEF V, W
<1>11. SumOf(u, T) = a * SumOf(v, T) + b * SumOf(w, T)
  BY <1>5, <1>6, <1>8, <1>9, <1>10 DEF V, W
<1>12. QED
  BY <1>3, <1>11

\* Whatever element is taken out, the sum is it and the sum of the others.
LEMMA SumOfOthers ==
  ASSUME NEW S, IsFiniteSet(S), NEW w, \A s \in S : w[s] \in Int, NEW x \in S
  PROVE  /\ SumOf(w, S) = w[x] + SumOf(w, S \ {x})
         /\ SumOf(w, S \ {x}) \in Int
<1> DEFINE Fails(T) == \E t \in T : SumOf(w, T) # w[t] + SumOf(w, T \ {t})
           bad == {T \in SUBSET S : Fails(T)}
<1>1. ASSUME bad # {} PROVE FALSE
  <2>1. PICK T \in bad : \A U \in bad : U \subseteq T => U = T
    <3>1. bad \in SUBSET (SUBSET S)
      OBVIOUS
    <3> HIDE DEF bad
    <3>2. QED
      BY <1>1, <3>1, SmallestSubset
  <2>2. T \in SUBSET S /\ IsFiniteSet(T)
    BY FS_Subset
  <2>3. PICK t \in T : SumOf(w, T) # w[t] + SumOf(w, T \ {t})
    OBVIOUS
  <2> DEFINE y == First(T)
             rest == T \ {y}
             others == T \ {t}
  <2>4. y \in T /\ SumOf(w, T) = w[y] + SumOf(w, rest)
    BY <2>2, SumOfFirst
  <2> HIDE DEF y
  <2>5. y # t
    BY <2>3, <2>4
  <2>6. rest \notin bad /\ others \notin bad /\ rest \in SUBSET S /\ others \in SUBSET S
    BY <2>1, <2>2, <2>3, <2>4
  <2>7. /\ SumOf(w, rest) = w[t] + SumOf(w, rest \ {t})
        /\ SumOf(w, others) = w[y] + SumOf(w, others \ {y})
    BY <2>3, <2>4, <2>5, <2>6
  <2>8. SumOf(w, rest \ {t}) = SumOf(w, others \ {y})
    <3>1. rest \ {t} = others \ {y}
      OBVIOUS
    <3> HIDE DEF rest, others
    <3>2. QED
      BY <3>1
  <2>9. w[t] \in Int /\ w[y] \in Int /\ SumOf(w, rest \ {t}) \in Int
    <3>1. IsFiniteSet(rest \ {t}) /\ \A s \in rest \ {t} : w[s] \in Int
      BY <2>2, FS_Subset
    <3>2. QED
      BY <2>2, <2>4, <3>1, SumIsNumber
  <2>10. SumOf(w, T) # w[t] + SumOf(w, others)
    BY <2>3
  <2> HIDE DEF rest, others, bad
  <2>11. QED
    BY <2>4, <2>7, <2>8, <2>9, <2>10
<1>2. S \in SUBSET S /\ S \notin bad
  BY <1>1
<1>3. IsFiniteSet(S \ {x})
  BY FS_Subset
<1>4. QED
  BY <1>2, <1>3, SumIsNumber

\* The sum of a whole is that of two parts.
LEMMA SumOfParts ==
  ASSUME NEW S, IsFiniteSet(S), NEW w, \A s \in S : w[s] \in Int, NEW T \in SUBSET S
  PROVE  SumOf(w, S) = SumOf(w, T) + SumOf(w, S \ T)
<1> DEFINE Fails(U) == SumOf(w, U) # SumOf(w, U \cap T) + SumOf(w, U \ T)
           bad == {U \in SUBSET S : Fails(U)}
<1>1. ASSUME bad # {} PROVE FALSE
  <2>1. PICK U \in bad : \A V \in bad : V \subseteq U => V = U
    <3>1. bad \in SUBSET (SUBSET S)
      OBVIOUS
    <3> HIDE DEF bad
    <3>2. QED
      BY <1>1, <3>1, SmallestSubset
  <2>2. U \in SUBSET S /\ IsFiniteSet(U) /\ Fails(U)
    BY FS_Subset
  <2>3. U # {}
    <3>1. {} \cap T = {} /\ {} \ T = {} /\ SumOf(w, {}) = 0
      BY SumOfNone
    <3>2. ~Fails({})
      BY <3>1
    <3> HIDE DEF Fails
    <3>3. QED
      BY <2>2, <3>2
  <2> DEFINE x == First(U)
             rest == U \ {x}
             inside == U \cap T
             outside == U \ T
  <2>4. x \in U /\ SumOf(w, U) = w[x] + SumOf(w, rest)
    BY <2>2, <2>3, SumOfFirst
  <2> HIDE DEF x
  <2>5. SumOf(w, rest) = SumOf(w, rest \cap T) + SumOf(w, rest \ T)
    BY <2>1, <2>2, <2>4
  <2>6. IsFiniteSet(inside) /\ IsFiniteSet(outside)
    BY <2>2, FS_Subset
  <2>7. \A s \in inside \cup outside : w[s] \in Int
    BY <2>2
  <2>8. x \in T => /\ SumOf(w, inside) = w[x] + SumOf(w, rest \cap T)
                   /\ SumOf(w, rest \cap T) \in Int
                   /\ rest \ T = outside
    <3>1. inside \ {x} = rest \cap T /\ (x \in T => rest \ T = outside /\ x \in inside)
      BY <2>4
    <3> HIDE DEF inside, outside, rest
    <3>2. QED
      BY <2>6, <2>7, <3>1, SumOfOthers
  <2>9. x \notin T => /\ SumOf(w, outside) = w[x] + SumOf(w, rest \ T)
                      /\ SumOf(w, rest \ T) \in Int
                      /\ rest \cap T = inside
    <3>1. outside \ {x} = rest \ T /\ (x \notin T => rest \cap T = inside /\ x \in outside)
      BY <2>4
    <3> HIDE DEF inside, outside, rest
    <3>2. QED
      BY <2>6, <2>7, <3>1, SumOfOthers
  <2>10. SumOf(w, inside) \in Int /\ SumOf(w, outside) \in Int /\ w[x] \in Int
    <3> HIDE DEF inside, outside
    <3>1. QED
      BY <2>2, <2>4, <2>6, <2>7, SumIsNumber
  <2>11. SumOf(w, U) # SumOf(w, inside) + SumOf(w, outside)
    BY <2>2
  <2> DEFINE in == SumOf(w, inside)
             out == SumOf(w, outside)
             all == SumOf(w, U)
             below == SumOf(w, rest)
  <2>12. CASE x \in T
    <3>1. in = w[x] + SumOf(w, rest \cap T) /\ SumOf(w, rest \cap T) \in Int
          /\ below = SumOf(w, rest \cap T) + out /\ all = w[x] + below
      BY <2>4, <2>5, <2>8, <2>12
    <3> HIDE DEF inside, outside, rest, bad, in, out, all, below
    <3>2. QED
      BY <2>10, <2>11, <3>1 DEF in, out, all
  <2>13. CASE x \notin T
    <3>1. out = w[x] + SumOf(w, rest \ T) /\ SumOf(w, rest \ T) \in Int
          /\ below = in + SumOf(w, rest \ T) /\ all = w[x] + below
      BY <2>4, <2>5, <2>9, <2>13
    <3> HIDE DEF inside, outside, rest, bad, in, out, all, below
    <3>2. QED
      BY <2>10, <2>11, <3>1 DEF in, out, all
  <2>14. QED
    BY <2>12, <2>13
<1>2. S \in SUBSET S /\ S \cap T = T
  OBVIOUS
<1>3. QED
  BY <1>1, <1>2

\* A sum of products, as prices times shares.
Products(v, w, S) == MapThenSumSet(LAMBDA s : v[s] * w[s], S)

LEMMA ProductsAreSum ==
  ASSUME NEW S, IsFiniteSet(S), NEW v, NEW w
  PROVE  Products(v, w, S) = SumOf([s \in S |-> v[s] * w[s]], S)
<1> DEFINE Totals(f) ==
             f = [T \in SUBSET S |-> IF T = {} THEN 0
                                     ELSE v[First(T)] * w[First(T)] + f[T \ {First(T)}]]
           t == CHOOSE f : Totals(f)
           p == [s \in S |-> v[s] * w[s]]
<1>1. Products(v, w, S) = t[S]
  BY DEF Products, MapThenSumSet, MapThenFoldSet, First
<1>2. ASSUME NEW f PROVE Totals(f) <=> Sums(f, p, SUBSET S)
  <2>1. \A T \in SUBSET S : T # {} => p[First(T)] = v[First(T)] * w[First(T)]
    BY DEF First
  <2> HIDE DEF p
  <2>2. [T \in SUBSET S |-> IF T = {} THEN 0
                            ELSE v[First(T)] * w[First(T)] + f[T \ {First(T)}]]
          = [T \in SUBSET S |-> IF T = {} THEN 0 ELSE p[First(T)] + f[T \ {First(T)}]]
    BY <2>1
  <2>3. QED
    BY <2>2 DEF Sums
<1>3. PICK g : Sums(g, p, SUBSET S) /\ SumOf(p, S) = g[S]
  BY SumsSum
<1> HIDE DEF Totals, p
<1>4. Totals(t)
  BY <1>2, <1>3, Zenon
<1>5. t[S] = g[S]
  BY <1>2, <1>3, <1>4, SumsAgree
<1>6. QED
  BY <1>1, <1>3, <1>5 DEF p

\* With terms that are never negative, more of them are never less.
LEMMA SumOfSome ==
  ASSUME NEW S, IsFiniteSet(S), NEW w, \A s \in S : w[s] \in Nat, NEW T \in SUBSET S
  PROVE  SumOf(w, T) <= SumOf(w, S)
<1> DEFINE Fails(U) == ~ (SumOf(w, U \cap T) <= SumOf(w, U))
           bad == {U \in SUBSET S : Fails(U)}
<1>1. ASSUME bad # {} PROVE FALSE
  <2>1. PICK U \in bad : \A V \in bad : V \subseteq U => V = U
    <3>1. bad \in SUBSET (SUBSET S)
      OBVIOUS
    <3> HIDE DEF bad
    <3>2. QED
      BY <1>1, <3>1, SmallestSubset
  <2>2. U \in SUBSET S /\ IsFiniteSet(U) /\ IsFiniteSet(U \cap T) /\ Fails(U)
    BY FS_Subset
  <2>3. U # {}
    <3>1. {} \cap T = {} /\ SumOf(w, {}) <= SumOf(w, {})
      BY SumOfNone
    <3>2. QED
      BY <2>2, <3>1
  <2> DEFINE x == First(U)
             rest == U \ {x}
  <2>4. x \in U /\ SumOf(w, U) = w[x] + SumOf(w, rest)
    BY <2>2, <2>3, SumOfFirst
  <2> HIDE DEF x
  <2>5. SumOf(w, rest \cap T) <= SumOf(w, rest)
    BY <2>1, <2>2, <2>4
  <2>6. IsFiniteSet(rest) /\ IsFiniteSet(rest \cap T) /\ w[x] \in Nat
    BY <2>2, <2>4, FS_Subset
  <2>7. SumOf(w, rest) \in Nat /\ SumOf(w, rest \cap T) \in Nat
    BY <2>2, <2>6, SumIsNat
  <2>8. x \in T => SumOf(w, U \cap T) = w[x] + SumOf(w, rest \cap T)
    <3>1. (U \cap T) \ {x} = rest \cap T
      OBVIOUS
    <3>2. QED
      BY <2>2, <2>4, <3>1, SumOfOthers
  <2>9. x \notin T => U \cap T = rest \cap T
    OBVIOUS
  <2> HIDE DEF rest
  <2>10. SumOf(w, U \cap T) <= SumOf(w, U)
    BY <2>4, <2>5, <2>6, <2>7, <2>8, <2>9
  <2>11. QED
    BY <2>2, <2>10
<1>2. S \in SUBSET S /\ S \cap T = T
  OBVIOUS
<1>3. QED
  BY <1>1, <1>2

\* Equal terms.
LEMMA SumOfEqual ==
  ASSUME NEW S, IsFiniteSet(S), NEW w, NEW c \in Int, \A s \in S : w[s] = c
  PROVE  SumOf(w, S) = c * Cardinality(S)
<1> DEFINE Fails(T) == SumOf(w, T) # c * Cardinality(T)
           bad == {T \in SUBSET S : Fails(T)}
<1>1. ASSUME bad # {} PROVE FALSE
  <2>1. PICK T \in bad : \A U \in bad : U \subseteq T => U = T
    <3>1. bad \in SUBSET (SUBSET S)
      OBVIOUS
    <3> HIDE DEF bad
    <3>2. QED
      BY <1>1, <3>1, SmallestSubset
  <2>2. T \in SUBSET S /\ IsFiniteSet(T) /\ Cardinality(T) \in Nat /\ Fails(T)
    BY FS_Subset, FS_CardinalityType
  <2>3. T # {}
    <3>1. c * 0 = 0
      OBVIOUS
    <3>2. QED
      BY <2>2, <3>1, SumOfNone, FS_EmptySet
  <2> DEFINE x == First(T)
             rest == T \ {x}
  <2>4. x \in T /\ SumOf(w, T) = w[x] + SumOf(w, rest)
    BY <2>2, <2>3, SumOfFirst
  <2> HIDE DEF x
  <2>5. SumOf(w, rest) = c * Cardinality(rest)
    BY <2>1, <2>2, <2>4
  <2>6. Cardinality(rest) = Cardinality(T) - 1 /\ w[x] = c
    BY <2>2, <2>4, FS_RemoveElement
  <2> HIDE DEF rest
  <2>7. c + c * (Cardinality(T) - 1) = c * Cardinality(T)
    BY <2>2
  <2>8. QED
    BY <2>2, <2>4, <2>5, <2>6, <2>7
<1>2. S \in SUBSET S
  OBVIOUS
<1>3. QED
  BY <1>1, <1>2

-----------------------------------------------------------------------------
(* Ranks.                                                                  *)

\* ahead[s] are those that come before s in an order of D.
Ranking(ahead, D) ==
  /\ ahead \in [D -> SUBSET D]
  /\ \A s \in D : s \notin ahead[s]
  /\ \A s, t \in D : s = t \/ s \in ahead[t] \/ t \in ahead[s]
  /\ \A s, t \in D : s \in ahead[t] => ahead[s] \subseteq ahead[t]

LEMMA RanksAreNumbers ==
  ASSUME NEW D, IsFiniteSet(D), NEW ahead, Ranking(ahead, D), NEW s \in D
  PROVE  /\ IsFiniteSet(ahead[s]) /\ Cardinality(D) \in Nat
         /\ Cardinality(ahead[s]) \in Nat
         /\ Cardinality(ahead[s]) < Cardinality(D)
<1>1. ahead[s] \in SUBSET D /\ s \notin ahead[s]
  BY DEF Ranking
<1>2. /\ IsFiniteSet(ahead[s]) /\ Cardinality(ahead[s]) <= Cardinality(D)
      /\ (Cardinality(D) = Cardinality(ahead[s]) => D = ahead[s])
  BY <1>1, FS_Subset
<1>3. Cardinality(ahead[s]) \in Nat /\ Cardinality(D) \in Nat
  BY <1>2, FS_CardinalityType
<1>4. QED
  BY <1>1, <1>2, <1>3

\* Who comes before another has the lower rank.
LEMMA RanksDiffer ==
  ASSUME NEW D, IsFiniteSet(D), NEW ahead, Ranking(ahead, D),
         NEW s \in D, NEW t \in D, s \in ahead[t]
  PROVE  Cardinality(ahead[s]) < Cardinality(ahead[t])
<1>1. ahead[s] \in SUBSET ahead[t] /\ ahead[s] # ahead[t]
  BY DEF Ranking
<1>2. IsFiniteSet(ahead[t]) /\ Cardinality(ahead[s]) \in Nat /\ Cardinality(ahead[t]) \in Nat
  BY RanksAreNumbers
<1>3. Cardinality(ahead[s]) <= Cardinality(ahead[t])
      /\ (Cardinality(ahead[t]) = Cardinality(ahead[s]) => ahead[t] = ahead[s])
  BY <1>1, <1>2, FS_Subset
<1>4. QED
  BY <1>1, <1>2, <1>3

LEMMA FirstNumbers ==
  ASSUME NEW n \in Nat
  PROVE  IsFiniteSet(0..(n - 1)) /\ Cardinality(0..(n - 1)) = n
<1>1. 0 \in Int /\ n - 1 \in Int
  OBVIOUS
<1>2. QED
  BY <1>1, FS_Interval

\* The ranks below n are those of n elements at most.
LEMMA FewAreFirst ==
  ASSUME NEW D, IsFiniteSet(D), NEW ahead, Ranking(ahead, D), NEW n \in Nat
  PROVE  /\ IsFiniteSet({s \in D : Cardinality(ahead[s]) < n})
         /\ Cardinality({s \in D : Cardinality(ahead[s]) < n}) <= n
<1> DEFINE B == {s \in D : Cardinality(ahead[s]) < n}
           rank == [s \in B |-> Cardinality(ahead[s])]
<1>1. \A s \in B : rank[s] \in 0..(n - 1)
  BY RanksAreNumbers
<1>2. \A s, t \in B : rank[s] = rank[t] => s = t
  <2>1. \A s \in D : Cardinality(ahead[s]) \in Nat
    BY RanksAreNumbers
  <2>2. \A s, t \in D : s = t \/ s \in ahead[t] \/ t \in ahead[s]
    BY DEF Ranking
  <2>3. \A s, t \in D : s \in ahead[t] => Cardinality(ahead[s]) < Cardinality(ahead[t])
    BY RanksDiffer
  <2>4. \A s, t \in D : Cardinality(ahead[s]) = Cardinality(ahead[t]) => s = t
    BY <2>1, <2>2, <2>3
  <2>5. QED
    BY <2>4
<1>3. rank \in Injection(B, 0..(n - 1))
  <2>1. rank \in [B -> 0..(n - 1)]
    BY <1>1
  <2> HIDE DEF rank, B
  <2>2. QED
    BY <1>2, <2>1 DEF Injection, IsInjective
<1>4. IsFiniteSet(0..(n - 1)) /\ Cardinality(0..(n - 1)) = n
  BY FirstNumbers
<1> HIDE DEF rank, B
<1>5. IsFiniteSet(B) /\ Cardinality(B) <= n
  BY <1>3, <1>4, FS_Injection
<1>6. QED
  BY <1>5 DEF B

\* Every rank is someone's.
LEMMA EveryRankIsTaken ==
  ASSUME NEW D, IsFiniteSet(D), NEW ahead, Ranking(ahead, D),
         NEW k \in Nat, k < Cardinality(D)
  PROVE  \E s \in D : Cardinality(ahead[s]) = k
<1> DEFINE n == Cardinality(D)
           rank == [s \in D |-> Cardinality(ahead[s])]
<1>1. n \in Nat
  BY FS_CardinalityType
<1>2. \A s \in D : Cardinality(ahead[s]) \in 0..(n - 1)
  BY <1>1, RanksAreNumbers
<1>3. \A s, t \in D : Cardinality(ahead[s]) = Cardinality(ahead[t]) => s = t
  <2>1. \A s, t \in D : s = t \/ s \in ahead[t] \/ t \in ahead[s]
    BY DEF Ranking
  <2>2. \A s, t \in D : s \in ahead[t] => Cardinality(ahead[s]) < Cardinality(ahead[t])
    BY RanksDiffer
  <2>3. \A s \in D : Cardinality(ahead[s]) \in Nat
    BY RanksAreNumbers
  <2>4. QED
    BY <2>1, <2>2, <2>3
<1>4. rank \in Injection(D, 0..(n - 1))
  <2>1. rank \in [D -> 0..(n - 1)] /\ \A s, t \in D : rank[s] = rank[t] => s = t
    BY <1>2, <1>3
  <2> HIDE DEF rank
  <2>2. QED
    BY <2>1 DEF Injection, IsInjective
<1>5. IsFiniteSet(0..(n - 1)) /\ Cardinality(0..(n - 1)) = n
  <2> HIDE DEF n
  <2>1. QED
    BY <1>1, FirstNumbers
<1>6. rank \in Surjection(D, 0..(n - 1))
  <2> HIDE DEF rank
  <2>1. QED
    BY <1>4, <1>5, FS_Injection
<1>7. k \in 0..(n - 1)
  BY <1>1
<1>8. \E s \in D : rank[s] = k
  <2> HIDE DEF rank
  <2>1. QED
    BY <1>6, <1>7 DEF Surjection
<1>9. QED
  BY <1>8

-----------------------------------------------------------------------------
(* The steps of the gate.                                                  *)

LEMMA GrossIsSum == ASSUME NEW w PROVE Gross(w) = SumOf(w, DOMAIN w)
  BY DEF Gross, SumOf

LEMMA PositiveIs ==
  ASSUME NEW D, NEW w \in [D -> Int]
  PROVE  /\ DOMAIN Positive(w) \in SUBSET D
         /\ Positive(w) \in [DOMAIN Positive(w) -> Nat \ {0}]
         /\ \A s \in DOMAIN Positive(w) : Positive(w)[s] = w[s]
         /\ \A s \in D : w[s] > 0 => s \in DOMAIN Positive(w)
  BY DEF Positive, Only

LEMMA TrimRanks ==
  ASSUME NEW D \in SUBSET Nat, NEW w \in [D -> Int]
  PROVE  Ranking([s \in D |-> {t \in D : Outranks(w, t, s)}], D)
<1> DEFINE ahead == [s \in D |-> {t \in D : Outranks(w, t, s)}]
<1>1. \A s \in D : w[s] \in Int /\ s \in Nat
  OBVIOUS
<1>2. ahead \in [D -> SUBSET D]
  OBVIOUS
<1>3. \A s \in D : ~Outranks(w, s, s)
  BY <1>1 DEF Outranks
<1>4. \A s, t \in D : s = t \/ Outranks(w, s, t) \/ Outranks(w, t, s)
  BY <1>1 DEF Outranks
<1>5. \A r, s, t \in D : Outranks(w, r, s) /\ Outranks(w, s, t) => Outranks(w, r, t)
  BY <1>1 DEF Outranks
<1>6. /\ \A s \in D : s \notin ahead[s]
      /\ \A s, t \in D : s = t \/ s \in ahead[t] \/ t \in ahead[s]
      /\ \A s, t \in D : s \in ahead[t] => ahead[s] \subseteq ahead[t]
  BY <1>3, <1>4, <1>5
<1> HIDE DEF ahead
<1>7. QED
  BY <1>2, <1>6 DEF Ranking, ahead

\* The best MaxPositions names at most are left, at their weights.
LEMMA TrimIs ==
  ASSUME NEW D \in SUBSET Nat, IsFiniteSet(D), NEW w \in [D -> Int]
  PROVE  /\ DOMAIN Trim(w) \in SUBSET D
         /\ \A s \in DOMAIN Trim(w) : Trim(w)[s] = w[s]
         /\ IsFiniteSet(DOMAIN Trim(w)) /\ Cardinality(DOMAIN Trim(w)) <= MaxPositions
<1> DEFINE ahead == [s \in D |-> {t \in D : Outranks(w, t, s)}]
           B == {s \in D : Cardinality(ahead[s]) < MaxPositions}
<1>1. DOMAIN w = D
  OBVIOUS
<1>2. B = {s \in DOMAIN w : Cardinality({t \in DOMAIN w : Outranks(w, t, s)}) < MaxPositions}
  BY <1>1
<1>3. Trim(w) = [s \in B |-> w[s]]
  <2> HIDE DEF B
  <2>1. QED
    BY <1>2 DEF Trim, Only
<1>4. Ranking(ahead, D)
  BY TrimRanks
<1> HIDE DEF ahead
<1>5. IsFiniteSet(B) /\ Cardinality(B) <= MaxPositions
  BY <1>4, FewAreFirst, RiskLimitsAreNat
<1>6. QED
  BY <1>3, <1>5

\* Few enough names are all kept.
LEMMA TrimKeeps ==
  ASSUME NEW D \in SUBSET Nat, IsFiniteSet(D), Cardinality(D) <= MaxPositions,
         NEW w \in [D -> Int]
  PROVE  Trim(w) = w
<1> DEFINE ahead == [s \in D |-> {t \in D : Outranks(w, t, s)}]
<1>1. Ranking(ahead, D)
  BY TrimRanks
<1>2. \A s \in D : Cardinality(ahead[s]) < MaxPositions
  <2> HIDE DEF ahead
  <2>1. \A s \in D : /\ Cardinality(ahead[s]) \in Nat /\ Cardinality(D) \in Nat
                     /\ Cardinality(ahead[s]) < Cardinality(D)
    BY <1>1, RanksAreNumbers
  <2>2. QED
    BY <2>1, RiskLimitsAreNat
<1>3. {s \in DOMAIN w : Cardinality({t \in DOMAIN w : Outranks(w, t, s)}) < MaxPositions} = D
  BY <1>2
<1>4. QED
  BY <1>3 DEF Trim, Only

LEMMA CapIs ==
  ASSUME NEW D, NEW w \in [D -> Nat]
  PROVE  /\ Cap(w) \in [D -> Nat]
         /\ \A s \in D : Cap(w)[s] <= w[s] /\ Cap(w)[s] <= MaxPositionWeight
         /\ (\A s \in D : w[s] <= MaxPositionWeight) => Cap(w) = w
  BY RiskLimitsAreNat DEF Cap

\* What a quotient is, when its divisor is positive.
LEMMA Quotient ==
  ASSUME NEW a \in Nat, NEW d \in Nat \ {0}
  PROVE  /\ a \div d \in Nat
         /\ d * (a \div d) <= a /\ a < d * (a \div d) + d
         /\ a \div d <= a
  OBVIOUS

LEMMA ProductsCompare ==
  ASSUME NEW a \in Nat, NEW b \in Nat, NEW c \in Nat, a <= b
  PROVE  a * c <= b * c /\ c * a <= c * b
  OBVIOUS

LEMMA Cancels ==
  ASSUME NEW d \in Nat \ {0}, NEW a \in Int, NEW b \in Int, d * a <= b * d
  PROVE  a <= b
  OBVIOUS

LEMMA QuotientsAscend ==
  ASSUME NEW a \in Nat, NEW b \in Nat, NEW d \in Nat \ {0}, a + d <= b
  PROVE  (a \div d) + 1 <= b \div d
<1> DEFINE p == a \div d
           q == b \div d
<1>1. p \in Nat /\ q \in Nat /\ d * p <= a /\ b < d * q + d
  BY Quotient
<1> HIDE DEF p, q
<1>2. q <= p => d * q <= d * p
  BY <1>1, ProductsCompare
<1>3. d * p \in Nat /\ d * q \in Nat
  BY <1>1
<1>4. ~ (q <= p)
  BY <1>1, <1>2, <1>3
<1>5. QED
  BY <1>1, <1>4 DEF p, q

\* A quotient grows with what is divided and falls with the divisor.
LEMMA QuotientsCompare ==
  ASSUME NEW a \in Nat, NEW b \in Nat, NEW d \in Nat \ {0}, NEW e \in Nat \ {0},
         a <= b, d <= e
  PROVE  a \div e <= b \div d
<1> DEFINE p == a \div e
           q == b \div d
<1>1. p \in Nat /\ q \in Nat /\ e * p <= a /\ b < d * q + d
  BY Quotient
<1> HIDE DEF p, q
<1>2. d * p <= e * p
  BY <1>1, ProductsCompare
<1>3. q + 1 <= p => d * (q + 1) <= d * p
  BY <1>1, ProductsCompare
<1>4. d * (q + 1) = d * q + d /\ d * q \in Nat /\ d * p \in Nat /\ e * p \in Nat
  BY <1>1
<1>5. ~ (q + 1 <= p)
  BY <1>1, <1>2, <1>3, <1>4
<1>6. QED
  BY <1>1, <1>5 DEF p, q

\* The shares of a sum, in whole percents, are no more than all of it and less
\* than one short of it for each of those who share.
LEMMA SharesOfSum ==
  ASSUME NEW S, IsFiniteSet(S), S # {}, NEW inv, \A s \in S : inv[s] \in Nat \ {0},
         NEW share, \A s \in S : share[s] = (100 * inv[s]) \div SumOf(inv, S)
  PROVE  /\ SumOf(inv, S) \in Nat \ {0}
         /\ \A s \in S : share[s] \in Nat
         /\ SumOf(share, S) \in Nat /\ Cardinality(S) \in Nat
         /\ SumOf(share, S) <= 100
         /\ SumOf(share, S) + Cardinality(S) > 100
<1> DEFINE total == SumOf(inv, S)
           n == Cardinality(S)
           one == [s \in S |-> 1]
           more == [s \in S |-> share[s] + 1]
           scaled == [s \in S |-> 100 * inv[s] + 1]
<1>1. n \in Nat /\ n > 0
  BY FS_CardinalityType, FS_EmptySet
<1>2. SumOf(one, S) = 1 * n
  <2>1. \A s \in S : one[s] = 1
    OBVIOUS
  <2> HIDE DEF one
  <2>2. QED
    BY <2>1, SumOfEqual
<1>3. total \in Nat \ {0}
  <2>1. \A s \in S : one[s] \in Int /\ inv[s] \in Int /\ one[s] <= inv[s]
    OBVIOUS
  <2> HIDE DEF one
  <2>2. SumOf(one, S) <= SumOf(inv, S)
    BY <2>1, SumsGrow
  <2>3. SumOf(inv, S) \in Int
    BY <2>1, SumIsNumber
  <2>4. QED
    BY <1>1, <1>2, <2>2, <2>3
<1>4. \A s \in S : /\ share[s] \in Nat /\ total * share[s] <= 100 * inv[s]
                   /\ 100 * inv[s] + 1 <= total * (share[s] + 1)
  <2>1. TAKE s \in S
  <2> DEFINE y == share[s]
             x == 100 * inv[s]
  <2>2. x \in Nat /\ y = x \div total
    OBVIOUS
  <2> HIDE DEF total, x, y
  <2>3. y \in Nat /\ total * y <= x /\ x < total * y + total
    <3>1. /\ x \div total \in Nat /\ total * (x \div total) <= x
          /\ x < total * (x \div total) + total
      BY <1>3, <2>2, Quotient
    <3>2. QED
      BY <2>2, <3>1
  <2>4. x \in Nat /\ y \in Nat /\ x < total * y + total
    BY <2>2, <2>3
  <2>5. total * (y + 1) = total * y + total /\ total * y \in Nat
    BY <1>3, <2>4
  <2>6. x + 1 <= total * (y + 1)
    BY <1>3, <2>4, <2>5
  <2>7. QED
    BY <2>3, <2>6 DEF x, y
<1> HIDE DEF total, n, one
<1>5. SumOf(share, S) \in Nat
  BY <1>4, SumIsNat
<1>6. SumOf(share, S) <= 100
  <2>1. total * SumOf(share, S) <= 100 * SumOf(inv, S)
    BY <1>3, <1>4, SumsCompare
  <2>2. QED
    BY <1>3, <1>5, <2>1, Cancels DEF total
<1>7. SumOf(share, S) + n > 100
  <2>1. \A s \in S : more[s] = 1 * share[s] + 1 * one[s] /\ share[s] \in Int /\ one[s] \in Int
    BY <1>4 DEF one
  <2>2. \A s \in S : scaled[s] = 100 * inv[s] + 1 * one[s] /\ inv[s] \in Int /\ one[s] \in Int
    BY DEF one
  <2>3. \A s \in S : /\ scaled[s] \in Int /\ more[s] \in Int
                     /\ 1 * scaled[s] <= total * more[s]
    BY <1>3, <1>4
  <2> HIDE DEF more, scaled
  <2>4. SumOf(more, S) = 1 * SumOf(share, S) + 1 * SumOf(one, S)
    BY <2>1, SumsCombine
  <2>5. SumOf(scaled, S) = 100 * SumOf(inv, S) + 1 * SumOf(one, S)
    BY <2>2, SumsCombine
  <2>6. 1 * SumOf(scaled, S) <= total * SumOf(more, S)
    BY <1>3, <2>3, SumsCompare
  <2> DEFINE Q == SumOf(share, S) + n
  <2>7. SumOf(more, S) = Q /\ SumOf(scaled, S) = 100 * total + n /\ Q \in Nat
    BY <1>1, <1>2, <1>3, <1>5, <2>4, <2>5 DEF total
  <2> HIDE DEF Q
  <2>8. 100 * total + n <= total * Q
    BY <1>1, <1>3, <2>6, <2>7
  <2>9. Q <= 100 => total * Q <= total * 100
    BY <1>3, <2>7, ProductsCompare
  <2>10. total * Q \in Nat
    BY <1>3, <2>7
  <2>11. Q > 100
    BY <1>1, <1>3, <2>7, <2>8, <2>9, <2>10
  <2>12. QED
    BY <2>11 DEF Q
<1>8. QED
  BY <1>1, <1>3, <1>4, <1>5, <1>6, <1>7 DEF total, n

\* Scaling raises no weight and brings the book down to what it may deploy.
LEMMA ScaleDownIs ==
  ASSUME NEW D, IsFiniteSet(D), NEW w \in [D -> Nat]
  PROVE  /\ ScaleDown(w) \in [D -> Nat]
         /\ \A s \in D : ScaleDown(w)[s] <= w[s]
         /\ Gross(ScaleDown(w)) <= MaxGrossExposure
         /\ Gross(w) <= MaxGrossExposure => ScaleDown(w) = w
<1> DEFINE g == Gross(w)
           M == MaxGrossExposure
<1>1. M \in Nat /\ g \in Nat /\ g = SumOf(w, D)
  <2>1. g = SumOf(w, D)
    BY GrossIsSum
  <2>2. SumOf(w, D) \in Nat
    BY SumIsNat
  <2>3. QED
    BY <2>1, <2>2, RiskLimitsAreNat
<1> HIDE DEF g, M
<1>2. CASE g <= M
  BY <1>1, <1>2 DEF ScaleDown, g, M
<1>3. CASE ~(g <= M)
  <2> DEFINE v == [s \in D |-> (w[s] * M) \div g]
  <2>1. ScaleDown(w) = v
    BY <1>3 DEF ScaleDown, g, M
  <2>2. g \in Nat \ {0} /\ M <= g
    BY <1>1, <1>3
  <2>3. ASSUME NEW s \in D
        PROVE  v[s] \in Nat /\ g * v[s] <= M * w[s] /\ v[s] <= w[s]
    <3>1. w[s] \in Nat /\ v[s] = (w[s] * M) \div g
      OBVIOUS
    <3>2. w[s] * M \in Nat /\ w[s] * M = M * w[s]
      BY <1>1, <3>1
    <3>3. v[s] \in Nat /\ g * v[s] <= w[s] * M
      BY <2>2, <3>1, <3>2, Quotient
    <3>4. w[s] * M <= w[s] * g
      BY <1>1, <2>2, <3>1, ProductsCompare
    <3> HIDE DEF v
    <3>5. g * v[s] <= w[s] * g
      <4>1. g * v[s] \in Int /\ w[s] * g \in Int
        BY <1>1, <3>1, <3>3
      <4>2. QED
        BY <3>2, <3>3, <3>4, <4>1
    <3>6. v[s] <= w[s]
      BY <2>2, <3>1, <3>3, <3>5, Cancels
    <3>7. QED
      BY <3>2, <3>3, <3>6
  <2>4. g * SumOf(v, D) <= M * g
    <3>1. \A s \in D : v[s] \in Int /\ w[s] \in Int /\ g * v[s] <= M * w[s]
      BY <2>3
    <3> HIDE DEF v
    <3>2. g * SumOf(v, D) <= M * SumOf(w, D)
      BY <1>1, <3>1, SumsCompare
    <3>3. QED
      BY <1>1, <3>2
  <2>5. v \in [D -> Nat] /\ DOMAIN v = D /\ \A s \in D : v[s] \in Int
    BY <2>3
  <2>6. \A s \in D : v[s] <= w[s]
    BY <2>3
  <2> HIDE DEF v
  <2>7. SumOf(v, D) \in Int
    BY <2>5, SumIsNumber
  <2>8. SumOf(v, D) <= M
    BY <1>1, <2>2, <2>4, <2>7, Cancels
  <2>9. QED
    BY <1>3, <2>1, <2>5, <2>6, <2>8, GrossIsSum DEF g, M
<1>4. QED
  BY <1>2, <1>3

LEMMA NothingIsWanted ==
  /\ NoTargets \in [{} -> Nat] /\ DOMAIN NoTargets = {}
  /\ Gross(NoTargets) = 0
  /\ Positive(NoTargets) = NoTargets /\ Trim(NoTargets) = NoTargets
<1>1. NoTargets \in [{} -> Nat] /\ DOMAIN NoTargets = {}
  BY DEF NoTargets
<1>2. Gross(NoTargets) = 0
  BY <1>1, GrossIsSum, SumOfNone
<1>3. \A B : B \subseteq {} => Only(NoTargets, B) = NoTargets
  BY DEF Only, NoTargets
<1>4. QED
  BY <1>1, <1>2, <1>3 DEF Positive, Trim

\* What is left of the wanted names, and at which weights.
LEMMA SafeIs ==
  ASSUME NEW D \in SUBSET Nat, IsFiniteSet(D), NEW wanted \in [D -> Int]
  PROVE  LET safe == Trim(Positive(wanted))
             E == DOMAIN Trim(Positive(wanted))
         IN  /\ E \in SUBSET D /\ IsFiniteSet(E) /\ Cardinality(E) <= MaxPositions
             /\ safe \in [E -> Nat \ {0}]
             /\ \A s \in E : safe[s] = wanted[s]
<1> DEFINE p == Positive(wanted)
           P == DOMAIN p
           safe == Trim(p)
           E == DOMAIN safe
<1>1. /\ P \in SUBSET D /\ p \in [P -> Nat \ {0}]
      /\ \A s \in P : p[s] = wanted[s]
  BY PositiveIs
<1> HIDE DEF p
<1>2. P \in SUBSET Nat /\ IsFiniteSet(P) /\ p \in [P -> Int]
  BY <1>1, FS_Subset
<1> HIDE DEF P
<1>3. /\ E \in SUBSET P /\ IsFiniteSet(E) /\ Cardinality(E) <= MaxPositions
      /\ \A s \in E : safe[s] = p[s]
  BY <1>2, TrimIs
<1>4. safe = [s \in E |-> safe[s]]
  BY DEF Trim, Only
<1> HIDE DEF safe
<1>5. \A s \in E : safe[s] \in Nat \ {0} /\ safe[s] = wanted[s]
  BY <1>1, <1>3
<1>6. safe \in [E -> Nat \ {0}]
  BY <1>4, <1>5
<1>7. QED
  BY <1>1, <1>3, <1>5, <1>6 DEF safe, p

\* The gate only reduces.
LEMMA GateReduces ==
  ASSUME NEW D \in SUBSET Nat, IsFiniteSet(D), NEW wanted \in [D -> Int], NEW state
  PROVE  LET targets == Evaluate(wanted, state).targets
         IN  /\ DOMAIN targets \in SUBSET D
             /\ targets \in [DOMAIN targets -> Nat]
             /\ \A s \in DOMAIN targets : /\ targets[s] <= wanted[s]
                                          /\ targets[s] <= MaxPositionWeight
             /\ Gross(targets) <= MaxGrossExposure
<1> DEFINE safe == Trim(Positive(wanted))
           E == DOMAIN safe
           scaled == ScaleDown(Cap(safe))
           targets == Evaluate(wanted, state).targets
<1>1. targets \in {NoTargets, scaled}
  BY DEF Evaluate, Block
<1>2. CASE targets = NoTargets
  BY <1>2, NothingIsWanted, RiskLimitsAreNat
<1>3. CASE targets = scaled
  <2>1. /\ E \in SUBSET D /\ IsFiniteSet(E)
        /\ safe \in [E -> Nat \ {0}] /\ \A s \in E : safe[s] = wanted[s]
    BY SafeIs
  <2> HIDE DEF safe, E
  <2>2. safe \in [E -> Nat]
    BY <2>1
  <2>3. /\ Cap(safe) \in [E -> Nat]
        /\ \A s \in E : Cap(safe)[s] <= safe[s] /\ Cap(safe)[s] <= MaxPositionWeight
    BY <2>2, CapIs
  <2>4. /\ scaled \in [E -> Nat]
        /\ \A s \in E : scaled[s] <= Cap(safe)[s]
        /\ Gross(scaled) <= MaxGrossExposure
    BY <2>1, <2>3, ScaleDownIs
  <2> HIDE DEF scaled
  <2>5. \A s \in E : /\ scaled[s] \in Nat /\ Cap(safe)[s] \in Nat /\ safe[s] \in Nat
                     /\ scaled[s] <= Cap(safe)[s] /\ safe[s] = wanted[s]
                     /\ Cap(safe)[s] <= safe[s] /\ Cap(safe)[s] <= MaxPositionWeight
    BY <2>1, <2>2, <2>3, <2>4
  <2>6. \A s \in E : scaled[s] <= wanted[s] /\ scaled[s] <= MaxPositionWeight
    BY <2>5, RiskLimitsAreNat
  <2> HIDE DEF targets
  <2>7. QED
    BY <1>3, <2>1, <2>4, <2>6 DEF targets
<1>4. QED
  BY <1>1, <1>2, <1>3

-----------------------------------------------------------------------------
(* The plan of orders, for any symbols that are ordered like numbers.      *)

LEMMA MinIsMember ==
  ASSUME NEW T, T \subseteq Nat, T # {}
  PROVE  Min(T) \in T
<1>1. \E x \in T : \A y \in T : x <= y
  BY SmallestNumber
<1>2. QED
  BY <1>1 DEF Min

\* A plan that is not done has an order due.
LEMMA DueIsPlanned ==
  ASSUME NEW S \in SUBSET Nat, NEW orders \in [S -> Int],
         NEW t \in S, orders[t] # 0
  PROVE  Due(orders) \in S /\ orders[Due(orders)] # 0
<1> DEFINE sells == {s \in DOMAIN orders : orders[s] < 0}
           buys  == {s \in DOMAIN orders : orders[s] > 0}
           s == Due(orders)
<1>1. sells \cup buys \subseteq S
  OBVIOUS
<1>2. sells # {} \/ buys # {}
  OBVIOUS
<1>3. sells \subseteq Nat /\ buys \subseteq Nat
  BY <1>1
<1>4. Due(orders) = IF sells # {} THEN Min(sells) ELSE Min(buys)
  BY DEF Due
<1>5. s \in sells \cup buys
  <2> HIDE DEF sells, buys, s
  <2>1. sells # {} => Min(sells) \in sells
    BY <1>3, MinIsMember
  <2>2. buys # {} => Min(buys) \in buys
    BY <1>3, MinIsMember
  <2>3. QED
    BY <1>2, <1>4, <2>1, <2>2 DEF s
<1>6. QED
  BY <1>1, <1>5

\* What is planned of a symbol becomes an order of that many shares.
LEMMA OrderForType ==
  ASSUME NEW s, NEW delta \in Int, delta # 0
  PROVE  /\ OrderFor(s, delta).symbol = s
         /\ OrderFor(s, delta).side = IF delta < 0 THEN "SELL" ELSE "BUY"
         /\ OrderFor(s, delta).shares = IF delta < 0 THEN -delta ELSE delta
         /\ OrderFor(s, delta).shares \in Nat \ {0}
         /\ OrderFor(s, delta) \in [symbol : {s}, side : {"BUY", "SELL"}, shares : Nat]
BY DEF OrderFor, Size

\* A plan sells no more than is held, and never from nothing.
LEMMA OrdersForType ==
  ASSUME NEW S, NEW held \in [S -> Int], NEW want \in [S -> Nat], NEW list \in [S -> Nat]
  PROVE  /\ OrdersFor(held, want, list) \in [S -> Int]
         /\ \A s \in S : \/ OrdersFor(held, want, list)[s] >= 0
                         \/ held[s] + OrdersFor(held, want, list)[s] >= 0
         /\ \A s \in S : OrdersFor(held, want, list)[s] \in {0, want[s] - held[s]}
<1>1. \A s \in S : want[s] \in Nat /\ held[s] \in Int /\ want[s] - held[s] \in Int
  OBVIOUS
<1>2. DOMAIN held = S
  OBVIOUS
<1>3. OrdersFor(held, want, list) \in [S -> Int]
  BY <1>1, <1>2 DEF OrdersFor
<1>4. ASSUME NEW s \in S
      PROVE  OrdersFor(held, want, list)[s] \in {0, want[s] - held[s]}
  BY <1>2 DEF OrdersFor
<1>5. QED
  BY <1>1, <1>3, <1>4

\* A size replaced in a plan leaves a plan.
LEMMA ReplacedIsAPlan ==
  ASSUME NEW S, NEW orders \in [S -> Int], NEW s, NEW size \in Int
  PROVE  [orders EXCEPT ![s] = size] \in [S -> Int]
OBVIOUS

\* The orders still to be placed: at most one a symbol.
Planned(orders, S) == {s \in S : orders[s] # 0}

LEMMA PlannedAreFew ==
  ASSUME NEW S, IsFiniteSet(S), NEW orders
  PROVE  /\ IsFiniteSet(Planned(orders, S)) /\ Cardinality(Planned(orders, S)) \in Nat
         /\ Cardinality(Planned(orders, S)) <= Cardinality(S)
<1>1. Planned(orders, S) \in SUBSET S
  BY DEF Planned
<1>2. IsFiniteSet(Planned(orders, S)) /\ Cardinality(Planned(orders, S)) <= Cardinality(S)
  BY <1>1, FS_Subset
<1>3. QED
  BY <1>2, FS_CardinalityType

\* Striking the order that is due leaves one less.
LEMMA StruckIsOneLess ==
  ASSUME NEW S \in SUBSET Nat, IsFiniteSet(S), NEW orders \in [S -> Int],
         NEW t \in S, orders[t] # 0
  PROVE  Cardinality(Planned([orders EXCEPT ![Due(orders)] = 0], S))
           = Cardinality(Planned(orders, S)) - 1
<1> DEFINE d == Due(orders)
<1>1. d \in S /\ orders[d] # 0
  BY DueIsPlanned
<1> HIDE DEF d
<1>2. Planned([orders EXCEPT ![d] = 0], S) = Planned(orders, S) \ {d} /\ d \in Planned(orders, S)
  BY <1>1 DEF Planned
<1>3. IsFiniteSet(Planned(orders, S))
  BY PlannedAreFew
<1>4. Cardinality(Planned(orders, S) \ {d}) = Cardinality(Planned(orders, S)) - 1
  <2> DEFINE P == Planned(orders, S)
  <2> HIDE DEF P
  <2>1. IsFiniteSet(P) /\ d \in P => Cardinality(P \ {d}) = Cardinality(P) - 1
    BY FS_RemoveElement
  <2>2. QED
    BY <1>2, <1>3, <2>1 DEF P
<1>5. QED
  BY <1>2, <1>4 DEF d
=============================================================================
