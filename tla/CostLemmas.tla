----------------------------- MODULE CostLemmas -----------------------------
(***************************************************************************)
(* What the proofs about the costs share: least and latest numbers, places *)
(* in an order, products and quotients, sums over finite sets, and what    *)
(* the runs of an account leave of a day, whatever their number.           *)
(***************************************************************************)
EXTENDS Coverage, FiniteSetTheorems, WellFoundedInduction, TLAPS

(***************************************************************************)
(* Latest of finitely many                                                 *)
(***************************************************************************)

(* A set of natural numbers has a least one.                               *)
LEMMA LeastNumber ==
  ASSUME NEW T \in SUBSET Nat, T # {}
  PROVE  \E x \in T : \A y \in T : x <= y
<1>1. PICK x \in T : \A y \in T : <<y, x>> \notin OpToRel(<, Nat)
  BY WFMin, NatLessThanWellFounded
<1>2. \A y \in T : ~(y < x)
  BY <1>1 DEF OpToRel
<1>3. QED
  BY <1>2

(* Among finitely many things that carry a number one carries the latest:  *)
(* the smallest set without one could lose an element and be smaller.      *)
LEMMA SomeLatest ==
  ASSUME NEW D, IsFiniteSet(D), NEW f \in [D -> Int],
         NEW S \in SUBSET D, S # {}
  PROVE  \E m \in S : \A s \in S : f[s] <= f[m]
<1> DEFINE Latest(Q) == \E m \in Q : \A s \in Q : f[s] <= f[m]
           Bad == {n \in Nat : \E Q \in SUBSET D :
                      Q # {} /\ Cardinality(Q) = n /\ ~Latest(Q)}
<1>1. CASE Bad = {}
  <2>1. IsFiniteSet(S) /\ Cardinality(S) \in Nat
    BY FS_Subset, FS_CardinalityType
  <2>2. QED
    BY <1>1, <2>1
<1>2. CASE Bad # {}
  <2>1. PICK n \in Bad : \A k \in Bad : n <= k
    <3>1. Bad \in SUBSET Nat
      OBVIOUS
    <3> HIDE DEF Bad
    <3>2. QED
      BY <1>2, <3>1, LeastNumber
  <2>2. PICK Q \in SUBSET D : Q # {} /\ Cardinality(Q) = n /\ ~Latest(Q)
    BY <2>1
  <2>3. PICK x : x \in Q
    BY <2>2
  <2>4. IsFiniteSet(Q)
    BY FS_Subset
  <2>5. Cardinality(Q \ {x}) = n - 1 /\ Cardinality(Q \ {x}) \in Nat
    BY <2>2, <2>3, <2>4, FS_RemoveElement, FS_CardinalityType
  <2>6. CASE Q \ {x} = {}
    <3>1. Q = {x} /\ f[x] \in Int
      BY <2>3, <2>6
    <3>2. QED
      BY <2>2, <3>1
  <2>7. CASE Q \ {x} # {}
    <3>1. n - 1 \notin Bad
      BY <2>1
    <3>2. Latest(Q \ {x})
      BY <2>5, <2>7, <3>1
    <3>3. PICK m \in Q \ {x} : \A s \in Q \ {x} : f[s] <= f[m]
      BY <3>2
    <3>4. f[x] \in Int /\ f[m] \in Int /\ \A s \in Q : f[s] \in Int
      BY <2>3, <3>3
    <3>5. CASE f[x] <= f[m]
      BY <2>2, <3>3, <3>4, <3>5
    <3>6. CASE f[m] <= f[x]
      <4>1. \A s \in Q : f[s] <= f[x]
        BY <3>3, <3>4, <3>6
      <4>2. QED
        BY <2>2, <2>3, <4>1
    <3>7. QED
      BY <3>4, <3>5, <3>6
  <2>8. QED
    BY <2>6, <2>7
<1>3. QED
  BY <1>1, <1>2

(* Maximum of a set of numbers that has a latest one.                      *)
LEMMA MaxIsLatest ==
  ASSUME NEW S \in SUBSET Nat, NEW m \in S, \A s \in S : s <= m
  PROVE  Max(S) = m
<1>1. Max(S) \in S /\ \A s \in S : s <= Max(S)
  BY DEF Max
<1> DEFINE x == Max(S)
<1>2. x \in Nat /\ m \in Nat /\ x <= m /\ m <= x
  BY <1>1
<1> HIDE DEF x
<1>3. x = m
  BY <1>2
<1>4. QED
  BY <1>3 DEF x

(* The maximum of a finite set of natural numbers bounds them.             *)
LEMMA MaxOfFinite ==
  ASSUME NEW A \in SUBSET Nat, IsFiniteSet(A), A # {}
  PROVE  Max(A) \in A /\ \A x \in A : x <= Max(A)
<1> DEFINE id == [x \in A |-> x]
<1>1. id \in [A -> Int] /\ A \in SUBSET A
  OBVIOUS
<1>2. PICK m \in A : \A x \in A : id[x] <= id[m]
  <2> HIDE DEF id
  <2>1. QED
    BY <1>1, SomeLatest
<1>3. \A x \in A : x <= m
  BY <1>2
<1>4. QED
  BY <1>3, MaxIsLatest

(* The minimum of a finite set of integers.                                *)
LEMMA MinOfFinite ==
  ASSUME NEW A \in SUBSET Int, IsFiniteSet(A), A # {}
  PROVE  Min(A) \in A /\ \A x \in A : Min(A) <= x
<1> DEFINE minus == [x \in A |-> -x]
<1>1. minus \in [A -> Int] /\ A \in SUBSET A
  OBVIOUS
<1>2. PICK m \in A : \A x \in A : minus[x] <= minus[m]
  <2> HIDE DEF minus
  <2>1. QED
    BY <1>1, SomeLatest
<1>3. \A x \in A : m <= x
  <2>1. \A x \in A : x \in Int /\ -x <= -m
    BY <1>2
  <2>2. QED
    BY <2>1
<1>4. QED
  BY <1>3 DEF Min

LEMMA MinOfTwo ==
  ASSUME NEW x \in Int, NEW y \in Int
  PROVE  /\ Min({x, y}) \in Int
         /\ Min({x, y}) <= x /\ Min({x, y}) <= y
         /\ x <= y => Min({x, y}) = x
         /\ y <= x => Min({x, y}) = y
<1> DEFINE m == Min({x, y})
<1>1. \E z \in {x, y} : \A u \in {x, y} : z <= u
  OBVIOUS
<1>2. m \in {x, y} /\ \A u \in {x, y} : m <= u
  BY <1>1 DEF Min
<1> HIDE DEF m
<1>3. m \in Int /\ m <= x /\ m <= y /\ (m = x \/ m = y)
  BY <1>2
<1>4. QED
  BY <1>3 DEF m

LEMMA MaxOfTwo ==
  ASSUME NEW x \in Int, NEW y \in Int
  PROVE  Max({x, y}) \in Int
<1>1. \E z \in {x, y} : \A u \in {x, y} : u <= z
  OBVIOUS
<1>2. Max({x, y}) \in {x, y}
  BY <1>1 DEF Max
<1>3. QED
  BY <1>2

(* Numbered in their order, the elements of a finite set of numbers are    *)
(* all met.                                                                *)
LEMMA EachHasItsPlace ==
  ASSUME NEW A \in SUBSET Nat, IsFiniteSet(A)
  PROVE  /\ Cardinality(A) \in Nat
         /\ \A i \in A : Cardinality({j \in A : j < i}) + 1
                            \in 1 .. Cardinality(A)
         /\ \A i, j \in A : Cardinality({k \in A : k < i})
                              = Cardinality({k \in A : k < j}) => i = j
         /\ \A k \in 1 .. Cardinality(A) :
              \E i \in A : Cardinality({j \in A : j < i}) = k - 1
<1> DEFINE below(i) == {j \in A : j < i}
           N == Cardinality(A)
           rank == [i \in A |-> Cardinality(below(i)) + 1]
<1>1. N \in Nat
  BY FS_CardinalityType
<1>2. \A i \in A : IsFiniteSet(below(i)) /\ Cardinality(below(i)) \in Nat
  BY FS_Subset, FS_CardinalityType
<1>3. ASSUME NEW i \in A PROVE Cardinality(below(i)) < N
  <2> DEFINE B == below(i)
  <2>1. B \in SUBSET A /\ B # A
    <3>1. i \notin B
      OBVIOUS
    <3>2. QED
      BY <3>1
  <2> HIDE DEF B
  <2>2. Cardinality(B) <= N /\ Cardinality(B) # N
    BY <2>1, FS_Subset
  <2>3. Cardinality(B) \in Nat
    BY <2>1, FS_Subset, FS_CardinalityType
  <2> HIDE DEF N
  <2>4. Cardinality(B) < N
    BY <1>1, <2>2, <2>3
  <2>5. QED
    BY <2>4 DEF B
<1>4. ASSUME NEW i \in A, NEW j \in A, i < j
      PROVE  Cardinality(below(i)) < Cardinality(below(j))
  <2> DEFINE B == below(i)
             C == below(j)
  <2>1. B \in SUBSET C /\ B # C
    <3>1. i \in Nat /\ j \in Nat /\ A \subseteq Nat
      OBVIOUS
    <3>2. i \notin B /\ i \in C
      BY <1>4, <3>1
    <3>3. \A k \in B : k \in C
      BY <1>4, <3>1
    <3>4. QED
      BY <3>2, <3>3
  <2>2. IsFiniteSet(C)
    BY <1>2
  <2> HIDE DEF B, C
  <2>3. /\ Cardinality(B) <= Cardinality(C)
        /\ Cardinality(B) # Cardinality(C)
    BY <2>1, <2>2, FS_Subset
  <2>4. Cardinality(B) \in Nat /\ Cardinality(C) \in Nat
    BY <2>1, <2>2, FS_Subset, FS_CardinalityType
  <2>5. Cardinality(B) < Cardinality(C)
    BY <2>3, <2>4
  <2>6. QED
    BY <2>5 DEF B, C
<1>5. rank \in [A -> 1 .. N]
  BY <1>1, <1>2, <1>3
<1>6. ASSUME NEW i \in A, NEW j \in A,
             Cardinality(below(i)) = Cardinality(below(j))
      PROVE  i = j
  <2>1. i \in Nat /\ j \in Nat /\ Cardinality(below(i)) \in Nat
    BY <1>2
  <2>2. ~(i < j) /\ ~(j < i)
    BY <1>4, <1>6, <2>1
  <2>3. QED
    BY <2>1, <2>2
<1>7. rank \in Injection(A, 1 .. N)
  <2>1. ASSUME NEW i \in A, NEW j \in A, rank[i] = rank[j] PROVE i = j
    <3> DEFINE x == Cardinality(below(i))
               y == Cardinality(below(j))
    <3>1. x \in Nat /\ y \in Nat /\ x + 1 = y + 1
      BY <1>2, <2>1
    <3> HIDE DEF x, y
    <3>2. x = y
      BY <3>1
    <3>3. QED
      BY <1>6, <3>2 DEF x, y
  <2> HIDE DEF rank
  <2>2. QED
    BY <1>5, <2>1 DEF Injection, IsInjective
<1>8. rank \in Surjection(A, 1 .. N)
  <2>1. IsFiniteSet(1 .. N) /\ Cardinality(1 .. N) = N
    BY <1>1, FS_Interval
  <2> HIDE DEF rank, below
  <2>2. QED
    BY <1>7, <2>1, FS_Injection
<1>9. ASSUME NEW k \in 1 .. N
      PROVE  \E i \in A : Cardinality(below(i)) = k - 1
  <2>1. PICK i \in A : rank[i] = k
    BY <1>8 DEF Surjection
  <2> DEFINE x == Cardinality(below(i))
  <2>2. x \in Nat /\ x + 1 = k
    BY <1>2, <2>1
  <2> HIDE DEF x
  <2>3. x = k - 1
    BY <1>1, <2>2
  <2>4. QED
    BY <2>3 DEF x
<1>10. \A i \in A : Cardinality(below(i)) + 1 \in 1 .. N
  BY <1>1, <1>2, <1>3
<1> HIDE DEF rank
<1>11. QED
  BY <1>1, <1>6, <1>9, <1>10

(* Of finitely many things, one comes last by one number and, among those, *)
(* by another that tells them apart.                                       *)
LEMMA LastInOrder ==
  ASSUME NEW S, IsFiniteSet(S), S # {}, NEW f \in [S -> Int],
         NEW g \in [S -> Int], \A b, c \in S : g[b] = g[c] => b = c
  PROVE  \E m \in S : \A s \in S \ {m} :
            f[s] < f[m] \/ (f[s] = f[m] /\ g[s] < g[m])
<1>1. PICK top \in S : \A s \in S : f[s] <= f[top]
  BY SomeLatest
<1> DEFINE T == {s \in S : f[s] = f[top]}
<1>2. T \in SUBSET S /\ T # {}
  OBVIOUS
<1>3. PICK m \in T : \A s \in T : g[s] <= g[m]
  <2> HIDE DEF T
  <2>1. QED
    BY <1>2, SomeLatest
<1>4. ASSUME NEW s \in S \ {m}
      PROVE  f[s] < f[m] \/ (f[s] = f[m] /\ g[s] < g[m])
  <2>1. /\ f[s] \in Int /\ f[m] \in Int /\ g[s] \in Int /\ g[m] \in Int
        /\ f[m] = f[top] /\ f[s] <= f[m] /\ g[s] # g[m]
    BY <1>1
  <2>2. f[s] = f[m] => g[s] <= g[m]
    BY <1>3, <2>1
  <2>3. QED
    BY <2>1, <2>2
<1>5. QED
  BY <1>2, <1>4

(* What a function reaches from a finite set is finite.                    *)
LEMMA ImageIsFinite ==
  ASSUME NEW S, IsFiniteSet(S), NEW f, NEW T, \A x \in S : f[x] \in T,
         \A y \in T : \E x \in S : f[x] = y
  PROVE  IsFiniteSet(T)
<1> DEFINE g == [x \in S |-> f[x]]
<1>1. g \in Surjection(S, T)
  BY DEF Surjection
<1> HIDE DEF g
<1>2. QED
  BY <1>1, FS_Surjection

(* Of every size up to that of the set there are as many largest entries.  *)
LEMMA LargestExist ==
  ASSUME NEW S, IsFiniteSet(S), NEW f \in [S -> Int],
         NEW n \in Nat, n <= Cardinality(S)
  PROVE  \E T \in SUBSET S :
            /\ Cardinality(T) = n
            /\ \A k \in T, l \in S \ T : f[k] >= f[l]
<1> DEFINE Largest(T, k) ==
              /\ Cardinality(T) = k
              /\ \A i \in T, j \in S \ T : f[i] >= f[j]
           Bad == {k \in Nat : /\ k <= Cardinality(S)
                               /\ \A T \in SUBSET S : ~Largest(T, k)}
<1>1. Cardinality(S) \in Nat
  BY FS_CardinalityType
<1>2. CASE Bad = {}
  BY <1>2
<1>3. CASE Bad # {}
  <2>1. PICK m \in Bad : \A k \in Bad : m <= k
    <3>1. Bad \in SUBSET Nat
      OBVIOUS
    <3> HIDE DEF Bad
    <3>2. QED
      BY <1>3, <3>1, LeastNumber
  <2>2. /\ m \in Nat /\ m <= Cardinality(S)
        /\ \A T \in SUBSET S : ~Largest(T, m)
    BY <2>1
  <2>3. m # 0
    <3>1. Largest({}, 0)
      BY FS_EmptySet
    <3>2. {} \in SUBSET S
      OBVIOUS
    <3> HIDE DEF Largest
    <3>3. QED
      BY <2>2, <3>1, <3>2
  <2>4. PICK T \in SUBSET S : Largest(T, m - 1)
    <3>1. m - 1 \in Nat /\ m - 1 <= Cardinality(S) /\ ~(m <= m - 1)
      BY <1>1, <2>2, <2>3
    <3>2. m - 1 \notin Bad
      BY <2>1, <3>1
    <3> HIDE DEF Largest
    <3>3. QED
      BY <3>1, <3>2
  <2>5. IsFiniteSet(T) /\ Cardinality(T) = m - 1
    BY <2>4, FS_Subset
  <2>6. S \ T # {}
    <3>1. S \ T = {} => S = T
      OBVIOUS
    <3>2. QED
      BY <1>1, <2>2, <2>5, <3>1
  <2>7. PICK x \in S \ T : \A y \in S \ T : f[y] <= f[x]
    <3>1. S \ T \in SUBSET S
      OBVIOUS
    <3>2. QED
      BY <2>6, <3>1, SomeLatest
  <2>8. Cardinality(T \union {x}) = m
    <3>1. Cardinality(T \union {x}) = Cardinality(T) + 1
      BY <2>5, <2>7, FS_AddElement
    <3>2. QED
      BY <2>2, <2>5, <3>1
  <2>9. ASSUME NEW i \in T \union {x}, NEW j \in S \ (T \union {x})
        PROVE  f[i] >= f[j]
    <3>1. f[i] \in Int /\ f[j] \in Int
      BY <2>7
    <3>2. CASE i \in T
      BY <2>4, <3>2
    <3>3. CASE i = x
      BY <2>7, <3>1, <3>3
    <3>4. QED
      BY <3>2, <3>3
  <2>10. T \union {x} \in SUBSET S /\ Largest(T \union {x}, m)
    BY <2>7, <2>8, <2>9
  <2> HIDE DEF Largest
  <2>11. QED
    BY <2>2, <2>10
<1>4. QED
  BY <1>2, <1>3

(***************************************************************************)
(* Products and quotients                                                  *)
(***************************************************************************)

LEMMA TimesOrdered ==
  ASSUME NEW x \in Int, NEW y \in Int, NEW n \in Nat, x <= y
  PROVE  n * x <= n * y /\ x * n <= y * n
<1>1. PICK z \in Nat : y = x + z
  <2>1. y - x \in Nat /\ y = x + (y - x)
    OBVIOUS
  <2>2. QED
    BY <2>1
<1>2. n * z \in Nat /\ n * y = n * x + n * z
  BY <1>1
<1>3. n * x \in Int /\ n * y \in Int /\ n * x = x * n /\ n * y = y * n
  OBVIOUS
<1>4. QED
  BY <1>2, <1>3

LEMMA Division ==
  ASSUME NEW n \in Int, NEW m \in Nat \ {0}
  PROVE  /\ n \div m \in Int /\ n % m \in 0 .. m - 1
         /\ n = m * (n \div m) + (n % m)
<1>1. n \div m \in Int /\ n % m \in 0 .. m - 1
  OBVIOUS
<1>2. n = m * (n \div m) + (n % m)
  OBVIOUS
<1>3. QED
  BY <1>1, <1>2

(***************************************************************************)
(* Sums over finite sets                                                   *)
(***************************************************************************)

(* Among sets of parts of a finite set there is a smallest one.            *)
LEMMA SmallestPart ==
  ASSUME NEW S, IsFiniteSet(S), NEW Bad \in SUBSET (SUBSET S), Bad # {}
  PROVE  \E q \in Bad : \A t \in Bad : t \subseteq q => t = q
<1>1. Bad \subseteq FiniteSubsetsOf(S)
  BY FS_FiniteSubsetsOfFinite
<1>2. PICK q \in Bad :
        \A t \in Bad : ~(<<t, q>> \in StrictSubsetOrdering(S))
  <2>1. IsWellFoundedOn(StrictSubsetOrdering(S), FiniteSubsetsOf(S))
    BY FS_StrictSubsetOrderingWellFounded
  <2>2. QED
    BY <1>1, <2>1, WFMin
<1>3. QED
  BY <1>2 DEF StrictSubsetOrdering

Pick(s) == CHOOSE x \in s : TRUE

(* The function that adds up the weights of a set, one picked element      *)
(* after the other, and what it gives for the whole set.                   *)
Adding(h, w, S) ==
    h = [s \in SUBSET S |->
            IF s = {} THEN 0 ELSE w[Pick(s)] + h[s \ {Pick(s)}]]
Total(w, S) == (CHOOSE h : Adding(h, w, S))[S]

LEMMA Picked == ASSUME NEW s, s # {} PROVE Pick(s) \in s
BY DEF Pick

LEMMA AddingStep ==
  ASSUME NEW S, NEW w, NEW h, Adding(h, w, S), NEW s \in SUBSET S
  PROVE  h[s] = IF s = {} THEN 0 ELSE w[Pick(s)] + h[s \ {Pick(s)}]
<1>1. h = [t \in SUBSET S |->
            IF t = {} THEN 0 ELSE w[Pick(t)] + h[t \ {Pick(t)}]]
  BY DEF Adding
<1>2. QED
  BY <1>1

(* There is at most one such function, also over a part of the set.        *)
LEMMA AddingIsUnique ==
  ASSUME NEW S, IsFiniteSet(S), NEW T \in SUBSET S, NEW w,
         NEW h, Adding(h, w, S), NEW g, Adding(g, w, T), NEW s \in SUBSET T
  PROVE  h[s] = g[s]
<1> DEFINE Bad == {t \in SUBSET T : h[t] # g[t]}
<1>1. CASE Bad = {}
  BY <1>1
<1>2. CASE Bad # {}
  <2>1. PICK q \in Bad : \A t \in Bad : t \subseteq q => t = q
    <3>1. Bad \in SUBSET (SUBSET S)
      OBVIOUS
    <3> HIDE DEF Bad
    <3>2. QED
      BY <1>2, <3>1, SmallestPart
  <2>2. q \in SUBSET T /\ q \in SUBSET S /\ h[q] # g[q]
    BY <2>1
  <2>3. CASE q = {}
    BY <2>2, <2>3, AddingStep
  <2>4. CASE q # {}
    <3>1. Pick(q) \in q
      BY <2>4, Picked
    <3>2. q \ {Pick(q)} \notin Bad
      BY <2>1, <3>1
    <3>3. h[q \ {Pick(q)}] = g[q \ {Pick(q)}]
      BY <2>2, <3>2
    <3> HIDE DEF Bad
    <3>4. h[q] = IF q = {} THEN 0 ELSE w[Pick(q)] + h[q \ {Pick(q)}]
      BY <2>2, AddingStep
    <3>5. g[q] = IF q = {} THEN 0 ELSE w[Pick(q)] + g[q \ {Pick(q)}]
      BY <2>2, AddingStep
    <3>6. QED
      BY <2>2, <2>4, <3>3, <3>4, <3>5
  <2>5. QED
    BY <2>3, <2>4
<1>3. QED
  BY <1>1, <1>2

(* And there is one.                                                       *)
LEMMA AddingExists ==
  ASSUME NEW S, IsFiniteSet(S), NEW w
  PROVE  \E h : Adding(h, w, S)
<1> DEFINE Bad == {q \in SUBSET S : ~\E h : Adding(h, w, q)}
<1>1. CASE Bad = {}
  BY <1>1
<1>2. CASE Bad # {}
  <2>1. PICK q \in Bad : \A t \in Bad : t \subseteq q => t = q
    <3>1. Bad \in SUBSET (SUBSET S)
      OBVIOUS
    <3> HIDE DEF Bad
    <3>2. QED
      BY <1>2, <3>1, SmallestPart
  <2>2. q \in SUBSET S /\ ~\E h : Adding(h, w, q)
    BY <2>1
  <2>3. ASSUME NEW t \in SUBSET q, t # q
        PROVE  /\ IsFiniteSet(t)
               /\ Adding(CHOOSE h : Adding(h, w, t), w, t)
    <3>1. t \in SUBSET S /\ t \notin Bad
      BY <2>1, <2>2, <2>3
    <3>2. \E h : Adding(h, w, t)
      BY <3>1
    <3>3. QED
      BY <3>1, <3>2, FS_Subset
  <2> DEFINE g == [s \in SUBSET q |->
                     IF s = {} THEN 0
                     ELSE w[Pick(s)] + Total(w, s \ {Pick(s)})]
  <2>4. ASSUME NEW t \in SUBSET q, t # q PROVE g[t] = Total(w, t)
    <3> DEFINE h == CHOOSE k : Adding(k, w, t)
    <3>1. Adding(h, w, t) /\ IsFiniteSet(t) /\ Total(w, t) = h[t]
      BY <2>3, <2>4 DEF Total
    <3> HIDE DEF h
    <3>2. h[t] = IF t = {} THEN 0 ELSE w[Pick(t)] + h[t \ {Pick(t)}]
      BY <3>1, AddingStep
    <3>3. CASE t = {}
      BY <3>1, <3>2, <3>3
    <3>4. CASE t # {}
      <4> DEFINE u == t \ {Pick(t)}
                 k == CHOOSE j : Adding(j, w, u)
      <4>1. u \in SUBSET q /\ u # q /\ u \in SUBSET t
        BY <2>4, <3>4, Picked
      <4>2. Adding(k, w, u) /\ Total(w, u) = k[u]
        BY <2>3, <4>1 DEF Total
      <4> HIDE DEF k
      <4>3. h[u] = k[u]
        <5> HIDE DEF u
        <5>1. u \in SUBSET u
          OBVIOUS
        <5>2. QED
          BY <3>1, <4>1, <4>2, <5>1, AddingIsUnique
      <4>4. QED
        BY <2>4, <3>1, <3>2, <3>4, <4>2, <4>3
    <3>5. QED
      BY <3>3, <3>4
  <2>5. ASSUME NEW s \in SUBSET q, s # {}
        PROVE  g[s] = w[Pick(s)] + g[s \ {Pick(s)}]
    <3>1. s \ {Pick(s)} \in SUBSET q /\ s \ {Pick(s)} # q
      BY <2>5, Picked
    <3>2. g[s \ {Pick(s)}] = Total(w, s \ {Pick(s)})
      BY <2>4, <3>1
    <3>3. QED
      BY <2>5, <3>2
  <2>6. Adding(g, w, q)
    <3>1. \A s \in SUBSET q :
            g[s] = IF s = {} THEN 0 ELSE w[Pick(s)] + g[s \ {Pick(s)}]
      BY <2>5
    <3>2. g = [s \in SUBSET q |-> g[s]]
      OBVIOUS
    <3> HIDE DEF g
    <3>3. QED
      BY <3>1, <3>2 DEF Adding
  <2>7. QED
    BY <2>2, <2>6
<1>3. QED
  BY <1>1, <1>2

LEMMA TotalAdds ==
  ASSUME NEW S, IsFiniteSet(S), NEW w, NEW h, Adding(h, w, S)
  PROVE  /\ Total(w, S) = h[S]
         /\ \A T \in SUBSET S : Total(w, T) = h[T]
<1>1. ASSUME NEW T \in SUBSET S PROVE Total(w, T) = h[T]
  <2> DEFINE k == CHOOSE j : Adding(j, w, T)
  <2>1. Adding(k, w, T)
    BY AddingExists, FS_Subset
  <2>2. Total(w, T) = k[T]
    BY DEF Total
  <2> HIDE DEF k
  <2>3. T \in SUBSET T
    OBVIOUS
  <2>4. h[T] = k[T]
    BY <2>1, <2>3, AddingIsUnique
  <2>5. QED
    BY <2>2, <2>4
<1>2. QED
  BY <1>1

LEMMA TotalOfNone == ASSUME NEW w PROVE Total(w, {}) = 0
<1>1. PICK h : Adding(h, w, {})
  BY AddingExists, FS_EmptySet
<1>2. QED
  BY <1>1, AddingStep, TotalAdds, FS_EmptySet

LEMMA TotalPicks ==
  ASSUME NEW S, IsFiniteSet(S), S # {}, NEW w
  PROVE  Total(w, S) = w[Pick(S)] + Total(w, S \ {Pick(S)})
<1>1. PICK h : Adding(h, w, S)
  BY AddingExists
<1>2. S \in SUBSET S /\ S \ {Pick(S)} \in SUBSET S
  OBVIOUS
<1>3. /\ Total(w, S) = h[S]
      /\ Total(w, S \ {Pick(S)}) = h[S \ {Pick(S)}]
  BY <1>1, <1>2, TotalAdds
<1>4. h[S] = w[Pick(S)] + h[S \ {Pick(S)}]
  BY <1>1, <1>2, AddingStep
<1>5. QED
  BY <1>3, <1>4

(* A sum of integers is one.                                               *)
LEMMA TotalTyped ==
  ASSUME NEW S, IsFiniteSet(S), NEW w, \A x \in S : w[x] \in Int
  PROVE  Total(w, S) \in Int
<1> DEFINE Bad == {q \in SUBSET S : Total(w, q) \notin Int}
<1>1. CASE Bad = {}
  BY <1>1
<1>2. CASE Bad # {}
  <2>1. PICK q \in Bad : \A t \in Bad : t \subseteq q => t = q
    <3>1. Bad \in SUBSET (SUBSET S)
      OBVIOUS
    <3> HIDE DEF Bad
    <3>2. QED
      BY <1>2, <3>1, SmallestPart
  <2>2. q \in SUBSET S /\ Total(w, q) \notin Int /\ IsFiniteSet(q)
    BY <2>1, FS_Subset
  <2>3. q # {}
    BY <2>2, TotalOfNone
  <2>4. Pick(q) \in q
    BY <2>3, Picked
  <2>5. q \ {Pick(q)} \notin Bad
    BY <2>1, <2>4
  <2>6. Total(w, q \ {Pick(q)}) \in Int
    BY <2>2, <2>5
  <2> HIDE DEF Bad
  <2>7. Total(w, q) = w[Pick(q)] + Total(w, q \ {Pick(q)})
    BY <2>2, <2>3, TotalPicks
  <2>8. w[Pick(q)] \in Int
    BY <2>2, <2>4
  <2>9. QED
    BY <2>2, <2>6, <2>7, <2>8
<1>3. QED
  BY <1>1, <1>2

(* Any element may be added last.                                          *)
LEMMA TotalLessOne ==
  ASSUME NEW S, IsFiniteSet(S), NEW w, \A y \in S : w[y] \in Int,
         NEW x \in S
  PROVE  Total(w, S) = w[x] + Total(w, S \ {x})
<1> DEFINE Holds(q, y) == Total(w, q) = w[y] + Total(w, q \ {y})
           Bad == {q \in SUBSET S : \E y \in q : ~Holds(q, y)}
<1>1. CASE Bad = {}
  BY <1>1
<1>2. CASE Bad # {}
  <2>1. PICK q \in Bad : \A t \in Bad : t \subseteq q => t = q
    <3>1. Bad \in SUBSET (SUBSET S)
      OBVIOUS
    <3> HIDE DEF Bad
    <3>2. QED
      BY <1>2, <3>1, SmallestPart
  <2>2. q \in SUBSET S /\ IsFiniteSet(q)
    BY <2>1, FS_Subset
  <2>3. PICK y \in q : ~Holds(q, y)
    BY <2>1
  <2> DEFINE p == Pick(q)
  <2>4. p \in q
    BY <2>3, Picked
  <2>5. Total(w, q) = w[p] + Total(w, q \ {p})
    BY <2>2, <2>3, TotalPicks
  <2> HIDE DEF p
  <2>6. p # y
    BY <2>3, <2>5
  <2>7. Holds(q \ {p}, y) /\ Holds(q \ {y}, p)
    <3>1. q \ {p} \notin Bad /\ q \ {y} \notin Bad
      BY <2>1, <2>3, <2>4
    <3>2. /\ q \ {p} \in SUBSET S /\ y \in q \ {p}
          /\ q \ {y} \in SUBSET S /\ p \in q \ {y}
      BY <2>2, <2>3, <2>4, <2>6
    <3> HIDE DEF Holds
    <3>3. QED
      BY <3>1, <3>2
  <2> HIDE DEF Bad
  <2>8. (q \ {p}) \ {y} = (q \ {y}) \ {p}
    OBVIOUS
  <2>9. /\ w[p] \in Int /\ w[y] \in Int
        /\ Total(w, (q \ {p}) \ {y}) \in Int
    <3>1. /\ IsFiniteSet((q \ {p}) \ {y})
          /\ \A z \in (q \ {p}) \ {y} : w[z] \in Int
      BY <2>2, FS_Subset
    <3>2. QED
      BY <2>2, <2>3, <2>4, <3>1, TotalTyped
  <2>10. Total(w, q) = w[p] + (w[y] + Total(w, (q \ {p}) \ {y}))
    BY <2>5, <2>7
  <2>11. Total(w, q \ {y}) = w[p] + Total(w, (q \ {p}) \ {y})
    BY <2>7, <2>8
  <2>12. Holds(q, y)
    BY <2>9, <2>10, <2>11
  <2>13. QED
    BY <2>3, <2>12
<1>3. QED
  BY <1>1, <1>2

(* Only the weights of the elements count.                                 *)
LEMMA TotalSame ==
  ASSUME NEW S, IsFiniteSet(S), NEW w, NEW v, \A x \in S : w[x] = v[x]
  PROVE  Total(w, S) = Total(v, S)
<1>1. PICK h : Adding(h, w, S)
  BY AddingExists
<1>2. Adding(h, v, S)
  <2>1. ASSUME NEW s \in SUBSET S
        PROVE  h[s] = IF s = {} THEN 0 ELSE v[Pick(s)] + h[s \ {Pick(s)}]
    <3>1. h[s] = IF s = {} THEN 0 ELSE w[Pick(s)] + h[s \ {Pick(s)}]
      BY <1>1, AddingStep
    <3>2. s # {} => Pick(s) \in S
      BY Picked
    <3>3. QED
      BY <3>1, <3>2
  <2>2. h = [s \in SUBSET S |-> h[s]]
    BY <1>1 DEF Adding
  <2>3. QED
    BY <2>1, <2>2 DEF Adding
<1>3. QED
  BY <1>1, <1>2, TotalAdds

LEMMA TotalOfOne ==
  ASSUME NEW w, NEW x, w[x] \in Int
  PROVE  Total(w, {x}) = w[x]
<1>1. IsFiniteSet({x}) /\ {x} \ {x} = {} /\ \A y \in {x} : w[y] \in Int
  BY FS_Singleton
<1>2. Total(w, {x}) = w[x] + Total(w, {})
  BY <1>1, TotalLessOne
<1>3. QED
  BY <1>2, TotalOfNone

(* What f throws together may be added first.                              *)
Fibre(f, S, k) == {x \in S : f[x] = k}
Gathered(w, f, S, K) == [k \in K |-> Total(w, Fibre(f, S, k))]

LEMMA GatheredTyped ==
  ASSUME NEW S, IsFiniteSet(S), NEW w, \A x \in S : w[x] \in Int,
         NEW K, NEW f, NEW k \in K
  PROVE  Gathered(w, f, S, K)[k] \in Int
<1>1. Fibre(f, S, k) \in SUBSET S
  BY DEF Fibre
<1>2. IsFiniteSet(Fibre(f, S, k)) /\ \A x \in Fibre(f, S, k) : w[x] \in Int
  BY <1>1, FS_Subset
<1>3. QED
  BY <1>2, TotalTyped DEF Gathered

LEMMA TotalGathers ==
  ASSUME NEW S, IsFiniteSet(S), NEW w, \A x \in S : w[x] \in Int,
         NEW K, IsFiniteSet(K), NEW f, \A x \in S : f[x] \in K
  PROVE  Total(w, S) = Total(Gathered(w, f, S, K), K)
<1> DEFINE Holds(q) == Total(w, q) = Total(Gathered(w, f, q, K), K)
           Bad == {q \in SUBSET S : ~Holds(q)}
<1>1. CASE Bad = {}
  BY <1>1
<1>2. CASE Bad # {}
  <2>1. PICK q \in Bad : \A t \in Bad : t \subseteq q => t = q
    <3>1. Bad \in SUBSET (SUBSET S)
      OBVIOUS
    <3> HIDE DEF Bad
    <3>2. QED
      BY <1>2, <3>1, SmallestPart
  <2>2. q \in SUBSET S /\ IsFiniteSet(q) /\ ~Holds(q)
    BY <2>1, FS_Subset
  <2>3. CASE q = {}
    <3> DEFINE nothing == [k \in K |-> 0]
    <3>1. \A k \in K : Gathered(w, f, q, K)[k] = nothing[k]
      BY <2>3, TotalOfNone DEF Gathered, Fibre
    <3>2. Total(Gathered(w, f, q, K), K) = Total(nothing, K)
      <4> HIDE DEF nothing
      <4>1. QED
        BY <3>1, TotalSame
    <3>3. Total(nothing, K) = 0
      <4> DEFINE Odd == {t \in SUBSET K : Total(nothing, t) # 0}
      <4>1. CASE Odd = {}
        BY <4>1
      <4>2. CASE Odd # {}
        <5>1. PICK t \in Odd : \A u \in Odd : u \subseteq t => u = t
          <6>1. Odd \in SUBSET (SUBSET K)
            OBVIOUS
          <6> HIDE DEF Odd
          <6>2. QED
            BY <4>2, <6>1, SmallestPart
        <5>2. /\ t \in SUBSET K /\ IsFiniteSet(t) /\ Total(nothing, t) # 0
              /\ t # {}
          BY <5>1, FS_Subset, TotalOfNone
        <5>3. Pick(t) \in t /\ Total(nothing, t \ {Pick(t)}) = 0
          BY <5>1, <5>2, Picked
        <5>4. nothing[Pick(t)] = 0
          BY <5>2, <5>3
        <5> HIDE DEF Odd, nothing
        <5>5. Total(nothing, t)
                = nothing[Pick(t)] + Total(nothing, t \ {Pick(t)})
          BY <5>2, TotalPicks
        <5>6. QED
          BY <5>2, <5>3, <5>4, <5>5
      <4>3. QED
        BY <4>1, <4>2
    <3>4. QED
      BY <2>2, <2>3, <3>2, <3>3, TotalOfNone
  <2>4. CASE q # {}
    <3>1. PICK x : x \in q
      BY <2>4
    <3> DEFINE r == q \ {x}
               m == f[x]
               v == Gathered(w, f, q, K)
               u == Gathered(w, f, r, K)
    <3>2. Holds(r)
      <4>1. r \notin Bad /\ r \in SUBSET S
        BY <2>1, <2>2, <3>1
      <4> HIDE DEF Holds
      <4>2. QED
        BY <4>1
    <3>3. /\ \A y \in q : w[y] \in Int
          /\ \A y \in r : w[y] \in Int
          /\ IsFiniteSet(r) /\ m \in K /\ IsFiniteSet(K \ {m})
      BY <2>2, <3>1, FS_Subset
    <3>4. Total(w, q) = w[x] + Total(w, r)
      BY <2>2, <3>1, <3>3, TotalLessOne
    <3>5. v[m] = w[x] + u[m]
      <4>1. /\ Fibre(f, r, m) = Fibre(f, q, m) \ {x}
            /\ x \in Fibre(f, q, m)
            /\ Fibre(f, q, m) \in SUBSET q
        BY <3>1 DEF Fibre
      <4>2. /\ IsFiniteSet(Fibre(f, q, m))
            /\ \A y \in Fibre(f, q, m) : w[y] \in Int
        BY <2>2, <3>3, <4>1, FS_Subset
      <4>3. Total(w, Fibre(f, q, m)) = w[x] + Total(w, Fibre(f, r, m))
        <5> HIDE DEF r, m
        <5>1. Total(w, Fibre(f, q, m))
                = w[x] + Total(w, Fibre(f, q, m) \ {x})
          BY <4>1, <4>2, TotalLessOne
        <5>2. QED
          BY <4>1, <5>1
      <4>4. QED
        BY <3>3, <4>3 DEF Gathered
    <3>6. \A k \in K \ {m} : v[k] = u[k]
      <4>1. \A k \in K \ {m} : Fibre(f, q, k) = Fibre(f, r, k)
        BY DEF Fibre
      <4>2. QED
        BY <4>1 DEF Gathered
    <3>7. /\ \A k \in K : v[k] \in Int
          /\ \A k \in K : u[k] \in Int
      BY <2>2, <3>3, GatheredTyped
    <3> HIDE DEF v, u, m, Bad
    <3>8. Total(v, K \ {m}) = Total(u, K \ {m})
      BY <3>3, <3>6, TotalSame
    <3>9. /\ Total(v, K) = v[m] + Total(v, K \ {m})
          /\ Total(u, K) = u[m] + Total(u, K \ {m})
      BY <3>3, <3>7, TotalLessOne
    <3>10. Total(u, K \ {m}) \in Int /\ u[m] \in Int /\ w[x] \in Int
      BY <3>1, <3>3, <3>7, TotalTyped
    <3>11. Total(v, K) = w[x] + Total(u, K)
      BY <3>5, <3>8, <3>9, <3>10
    <3>12. QED
      BY <2>2, <3>2, <3>4, <3>11 DEF v, u
  <2>5. QED
    BY <2>3, <2>4
<1>3. QED
  BY <1>1, <1>2

(* A sum does not depend on what carries the weights.                      *)
LEMMA TotalMoved ==
  ASSUME NEW S, IsFiniteSet(S), NEW w, \A x \in S : w[x] \in Int,
         NEW T, IsFiniteSet(T), NEW v, NEW f,
         \A x \in S : f[x] \in T /\ v[f[x]] = w[x],
         \A x, y \in S : f[x] = f[y] => x = y,
         \A z \in T : \E x \in S : f[x] = z
  PROVE  Total(w, S) = Total(v, T)
<1>1. Total(w, S) = Total(Gathered(w, f, S, T), T)
  BY TotalGathers
<1>2. ASSUME NEW z \in T PROVE Gathered(w, f, S, T)[z] = v[z]
  <2>1. PICK x \in S : f[x] = z
    OBVIOUS
  <2>2. Fibre(f, S, z) = {x}
    BY <2>1 DEF Fibre
  <2>3. Total(w, {x}) = w[x]
    BY TotalOfOne
  <2>4. QED
    BY <2>1, <2>2, <2>3 DEF Gathered
<1>3. QED
  BY <1>1, <1>2, TotalSame

(* A part of a set and the rest add up to the whole.                       *)
LEMMA TotalSplit ==
  ASSUME NEW S, IsFiniteSet(S), NEW w, \A x \in S : w[x] \in Int,
         NEW T \in SUBSET S
  PROVE  Total(w, S) = Total(w, T) + Total(w, S \ T)
<1> DEFINE f == [x \in S |-> IF x \in T THEN 1 ELSE 2]
           g == Gathered(w, f, S, {1, 2})
<1>1. IsFiniteSet({1, 2}) /\ \A x \in S : f[x] \in {1, 2}
  <2>1. IsFiniteSet({1}) /\ {1, 2} = {1} \union {2}
    BY FS_Singleton
  <2>2. IsFiniteSet({1} \union {2})
    BY <2>1, FS_AddElement, Zenon
  <2>3. QED
    BY <2>1, <2>2
<1>2. Fibre(f, S, 1) = T /\ Fibre(f, S, 2) = S \ T
  BY DEF Fibre
<1>3. g[1] = Total(w, T) /\ g[2] = Total(w, S \ T)
  BY <1>2 DEF Gathered
<1> HIDE DEF f
<1>4. Total(w, S) = Total(g, {1, 2})
  BY <1>1, TotalGathers
<1>5. g[1] \in Int /\ g[2] \in Int
  BY GatheredTyped
<1> HIDE DEF g
<1>6. Total(g, {1, 2}) = g[1] + Total(g, {2})
  <2>1. {1, 2} \ {1} = {2}
    OBVIOUS
  <2>2. \A k \in {1, 2} : g[k] \in Int
    BY <1>5
  <2>3. Total(g, {1, 2}) = g[1] + Total(g, {1, 2} \ {1})
    BY <1>1, <2>2, TotalLessOne
  <2>4. QED
    BY <2>1, <2>3
<1>7. Total(g, {2}) = g[2]
  BY <1>5, TotalOfOne
<1>8. QED
  BY <1>3, <1>4, <1>6, <1>7

(* What is not negative makes a sum no smaller.                            *)
LEMMA TotalGrows ==
  ASSUME NEW S, IsFiniteSet(S), NEW w, \A x \in S : w[x] \in Int,
         NEW T \in SUBSET S, \A x \in S \ T : w[x] >= 0
  PROVE  Total(w, T) <= Total(w, S)
<1> DEFINE Bad == {q \in SUBSET S : T \subseteq q
                                      /\ ~(Total(w, T) <= Total(w, q))}
<1>1. CASE Bad = {}
  BY <1>1
<1>2. CASE Bad # {}
  <2>1. PICK q \in Bad : \A t \in Bad : t \subseteq q => t = q
    <3>1. Bad \in SUBSET (SUBSET S)
      OBVIOUS
    <3> HIDE DEF Bad
    <3>2. QED
      BY <1>2, <3>1, SmallestPart
  <2>2. /\ q \in SUBSET S /\ T \subseteq q /\ IsFiniteSet(q)
        /\ ~(Total(w, T) <= Total(w, q))
    BY <2>1, FS_Subset
  <2>3. Total(w, T) \in Int
    BY FS_Subset, TotalTyped
  <2>4. PICK x \in q : x \notin T
    <3>1. q # T
      BY <2>2, <2>3
    <3>2. QED
      BY <2>2, <3>1
  <2>5. /\ q \ {x} \in SUBSET S /\ T \subseteq q \ {x}
        /\ q \ {x} \notin Bad
    BY <2>1, <2>2, <2>4
  <2>6. Total(w, T) <= Total(w, q \ {x})
    BY <2>5
  <2> HIDE DEF Bad
  <2>7. /\ \A y \in q : w[y] \in Int
        /\ w[x] \in Int /\ w[x] >= 0
    BY <2>2, <2>4
  <2>8. Total(w, q \ {x}) \in Int
    BY <2>5, <2>7, FS_Subset, TotalTyped
  <2>9. Total(w, q) = w[x] + Total(w, q \ {x})
    BY <2>2, <2>4, <2>7, TotalLessOne
  <2>10. QED
    BY <2>2, <2>3, <2>6, <2>7, <2>8, <2>9
<1>3. QED
  BY <1>1, <1>2

LEMMA TotalOrdered ==
  ASSUME NEW S, IsFiniteSet(S), NEW w, NEW v,
         \A x \in S : w[x] \in Int /\ v[x] \in Int /\ w[x] <= v[x]
  PROVE  Total(w, S) <= Total(v, S)
<1> DEFINE Bad == {q \in SUBSET S : ~(Total(w, q) <= Total(v, q))}
<1>1. CASE Bad = {}
  BY <1>1
<1>2. CASE Bad # {}
  <2>1. PICK q \in Bad : \A t \in Bad : t \subseteq q => t = q
    <3>1. Bad \in SUBSET (SUBSET S)
      OBVIOUS
    <3> HIDE DEF Bad
    <3>2. QED
      BY <1>2, <3>1, SmallestPart
  <2>2. /\ q \in SUBSET S /\ IsFiniteSet(q)
        /\ ~(Total(w, q) <= Total(v, q))
    BY <2>1, FS_Subset
  <2>3. q # {}
    BY <2>2, TotalOfNone
  <2>4. PICK x : x \in q
    BY <2>3
  <2>5. q \ {x} \in SUBSET S /\ q \ {x} \notin Bad
    BY <2>1, <2>2, <2>4
  <2>6. Total(w, q \ {x}) <= Total(v, q \ {x})
    BY <2>5
  <2> HIDE DEF Bad
  <2>7. /\ \A y \in q : w[y] \in Int /\ v[y] \in Int
        /\ w[x] \in Int /\ v[x] \in Int /\ w[x] <= v[x]
    BY <2>2, <2>4
  <2>8. Total(w, q \ {x}) \in Int /\ Total(v, q \ {x}) \in Int
    BY <2>5, <2>7, FS_Subset, TotalTyped
  <2>9. /\ Total(w, q) = w[x] + Total(w, q \ {x})
        /\ Total(v, q) = v[x] + Total(v, q \ {x})
    BY <2>2, <2>4, <2>7, TotalLessOne
  <2>10. QED
    BY <2>2, <2>6, <2>7, <2>8, <2>9
<1>3. QED
  BY <1>1, <1>2

(* The sum of the code is such a total.                                    *)
LEMMA SumIsTotal ==
  ASSUME NEW S, IsFiniteSet(S), NEW w
  PROVE  MapThenSumSet(LAMBDA x : w[x], S) = Total(w, S)
<1> DEFINE Folds(h) ==
             h = [s \in SUBSET S |->
                    IF s = {} THEN 0
                    ELSE w[CHOOSE x \in s : TRUE]
                            + h[s \ {CHOOSE x \in s : TRUE}]]
<1>1. MapThenSumSet(LAMBDA x : w[x], S) = (CHOOSE h : Folds(h))[S]
  BY Zenon DEF MapThenSumSet, MapThenFoldSet
<1>2. ASSUME NEW h PROVE Folds(h) <=> Adding(h, w, S)
  BY DEF Adding, Pick
<1> HIDE DEF Folds
<1>3. Adding(CHOOSE h : Folds(h), w, S)
  <2>1. PICK h : Adding(h, w, S)
    BY AddingExists
  <2>2. Folds(h)
    BY <1>2, <2>1
  <2>3. Folds(CHOOSE k : Folds(k))
    BY <2>2
  <2>4. QED
    BY <1>2, <2>3
<1>4. QED
  BY <1>1, <1>3, TotalAdds

(* The same of the amounts of a function's entries.                        *)
LEMMA PointsAreTotal ==
  ASSUME NEW S, IsFiniteSet(S), NEW t, NEW w,
         \A p \in S : w[p] = t[p].amount
  PROVE  MapThenSumSet(LAMBDA p : t[p].amount, S) = Total(w, S)
<1> DEFINE v == [p \in S |-> t[p].amount]
           Folds(h) ==
             h = [s \in SUBSET S |->
                    IF s = {} THEN 0
                    ELSE t[CHOOSE x \in s : TRUE].amount
                            + h[s \ {CHOOSE x \in s : TRUE}]]
<1>1. MapThenSumSet(LAMBDA p : t[p].amount, S) = (CHOOSE h : Folds(h))[S]
  BY Zenon DEF MapThenSumSet, MapThenFoldSet
<1>2. ASSUME NEW h PROVE Folds(h) <=> Adding(h, v, S)
  <2>1. \A s \in SUBSET S : s # {} =>
          v[Pick(s)] = t[CHOOSE x \in s : TRUE].amount
    BY Picked DEF Pick
  <2>2. QED
    BY <2>1 DEF Adding, Pick
<1> HIDE DEF Folds
<1>3. Adding(CHOOSE h : Folds(h), v, S)
  <2>1. PICK h : Adding(h, v, S)
    BY AddingExists
  <2>2. Folds(h)
    BY <1>2, <2>1
  <2>3. Folds(CHOOSE k : Folds(k))
    BY <2>2
  <2>4. QED
    BY <1>2, <2>3
<1>4. Total(v, S) = Total(w, S)
  BY TotalSame
<1>5. QED
  BY <1>1, <1>3, <1>4, TotalAdds

(* Adding up a list from the left gives the sum of its entries.            *)
LEMMA FoldIsTotal ==
  ASSUME NEW n \in Nat, NEW list, DOMAIN list = 1 .. n,
         \A i \in 1 .. n : list[i] \in Int
  PROVE  FoldLeft(LAMBDA a, b : a + b, 0, list) = Total(list, 1 .. n)
<1> DEFINE S == 1 .. n
           g == [s \in SUBSET S |-> Total(list, s)]
           Folds(h) ==
              h = [s \in SUBSET S |->
                    IF s = {} THEN 0 ELSE h[s \ {Max(s)}] + list[Max(s)]]
<1>1. ASSUME NEW s \in SUBSET S
      PROVE  IsFiniteSet(s) /\ s \in SUBSET Nat /\ \A i \in s : list[i] \in Int
  <2>1. IsFiniteSet(S)
    BY FS_Interval
  <2>2. IsFiniteSet(s)
    BY <2>1, FS_Subset
  <2>3. QED
    BY <2>2
<1>2. ASSUME NEW s \in SUBSET S, s # {}
      PROVE  Max(s) \in s /\ s \ {Max(s)} \in SUBSET S
  BY <1>1, <1>2, MaxOfFinite
<1>3. Folds(g)
  <2>1. ASSUME NEW s \in SUBSET S
        PROVE  g[s] = IF s = {} THEN 0 ELSE g[s \ {Max(s)}] + list[Max(s)]
    <3>1. CASE s = {}
      BY <3>1, TotalOfNone
    <3>2. CASE s # {}
      <4> DEFINE m == Max(s)
                 r == s \ {m}
      <4>1. m \in s /\ r \in SUBSET S
        BY <1>2, <3>2
      <4> HIDE DEF m
      <4>2. Total(list, s) = list[m] + Total(list, r)
        BY <1>1, <4>1, TotalLessOne
      <4>3. Total(list, r) \in Int
        <5> HIDE DEF r
        <5>1. QED
          BY <1>1, <4>1, TotalTyped
      <4>4. list[m] \in Int
        BY <1>1, <4>1
      <4>5. Total(list, s) = Total(list, r) + list[m]
        <5> HIDE DEF r
        <5>1. QED
          BY <4>2, <4>3, <4>4
      <4>6. g[s] = Total(list, s) /\ g[r] = Total(list, r)
        BY <4>1
      <4> HIDE DEF g
      <4>7. g[s] = g[r] + list[m]
        BY <4>5, <4>6
      <4>8. QED
        BY <3>2, <4>7 DEF m
    <3>3. QED
      BY <3>1, <3>2
  <2>2. g = [s \in SUBSET S |-> g[s]]
    OBVIOUS
  <2> HIDE DEF g
  <2>3. QED
    BY <2>1, <2>2
<1>4. ASSUME NEW h, Folds(h), NEW s \in SUBSET S PROVE h[s] = g[s]
  <2> DEFINE Bad == {q \in SUBSET S : h[q] # g[q]}
  <2>1. CASE Bad = {}
    BY <2>1
  <2>2. CASE Bad # {}
    <3>1. PICK q \in Bad : \A t \in Bad : t \subseteq q => t = q
      <4>1. Bad \in SUBSET (SUBSET S)
        OBVIOUS
      <4>2. IsFiniteSet(S)
        BY FS_Interval
      <4> HIDE DEF Bad, S
      <4>3. QED
        BY <2>2, <4>1, <4>2, SmallestPart
    <3>2. q \in SUBSET S /\ h[q] # g[q]
      BY <3>1
    <3>3. \A t \in SUBSET S :
            /\ h[t] = IF t = {} THEN 0 ELSE h[t \ {Max(t)}] + list[Max(t)]
            /\ g[t] = IF t = {} THEN 0 ELSE g[t \ {Max(t)}] + list[Max(t)]
      <4> HIDE DEF g
      <4>1. QED
        BY <1>3, <1>4
    <3> HIDE DEF g
    <3>4. CASE q = {}
      BY <3>2, <3>3, <3>4
    <3>5. CASE q # {}
      <4>1. q \ {Max(q)} \notin Bad /\ q \ {Max(q)} \in SUBSET S
        BY <1>2, <3>1, <3>2, <3>5
      <4>2. h[q \ {Max(q)}] = g[q \ {Max(q)}]
        BY <4>1
      <4>3. QED
        BY <3>2, <3>3, <3>5, <4>2
    <3>6. QED
      BY <3>4, <3>5
  <2>3. QED
    BY <2>1, <2>2
<1>5. FoldLeft(LAMBDA a, b : a + b, 0, list) = (CHOOSE h : Folds(h))[S]
  BY Zenon DEF FoldLeft, MapThenFoldSet
<1>6. (CHOOSE h : Folds(h))[S] = g[S]
  <2> HIDE DEF g, Folds, S
  <2>1. Folds(CHOOSE h : Folds(h))
    BY <1>3
  <2>2. S \in SUBSET S
    OBVIOUS
  <2>3. QED
    BY <1>4, <2>1, <2>2
<1>7. g[S] = Total(list, S)
  OBVIOUS
<1> HIDE DEF g, Folds
<1>8. QED
  BY <1>5, <1>6, <1>7, Zenon

(* A sum of nothings is nothing.                                           *)
LEMMA TotalOfZeros ==
  ASSUME NEW S, IsFiniteSet(S), NEW w, \A x \in S : w[x] = 0
  PROVE  Total(w, S) = 0
<1>1. \A x \in S : w[x] \in Int /\ w[x] >= 0 /\ w[x] <= 0
  OBVIOUS
<1> DEFINE Bad == {q \in SUBSET S : Total(w, q) # 0}
<1>2. CASE Bad = {}
  BY <1>2
<1>3. CASE Bad # {}
  <2>1. PICK q \in Bad : \A t \in Bad : t \subseteq q => t = q
    <3>1. Bad \in SUBSET (SUBSET S)
      OBVIOUS
    <3> HIDE DEF Bad
    <3>2. QED
      BY <1>3, <3>1, SmallestPart
  <2>2. q \in SUBSET S /\ IsFiniteSet(q) /\ Total(w, q) # 0 /\ q # {}
    BY <2>1, FS_Subset, TotalOfNone
  <2>3. Pick(q) \in q
    BY <2>2, Picked
  <2>4. q \ {Pick(q)} \notin Bad
    BY <2>1, <2>3
  <2>5. Total(w, q \ {Pick(q)}) = 0 /\ w[Pick(q)] = 0
    BY <2>2, <2>3, <2>4
  <2> HIDE DEF Bad
  <2>6. Total(w, q) = w[Pick(q)] + Total(w, q \ {Pick(q)})
    BY <2>2, TotalPicks
  <2>7. QED
    BY <2>2, <2>5, <2>6
<1>4. QED
  BY <1>2, <1>3

(***************************************************************************)
(* The basis of a day                                                      *)
(***************************************************************************)

(* What a run writes of a day that it reaches.                             *)
Written(run, d, rowDays, provider) ==
    IF ResolveBasis(run.basis, provider) = CompleteRange THEN CompleteRange
    ELSE IF d \in rowDays THEN ObservedOnly ELSE NotObserved

Reaching(list, s, d) == {i \in s : d \in DaysOf(list[i].window)}

(* The last of the runs s that reach a day has written it.                 *)
LastWritten(list, s, known, rowDays, provider) ==
    [d \in DOMAIN known |->
        IF Reaching(list, s, d) = {} THEN known[d]
        ELSE Written(list[Max(Reaching(list, s, d))], d, rowDays, provider)]

(* One more run, later than the others, overwrites what it reaches.        *)
LEMMA OneMoreRun ==
  ASSUME NEW n \in Nat, NEW list, NEW known, NEW rowDays, NEW provider,
         NEW s \in SUBSET (1 .. n), s # {}
  PROVE  LastWritten(list, s, known, rowDays, provider) =
            ApplyRun(LastWritten(list, s \ {Max(s)}, known, rowDays, provider),
                     list[Max(s)], rowDays, provider)
<1>1. PICK m \in s : m = Max(s) /\ \A x \in s : x <= m
  <2>1. IsFiniteSet(1 .. n) /\ 1 .. n \in SUBSET Nat
    BY FS_Interval
  <2>2. IsFiniteSet(s) /\ s \in SUBSET Nat
    BY <2>1, FS_Subset
  <2>3. QED
    BY <2>2, MaxOfFinite
<1> DEFINE before == LastWritten(list, s \ {m}, known, rowDays, provider)
           after == LastWritten(list, s, known, rowDays, provider)
<1>2. ASSUME NEW d \in DOMAIN known
      PROVE  after[d] =
                IF d \notin DaysOf(list[m].window) THEN before[d]
                ELSE Written(list[m], d, rowDays, provider)
  <2>1. CASE d \notin DaysOf(list[m].window)
    <3>1. Reaching(list, s, d) = Reaching(list, s \ {m}, d)
      BY <2>1 DEF Reaching
    <3>2. QED
      BY <2>1, <3>1 DEF LastWritten
  <2>2. CASE d \in DaysOf(list[m].window)
    <3>1. m \in Reaching(list, s, d) /\ Reaching(list, s, d) \in SUBSET Nat
      <4>1. 1 .. n \in SUBSET Nat
        OBVIOUS
      <4>2. QED
        BY <2>2, <4>1 DEF Reaching
    <3>2. \A x \in Reaching(list, s, d) : x <= m
      BY <1>1 DEF Reaching
    <3>3. Max(Reaching(list, s, d)) = m
      BY <3>1, <3>2, MaxIsLatest
    <3>4. QED
      BY <2>2, <3>1, <3>3 DEF LastWritten
  <2>3. QED
    BY <2>1, <2>2
<1>3. DOMAIN before = DOMAIN known /\ DOMAIN after = DOMAIN known
      /\ after = [d \in DOMAIN known |-> after[d]]
  BY DEF LastWritten
<1> HIDE DEF before, after
<1>4. after = ApplyRun(before, list[m], rowDays, provider)
  BY <1>2, <1>3 DEF ApplyRun, Written
<1>5. QED
  BY <1>1, <1>4 DEF before, after

(* The runs, applied in the order of the list.                             *)
Applied(list, known, rowDays, provider) ==
    FoldLeft(LAMBDA k, run : ApplyRun(k, run, rowDays, provider), known, list)

(* Applying the runs one after the other leaves of each day what the last  *)
(* of them that reaches it wrote.                                          *)
LEMMA LastRunDecides ==
  ASSUME NEW n \in Nat, NEW list, DOMAIN list = 1 .. n,
         NEW known, known = [d \in DOMAIN known |-> known[d]],
         NEW rowDays, NEW provider
  PROVE  Applied(list, known, rowDays, provider) =
            LastWritten(list, 1 .. n, known, rowDays, provider)
<1> DEFINE S == 1 .. n
           g == [s \in SUBSET S |->
                    LastWritten(list, s, known, rowDays, provider)]
           Folds(h) ==
              h = [s \in SUBSET S |->
                    IF s = {} THEN known
                    ELSE ApplyRun(h[s \ {Max(s)}], list[Max(s)],
                                  rowDays, provider)]
<1>1. Folds(g)
  <2>1. ASSUME NEW s \in SUBSET S
        PROVE  g[s] = IF s = {} THEN known
                      ELSE ApplyRun(g[s \ {Max(s)}], list[Max(s)],
                                    rowDays, provider)
    <3>1. CASE s = {}
      <4>1. \A d : Reaching(list, {}, d) = {}
        BY DEF Reaching
      <4>2. LastWritten(list, {}, known, rowDays, provider) = known
        BY <4>1 DEF LastWritten
      <4>3. QED
        BY <3>1, <4>2
    <3>2. CASE s # {}
      <4>1. s \ {Max(s)} \in SUBSET S
        OBVIOUS
      <4>2. QED
        BY <3>2, <4>1, OneMoreRun
    <3>3. QED
      BY <3>1, <3>2
  <2>2. QED
    BY <2>1
<1>2. ASSUME NEW h, Folds(h), NEW s \in SUBSET S PROVE h[s] = g[s]
  <2> DEFINE Bad == {k \in Nat : \E q \in SUBSET S :
                        Cardinality(q) = k /\ h[q] # g[q]}
  <2>1. \A q \in SUBSET S : IsFiniteSet(q) /\ Cardinality(q) \in Nat
    BY FS_Interval, FS_Subset, FS_CardinalityType
  <2>2. CASE Bad = {}
    BY <2>1, <2>2
  <2>3. CASE Bad # {}
    <3>1. PICK k \in Bad : \A x \in Bad : k <= x
      <4>1. Bad \in SUBSET Nat
        OBVIOUS
      <4> HIDE DEF Bad
      <4>2. QED
        BY <2>3, <4>1, LeastNumber
    <3>2. PICK q \in SUBSET S : Cardinality(q) = k /\ h[q] # g[q]
      BY <3>1
    <3>3. \A t \in SUBSET S :
            /\ h[t] = IF t = {} THEN known
                      ELSE ApplyRun(h[t \ {Max(t)}], list[Max(t)],
                                    rowDays, provider)
            /\ g[t] = IF t = {} THEN known
                      ELSE ApplyRun(g[t \ {Max(t)}], list[Max(t)],
                                    rowDays, provider)
      <4> HIDE DEF g
      <4>1. QED
        BY <1>1, <1>2
    <3>4. CASE q = {}
      BY <3>2, <3>3, <3>4
    <3>5. CASE q # {}
      <4>1. Max(q) \in q
        <5>1. q \in SUBSET Nat /\ IsFiniteSet(q)
          BY <2>1
        <5>2. QED
          BY <3>5, <5>1, MaxOfFinite
      <4>2. /\ q \ {Max(q)} \in SUBSET S
            /\ Cardinality(q \ {Max(q)}) = k - 1
            /\ k - 1 \in Nat
        <5>1. q \ {Max(q)} \in SUBSET S /\ IsFiniteSet(q)
          BY <2>1
        <5>2. Cardinality(q \ {Max(q)}) = k - 1
          BY <3>2, <4>1, <5>1, FS_RemoveElement
        <5>3. k - 1 \in Nat
          BY <2>1, <5>1, <5>2
        <5>4. QED
          BY <5>1, <5>2, <5>3
      <4>3. k - 1 \notin Bad
        <5>1. k \in Nat /\ ~(k <= k - 1)
          BY <3>1
        <5> HIDE DEF Bad
        <5>2. QED
          BY <3>1, <5>1
      <4>4. h[q \ {Max(q)}] = g[q \ {Max(q)}]
        BY <4>2, <4>3
      <4>5. QED
        BY <3>2, <3>3, <3>5, <4>4
    <3>6. QED
      BY <3>4, <3>5
  <2>4. QED
    BY <2>2, <2>3
<1>3. Applied(list, known, rowDays, provider) = (CHOOSE h : Folds(h))[S]
  BY Zenon DEF Applied, FoldLeft, MapThenFoldSet
<1>4. (CHOOSE h : Folds(h))[S] = g[S]
  <2> HIDE DEF g, Folds, S
  <2>1. Folds(CHOOSE h : Folds(h))
    BY <1>1
  <2>2. S \in SUBSET S
    OBVIOUS
  <2>3. QED
    BY <1>2, <2>1, <2>2
<1>5. g[S] = LastWritten(list, S, known, rowDays, provider)
  OBVIOUS
<1> HIDE DEF g, Folds
<1>6. QED
  BY <1>3, <1>4, <1>5, Zenon
=============================================================================
