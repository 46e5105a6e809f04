---------------------------- MODULE SpendingProofs ----------------------------
(***************************************************************************)
(* That whatever a run spent is on its report, once, for any tree of       *)
(* providers: what is collected of a tree is every entry of every leaf,    *)
(* and the sums that a report gives are counts of those entries.           *)
(***************************************************************************)
EXTENDS RunPlanProofs

-----------------------------------------------------------------------------
(* A sum of naturals is a count. *)

(* A sum over a function is what its recursion makes of the whole domain.  *)
Summing(f, g) ==
  g = [s \in SUBSET DOMAIN f |->
         IF s = {} THEN 0
         ELSE f[CHOOSE x \in s : TRUE] + g[s \ {CHOOSE x \in s : TRUE}]]

(* The sum that the library names is the one that its recursion makes. *)
LEMMA SumIsKept ==
  ASSUME NEW f, NEW h, Summing(f, h)
  PROVE  \E g : Summing(f, g) /\ SumFunction(f) = g[DOMAIN f]
<1> DEFINE g == CHOOSE g : g = [s \in SUBSET DOMAIN f |->
                  IF s = {} THEN 0
                  ELSE f[CHOOSE x \in s : TRUE] + g[s \ {CHOOSE x \in s : TRUE}]]
<1>1. Summing(f, g)
  BY DEF Summing
<1>2. SumFunction(f) = g[DOMAIN f]
  BY DEF SumFunction, SumFunctionOnSet, FoldFunctionOnSet, MapThenFoldSet
<1>3. QED
  BY <1>1, <1>2

(* As many things as a function counts on a part of its domain. *)
Unit(f, x) == {x} \X (1..f[x])
Units(f, T) == UNION {Unit(f, x) : x \in T}

LEMMA UnitIsFinite ==
  ASSUME NEW f, NEW x, f[x] \in Nat
  PROVE  IsFiniteSet(Unit(f, x)) /\ Cardinality(Unit(f, x)) = f[x]
<1>1. IsFiniteSet({x}) /\ Cardinality({x}) = 1
  BY FS_Singleton
<1>2. IsFiniteSet(1..f[x]) /\ Cardinality(1..f[x]) = f[x]
  <2> DEFINE n == f[x]
  <2>1. n \in Nat /\ n \in Int /\ 1 \in Int
    OBVIOUS
  <2> HIDE DEF n
  <2>2. IsFiniteSet(1..n) /\ Cardinality(1..n) = IF 1 > n THEN 0 ELSE n - 1 + 1
    BY <2>1, FS_Interval
  <2>3. QED
    BY <2>1, <2>2 DEF n
<1>3. IsFiniteSet(Unit(f, x)) /\ Cardinality(Unit(f, x)) = 1 * f[x]
  <2>1. IsFiniteSet(Unit(f, x)) /\ Cardinality(Unit(f, x)) = Cardinality({x}) * Cardinality(1..f[x])
    <3> DEFINE S == {x}
               T == 1..f[x]
    <3>1. IsFiniteSet(S) /\ IsFiniteSet(T)
      BY <1>1, <1>2
    <3> HIDE DEF S, T
    <3>2. IsFiniteSet(S \X T) /\ Cardinality(S \X T) = Cardinality(S) * Cardinality(T)
      BY <3>1, FS_Product
    <3>3. QED
      BY <3>2 DEF Unit, S, T
  <2>2. QED
    BY <1>1, <1>2, <2>1
<1>4. QED
  BY <1>3

LEMMA UnitsAreFinite ==
  ASSUME NEW f, NEW T, IsFiniteSet(T), \A x \in T : f[x] \in Nat
  PROVE  IsFiniteSet(Units(f, T))
<1> DEFINE sets == {Unit(f, x) : x \in T}
           each == [x \in T |-> Unit(f, x)]
<1>1. each \in Surjection(T, sets)
  BY DEF Surjection
<1>2. IsFiniteSet(sets)
  BY <1>1, FS_Surjection
<1>3. \A s \in sets : IsFiniteSet(s)
  BY UnitIsFinite
<1>4. IsFiniteSet(UNION sets)
  BY <1>2, <1>3, FS_UNION
<1>5. QED
  BY <1>4 DEF Units

(* One element more counts as many more as the function says of it. *)
LEMMA UnitsOfOneMore ==
  ASSUME NEW f, NEW T, IsFiniteSet(T), \A y \in T : f[y] \in Nat, NEW x \in T
  PROVE  Cardinality(Units(f, T)) = f[x] + Cardinality(Units(f, T \ {x}))
<1> DEFINE rest == T \ {x}
<1>1. IsFiniteSet(rest)
  BY FS_RemoveElement
<1>2. IsFiniteSet(Units(f, rest)) /\ Cardinality(Units(f, rest)) \in Nat
  BY <1>1, UnitsAreFinite, FS_CardinalityType
<1>3. IsFiniteSet(Unit(f, x)) /\ Cardinality(Unit(f, x)) = f[x]
  BY UnitIsFinite
<1>4. Units(f, T) = Unit(f, x) \cup Units(f, rest)
  BY DEF Units
<1>5. Unit(f, x) \cap Units(f, rest) = {}
  BY DEF Units, Unit
<1> HIDE DEF rest
<1>6. Cardinality(Unit(f, x) \cup Units(f, rest))
        = Cardinality(Unit(f, x)) + Cardinality(Units(f, rest)) - Cardinality({})
  BY <1>2, <1>3, <1>5, FS_Union
<1>7. Cardinality({}) = 0
  BY FS_EmptySet
<1>8. f[x] \in Nat
  OBVIOUS
<1>9. QED
  BY <1>2, <1>3, <1>4, <1>6, <1>7, <1>8 DEF rest

LEMMA NoUnits ==
  ASSUME NEW f
  PROVE  Cardinality(Units(f, {})) = 0
<1>1. Units(f, {}) = {}
  BY DEF Units
<1>2. QED
  BY <1>1, FS_EmptySet

(* A sum of naturals is a count. *)
LEMMA SumIsCount ==
  ASSUME NEW f, IsFiniteSet(DOMAIN f), \A x \in DOMAIN f : f[x] \in Nat
  PROVE  SumFunction(f) = Cardinality(Units(f, DOMAIN f))
<1> DEFINE h == [s \in SUBSET DOMAIN f |-> Cardinality(Units(f, s))]
<1>1. ASSUME NEW s \in SUBSET DOMAIN f
      PROVE  /\ IsFiniteSet(s) /\ \A y \in s : f[y] \in Nat
             /\ s # {} => (CHOOSE x \in s : TRUE) \in s
  BY FS_Subset
<1>2. ASSUME NEW s \in SUBSET DOMAIN f, s # {}, NEW x \in s
      PROVE  Cardinality(Units(f, s)) = f[x] + Cardinality(Units(f, s \ {x}))
  BY <1>1, <1>2, UnitsOfOneMore
<1>3. Summing(f, h)
  <2>1. ASSUME NEW s \in SUBSET DOMAIN f
        PROVE  h[s] = IF s = {} THEN 0
                      ELSE f[CHOOSE x \in s : TRUE] + h[s \ {CHOOSE x \in s : TRUE}]
    <3>1. CASE s = {}
      BY <3>1, NoUnits
    <3>2. CASE s # {}
      <4>1. (CHOOSE x \in s : TRUE) \in s
        BY <1>1, <3>2
      <4>2. Cardinality(Units(f, s)) = f[CHOOSE x \in s : TRUE]
                                       + Cardinality(Units(f, s \ {CHOOSE x \in s : TRUE}))
        BY <1>2, <3>2, <4>1
      <4>3. s \ {CHOOSE x \in s : TRUE} \in SUBSET DOMAIN f
        OBVIOUS
      <4>4. QED
        BY <3>2, <4>2, <4>3
    <3>3. QED
      BY <3>1, <3>2
  <2>2. DOMAIN h = SUBSET DOMAIN f /\ h = [s \in SUBSET DOMAIN f |-> h[s]]
    OBVIOUS
  <2> HIDE DEF h
  <2>3. QED
    BY <2>1, <2>2 DEF Summing
<1>4. PICK g : Summing(f, g) /\ SumFunction(f) = g[DOMAIN f]
  BY <1>3, SumIsKept
<1> DEFINE wrong == {s \in SUBSET DOMAIN f : g[s] # Cardinality(Units(f, s))}
           sizes == {Cardinality(s) : s \in wrong}
<1>5. SUFFICES ASSUME wrong # {}
               PROVE  FALSE
  BY <1>4
<1>6. sizes \in SUBSET Nat /\ sizes # {}
  BY <1>1, <1>5, FS_CardinalityType
<1>7. PICK n \in sizes : \A m \in sizes : n <= m
  <2> HIDE DEF wrong
  <2> HIDE DEF sizes
  <2>1. QED
    BY <1>6, Least
<1>8. PICK s \in wrong : n = Cardinality(s)
  OBVIOUS
<1>9. s \in SUBSET DOMAIN f /\ g[s] # Cardinality(Units(f, s))
  OBVIOUS
<1> DEFINE x == CHOOSE x \in s : TRUE
<1>10. g[s] = IF s = {} THEN 0 ELSE f[x] + g[s \ {x}]
  BY <1>4, <1>9 DEF Summing
<1>11. s # {}
  BY <1>9, <1>10, NoUnits
<1>12. x \in s
  BY <1>11
<1> HIDE DEF x
<1>13. Cardinality(Units(f, s)) = f[x] + Cardinality(Units(f, s \ {x}))
  BY <1>2, <1>9, <1>11, <1>12
<1>14. Cardinality(s \ {x}) = Cardinality(s) - 1 /\ Cardinality(s) \in Nat
  BY <1>1, <1>9, <1>12, FS_RemoveElement, FS_CardinalityType
<1>15. s \ {x} \notin wrong
  BY <1>7, <1>8, <1>14
<1>16. s \ {x} \in SUBSET DOMAIN f
  BY <1>9
<1>17. QED
  BY <1>9, <1>10, <1>11, <1>13, <1>15, <1>16

(* What is all ones adds up to how many there are. *)
LEMMA SumOfOnes ==
  ASSUME NEW f, IsFiniteSet(DOMAIN f), \A x \in DOMAIN f : f[x] = 1
  PROVE  SumFunction(f) = Cardinality(DOMAIN f)
<1>1. SumFunction(f) = Cardinality(Units(f, DOMAIN f))
  BY SumIsCount
<1> DEFINE of == [unit \in Units(f, DOMAIN f) |-> unit[1]]
<1>2. \A unit \in Units(f, DOMAIN f) : \E x \in DOMAIN f : unit = <<x, 1>>
  <2>1. 1..1 = {1}
    OBVIOUS
  <2>2. QED
    BY <2>1 DEF Units, Unit
<1>3. \A x \in DOMAIN f : <<x, 1>> \in Units(f, DOMAIN f)
  BY DEF Units, Unit
<1>4. of \in Bijection(Units(f, DOMAIN f), DOMAIN f)
  <2>1. \A unit \in Units(f, DOMAIN f) : unit[1] \in DOMAIN f /\ unit = <<unit[1], 1>>
    BY <1>2
  <2>2. \A x \in DOMAIN f : \E unit \in Units(f, DOMAIN f) : of[unit] = x
    BY <1>3
  <2>3. of \in [Units(f, DOMAIN f) -> DOMAIN f]
    BY <2>1
  <2>4. \A u, v \in Units(f, DOMAIN f) : of[u] = of[v] => u = v
    BY <2>1
  <2> HIDE DEF of
  <2>5. QED
    BY <2>2, <2>3, <2>4 DEF Bijection, Injection, Surjection, IsInjective
<1>5. IsFiniteSet(Units(f, DOMAIN f))
  BY UnitsAreFinite
<1>6. QED
  BY <1>1, <1>4, <1>5, FS_Bijection DEF ExistsBijection

(* One more value adds itself to a sum. *)
LEMMA SumOfOneMore ==
  ASSUME NEW f, NEW g, NEW x \in DOMAIN f, IsFiniteSet(DOMAIN f), \A y \in DOMAIN f : f[y] \in Nat,
         DOMAIN g = DOMAIN f \ {x}, \A y \in DOMAIN g : g[y] = f[y]
  PROVE  SumFunction(f) = f[x] + SumFunction(g) /\ SumFunction(g) \in Nat
<1>1. IsFiniteSet(DOMAIN g)
  BY FS_RemoveElement
<1>2. SumFunction(g) = Cardinality(Units(g, DOMAIN g))
  BY <1>1, SumIsCount
<1>3. Units(g, DOMAIN g) = Units(f, DOMAIN g)
  BY DEF Units, Unit
<1>4. SumFunction(f) = f[x] + Cardinality(Units(f, DOMAIN f \ {x}))
  BY SumIsCount, UnitsOfOneMore
<1>5. Cardinality(Units(g, DOMAIN g)) \in Nat
  BY <1>1, UnitsAreFinite, FS_CardinalityType
<1>6. QED
  BY <1>2, <1>3, <1>4, <1>5

-----------------------------------------------------------------------------
(* The order in which a tree is read. *)

(* The order in which a tree is read puts any two of its places in a row,  *)
(* unless one is above the other.                                          *)
LEMMA BeforeIsStrict ==
  ASSUME NEW p \in Seq(Nat)
  PROVE  ~Before(p, p)
BY DEF Before

LEMMA BeforeIsTransitive ==
  ASSUME NEW p \in Seq(Nat), NEW q \in Seq(Nat), NEW r \in Seq(Nat), Before(p, q), Before(q, r)
  PROVE  Before(p, r)
<1>1. PICK k \in DOMAIN p \cap DOMAIN q : p[k] < q[k] /\ \A i \in 1..(k - 1) : p[i] = q[i]
  BY DEF Before
<1>2. PICK j \in DOMAIN q \cap DOMAIN r : q[j] < r[j] /\ \A i \in 1..(j - 1) : q[i] = r[i]
  BY DEF Before
<1>3. /\ k \in 1..Len(p) /\ k \in 1..Len(q) /\ j \in 1..Len(q) /\ j \in 1..Len(r)
      /\ Len(p) \in Nat /\ Len(q) \in Nat /\ Len(r) \in Nat
      /\ DOMAIN p = 1..Len(p) /\ DOMAIN q = 1..Len(q) /\ DOMAIN r = 1..Len(r)
  OBVIOUS
<1>4. CASE k <= j
  <2>1. k \in DOMAIN r
    BY <1>3, <1>4
  <2>2. p[k] \in Nat /\ q[k] \in Nat /\ r[k] \in Nat
    BY <2>1
  <2>3. q[k] <= r[k]
    <3>1. CASE k = j
      BY <1>2, <2>2, <3>1
    <3>2. CASE k < j
      <4>1. k \in 1..(j - 1)
        BY <1>3, <3>2
      <4>2. q[k] = r[k]
        BY <1>2, <4>1
      <4>3. QED
        BY <2>2, <4>2
    <3>3. QED
      BY <1>3, <1>4, <3>1, <3>2
  <2>4. p[k] < r[k]
    BY <1>1, <2>2, <2>3, SMTT(30)
  <2>5. \A i \in 1..(k - 1) : i \in 1..(j - 1)
    BY <1>3, <1>4
  <2>6. \A i \in 1..(k - 1) : p[i] = r[i]
    BY <1>1, <1>2, <2>5
  <2>7. QED
    BY <2>1, <2>4, <2>6 DEF Before
<1>5. CASE j < k
  <2>1. j \in DOMAIN p
    BY <1>3, <1>5
  <2>2. j \in 1..(k - 1) /\ \A i \in 1..(j - 1) : i \in 1..(k - 1)
    BY <1>3, <1>5, SMTT(30)
  <2>3. p[j] < r[j] /\ \A i \in 1..(j - 1) : p[i] = r[i]
    BY <1>1, <1>2, <2>2
  <2>4. QED
    BY <2>1, <2>3 DEF Before
<1>6. QED
  BY <1>3, <1>4, <1>5

LEMMA BeforeIsTotal ==
  ASSUME NEW p \in Seq(Nat), NEW q \in Seq(Nat), \E k \in DOMAIN p \cap DOMAIN q : p[k] # q[k]
  PROVE  Before(p, q) \/ Before(q, p)
<1> DEFINE differ == {k \in DOMAIN p \cap DOMAIN q : p[k] # q[k]}
<1>1. differ \in SUBSET Nat /\ differ # {}
  OBVIOUS
<1>2. PICK k \in differ : \A j \in differ : k <= j
  <2> HIDE DEF differ
  <2>1. QED
    BY <1>1, Least
<1>3. /\ k \in 1..Len(p) /\ k \in 1..Len(q) /\ Len(p) \in Nat /\ Len(q) \in Nat
      /\ DOMAIN p = 1..Len(p) /\ DOMAIN q = 1..Len(q)
  OBVIOUS
<1>4. ASSUME NEW i \in 1..(k - 1)
      PROVE  p[i] = q[i]
  <2>1. i \in DOMAIN p \cap DOMAIN q /\ ~(k <= i)
    BY <1>3, SMTT(30)
  <2>2. i \notin differ
    BY <1>2, <2>1
  <2>3. QED
    BY <2>1, <2>2
<1>5. p[k] \in Nat /\ q[k] \in Nat /\ p[k] # q[k] /\ k \in DOMAIN p \cap DOMAIN q
  OBVIOUS
<1> HIDE DEF differ
<1>6. p[k] < q[k] \/ q[k] < p[k]
  BY <1>5
<1>7. QED
  BY <1>4, <1>5, <1>6 DEF Before

(* No place is above another. *)
Apart(places) == \A p, q \in places : p # q => \E k \in DOMAIN p \cap DOMAIN q : p[k] # q[k]

(* What comes later has a higher rank, so no two places have the same. *)
LEMMA RankGrows ==
  ASSUME NEW P \in SUBSET Seq(Nat), IsFiniteSet(P), NEW p \in P, NEW q \in P, Before(p, q)
  PROVE  Rank(P, p) < Rank(P, q)
<1> DEFINE Ps == {other \in P : Before(other, p)}
           Qs == {other \in P : Before(other, q)}
<1>1. IsFiniteSet(Ps) /\ IsFiniteSet(Qs)
  BY FS_Subset
<1>2. p \notin Ps /\ p \in Qs
  BY BeforeIsStrict
<1>3. Ps \cup {p} \in SUBSET Qs
  BY <1>2, BeforeIsTransitive
<1> HIDE DEF Ps, Qs
<1>4. Cardinality(Ps \cup {p}) = Cardinality(Ps) + 1
  BY <1>1, <1>2, FS_AddElement
<1>5. Cardinality(Ps \cup {p}) <= Cardinality(Qs)
  BY <1>1, <1>3, FS_Subset
<1>6. Cardinality(Ps) \in Nat /\ Cardinality(Qs) \in Nat
  BY <1>1, FS_CardinalityType
<1>7. Cardinality(Ps) < Cardinality(Qs)
  BY <1>4, <1>5, <1>6
<1>8. QED
  BY <1>7 DEF Rank, Ps, Qs

LEMMA RankType ==
  ASSUME NEW P \in SUBSET Seq(Nat), IsFiniteSet(P), NEW p \in P
  PROVE  Rank(P, p) \in 0..(Cardinality(P) - 1)
<1> DEFINE Ps == {other \in P : Before(other, p)}
<1>1. p \notin Ps /\ Ps \cup {p} \in SUBSET P /\ Ps \in SUBSET P
  BY BeforeIsStrict
<1> HIDE DEF Ps
<1>2. IsFiniteSet(Ps)
  BY <1>1, FS_Subset
<1>3. Cardinality(Ps \cup {p}) = Cardinality(Ps) + 1
  BY <1>1, <1>2, FS_AddElement
<1>4. Cardinality(Ps \cup {p}) <= Cardinality(P)
  BY <1>1, FS_Subset
<1>5. Cardinality(Ps) \in Nat /\ Cardinality(P) \in Nat
  BY <1>2, FS_CardinalityType
<1>6. Cardinality(Ps) \in 0..(Cardinality(P) - 1)
  BY <1>3, <1>4, <1>5
<1>7. QED
  BY <1>6 DEF Rank, Ps

LEMMA RanksDiffer ==
  ASSUME NEW P \in SUBSET Seq(Nat), IsFiniteSet(P), Apart(P), NEW p \in P, NEW q \in P, p # q
  PROVE  Rank(P, p) # Rank(P, q)
<1>1. Before(p, q) \/ Before(q, p)
  BY BeforeIsTotal DEF Apart
<1>2. Rank(P, p) < Rank(P, q) \/ Rank(P, q) < Rank(P, p)
  BY <1>1, RankGrows
<1>3. Rank(P, p) \in Nat /\ Rank(P, q) \in Nat
  <2>1. Cardinality(P) \in Nat
    BY FS_CardinalityType
  <2>2. QED
    BY <2>1, RankType
<1>4. QED
  BY <1>2, <1>3

(* Every place is in the order once. *)
LEMMA InOrderIsAll ==
  ASSUME NEW P \in SUBSET Seq(Nat), IsFiniteSet(P), Apart(P)
  PROVE  /\ Cardinality(P) \in Nat
         /\ InOrder(P) \in Bijection(1..Cardinality(P), P)
<1> DEFINE n == Cardinality(P)
           ranks == [p \in P |-> Rank(P, p) + 1]
           order == InOrder(P)
<1>1. n \in Nat
  BY FS_CardinalityType
<1> HIDE DEF n
<1>2. \A p \in P : Rank(P, p) \in 0..(n - 1)
  BY RankType DEF n
<1>3. ranks \in Injection(P, 1..n)
  <2>1. \A p \in P : Rank(P, p) + 1 \in 1..n /\ Rank(P, p) \in Nat
    BY <1>1, <1>2
  <2>2. ranks \in [P -> 1..n]
    BY <2>1
  <2>3. ASSUME NEW p \in P, NEW q \in P, ranks[p] = ranks[q]
        PROVE  p = q
    <3>1. Rank(P, p) = Rank(P, q)
      BY <2>1, <2>3
    <3>2. QED
      BY <3>1, RanksDiffer
  <2> HIDE DEF ranks
  <2>4. QED
    BY <2>2, <2>3 DEF Injection, IsInjective
<1>4. ranks \in Surjection(P, 1..n)
  <2>1. IsFiniteSet(1..n) /\ Cardinality(1..n) = n
    BY <1>1, FS_Interval
  <2>2. QED
    BY <1>3, <2>1, FS_Injection DEF n
<1>5. \A i \in 1..n : \E p \in P : Rank(P, p) = i - 1
  <2>1. ASSUME NEW i \in 1..n
        PROVE  \E p \in P : Rank(P, p) = i - 1
    <3>1. PICK p \in P : ranks[p] = i
      <4> HIDE DEF ranks
      <4>1. QED
        BY <1>4 DEF Surjection
    <3>2. Rank(P, p) + 1 = i /\ Rank(P, p) \in Int
      BY <1>1, <1>2, <3>1
    <3>3. QED
      BY <3>2
  <2>2. QED
    BY <2>1
<1>6. order = [i \in 1..n |-> CHOOSE p \in P : Rank(P, p) = i - 1]
  BY DEF InOrder, n
<1>7. \A i \in 1..n : order[i] \in P /\ Rank(P, order[i]) = i - 1
  BY <1>5, <1>6
<1> HIDE DEF order
<1>8. order \in [1..n -> P]
  BY <1>6, <1>7
<1>9. ASSUME NEW i \in 1..n, NEW j \in 1..n, order[i] = order[j]
      PROVE  i = j
  <2>1. i - 1 = j - 1
    BY <1>7, <1>9
  <2>2. QED
    BY <1>1, <2>1
<1>10. ASSUME NEW p \in P
       PROVE  \E i \in 1..n : order[i] = p
  <2>1. PICK i \in 1..n : i = Rank(P, p) + 1
    BY <1>1, <1>2
  <2>2. Rank(P, p) = i - 1
    BY <1>1, <1>2, <2>1
  <2>3. order[i] \in P /\ Rank(P, order[i]) = i - 1
    BY <1>7
  <2>4. QED
    BY <2>2, <2>3, RanksDiffer
<1>11. order \in Bijection(1..n, P)
  BY <1>8, <1>9, <1>10 DEF Bijection, Injection, Surjection, IsInjective
<1>12. QED
  BY <1>1, <1>11 DEF n, order

-----------------------------------------------------------------------------
(* What the leaves of a tree keep, and what is collected of them. *)

(* Only a split has anything below it, so no leaf is above another. *)
LEMMA AboveIsSplit ==
  ASSUME NEW b, WellBuilt(b), NEW x \in DOMAIN b, NEW y \in DOMAIN b, Len(x) < Len(y),
         \A k \in DOMAIN x : x[k] = y[k]
  PROVE  b[x].kind = "split"
<1>1. x \in Seq(Nat) /\ y \in Seq(Nat)
  BY DEF WellBuilt
<1>2. /\ Len(x) \in 0..Len(y) /\ Len(x) + 1 \in DOMAIN y /\ Len(x) + 1 - 1 = Len(x)
      /\ DOMAIN x = 1..Len(x)
  BY <1>1
<1>3. /\ Way(y, Len(x)) \in Seq(Nat) /\ Len(Way(y, Len(x))) = Len(x)
      /\ \A j \in 1..Len(x) : Way(y, Len(x))[j] = y[j]
  BY <1>1, <1>2, WayFacts
<1>4. \A j \in 1..Len(x) : Way(y, Len(x))[j] = x[j]
  BY <1>2, <1>3
<1>5. Way(y, Len(x)) = x
  BY <1>1, <1>3, <1>4, SameSequence
<1>6. PICK j \in DOMAIN y : j - 1 = Len(x)
  BY <1>2
<1>7. b[Way(y, j - 1)].kind = "split"
  BY DEF WellBuilt
<1>8. QED
  BY <1>5, <1>6, <1>7

LEMMA LeavesAreApart ==
  ASSUME NEW b, WellBuilt(b)
  PROVE  Apart(Leaves(b))
<1> SUFFICES ASSUME NEW l \in Leaves(b), NEW m \in Leaves(b), l # m,
                    \A k \in DOMAIN l \cap DOMAIN m : l[k] = m[k]
             PROVE  FALSE
  BY DEF Apart
<1>1. /\ l \in DOMAIN b /\ m \in DOMAIN b /\ b[l].kind # "split" /\ b[m].kind # "split"
      /\ l \in Seq(Nat) /\ m \in Seq(Nat)
  BY DEF Leaves, WellBuilt
<1>2. /\ Len(l) \in Nat /\ Len(m) \in Nat /\ DOMAIN l = 1..Len(l) /\ DOMAIN m = 1..Len(m)
  BY <1>1
<1>3. ~(Len(l) < Len(m))
  <2>1. SUFFICES ASSUME Len(l) < Len(m)
                 PROVE  FALSE
    OBVIOUS
  <2>2. \A k \in DOMAIN l : k \in DOMAIN m
    BY <1>2, <2>1
  <2>3. \A k \in DOMAIN l : l[k] = m[k]
    BY <2>2
  <2>4. QED
    BY <1>1, <2>1, <2>3, AboveIsSplit
<1>4. ~(Len(m) < Len(l))
  <2>1. SUFFICES ASSUME Len(m) < Len(l)
                 PROVE  FALSE
    OBVIOUS
  <2>2. \A k \in DOMAIN m : k \in DOMAIN l
    BY <1>2, <2>1
  <2>3. \A k \in DOMAIN m : m[k] = l[k]
    BY <2>2
  <2>4. QED
    BY <1>1, <2>1, <2>3, AboveIsSplit
<1>5. Len(l) = Len(m)
  <2>1. Len(l) \in Nat /\ Len(m) \in Nat
    BY <1>2
  <2>2. QED
    BY <1>3, <1>4, <2>1
<1>6. \A k \in 1..Len(l) : l[k] = m[k]
  BY <1>2, <1>5
<1>7. l = m
  BY <1>1, <1>5, <1>6, SameSequence
<1>8. QED
  BY <1>7

(* What the leaves of a tree keep: a sequence each. *)
KeptBy(b, kept) == /\ DOMAIN kept = Leaves(b)
                   /\ \A l \in DOMAIN kept : \E S : kept[l] \in Seq(S)

(* The place of an entry is its leaf's with the entry's number after it. *)
LEMMA EntryPlace ==
  ASSUME NEW l \in Seq(Nat), NEW k \in Nat
  PROVE  /\ Append(l, k) \in Seq(Nat) /\ Front(Append(l, k)) = l /\ Last(Append(l, k)) = k
         /\ Len(Append(l, k)) = Len(l) + 1 /\ Append(l, k)[Len(l) + 1] = k
         /\ \A j \in 1..Len(l) : Append(l, k)[j] = l[j]
<1>1. /\ Append(l, k) \in Seq(Nat) /\ Len(Append(l, k)) = Len(l) + 1
      /\ Append(l, k)[Len(l) + 1] = k /\ \A j \in 1..Len(l) : Append(l, k)[j] = l[j]
  OBVIOUS
<1>2. Last(Append(l, k)) = k
  BY <1>1 DEF Last
<1>3. Front(Append(l, k)) = l
  <2>1. Len(Append(l, k)) - 1 = Len(l)
    BY <1>1
  <2>2. Front(Append(l, k)) = SubSeq(Append(l, k), 1, Len(l))
    BY <2>1 DEF Front
  <2>3. /\ SubSeq(Append(l, k), 1, Len(l)) \in Seq(Nat)
        /\ Len(SubSeq(Append(l, k), 1, Len(l))) = Len(l)
        /\ \A j \in 1..Len(l) : SubSeq(Append(l, k), 1, Len(l))[j] = Append(l, k)[j]
    BY <1>1
  <2>4. QED
    BY <1>1, <2>2, <2>3, SameSequence
<1>4. QED
  BY <1>1, <1>2, <1>3

(* The places of all entries are finitely many, and none is above another. *)
LEMMA EntryPlaces ==
  ASSUME NEW b, WellBuilt(b), NEW kept, KeptBy(b, kept)
  PROVE  /\ KeptAt(kept) \in SUBSET Seq(Nat) /\ IsFiniteSet(KeptAt(kept)) /\ Apart(KeptAt(kept))
         /\ \A l \in DOMAIN kept : l \in Seq(Nat) /\ DOMAIN kept[l] \subseteq Nat
<1>1. ASSUME NEW l \in DOMAIN kept
      PROVE  /\ l \in Seq(Nat) /\ l \in Leaves(b)
             /\ \E n \in Nat : DOMAIN kept[l] = 1..n
  <2>1. PICK S : kept[l] \in Seq(S)
    BY DEF KeptBy
  <2>2. Len(kept[l]) \in Nat /\ DOMAIN kept[l] = 1..Len(kept[l])
    BY <2>1
  <2>3. QED
    BY <2>2 DEF KeptBy, Leaves, WellBuilt
<1>2. KeptAt(kept) \in SUBSET Seq(Nat)
  BY <1>1, EntryPlace, SMTT(30) DEF KeptAt
<1>3. IsFiniteSet(KeptAt(kept))
  <2> DEFINE of(l) == {Append(l, k) : k \in DOMAIN kept[l]}
             sets == {of(l) : l \in DOMAIN kept}
             each == [l \in DOMAIN kept |-> of(l)]
  <2>1. IsFiniteSet(DOMAIN kept)
    <3>1. Leaves(b) \in SUBSET DOMAIN b /\ IsFiniteSet(DOMAIN b)
      BY DEF Leaves, WellBuilt
    <3>2. QED
      BY <3>1, FS_Subset DEF KeptBy
  <2>2. ASSUME NEW l \in DOMAIN kept
        PROVE  IsFiniteSet(of(l))
    <3> DEFINE entry == [k \in DOMAIN kept[l] |-> Append(l, k)]
    <3>1. entry \in Surjection(DOMAIN kept[l], of(l))
      BY DEF Surjection
    <3>2. IsFiniteSet(DOMAIN kept[l])
      BY <1>1, FS_Interval
    <3> HIDE DEF of
    <3>3. QED
      BY <3>1, <3>2, FS_Surjection
  <2>3. each \in Surjection(DOMAIN kept, sets)
    <3> HIDE DEF of
    <3>1. QED
      BY DEF Surjection
  <2>4. IsFiniteSet(sets)
    <3> HIDE DEF sets, each
    <3>1. QED
      BY <2>1, <2>3, FS_Surjection
  <2>5. \A s \in sets : IsFiniteSet(s)
    BY <2>2
  <2>6. IsFiniteSet(UNION sets)
    <3> HIDE DEF sets
    <3>1. QED
      BY <2>4, <2>5, FS_UNION
  <2>7. QED
    BY <2>6 DEF KeptAt
<1>4. ASSUME NEW p \in KeptAt(kept), NEW q \in KeptAt(kept), p # q
      PROVE  \E j \in DOMAIN p \cap DOMAIN q : p[j] # q[j]
  <2>1. PICK l \in DOMAIN kept : \E k \in DOMAIN kept[l] : p = Append(l, k)
    BY DEF KeptAt
  <2>2. PICK k \in DOMAIN kept[l] : p = Append(l, k)
    BY <2>1
  <2>3. PICK m \in DOMAIN kept : \E i \in DOMAIN kept[m] : q = Append(m, i)
    BY DEF KeptAt
  <2>4. PICK i \in DOMAIN kept[m] : q = Append(m, i)
    BY <2>3
  <2>5. /\ l \in Seq(Nat) /\ m \in Seq(Nat) /\ k \in Nat /\ i \in Nat
        /\ l \in Leaves(b) /\ m \in Leaves(b)
    BY <1>1
  <2>6. /\ p \in Seq(Nat) /\ Len(p) = Len(l) + 1 /\ p[Len(l) + 1] = k
        /\ \A j \in 1..Len(l) : p[j] = l[j]
        /\ q \in Seq(Nat) /\ Len(q) = Len(m) + 1 /\ q[Len(m) + 1] = i
        /\ \A j \in 1..Len(m) : q[j] = m[j]
    BY <2>2, <2>4, <2>5, EntryPlace
  <2>7. CASE l = m
    <3>1. k # i
      BY <1>4, <2>2, <2>4, <2>7
    <3>2. Len(l) + 1 \in DOMAIN p \cap DOMAIN q
      BY <2>5, <2>6, <2>7
    <3>3. QED
      BY <2>6, <2>7, <3>1, <3>2
  <2>8. CASE l # m
    <3>1. PICK j \in DOMAIN l \cap DOMAIN m : l[j] # m[j]
      BY <2>5, <2>8, LeavesAreApart DEF Apart
    <3>2. j \in 1..Len(l) /\ j \in 1..Len(m) /\ Len(l) \in Nat /\ Len(m) \in Nat
      BY <2>5, <3>1
    <3>3. j \in 1..(Len(l) + 1) /\ j \in 1..(Len(m) + 1)
      BY <3>2
    <3>4. j \in DOMAIN p /\ j \in DOMAIN q
      BY <2>6, <3>3
    <3>5. QED
      BY <2>6, <3>1, <3>2, <3>4
  <2>9. QED
    BY <2>7, <2>8
<1>5. QED
  BY <1>1, <1>2, <1>3, <1>4 DEF Apart

(* What is collected of a tree is what its leaves kept, each entry once.   *)
EntriesOf(kept) == UNION {{<<l, k>> : k \in DOMAIN kept[l]} : l \in DOMAIN kept}
Lists(b, list, kept, n, H) ==
  /\ H \in Bijection(1..n, EntriesOf(kept)) /\ DOMAIN list = 1..n
  /\ \A i \in 1..n : list[i] = Stamp(kept[H[i][1]][H[i][2]], LabelsOf(b, H[i][1]))

(* Reading the tree in its order meets every entry of every leaf once. *)
LEMMA CollectedIsAll ==
  ASSUME NEW b, WellBuilt(b), NEW kept, KeptBy(b, kept)
  PROVE  \E n \in Nat : \E H : Lists(b, Collected(b, kept), kept, n, H)
<1> DEFINE P == KeptAt(kept)
           n == Cardinality(P)
           O == InOrder(P)
           H == [i \in 1..n |-> <<Front(O[i]), Last(O[i])>>]
<1>1. /\ P \in SUBSET Seq(Nat) /\ IsFiniteSet(P) /\ Apart(P)
      /\ \A l \in DOMAIN kept : l \in Seq(Nat) /\ DOMAIN kept[l] \subseteq Nat
  BY EntryPlaces
<1>2. n \in Nat /\ O \in Bijection(1..n, P)
  <2> HIDE DEF P
  <2>1. QED
    BY <1>1, InOrderIsAll
<1>3. Collected(b, kept) = [i \in DOMAIN O |-> Stamp(kept[Front(O[i])][Last(O[i])],
                                                     LabelsOf(b, Front(O[i])))]
  BY DEF Collected
<1>4. ASSUME NEW p \in P
      PROVE  /\ <<Front(p), Last(p)>> \in EntriesOf(kept)
             /\ p = Append(Front(p), Last(p))
  <2>1. PICK l \in DOMAIN kept : \E k \in DOMAIN kept[l] : p = Append(l, k)
    BY DEF KeptAt
  <2>2. PICK k \in DOMAIN kept[l] : p = Append(l, k)
    BY <2>1
  <2>3. Front(p) = l /\ Last(p) = k
    BY <1>1, <2>2, EntryPlace
  <2>4. QED
    BY <2>2, <2>3 DEF EntriesOf
<1>5. ASSUME NEW e \in EntriesOf(kept)
      PROVE  \E p \in P : e = <<Front(p), Last(p)>>
  <2>1. PICK l \in DOMAIN kept : \E k \in DOMAIN kept[l] : e = <<l, k>>
    BY DEF EntriesOf
  <2>2. PICK k \in DOMAIN kept[l] : e = <<l, k>>
    BY <2>1
  <2>3. Append(l, k) \in P
    BY DEF KeptAt
  <2>4. Front(Append(l, k)) = l /\ Last(Append(l, k)) = k
    BY <1>1, EntryPlace
  <2>5. QED
    BY <2>2, <2>3, <2>4
<1> HIDE DEF P, n, O
<1>6. DOMAIN O = 1..n /\ \A i \in 1..n : O[i] \in P
  BY <1>2 DEF Bijection, Injection
<1>7. H \in Bijection(1..n, EntriesOf(kept))
  <2>1. H \in [1..n -> EntriesOf(kept)]
    BY <1>4, <1>6
  <2>2. ASSUME NEW i \in 1..n, NEW j \in 1..n, H[i] = H[j]
        PROVE  i = j
    <3>1. Front(O[i]) = Front(O[j]) /\ Last(O[i]) = Last(O[j])
      BY <2>2
    <3>2. O[i] = O[j]
      BY <1>4, <1>6, <3>1
    <3>3. QED
      BY <1>2, <3>2 DEF Bijection, Injection, IsInjective
  <2>3. ASSUME NEW e \in EntriesOf(kept)
        PROVE  \E i \in 1..n : H[i] = e
    <3>1. PICK p \in P : e = <<Front(p), Last(p)>>
      BY <1>5
    <3>2. PICK i \in 1..n : O[i] = p
      BY <1>2 DEF Bijection, Surjection
    <3>3. QED
      BY <3>1, <3>2
  <2> HIDE DEF H
  <2>4. QED
    BY <2>1, <2>2, <2>3 DEF Bijection, Injection, Surjection, IsInjective
<1>8. \A i \in 1..n : H[i][1] = Front(O[i]) /\ H[i][2] = Last(O[i])
  OBVIOUS
<1> HIDE DEF H
<1>9. \A i \in 1..n : Collected(b, kept)[i]
                        = Stamp(kept[H[i][1]][H[i][2]], LabelsOf(b, H[i][1]))
  BY <1>3, <1>6, <1>8
<1>10. DOMAIN Collected(b, kept) = 1..n
  BY <1>3, <1>6
<1>11. QED
  BY <1>2, <1>7, <1>9, <1>10 DEF Lists

-----------------------------------------------------------------------------
(* The labels of a judge. *)

(* A set of naturals that has 0, and the successor of each of its elements *)
(* below a bound, has everything up to the bound.                          *)
LEMMA UpTo ==
  ASSUME NEW N \in Nat, NEW S, 0 \in S,
         \A n \in 0..N : n # 0 /\ n - 1 \in S => n \in S
  PROVE  \A n \in 0..N : n \in S
<1> DEFINE missing == {n \in 0..N : n \notin S}
<1>1. SUFFICES ASSUME missing # {}
               PROVE  FALSE
  OBVIOUS
<1>2. PICK n \in missing : \A m \in missing : n <= m
  <2>1. missing \in SUBSET Nat
    OBVIOUS
  <2> HIDE DEF missing
  <2>2. QED
    BY <1>1, <2>1, Least
<1>3. n # 0 /\ n \in Nat
  OBVIOUS
<1>4. n - 1 \in 0..N /\ n - 1 \notin missing
  BY <1>2, <1>3
<1>5. QED
  BY <1>3, <1>4

(* The labels of a leaf, panel by panel from the top. *)
LabelsAt(b, leaf, f, k) ==
  IF k = 0 THEN << >>
  ELSE IF InPanel(b, Way(leaf, k)) THEN Append(f[k - 1], b[Way(leaf, k)].label)
  ELSE f[k - 1]
LabelsUpTo(b, leaf, f, n) == f = [k \in 0..n |-> LabelsAt(b, leaf, f, k)]

LEMMA LabelsExist ==
  ASSUME NEW b, NEW leaf \in Seq(Nat)
  PROVE  \E f : LabelsUpTo(b, leaf, f, Len(leaf))
<1> DEFINE N == Len(leaf)
           S == {n \in 0..N : \E f : LabelsUpTo(b, leaf, f, n)}
<1>1. N \in Nat
  OBVIOUS
<1> HIDE DEF N
<1>2. 0 \in S
  <2> DEFINE f == [k \in 0..0 |-> << >>]
  <2>1. f = [k \in 0..0 |-> LabelsAt(b, leaf, f, k)]
    BY DEF LabelsAt
  <2>2. QED
    BY <1>1, <2>1 DEF LabelsUpTo
<1>3. ASSUME NEW n \in 0..N, n # 0, n - 1 \in S
      PROVE  n \in S
  <2>1. PICK f : LabelsUpTo(b, leaf, f, n - 1)
    BY <1>3
  <2> DEFINE g == [k \in 0..n |-> IF k = n THEN LabelsAt(b, leaf, f, n) ELSE f[k]]
  <2>2. ASSUME NEW k \in 0..n
        PROVE  g[k] = LabelsAt(b, leaf, g, k)
    <3>1. CASE k # n
      <4>1. k \in 0..(n - 1) /\ g[k] = f[k]
        BY <1>1, <3>1
      <4>2. f[k] = LabelsAt(b, leaf, f, k)
        BY <2>1, <4>1 DEF LabelsUpTo
      <4>3. k # 0 => k - 1 \in 0..n /\ k - 1 # n /\ g[k - 1] = f[k - 1]
        BY <1>1, <3>1
      <4>4. QED
        BY <4>1, <4>2, <4>3 DEF LabelsAt
    <3>2. CASE k = n
      <4>1. n - 1 \in 0..n /\ n - 1 # n /\ n \in 0..n
        BY <1>1, <1>3
      <4>2. g[n - 1] = f[n - 1] /\ g[n] = LabelsAt(b, leaf, f, n)
        BY <4>1
      <4>3. QED
        BY <1>3, <3>2, <4>2 DEF LabelsAt
    <3>3. QED
      BY <3>1, <3>2
  <2>3. LabelsUpTo(b, leaf, g, n)
    <3>1. g = [k \in 0..n |-> g[k]]
      OBVIOUS
    <3>2. QED
      BY <2>2, <3>1 DEF LabelsUpTo
  <2>4. QED
    BY <2>3
<1>4. N \in 0..N
  BY <1>1
<1>5. N \in S
  <2> HIDE DEF S
  <2>1. QED
    BY <1>1, <1>2, <1>3, <1>4, UpTo
<1>6. QED
  BY <1>5 DEF N

(* A leaf below a panel of several judges has the label of its judge first. *)
LEMMA FirstLabel ==
  ASSUME NEW b, NEW leaf \in Seq(Nat), Len(leaf) > 0, InPanel(b, Way(leaf, 1))
  PROVE  LabelsOf(b, leaf) # << >> /\ LabelsOf(b, leaf)[1] = b[Way(leaf, 1)].label
<1> DEFINE N == Len(leaf)
           first == b[Way(leaf, 1)].label
<1>1. N \in Nat /\ N > 0
  OBVIOUS
<1>2. PICK f : LabelsKept(b, leaf, f) /\ LabelsOf(b, leaf) = f[N]
  BY LabelsExist, LabelsAreKept DEF LabelsUpTo, LabelsAt, LabelsKept
<1> HIDE DEF N, first
<1>3. \A k \in 0..N : f[k] = LabelsAt(b, leaf, f, k)
  BY <1>2 DEF LabelsKept, LabelsAt, N
<1> DEFINE Begins(s) == \E T : s \in Seq(T) /\ Len(s) > 0 /\ s[1] = first
           S == {k \in 0..N : k = 0 \/ Begins(f[k])}
<1>4. ASSUME NEW k \in 0..N, k # 0, k - 1 \in S
      PROVE  k \in S
  <2>1. k \in 0..N /\ k - 1 \in 0..N
    BY <1>1, <1>4
  <2>2. CASE k = 1
    <3>1. f[0] = << >>
      BY <1>1, <1>3 DEF LabelsAt
    <3>2. f[1] = Append(f[0], b[Way(leaf, 1)].label)
      <4>1. 1 \in 0..N /\ 1 # 0 /\ 1 - 1 = 0
        BY <1>1
      <4>2. f[1] = LabelsAt(b, leaf, f, 1)
        BY <1>3, <4>1
      <4>3. QED
        BY <4>1, <4>2 DEF LabelsAt
    <3>3. f[1] = <<first>>
      <4>1. \A x : Append(<< >>, x) = <<x>>
        OBVIOUS
      <4>2. QED
        BY <3>1, <3>2, <4>1 DEF first
    <3>4. Begins(<<first>>)
      <4> DEFINE one == <<first>>
      <4>1. one \in Seq({first}) /\ Len(one) = 1 /\ one[1] = first
        OBVIOUS
      <4> HIDE DEF one
      <4>2. Len(one) > 0
        BY <4>1
      <4>3. Begins(one)
        BY <4>1, <4>2
      <4>4. QED
        BY <4>3 DEF one
    <3> HIDE DEF Begins
    <3>5. QED
      BY <2>1, <2>2, <3>3, <3>4
  <2>3. CASE k # 1
    <3>1. Begins(f[k - 1])
      <4>1. k - 1 # 0
        BY <2>1, <2>3
      <4> HIDE DEF Begins
      <4>2. QED
        BY <1>4, <4>1
    <3>2. f[k] = f[k - 1] \/ \E x : f[k] = Append(f[k - 1], x)
      BY <1>3, <1>4 DEF LabelsAt
    <3>3. ASSUME NEW s, NEW x, Begins(s)
          PROVE  Begins(Append(s, x))
      <4>1. PICK T : s \in Seq(T) /\ Len(s) > 0 /\ s[1] = first
        BY <3>3
      <4>2. Append(s, x) \in Seq(T \cup {x}) /\ Len(Append(s, x)) = Len(s) + 1
            /\ Append(s, x)[1] = s[1]
        BY <4>1
      <4>3. Len(s) \in Nat /\ Len(Append(s, x)) > 0
        BY <4>1, <4>2
      <4>4. QED
        BY <4>1, <4>2, <4>3
    <3> HIDE DEF Begins
    <3>4. Begins(f[k])
      BY <3>1, <3>2, <3>3
    <3>5. QED
      BY <2>1, <3>4
  <2>4. QED
    BY <2>2, <2>3
<1>5. 0 \in S
  BY <1>1
<1>6. N \in 0..N
  BY <1>1
<1>7. N \in S
  <2> HIDE DEF S
  <2>1. QED
    BY <1>1, <1>4, <1>5, <1>6, UpTo
<1>8. PICK T : f[N] \in Seq(T) /\ Len(f[N]) > 0 /\ f[N][1] = first
  BY <1>1, <1>7
<1>9. f[N] # << >>
  <2>1. Len(<< >>) = 0
    OBVIOUS
  <2>2. QED
    BY <1>8, <2>1
<1>10. QED
  BY <1>2, <1>8, <1>9 DEF first

-----------------------------------------------------------------------------
(* What a report says of the invocations and of the processes. *)

(* Counting positions is counting what is there. *)
LEMMA CountedOnce ==
  ASSUME NEW n \in Nat, NEW S, NEW H \in Bijection(1..n, S), NEW Q \in SUBSET S,
         NEW at, at = {i \in 1..n : H[i] \in Q}
  PROVE  IsFiniteSet(at) /\ IsFiniteSet(Q) /\ Cardinality(at) = Cardinality(Q)
<1> DEFINE h == [i \in at |-> H[i]]
<1>1. H \in [1..n -> S] /\ (\A i, j \in 1..n : H[i] = H[j] => i = j)
      /\ \A s \in S : \E i \in 1..n : H[i] = s
  BY DEF Bijection, Injection, Surjection, IsInjective
<1>2. h \in [at -> Q] /\ (\A i, j \in at : h[i] = h[j] => i = j)
      /\ \A s \in Q : \E i \in at : h[i] = s
  BY <1>1
<1> HIDE DEF h
<1>3. h \in Bijection(at, Q)
  BY <1>2 DEF Bijection, Injection, Surjection, IsInjective
<1>4. IsFiniteSet(at)
  <2>1. IsFiniteSet(1..n) /\ at \in SUBSET (1..n)
    BY FS_Interval
  <2>2. QED
    BY <2>1, FS_Subset
<1>5. QED
  BY <1>3, <1>4, FS_Bijection DEF ExistsBijection

EntriesAt(kept, l) == {<<l, k>> : k \in DOMAIN kept[l]}

LEMMA EntriesAtLeaf ==
  ASSUME NEW b, NEW kept, KeptBy(b, kept), NEW l \in DOMAIN kept
  PROVE  Cardinality(EntriesAt(kept, l)) = Len(kept[l])
<1>1. PICK S : kept[l] \in Seq(S)
  BY DEF KeptBy
<1>2. Len(kept[l]) \in Nat /\ DOMAIN kept[l] = 1..Len(kept[l])
  BY <1>1
<1> DEFINE h == [k \in 1..Len(kept[l]) |-> <<l, k>>]
<1>3. h \in [1..Len(kept[l]) -> EntriesAt(kept, l)]
  BY <1>2 DEF EntriesAt
<1>4. \A i, j \in 1..Len(kept[l]) : h[i] = h[j] => i = j
  OBVIOUS
<1>5. \A e \in EntriesAt(kept, l) : \E i \in 1..Len(kept[l]) : h[i] = e
  BY <1>2 DEF EntriesAt
<1> HIDE DEF h
<1>6. h \in Bijection(1..Len(kept[l]), EntriesAt(kept, l))
  BY <1>3, <1>4, <1>5 DEF Bijection, Injection, Surjection, IsInjective
<1>7. QED
  BY <1>2, <1>6, FS_CountingElements DEF ExistsBijection

(* A stamp changes the judge of an entry and nothing else. *)
LEMMA StampedRecord ==
  ASSUME NEW l, NEW e \in Entries(l), NEW labels
  PROVE  /\ Stamp(e, labels).role = e.role /\ Stamp(e, labels).ran = l
         /\ Stamp(e, labels).usage = e.usage /\ e.usage \in {None, <<1>>}
         /\ Stamp(e, labels).named = (Backend[l].kind # "llmlint")
         /\ labels # << >> => Stamp(e, labels).judge = <<labels[1]>>
         /\ \E op \in Ops : l \in Reached(Backend, op) /\ e.role = Role(op)
<1>1. /\ DOMAIN e = {"role", "judge", "ran", "history", "session", "usage", "named"}
      /\ e = [x \in DOMAIN e |-> e[x]] /\ e.ran = l /\ e.usage \in {None, <<1>>}
      /\ e.named = (Backend[l].kind # "llmlint")
  BY DEF Entries
<1>2. \E op \in Ops : l \in Reached(Backend, op) /\ e.role = Role(op)
  BY DEF Entries
<1>3. QED
  BY <1>1, <1>2 DEF Stamp

Started(l) == [judge |-> None, ran |-> l]

LEMMA StampedProcess ==
  ASSUME NEW l, NEW labels
  PROVE  Stamp(Started(l), labels).ran = l
BY DEF Stamp, Started

(* Every process is listed under the leaf that started it. *)
LEMMA ProcessesAreListed ==
  ASSUME WellBuilt(Backend), KeptBy(Backend, spawned),
         \A l \in DOMAIN spawned : spawned[l] \in Seq({Started(l)}),
         NEW l \in DOMAIN spawned, NEW P, P = Collected(Backend, spawned)
  PROVE  Cardinality({i \in DOMAIN P : P[i].ran = l}) = Len(spawned[l])
<1> PICK n \in Nat : \E H : Lists(Backend, P, spawned, n, H)
  BY CollectedIsAll
<1>1. PICK H : Lists(Backend, P, spawned, n, H)
  OBVIOUS
<1>2. ASSUME NEW i \in 1..n
      PROVE  P[i].ran = H[i][1] /\ (P[i].ran = l <=> H[i] \in EntriesAt(spawned, l))
  <2>1. H[i] \in EntriesOf(spawned)
    BY <1>1 DEF Lists, Bijection, Injection
  <2>2. PICK m \in DOMAIN spawned : \E k \in DOMAIN spawned[m] : H[i] = <<m, k>>
    BY <2>1 DEF EntriesOf
  <2>3. PICK k \in DOMAIN spawned[m] : H[i] = <<m, k>>
    BY <2>2
  <2>4. spawned[m][k] = Started(m)
    <3>1. spawned[m] \in Seq({Started(m)})
      OBVIOUS
    <3>2. QED
      BY <3>1
  <2>5. P[i].ran = m
    BY <1>1, <2>3, <2>4, StampedProcess DEF Lists
  <2>6. H[i] \in EntriesAt(spawned, l) <=> m = l
    BY <2>3 DEF EntriesAt
  <2>7. QED
    BY <2>3, <2>5, <2>6
<1>3. EntriesAt(spawned, l) \in SUBSET EntriesOf(spawned)
  BY DEF EntriesAt, EntriesOf
<1> DEFINE at == {i \in DOMAIN P : P[i].ran = l}
<1>4. at = {i \in 1..n : H[i] \in EntriesAt(spawned, l)}
  BY <1>1, <1>2 DEF Lists
<1> HIDE DEF at
<1>5. Cardinality(at) = Cardinality(EntriesAt(spawned, l))
  BY <1>1, <1>3, <1>4, CountedOnce DEF Lists
<1>6. QED
  BY <1>5, EntriesAtLeaf DEF at

(* What holds of the records when they are read out. *)
GoodRecords == /\ WellBuilt(Backend) /\ KeptBy(Backend, records)
               /\ \A l \in DOMAIN records : records[l] \in Seq(Entries(l))

(* What the list says of an invocation is what its leaf recorded of it. *)
LEMMA RecordRead ==
  ASSUME GoodRecords, NEW R, NEW n \in Nat, NEW H, Lists(Backend, R, records, n, H),
         NEW i \in 1..n
  PROVE  \E m \in DOMAIN records : \E k \in DOMAIN records[m] :
           /\ H[i] = <<m, k>> /\ R[i].role = records[m][k].role /\ R[i].ran = m
           /\ R[i].usage \in {None, <<1>>} /\ R[i].named = (Backend[m].kind # "llmlint")
           /\ LabelsOf(Backend, m) # << >> => R[i].judge = <<LabelsOf(Backend, m)[1]>>
           /\ \E op \in Ops : m \in Reached(Backend, op) /\ R[i].role = Role(op)
<1>1. H[i] \in EntriesOf(records)
  BY DEF Lists, Bijection, Injection
<1>2. PICK m \in DOMAIN records : \E k \in DOMAIN records[m] : H[i] = <<m, k>>
  BY <1>1 DEF EntriesOf
<1>3. PICK k \in DOMAIN records[m] : H[i] = <<m, k>>
  BY <1>2
<1>4. records[m][k] \in Entries(m)
  <2>1. records[m] \in Seq(Entries(m))
    BY DEF GoodRecords
  <2>2. QED
    BY <2>1
<1>5. R[i] = Stamp(records[m][k], LabelsOf(Backend, m))
  BY <1>3 DEF Lists
<1>6. QED
  BY <1>3, <1>4, <1>5, StampedRecord

(* A party's invocations in the list are all it made. *)
LEMMA PartyIsCounted ==
  ASSUME GoodRecords, NEW R, NEW n \in Nat, NEW H, Lists(Backend, R, records, n, H), NEW role
  PROVE  /\ IsFiniteSet(OfRole(R, role)) /\ OfRole(R, role) = {i \in 1..n : R[i].role = role}
         /\ Cardinality(OfRole(R, role)) = Cardinality(AllRecords(role))
         /\ Cardinality(AllRecords(role)) \in Nat
<1>1. DOMAIN R = 1..n /\ H \in Bijection(1..n, EntriesOf(records))
  BY DEF Lists
<1>2. ASSUME NEW i \in 1..n
      PROVE  R[i].role = role <=> H[i] \in AllRecords(role)
  <2>1. PICK m \in DOMAIN records : \E k \in DOMAIN records[m] :
               H[i] = <<m, k>> /\ R[i].role = records[m][k].role
    BY RecordRead, SMTT(30)
  <2>2. PICK k \in DOMAIN records[m] : H[i] = <<m, k>> /\ R[i].role = records[m][k].role
    BY <2>1
  <2>3. <<m, k>> \in AllRecords(role) <=> records[m][k].role = role
    BY DEF AllRecords
  <2>4. QED
    BY <2>2, <2>3
<1>3. AllRecords(role) \in SUBSET EntriesOf(records)
  BY DEF AllRecords, EntriesOf
<1>4. OfRole(R, role) = {i \in 1..n : R[i].role = role}
  BY <1>1 DEF OfRole
<1>5. OfRole(R, role) = {i \in 1..n : H[i] \in AllRecords(role)}
  BY <1>2, <1>4
<1>6. /\ IsFiniteSet(OfRole(R, role)) /\ IsFiniteSet(AllRecords(role))
      /\ Cardinality(OfRole(R, role)) = Cardinality(AllRecords(role))
  BY <1>1, <1>3, <1>5, CountedOnce
<1>7. QED
  BY <1>4, <1>6, FS_CardinalityType

(* The numbers of a party's invocations are theirs alone, and no larger    *)
(* than there are invocations.                                             *)
LEMMA TurnIndices ==
  ASSUME GoodRecords, NEW R, NEW n \in Nat, NEW H, Lists(Backend, R, records, n, H),
         NEW j \in 1..n
  PROVE  /\ TurnIndex(R, j) \in 1..Cardinality(AllRecords(R[j].role))
         /\ \A i \in 1..(j - 1) : R[i].role = R[j].role => TurnIndex(R, i) < TurnIndex(R, j)
<1> DEFINE role == R[j].role
           of(i) == {k \in 1..i : R[k].role = role}
<1>1. /\ IsFiniteSet(OfRole(R, role)) /\ OfRole(R, role) = {i \in 1..n : R[i].role = role}
      /\ Cardinality(OfRole(R, role)) = Cardinality(AllRecords(role))
      /\ Cardinality(AllRecords(role)) \in Nat
  <2> HIDE DEF role
  <2>1. QED
    BY PartyIsCounted
<1>2. ASSUME NEW i \in 1..n
      PROVE  /\ IsFiniteSet(of(i)) /\ Cardinality(of(i)) \in Nat
             /\ Cardinality(of(i)) <= Cardinality(AllRecords(role))
  <2>1. of(i) \in SUBSET OfRole(R, role)
    BY <1>1
  <2> HIDE DEF of, role
  <2>2. QED
    BY <1>1, <2>1, FS_Subset, FS_CardinalityType
<1>3. TurnIndex(R, j) = Cardinality(of(j))
  BY DEF TurnIndex
<1>4. j \in of(j)
  OBVIOUS
<1>5. Cardinality(of(j)) >= 1
  <2>1. of(j) # {}
    BY <1>4
  <2> HIDE DEF of, role
  <2>2. Cardinality(of(j)) # 0
    BY <1>2, <2>1, FS_EmptySet
  <2>3. Cardinality(of(j)) \in Nat
    BY <1>2
  <2>4. QED
    BY <2>2, <2>3
<1>6. ASSUME NEW i \in 1..(j - 1), R[i].role = role
      PROVE  TurnIndex(R, i) < TurnIndex(R, j)
  <2>1. i \in 1..n
    OBVIOUS
  <2>2. TurnIndex(R, i) = Cardinality(of(i))
    BY <1>6 DEF TurnIndex
  <2>3. of(i) \cup {j} \in SUBSET of(j) /\ j \notin of(i)
    BY <1>4
  <2> HIDE DEF of, role
  <2>4. Cardinality(of(i) \cup {j}) = Cardinality(of(i)) + 1
    BY <1>2, <2>1, <2>3, FS_AddElement
  <2>5. Cardinality(of(i) \cup {j}) <= Cardinality(of(j))
    BY <1>2, <2>3, FS_Subset
  <2>6. Cardinality(of(i)) \in Nat /\ Cardinality(of(j)) \in Nat
    BY <1>2, <2>1
  <2>7. QED
    BY <1>3, <2>2, <2>4, <2>5, <2>6
<1> HIDE DEF of
<1>7. TurnIndex(R, j) \in 1..Cardinality(AllRecords(role))
  <2> HIDE DEF role
  <2>1. Cardinality(of(j)) \in Nat /\ Cardinality(of(j)) <= Cardinality(AllRecords(role))
    BY <1>2
  <2>2. QED
    BY <1>1, <1>3, <1>5, <2>1
<1>8. QED
  BY <1>6, <1>7

(* A leaf that names its harness is attributed all that it ran. *)
LEMMA LeafIsAttributed ==
  ASSUME GoodRecords, NEW R, NEW n \in Nat, NEW H, Lists(Backend, R, records, n, H),
         NEW l \in DOMAIN records, Backend[l].kind # "llmlint",
         NEW at, at = {i \in 1..n : R[i].named /\ R[i].ran = l}
  PROVE  Cardinality(at) = Len(records[l])
<1>1. ASSUME NEW i \in 1..n
      PROVE  R[i].named /\ R[i].ran = l <=> H[i] \in EntriesAt(records, l)
  <2>1. PICK m \in DOMAIN records : \E k \in DOMAIN records[m] :
          H[i] = <<m, k>> /\ R[i].ran = m /\ R[i].named = (Backend[m].kind # "llmlint")
    BY RecordRead
  <2>2. PICK k \in DOMAIN records[m] : H[i] = <<m, k>>
    BY <2>1
  <2>3. <<m, k>> \in EntriesAt(records, l) <=> m = l
    BY DEF EntriesAt
  <2>4. QED
    BY <2>1, <2>2, <2>3
<1>2. EntriesAt(records, l) \in SUBSET EntriesOf(records)
  BY DEF EntriesAt, EntriesOf
<1>3. at = {i \in 1..n : H[i] \in EntriesAt(records, l)}
  BY <1>1
<1>4. Cardinality(at) = Cardinality(EntriesAt(records, l))
  BY <1>2, <1>3, CountedOnce DEF Lists
<1>5. QED
  BY <1>4, EntriesAtLeaf DEF GoodRecords

(* A party's total, where there is one, is of all its invocations. *)
LEMMA TotalIsOfAll ==
  ASSUME GoodRecords, NEW R, NEW n \in Nat, NEW H, Lists(Backend, R, records, n, H), NEW role,
         summarize(R, OfRole(R, role)) # None
  PROVE  summarize(R, OfRole(R, role)) = <<Cardinality(AllRecords(role))>>
<1> DEFINE party == OfRole(R, role)
           f == [i \in party |-> R[i].usage[1]]
<1>1. /\ IsFiniteSet(party) /\ party \subseteq 1..n
      /\ Cardinality(party) = Cardinality(AllRecords(role))
  BY PartyIsCounted
<1>2. (\A i \in party : R[i].usage # None) /\ summarize(R, party) = <<SumFunction(f)>>
  BY DEF summarize, strict_sum
<1> HIDE DEF party
<1>3. \A i \in party : R[i].usage[1] = 1
  <2>1. ASSUME NEW i \in party
        PROVE  R[i].usage[1] = 1
    <3>1. R[i].usage \in {None, <<1>>}
      BY <1>1, RecordRead
    <3>2. R[i].usage = <<1>>
      BY <1>2, <3>1
    <3>3. QED
      BY <3>2
  <2>2. QED
    BY <2>1
<1>4. DOMAIN f = party /\ \A x \in DOMAIN f : f[x] = 1
  BY <1>3
<1> HIDE DEF f
<1>5. SumFunction(f) = Cardinality(party)
  BY <1>1, <1>4, SumOfOnes
<1>6. QED
  BY <1>1, <1>2, <1>5 DEF party

(* A judge's call gets to a leaf below one of the judges at the top. *)
LEMMA BelowATopJudge ==
  ASSUME NEW b, WellBuilt(b), b[<< >>].kind = "split", NEW op \in Ops \ {"respond"},
         NEW m \in Reached(b, op)
  PROVE  /\ m \in Seq(Nat) /\ Len(m) > 0 /\ m[1] \in 1..b[<< >>].judges
         /\ Way(m, 1) = Append(<< >>, m[1]) /\ Front(Way(m, 1)) = << >> /\ IsJudge(Way(m, 1))
<1>1. m \in DOMAIN b /\ m \in Seq(Nat) /\ m # << >>
  BY DEF Reached, Leaves, WellBuilt
<1>2. Len(m) \in Nat /\ Len(m) > 0 /\ 1 \in DOMAIN m /\ 1 \in 0..Len(m) /\ 0 \in 0..Len(m)
  BY <1>1
<1>3. Way(m, 1) \in Seq(Nat) /\ Len(Way(m, 1)) = 1 /\ Way(m, 1)[1] = m[1] /\ Way(m, 0) = << >>
  <2>1. 1 \in 1..1
    OBVIOUS
  <2>2. QED
    BY <1>1, <1>2, <2>1, WayFacts
<1>4. Way(m, 1) \in Asks(b, << >>, op)
  <2>1. Way(m, 1) \in Asks(b, Way(m, 1 - 1), op)
    BY <1>2 DEF Reached, GetsTo
  <2>2. 1 - 1 = 0
    OBVIOUS
  <2>3. QED
    BY <1>3, <2>1, <2>2
<1>5. PICK i \in 1..b[<< >>].judges : Way(m, 1) = Append(<< >>, i)
  BY <1>4 DEF Asks, JudgesAt
<1>6. b[<< >>].judges \in Nat
  BY DEF WellBuilt
<1>7. Append(<< >>, i)[1] = i /\ i \in Nat \ {0}
  BY <1>6
<1>8. m[1] = i
  BY <1>3, <1>5, <1>7
<1>9. IsJudge(Append(<< >>, i))
  <2>1. << >> \in Seq(Nat)
    OBVIOUS
  <2>2. QED
    BY <1>7, <2>1, AppendIsJudge
<1>10. Front(Way(m, 1)) = << >>
  BY <1>3, OneStep
<1>11. QED
  BY <1>1, <1>2, <1>5, <1>8, <1>9, <1>10

(* The leaves below two judges of the top panel have different labels. *)
LEMMA JudgesAreToldApart ==
  ASSUME NEW b, WellBuilt(b), b[<< >>].kind = "split",
         NEW op \in Ops \ {"respond"}, NEW other \in Ops \ {"respond"},
         NEW l \in Reached(b, op), NEW m \in Reached(b, other), l[1] # m[1]
  PROVE  /\ LabelsOf(b, l) # << >> /\ LabelsOf(b, m) # << >>
         /\ LabelsOf(b, l)[1] # LabelsOf(b, m)[1]
<1>1. /\ l \in Seq(Nat) /\ Len(l) > 0 /\ l[1] \in 1..b[<< >>].judges
      /\ Way(l, 1) = Append(<< >>, l[1]) /\ Front(Way(l, 1)) = << >> /\ IsJudge(Way(l, 1))
      /\ m \in Seq(Nat) /\ Len(m) > 0 /\ m[1] \in 1..b[<< >>].judges
      /\ Way(m, 1) = Append(<< >>, m[1]) /\ Front(Way(m, 1)) = << >> /\ IsJudge(Way(m, 1))
  BY BelowATopJudge
<1>2. b[<< >>].judges \in Nat
  BY DEF WellBuilt
<1>3. b[<< >>].judges > 1
  BY <1>1, <1>2
<1>4. InPanel(b, Way(l, 1)) /\ InPanel(b, Way(m, 1))
  BY <1>1, <1>3 DEF InPanel
<1>5. /\ LabelsOf(b, l) # << >> /\ LabelsOf(b, l)[1] = b[Way(l, 1)].label
      /\ LabelsOf(b, m) # << >> /\ LabelsOf(b, m)[1] = b[Way(m, 1)].label
  BY <1>1, <1>4, FirstLabel
<1>6. b[Append(<< >>, l[1])].label # b[Append(<< >>, m[1])].label
  BY <1>1 DEF WellBuilt
<1>7. QED
  BY <1>1, <1>5, <1>6

(* Two judges' invocations do not carry the same label. *)
LEMMA AttributionsAreToldApart ==
  ASSUME GoodRecords, NEW R, NEW n \in Nat, NEW H, Lists(Backend, R, records, n, H),
         Backend[<< >>].kind = "split", NEW i \in 1..n, NEW j \in 1..n,
         R[i].role = "judge", R[j].role = "judge", R[i].ran[1] # R[j].ran[1]
  PROVE  R[i].judge # R[j].judge
<1>1. ASSUME NEW x \in 1..n, R[x].role = "judge"
      PROVE  /\ \E op \in Ops \ {"respond"} : R[x].ran \in Reached(Backend, op)
             /\ LabelsOf(Backend, R[x].ran) # << >>
                  => R[x].judge = <<LabelsOf(Backend, R[x].ran)[1]>>
  <2>1. PICK m \in DOMAIN records :
          /\ R[x].ran = m
          /\ LabelsOf(Backend, m) # << >> => R[x].judge = <<LabelsOf(Backend, m)[1]>>
          /\ \E op \in Ops : m \in Reached(Backend, op) /\ R[x].role = Role(op)
    BY RecordRead
  <2>2. PICK op \in Ops : m \in Reached(Backend, op) /\ R[x].role = Role(op)
    BY <2>1
  <2>3. op # "respond"
    BY <1>1, <2>2 DEF Role
  <2>4. QED
    BY <2>1, <2>2, <2>3
<1>2. PICK op \in Ops \ {"respond"} : R[i].ran \in Reached(Backend, op)
  BY <1>1
<1>3. PICK other \in Ops \ {"respond"} : R[j].ran \in Reached(Backend, other)
  BY <1>1
<1> DEFINE L == LabelsOf(Backend, R[i].ran)
           M == LabelsOf(Backend, R[j].ran)
<1>4. L # << >> /\ M # << >> /\ L[1] # M[1]
  BY <1>2, <1>3, JudgesAreToldApart DEF GoodRecords
<1>5. R[i].judge = <<L[1]>> /\ R[j].judge = <<M[1]>>
  BY <1>1, <1>4
<1> HIDE DEF L, M
<1>6. <<L[1]>> # <<M[1]>>
  <2>1. \A x, y : <<x>> = <<y>> => x = y
    OBVIOUS
  <2>2. QED
    BY <1>4, <2>1
<1>7. QED
  BY <1>5, <1>6

(* What a report says of the invocations is what was recorded.             *)
Attributes(A, R, n) ==
  /\ DOMAIN A = {i \in 1..n : R[i].named}
  /\ \A i \in DOMAIN A : A[i].role = R[i].role /\ A[i].turn_index = TurnIndex(R, i)
                         /\ A[i].judge = R[i].judge /\ A[i].ran = R[i].ran

Faithful(A) ==
  /\ \A l \in DOMAIN records : Backend[l].kind # "llmlint" =>
       Cardinality({i \in DOMAIN A : A[i].ran = l}) = Len(records[l])
  /\ \A i \in DOMAIN A : A[i].turn_index \in 1..Cardinality(AllRecords(A[i].role))
  /\ \A i, j \in DOMAIN A :
       i # j => A[i].role # A[j].role \/ A[i].turn_index # A[j].turn_index
  /\ Backend[<< >>].kind = "split" =>
       \A i, j \in {i \in DOMAIN A : A[i].role = "judge"} :
         A[i].ran[1] # A[j].ran[1] => A[i].judge # A[j].judge

LEMMA AttributionIsFaithful ==
  ASSUME GoodRecords, NEW R, NEW n \in Nat, NEW H, Lists(Backend, R, records, n, H),
         NEW A, Attributes(A, R, n)
  PROVE  Faithful(A)
<1>1. ASSUME NEW l \in DOMAIN records, Backend[l].kind # "llmlint"
      PROVE  Cardinality({i \in DOMAIN A : A[i].ran = l}) = Len(records[l])
  <2> DEFINE at == {i \in DOMAIN A : A[i].ran = l}
  <2>1. at = {i \in 1..n : R[i].named /\ R[i].ran = l}
    BY DEF Attributes
  <2> HIDE DEF at
  <2>2. Cardinality(at) = Len(records[l])
    BY <1>1, <2>1, LeafIsAttributed
  <2>3. QED
    BY <2>2 DEF at
<1>2. ASSUME NEW i \in DOMAIN A
      PROVE  /\ i \in 1..n /\ TurnIndex(R, i) \in Nat
             /\ A[i].turn_index \in 1..Cardinality(AllRecords(A[i].role))
  <2>1. i \in 1..n
    BY DEF Attributes
  <2>2. TurnIndex(R, i) \in 1..Cardinality(AllRecords(R[i].role))
    BY <2>1, TurnIndices
  <2>3. Cardinality(AllRecords(R[i].role)) \in Nat
    BY PartyIsCounted
  <2>4. TurnIndex(R, i) \in Nat
    BY <2>2, <2>3
  <2>5. QED
    BY <2>1, <2>2, <2>4 DEF Attributes
<1>3. ASSUME NEW i \in DOMAIN A, NEW j \in DOMAIN A, i < j
      PROVE  A[i].role # A[j].role \/ A[i].turn_index # A[j].turn_index
  <2>1. i \in 1..(j - 1) /\ j \in 1..n
    BY <1>2, <1>3
  <2>2. R[i].role = R[j].role => TurnIndex(R, i) < TurnIndex(R, j)
    BY <2>1, TurnIndices
  <2>3. TurnIndex(R, i) \in Nat /\ TurnIndex(R, j) \in Nat
    BY <1>2
  <2>4. R[i].role = R[j].role => TurnIndex(R, i) # TurnIndex(R, j)
    BY <2>2, <2>3
  <2>5. QED
    BY <2>4 DEF Attributes
<1>4. ASSUME NEW i \in DOMAIN A, NEW j \in DOMAIN A, i # j
      PROVE  A[i].role # A[j].role \/ A[i].turn_index # A[j].turn_index
  <2>1. i < j \/ j < i
    BY <1>2, <1>4
  <2>2. QED
    BY <1>3, <2>1
<1>5. ASSUME Backend[<< >>].kind = "split", NEW i \in DOMAIN A, NEW j \in DOMAIN A,
             A[i].role = "judge", A[j].role = "judge", A[i].ran[1] # A[j].ran[1]
      PROVE  A[i].judge # A[j].judge
  <2>1. i \in 1..n /\ j \in 1..n
    BY <1>2
  <2>2. R[i].role = "judge" /\ R[j].role = "judge" /\ R[i].ran[1] # R[j].ran[1]
    BY <1>5 DEF Attributes
  <2>3. R[i].judge # R[j].judge
    BY <1>5, <2>1, <2>2, AttributionsAreToldApart
  <2>4. QED
    BY <2>3 DEF Attributes
<1>6. QED
  BY <1>1, <1>2, <1>4, <1>5 DEF Faithful

-----------------------------------------------------------------------------
(* What is in a run's total or in a verdict is what its calls used. *)

LEMMA NumberType ==
  ASSUME NEW v \in Optional(Nat)
  PROVE  OrElse(v, 0) \in Nat
BY OrElseType

(* Adding to a total, whether or not there is one yet, adds the amounts. *)
LEMMA AddSpends ==
  ASSUME NEW total \in Optional(Nat), NEW used \in Optional(Nat)
  PROVE  /\ Add(total, used) \in Optional(Nat)
         /\ OrElse(Add(total, used), 0) = OrElse(total, 0) + OrElse(used, 0)
<1>1. OrElse(total, 0) \in Nat
  BY NumberType
<1>2. CASE used = None
  BY <1>1, <1>2 DEF Add, OrElse
<1>3. CASE used # None
  <2>1. used[1] \in Nat
    BY <1>3, GivenType
  <2> DEFINE sum == OrElse(total, 0) + used[1]
  <2>2. sum \in Nat
    BY <1>1, <2>1
  <2>3. Add(total, used) = <<sum>>
    BY <1>3 DEF Add
  <2>4. OrElse(used, 0) = used[1]
    BY <1>3 DEF OrElse
  <2> HIDE DEF sum
  <2>5. <<sum>> \in Optional(Nat)
    BY <2>2, SomeType
  <2>6. OrElse(<<sum>>, 0) = sum
    BY DEF OrElse, None
  <2>7. QED
    BY <2>3, <2>4, <2>5, <2>6 DEF sum
<1>4. QED
  BY <1>2, <1>3

LEMMA AnswerSpends ==
  ASSUME WellBuilt(Backend), NEW op, NEW how, how \subseteq DOMAIN As, NEW o \in Odds(op, how)
  PROVE  AnswerUsage(op, o) \in Optional(Nat)
<1> DEFINE spenders == {l \in Reached(Backend, op) : Spent(o, l) # None}
           f == [l \in spenders |-> As[OddAt(o, l)]]
           asked(l) == {<<l, k>> : k \in 1..As[OddAt(o, l)]}
           spent == UNION {asked(l) : l \in spenders}
<1>1. IsFiniteSet(spenders)
  <2>1. spenders \in SUBSET DOMAIN Backend /\ IsFiniteSet(DOMAIN Backend)
    BY DEF Reached, Leaves, WellBuilt
  <2> HIDE DEF spenders
  <2>2. QED
    BY <2>1, FS_Subset
<1>2. AnswerUsage(op, o) = IF spent = {} THEN None ELSE <<Cardinality(spent)>>
  BY DEF AnswerUsage
<1> HIDE DEF spenders
<1>3. \A l \in spenders : f[l] \in Nat /\ f[l] = As[OddAt(o, l)]
  <2>1. o.as \in DOMAIN As
    BY OddType
  <2>2. \A l : As[OddAt(o, l)] \in Nat
    BY <2>1 DEF OddAt, As
  <2>3. QED
    BY <2>2
<1>4. spent = Units(f, spenders)
  <2>1. ASSUME NEW l \in spenders
        PROVE  Unit(f, l) = asked(l)
    <3>1. Unit(f, l) = {l} \X (1..As[OddAt(o, l)])
      BY <1>3 DEF Unit
    <3> HIDE DEF f
    <3>2. QED
      BY <3>1
  <2> HIDE DEF f, asked
  <2>2. UNION {Unit(f, l) : l \in spenders} = spent
    BY <2>1
  <2>3. QED
    BY <2>2 DEF Units
<1> HIDE DEF f, spent
<1>5. Cardinality(spent) \in Nat
  BY <1>1, <1>3, <1>4, UnitsAreFinite, FS_CardinalityType
<1>6. QED
  BY <1>2, <1>5, SomeType

(* A verdict adds its usage to the others'. *)
Spend(scored) == /\ \E S : scored \in Seq(S)
                 /\ \A i \in DOMAIN scored : scored[i].usage \in Optional(Nat)

LEMMA VerdictSpends ==
  ASSUME NEW scored, Spend(scored), NEW v, v.usage \in Optional(Nat)
  PROVE  /\ Spend(Append(scored, v)) /\ VerdictUsage(scored) \in Nat
         /\ VerdictUsage(Append(scored, v)) = VerdictUsage(scored) + OrElse(v.usage, 0)
<1>1. PICK S : scored \in Seq(S)
  BY DEF Spend
<1> DEFINE all == Append(scored, v)
           n == Len(scored)
           g == [i \in DOMAIN scored |-> OrElse(scored[i].usage, 0)]
           f == [i \in DOMAIN all |-> OrElse(all[i].usage, 0)]
<1>2. /\ n \in Nat /\ DOMAIN scored = 1..n /\ DOMAIN all = 1..(n + 1)
      /\ all \in Seq(S \cup {v}) /\ all[n + 1] = v /\ \A i \in 1..n : all[i] = scored[i]
  BY <1>1
<1>3. VerdictUsage(all) = SumFunction(f) /\ VerdictUsage(scored) = SumFunction(g)
  BY DEF VerdictUsage
<1> HIDE DEF all, n
<1>4. ASSUME NEW i \in DOMAIN all
      PROVE  all[i].usage \in Optional(Nat)
  <2>1. i = n + 1 \/ i \in 1..n
    BY <1>2
  <2>2. QED
    BY <1>2, <2>1 DEF Spend
<1>5. Spend(all)
  BY <1>2, <1>4 DEF Spend
<1>6. /\ n + 1 \in DOMAIN f /\ IsFiniteSet(DOMAIN f) /\ DOMAIN g = DOMAIN f \ {n + 1}
  <2>1. n + 1 \in 1..(n + 1) /\ 1..n = (1..(n + 1)) \ {n + 1} /\ n + 1 \in Int
    BY <1>2
  <2>2. IsFiniteSet(1..(n + 1))
    BY <2>1, FS_Interval
  <2>3. QED
    BY <1>2, <2>1, <2>2
<1>7. \A i \in DOMAIN f : f[i] \in Nat
  BY <1>4, NumberType
<1>8. \A i \in DOMAIN g : g[i] = f[i]
  <2>1. \A i \in 1..n : i \in 1..(n + 1)
    BY <1>2
  <2>2. QED
    BY <1>2, <2>1
<1>9. f[n + 1] = OrElse(v.usage, 0)
  BY <1>2, <1>6
<1> HIDE DEF f, g
<1>10. SumFunction(f) = f[n + 1] + SumFunction(g) /\ SumFunction(g) \in Nat
  BY <1>6, <1>7, <1>8, SumOfOneMore
<1>11. f[n + 1] \in Nat
  BY <1>6, <1>7
<1>12. SumFunction(f) = SumFunction(g) + f[n + 1]
  BY <1>10, <1>11
<1>13. QED
  BY <1>3, <1>5, <1>9, <1>10, <1>12 DEF all

LEMMA NoVerdictsSpend == Spend(<< >>) /\ VerdictUsage(<< >>) = 0
<1> DEFINE none == << >>
           f == [i \in DOMAIN none |-> OrElse(none[i].usage, 0)]
<1>1. DOMAIN none = {} /\ none \in Seq({})
  OBVIOUS
<1>2. VerdictUsage(none) = SumFunction(f)
  BY DEF VerdictUsage
<1> HIDE DEF none
<1>3. DOMAIN f = {} /\ \A x \in DOMAIN f : f[x] = 1
  BY <1>1
<1> HIDE DEF f
<1>4. SumFunction(f) = 0
  BY <1>3, SumOfOnes, FS_EmptySet
<1>5. Spend(none)
  BY <1>1 DEF Spend
<1>6. QED
  BY <1>2, <1>4, <1>5 DEF none

-----------------------------------------------------------------------------
(* What was answered is in the run's total or in a verdict.                *)

UsageInv == /\ usage \in Optional(Nat) /\ answered \in Optional(Nat) /\ Spend(verdicts)
            /\ OrElse(usage, 0) + VerdictUsage(verdicts) = OrElse(answered, 0)

(* The backend of a run that is under way is a tree the plan resolved.     *)
LEMMA RunningTree ==
  ASSUME PlanInv, phase \in Running \cup {"over"}, plan # None
  PROVE  WellBuilt(Backend)
BY DEF PlanInv, GoodRun, GoodPlan, Backend

(* A call that is answered adds what it used to what was answered.         *)
LEMMA AnswerAdds ==
  ASSUME PlanInv, UsageInv, phase \in Running, NEW op,
         NEW how \in {{"silent"}, {"silent", "twice"}}, NEW o \in Odds(op, how), Answers(op, o)
  PROVE  /\ AnswerUsage(op, o) \in Optional(Nat) /\ answered' \in Optional(Nat)
         /\ OrElse(answered', 0) = OrElse(answered, 0) + OrElse(AnswerUsage(op, o), 0)
<1>1. how \subseteq DOMAIN As
  BY DEF As
<1>2. plan # None
  BY DEF PlanInv
<1>3. AnswerUsage(op, o) \in Optional(Nat)
  BY <1>1, <1>2, RunningTree, AnswerSpends
<1>4. answered' = Add(answered, AnswerUsage(op, o)) /\ answered \in Optional(Nat)
  BY DEF Answers, UsageInv
<1>5. QED
  BY <1>3, <1>4, AddSpends

(* A call that is answered is added to the total or has its verdict. *)
LEMMA UsageInvStep == PlanInv /\ UsageInv /\ [Next]_vars => UsageInv'
<1> SUFFICES ASSUME PlanInv, UsageInv, [Next]_vars
             PROVE  UsageInv'
  OBVIOUS
<1>1. ASSUME UNCHANGED <<usage, answered, verdicts>>
      PROVE  UsageInv'
  BY <1>1 DEF UsageInv
<1>2. VerdictUsage(verdicts) \in Nat /\ OrElse(usage, 0) \in Nat /\ OrElse(answered, 0) \in Nat
  <2>1. None \in Optional(Nat)
    BY SomeType
  <2> DEFINE none == [usage |-> None]
  <2>2. none.usage \in Optional(Nat)
    BY <2>1
  <2> HIDE DEF none
  <2>3. QED
    BY <2>2, VerdictSpends, NumberType DEF UsageInv
<1>3. ASSUME phase \in Running, NEW op, NEW how \in {{"silent"}, {"silent", "twice"}},
             NEW o \in Odds(op, how), Answers(op, o),
             usage' = Add(usage, AnswerUsage(op, o)), UNCHANGED verdicts
      PROVE  UsageInv'
  <2> DEFINE used == AnswerUsage(op, o)
  <2>1. /\ used \in Optional(Nat) /\ answered' \in Optional(Nat)
        /\ OrElse(answered', 0) = OrElse(answered, 0) + OrElse(used, 0)
    BY <1>3, AnswerAdds
  <2>2. OrElse(used, 0) \in Nat
    BY <2>1, NumberType
  <2> HIDE DEF used
  <2>3. usage' \in Optional(Nat) /\ OrElse(usage', 0) = OrElse(usage, 0) + OrElse(used, 0)
    BY <1>3, <2>1, AddSpends DEF UsageInv, used
  <2>4. VerdictUsage(verdicts') = VerdictUsage(verdicts) /\ Spend(verdicts')
    BY <1>3 DEF UsageInv
  <2>5. OrElse(usage', 0) + VerdictUsage(verdicts') = OrElse(answered', 0)
    BY <1>2, <2>1, <2>2, <2>3, <2>4 DEF UsageInv
  <2>6. QED
    BY <2>1, <2>3, <2>4, <2>5 DEF UsageInv
<1>4. ASSUME phase \in Running, NEW op, NEW how \in {{"silent"}, {"silent", "twice"}},
             NEW o \in Odds(op, how), Answers(op, o), NEW v, v.usage = AnswerUsage(op, o),
             verdicts' = Append(verdicts, v), UNCHANGED usage
      PROVE  UsageInv'
  <2> DEFINE used == AnswerUsage(op, o)
  <2>1. /\ used \in Optional(Nat) /\ answered' \in Optional(Nat)
        /\ OrElse(answered', 0) = OrElse(answered, 0) + OrElse(used, 0)
    BY <1>4, AnswerAdds
  <2>2. OrElse(used, 0) \in Nat /\ v.usage = used
    BY <1>4, <2>1, NumberType
  <2> HIDE DEF used
  <2>3. /\ Spend(verdicts')
        /\ VerdictUsage(verdicts') = VerdictUsage(verdicts) + OrElse(used, 0)
    BY <1>4, <2>1, <2>2, VerdictSpends DEF UsageInv
  <2>4. OrElse(usage', 0) = OrElse(usage, 0) /\ usage' \in Optional(Nat)
    BY <1>4 DEF UsageInv
  <2>5. OrElse(usage', 0) + VerdictUsage(verdicts') = OrElse(answered', 0)
    BY <1>2, <2>1, <2>2, <2>3, <2>4 DEF UsageInv
  <2>6. QED
    BY <2>1, <2>3, <2>4, <2>5 DEF UsageInv
<1>5. CASE DraftNote \/ ReadPlan \/ Build \/ StopsAtOpening \/ Report \/ UNCHANGED vars
  BY <1>1, <1>5 DEF DraftNote, ReadPlan, Build, StopsAtOpening, Report, vars, calls, scores
<1>6. CASE WorkerFails \/ SupervisorFails \/ ScoreFails
  BY <1>1, <1>6 DEF WorkerFails, SupervisorFails, ScoreFails, Fails, scores
<1>7. CASE WorkerReplies
  BY <1>3, <1>7 DEF WorkerReplies, scores, Running
<1>8. CASE Supervises
  BY <1>3, <1>8 DEF Supervises, scores, Running
<1>9. CASE Assess
  <2>1. phase \in Running /\ UNCHANGED verdicts
    BY <1>9 DEF Assess, scores, Running
  <2>2. \/ UNCHANGED <<answered, usage>>
        \/ \E o \in Odds("assess", {"silent", "twice"}) :
             Answers("assess", o) /\ usage' = Add(usage, AnswerUsage("assess", o))
    BY <1>9 DEF Assess, calls
  <2>3. QED
    BY <1>1, <1>3, <2>1, <2>2
<1>10. CASE Rejudge
  <2>1. phase \in Running /\ UNCHANGED usage
    BY <1>10 DEF Rejudge, Running
  <2>2. \/ UNCHANGED <<answered, verdicts>>
        \/ \E o \in Odds("boolean", {"silent", "twice"}), yes \in BOOLEAN :
             /\ Answers("boolean", o)
             /\ verdicts' = Append(verdicts,
                                   Verdict(Criteria, 0, yes, AnswerUsage("boolean", o)))
    BY <1>10 DEF Rejudge, calls
  <2>3. ASSUME NEW yes, NEW spent
        PROVE  Verdict(Criteria, 0, yes, spent).usage = spent
    BY DEF Verdict
  <2>4. QED
    BY <1>1, <1>4, <2>1, <2>2, <2>3
<1>11. CASE ScoreEval
  <2>1. phase \in Running /\ UNCHANGED usage
    BY <1>11 DEF ScoreEval, Running
  <2>2. PICK o \in Odds(NextEval.kind, {"silent", "twice"}), yes \in BOOLEAN :
             /\ Answers(NextEval.kind, o)
             /\ verdicts' = Append(verdicts, Verdict({}, Len(results) + 1, yes,
                                                     AnswerUsage(NextEval.kind, o)))
    BY <1>11 DEF ScoreEval
  <2>3. ASSUME NEW spent
        PROVE  Verdict({}, Len(results) + 1, yes, spent).usage = spent
    BY DEF Verdict
  <2>4. QED
    BY <1>4, <2>1, <2>2, <2>3
<1>12. QED
  BY <1>5, <1>6, <1>7, <1>8, <1>9, <1>10, <1>11 DEF Next

-----------------------------------------------------------------------------
(* No note channel outlives the conversation.                              *)

InboxInv == phase \in {"criterion", "evals", "report"} \/ (phase = "over" /\ plan # None) =>
              inbox # "open"

LEMMA InboxInvStep == PlanInv /\ InboxInv /\ [Next]_vars => InboxInv'
<1> SUFFICES ASSUME PlanInv, InboxInv, [Next]_vars
             PROVE  InboxInv'
  OBVIOUS
<1> USE DEF InboxInv
<1>1. Closed # "open"
  BY DEF Closed
<1>2. CASE DraftNote
  BY <1>2 DEF DraftNote
<1>3. CASE ReadPlan
  <2>1. phase = "given" /\ plan = None
    BY <1>3 DEF ReadPlan, PlanInv
  <2>2. CASE CanStart(given[1]) /\ Accepts(Config(given[1]), given[1].around)
    <3>1. phase' = "planned"
      BY <1>3, <2>2 DEF ReadPlan
    <3>2. QED
      BY <3>1
  <2>3. CASE ~(CanStart(given[1]) /\ Accepts(Config(given[1]), given[1].around))
    <3>1. UNCHANGED plan
      BY <1>3, <2>3 DEF ReadPlan
    <3>2. phase' = "over"
      BY <1>3, <2>3 DEF ReadPlan
    <3>3. QED
      BY <2>1, <3>1, <3>2
  <2>4. QED
    BY <2>2, <2>3
<1>4. CASE Build
  BY <1>1, <1>4 DEF Build
<1>5. CASE StopsAtOpening
  BY <1>1, <1>5 DEF StopsAtOpening, EndLoop
<1>6. CASE WorkerReplies
  BY <1>1, <1>6 DEF WorkerReplies, AfterReply, EndLoop, GoOn
<1>7. CASE WorkerFails
  BY <1>1, <1>7 DEF WorkerFails, Failed
<1>8. CASE Supervises
  BY <1>1, <1>8 DEF Supervises, EndLoop, GoOn, Failed
<1>9. CASE SupervisorFails
  BY <1>1, <1>9 DEF SupervisorFails, Failed
<1>10. CASE Rejudge
  BY <1>10 DEF Rejudge
<1>11. CASE ScoreEval
  BY <1>11 DEF ScoreEval
<1>12. CASE Assess
  BY <1>12 DEF Assess
<1>13. CASE ScoreFails
  BY <1>1, <1>13 DEF ScoreFails, Failed
<1>14. CASE Report
  BY <1>14 DEF Report
<1>15. CASE UNCHANGED vars
  BY <1>15 DEF vars
<1>16. QED
  BY <1>2, <1>3, <1>4, <1>5, <1>6, <1>7, <1>8, <1>9, <1>10, <1>11, <1>12, <1>13, <1>14, <1>15
     DEF Next

-----------------------------------------------------------------------------
(* What the leaves kept is what the report is made of.                     *)

LeavesInv ==
  phase \in Running \/ report # None =>
    /\ plan # None /\ DOMAIN records = Leaves(Backend) /\ DOMAIN spawned = Leaves(Backend)
    /\ \A l \in DOMAIN spawned : spawned[l] \in Seq({Started(l)})

ReportInv ==
  report # None =>
    /\ phase = "over"
    /\ report[1].telemetry = aggregate(Collected(Backend, records))
    /\ report[1].processes = Collected(Backend, spawned)
    /\ exit # <<2>> => report[1].usage = usage /\ report[1].verdicts = verdicts

(* A report is written as the run is over, of what it did by then.         *)
LEMMA RunStepReports ==
  ASSUME RunStep
  PROVE  UNCHANGED report \/ Failed(records', spawned') \/ Report
BY DEF RunStep, StopsAtOpening, WorkerReplies, WorkerFails, Supervises, SupervisorFails, Rejudge,
       ScoreEval, Assess, ScoreFails, outcome

(* A call leaves every leaf with processes of its own only. *)
LEMMA CalledProcesses ==
  ASSUME NEW op, NEW how, how \subseteq DOMAIN As, NEW o \in Odds(op, how), Called(op, o),
         \A l \in DOMAIN spawned : spawned[l] \in Seq({Started(l)})
  PROVE  /\ DOMAIN spawned' = DOMAIN spawned /\ DOMAIN records' = DOMAIN records
         /\ \A l \in DOMAIN spawned' : spawned'[l] \in Seq({Started(l)})
<1>1. spawned' = Spawned(op, o) /\ records' = Recorded(op, o)
  BY DEF Called
<1>2. DOMAIN Spawned(op, o) = DOMAIN spawned /\ DOMAIN Recorded(op, o) = DOMAIN records
  BY DEF Spawned, Recorded
<1>3. ASSUME NEW l \in DOMAIN spawned
      PROVE  Spawned(op, o)[l] \in Seq({Started(l)})
  <2>1. OddAt(o, l) \in DOMAIN Processes /\ Processes[OddAt(o, l)] \in Nat
    BY OddType DEF OddAt, Processes, As
  <2> DEFINE more == [k \in 1..Processes[OddAt(o, l)] |-> Started(l)]
  <2>2. more \in Seq({Started(l)})
    BY <2>1
  <2>3. Spawned(op, o)[l] = spawned[l] \o more \/ Spawned(op, o)[l] = spawned[l]
    BY DEF Spawned, Started
  <2> HIDE DEF more
  <2>4. spawned[l] \in Seq({Started(l)})
    OBVIOUS
  <2>5. \A S : \A s, t \in Seq(S) : s \o t \in Seq(S)
    OBVIOUS
  <2>6. QED
    BY <2>2, <2>3, <2>4, <2>5
<1>4. QED
  BY <1>1, <1>2, <1>3

(* Once it is built, the backend keeps what its leaves did. *)
LEMMA LeavesInvStep ==
  PlanInv /\ ScoresType /\ LeavesInv /\ ReportInv /\ [Next]_vars => LeavesInv'
<1> SUFFICES ASSUME PlanInv, ScoresType, LeavesInv, ReportInv, [Next]_vars
             PROVE  LeavesInv'
  OBVIOUS
<1>1. CASE DraftNote \/ ReadPlan
  BY <1>1 DEF DraftNote, ReadPlan, LeavesInv, ReportInv, Running, outcome
<1>2. CASE Build
  <2>1. phase = "planned" /\ UNCHANGED report
    BY <1>2 DEF Build
  <2>2. report' = None
    BY <2>1 DEF ReportInv
  <2>3. CASE phase' = "over"
    BY <2>2, <2>3 DEF LeavesInv, Running
  <2>4. CASE phase' # "over"
    <3>1. /\ records' = [l \in Leaves(Backend) |-> << >>]
          /\ spawned' = [l \in Leaves(Backend) |-> << >>]
          /\ plan' = <<Driven(plan[1])>>
      BY <1>2, <2>4 DEF Build
    <3>2. plan' # None /\ Backend' = Backend
      BY <3>1 DEF None, Driven, Backend
    <3>3. Leaves(Backend') = Leaves(Backend)
      BY <3>2
    <3>4. \A l \in DOMAIN spawned' : spawned'[l] \in Seq({Started(l)})
      <4>1. \A l \in DOMAIN spawned' : spawned'[l] = << >>
        BY <3>1
      <4>2. \A S : << >> \in Seq(S)
        OBVIOUS
      <4>3. QED
        BY <4>1, <4>2
    <3>5. QED
      BY <3>1, <3>2, <3>3, <3>4 DEF LeavesInv
  <2>5. QED
    BY <2>3, <2>4
<1>3. CASE RunStep
  <2>1. phase \in Running /\ UNCHANGED plan
    BY <1>3, RunStepStays
  <2>2. /\ plan # None /\ DOMAIN records = Leaves(Backend) /\ DOMAIN spawned = Leaves(Backend)
        /\ \A l \in DOMAIN spawned : spawned[l] \in Seq({Started(l)})
    BY <2>1 DEF LeavesInv
  <2>3. /\ DOMAIN spawned' = DOMAIN spawned /\ DOMAIN records' = DOMAIN records
        /\ \A l \in DOMAIN spawned' : spawned'[l] \in Seq({Started(l)})
    <3>1. CASE UNCHANGED <<records, spawned>>
      BY <2>2, <3>1
    <3>2. CASE SomeCall
      BY <2>2, <3>2, CalledProcesses DEF SomeCall
    <3>3. QED
      BY <1>3, <3>1, <3>2, RunStepCalls
  <2>4. Backend' = Backend
    BY <2>1 DEF Backend
  <2>5. Leaves(Backend') = Leaves(Backend)
    BY <2>4
  <2>6. QED
    BY <2>1, <2>2, <2>3, <2>5 DEF LeavesInv
<1>4. CASE UNCHANGED vars
  BY <1>4 DEF vars, outcome, calls, LeavesInv, Backend
<1>5. QED
  BY <1>1, <1>2, <1>3, <1>4, NextIsKnown

(* The report is read out of the backend as the run ends, and kept. *)
LEMMA ReportInvStep == PlanInv /\ LeavesInv /\ ReportInv /\ [Next]_vars => ReportInv'
<1> SUFFICES ASSUME PlanInv, LeavesInv, ReportInv, [Next]_vars
             PROVE  ReportInv'
  OBVIOUS
<1>1. CASE DraftNote \/ ReadPlan \/ Build
  <2>1. phase # "over" /\ UNCHANGED report
    BY <1>1 DEF DraftNote, ReadPlan, Build, outcome
  <2>2. QED
    BY <2>1 DEF ReportInv
<1>2. CASE RunStep
  <2>1. phase \in Running /\ UNCHANGED plan
    BY <1>2, RunStepStays
  <2>2. report = None
    BY <2>1 DEF ReportInv, Running
  <2>3. Backend' = Backend
    BY <2>1 DEF Backend
  <2>4. CASE UNCHANGED report
    BY <2>2, <2>4 DEF ReportInv
  <2>5. CASE Failed(records', spawned')
    <3>1. phase' = "over" /\ exit' = <<2>>
      BY <2>5 DEF Failed
    <3>2. /\ report'[1].telemetry = aggregate(Collected(Backend, records'))
          /\ report'[1].processes = Collected(Backend, spawned')
      BY <2>5 DEF Failed, Spending
    <3>3. QED
      BY <2>3, <3>1, <3>2 DEF ReportInv
  <2>6. CASE Report
    <3>1. phase' = "over" /\ UNCHANGED <<records, spawned, usage, verdicts>>
      BY <2>6 DEF Report, calls, scores
    <3>2. /\ report'[1].telemetry = aggregate(Collected(Backend, records))
          /\ report'[1].processes = Collected(Backend, spawned)
          /\ report'[1].usage = usage /\ report'[1].verdicts = verdicts
      BY <2>6 DEF Report, Spending
    <3>3. QED
      BY <2>3, <3>1, <3>2 DEF ReportInv
  <2>7. QED
    BY <1>2, <2>4, <2>5, <2>6, RunStepReports
<1>3. CASE UNCHANGED vars
  <2>1. UNCHANGED <<phase, report, records, spawned, usage, verdicts, exit, plan>>
    BY <1>3 DEF vars, outcome, calls, scores
  <2>2. Backend' = Backend
    BY <2>1 DEF Backend
  <2>3. QED
    BY <2>1, <2>2 DEF ReportInv
<1>4. QED
  BY <1>1, <1>2, <1>3, NextIsKnown

-----------------------------------------------------------------------------

SpendInv == UsageInv /\ InboxInv /\ LeavesInv /\ ReportInv

LEMMA SpendInvInit == Init => SpendInv
<1> SUFFICES ASSUME Init PROVE SpendInv
  OBVIOUS
<1>1. UsageInv
  <2>1. usage = None /\ answered = None /\ verdicts = << >>
    BY DEF Init
  <2>2. None \in Optional(Nat) /\ OrElse(None, 0) = 0
    BY SomeType DEF OrElse
  <2>3. Spend(verdicts) /\ VerdictUsage(verdicts) = 0
    BY <2>1, NoVerdictsSpend
  <2>4. QED
    BY <2>1, <2>2, <2>3 DEF UsageInv
<1>2. InboxInv /\ LeavesInv /\ ReportInv
  BY DEF Init, InboxInv, LeavesInv, ReportInv, Running
<1>3. QED
  BY <1>1, <1>2 DEF SpendInv

(* The report of a run is of all that it kept, and what it kept is all     *)
(* that it did.                                                            *)
LEMMA SpendingIsReportedIn == PlanInv /\ RecordsInv /\ SpendInv => SpendingIsReported
<1> SUFFICES ASSUME PlanInv, RecordsInv, SpendInv
             PROVE  SpendingIsReported
  OBVIOUS
<1>1. phase = "over" => inbox # "open" \/ ~Planned
  BY DEF SpendInv, InboxInv, Planned
<1>2. SUFFICES ASSUME report # None
      PROVE  /\ \A l \in DOMAIN records :
                  Backend[l].kind # "llmlint" =>
                    Cardinality({i \in DOMAIN Attribution : Attribution[i].ran = l})
                      = Len(records[l])
             /\ \A i \in DOMAIN Attribution :
                  Attribution[i].turn_index \in 1..Cardinality(AllRecords(Attribution[i].role))
             /\ \A i, j \in DOMAIN Attribution :
                  i # j => \/ Attribution[i].role # Attribution[j].role
                           \/ Attribution[i].turn_index # Attribution[j].turn_index
             /\ Backend[<< >>].kind = "split" => \A i, j \in InRole("judge") :
                  Attribution[i].ran[1] # Attribution[j].ran[1]
                    => Attribution[i].judge # Attribution[j].judge
             /\ \A role \in {"agent", "judge"} :
                  Total(role) # None => Total(role)[1] = Cardinality(AllRecords(role))
             /\ \A l \in DOMAIN spawned :
                  Cardinality({i \in DOMAIN report[1].processes :
                                 report[1].processes[i].ran = l}) = Len(spawned[l])
             /\ exit # <<2>> => OrElse(report[1].usage, 0) + VerdictUsage(report[1].verdicts)
                                  = OrElse(answered, 0)
  BY <1>1 DEF SpendingIsReported
<1>3. /\ phase = "over" /\ plan # None
      /\ DOMAIN records = Leaves(Backend) /\ DOMAIN spawned = Leaves(Backend)
      /\ \A l \in DOMAIN spawned : spawned[l] \in Seq({Started(l)})
  BY <1>2 DEF SpendInv, LeavesInv, ReportInv
<1>4. GoodRecords /\ KeptBy(Backend, spawned)
  <2>1. WellBuilt(Backend)
    BY <1>3, RunningTree
  <2>2. \A l \in DOMAIN records : records[l] \in Seq(Entries(l))
    BY DEF RecordsInv
  <2>3. QED
    BY <1>3, <2>1, <2>2 DEF GoodRecords, KeptBy
<1> DEFINE R == Collected(Backend, records)
<1> PICK n \in Nat : \E H : Lists(Backend, R, records, n, H)
  BY <1>4, CollectedIsAll DEF GoodRecords
<1>5. PICK H : Lists(Backend, R, records, n, H)
  OBVIOUS
<1>6. report[1].telemetry = aggregate(R)
  BY <1>2 DEF SpendInv, ReportInv
<1> HIDE DEF R
<1>7. DOMAIN R = 1..n
  BY <1>5 DEF Lists
<1>8. Attributes(Attribution, R, n)
  <2>1. CASE R = << >>
    <3>1. Attribution = << >>
      BY <1>6, <2>1 DEF Attribution, aggregate
    <3>2. DOMAIN R = {}
      BY <2>1
    <3>3. 1..n = {}
      BY <1>7, <3>2
    <3>4. QED
      BY <3>1, <3>3 DEF Attributes
  <2>2. CASE R # << >>
    <3>1. report[1].telemetry # None
          /\ report[1].telemetry[1].attribution = Attributed(R)
      BY <1>6, <2>2 DEF aggregate, None
    <3>2. Attribution = Attributed(R)
      BY <3>1 DEF Attribution
    <3>3. Attributes(Attributed(R), R, n)
      BY <1>7 DEF Attributes, Attributed
    <3>4. QED
      BY <3>2, <3>3
  <2>3. QED
    BY <2>1, <2>2
<1>9. Faithful(Attribution)
  BY <1>4, <1>5, <1>8, AttributionIsFaithful
<1>10. ASSUME NEW role \in {"agent", "judge"}, Total(role) # None
       PROVE  Total(role)[1] = Cardinality(AllRecords(role))
  <2>1. R # << >> /\ report[1].telemetry[1][role] = summarize(R, OfRole(R, role))
        /\ Total(role) = report[1].telemetry[1][role]
    <3>1. R # << >>
      BY <1>6, <1>10 DEF aggregate, Total
    <3>2. /\ aggregate(R) # None
          /\ aggregate(R)[1]["agent"] = summarize(R, OfRole(R, "agent"))
          /\ aggregate(R)[1]["judge"] = summarize(R, OfRole(R, "judge"))
      BY <3>1 DEF aggregate, None
    <3>3. QED
      BY <1>6, <1>10, <3>1, <3>2 DEF Total
  <2>2. summarize(R, OfRole(R, role)) = <<Cardinality(AllRecords(role))>>
    BY <1>4, <1>5, <1>10, <2>1, TotalIsOfAll
  <2>3. QED
    BY <2>1, <2>2
<1>11. ASSUME NEW l \in DOMAIN spawned
       PROVE  Cardinality({i \in DOMAIN report[1].processes :
                             report[1].processes[i].ran = l}) = Len(spawned[l])
  <2> DEFINE P == report[1].processes
  <2>1. P = Collected(Backend, spawned)
    BY <1>2 DEF SpendInv, ReportInv
  <2> HIDE DEF P
  <2>2. Cardinality({i \in DOMAIN P : P[i].ran = l}) = Len(spawned[l])
    BY <1>3, <1>4, <2>1, ProcessesAreListed DEF GoodRecords
  <2>3. QED
    BY <2>2 DEF P
<1>12. exit # <<2>> => OrElse(report[1].usage, 0) + VerdictUsage(report[1].verdicts)
                         = OrElse(answered, 0)
  BY <1>2 DEF SpendInv, UsageInv, ReportInv
<1>13. QED
  BY <1>9, <1>10, <1>11, <1>12 DEF Faithful, InRole

(* Whatever a run spent is on its report, once: for any tree of providers, *)
(* however many calls went oddly, and however the run ended.               *)
THEOREM SpendingIsReportedHolds == Spec => []SpendingIsReported
<1>1. Init => PlanInv /\ ScoresInv /\ RecordsInv /\ SpendInv
  BY PlanInvInit, ScoresInvInit, SpendInvInit DEF Init, RecordsInv
<1>2. PlanInv /\ ScoresInv /\ RecordsInv /\ SpendInv /\ [Next]_vars
        => (PlanInv /\ ScoresInv /\ RecordsInv /\ SpendInv)'
  BY PlanInvStep, ScoresInvStep, RecordsInvStep, UsageInvStep, InboxInvStep, LeavesInvStep,
     ReportInvStep DEF ScoresInv, SpendInv
<1>3. PlanInv /\ ScoresInv /\ RecordsInv /\ SpendInv => SpendingIsReported
  BY SpendingIsReportedIn
<1>4. QED
  BY <1>1, <1>2, <1>3, PTL DEF Spec
===============================================================================
