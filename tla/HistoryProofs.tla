---------------------------- MODULE HistoryProofs ----------------------------
(***************************************************************************)
(* Theorems about what is derived of a history, for every history: the     *)
(* promises of IntentScorer and PatternDetector; and that Histories        *)
(* generates, loads and reads such histories, for every window, persona    *)
(* and random choice.  The facts about rankings, sequences, extremes and   *)
(* sums that these rest on serve the proofs about Detection, too.          *)
(*                                                                         *)
(* In the place of induction over data there are smallest counterexamples: *)
(* the natural numbers are well-founded, and hence a set of them that is   *)
(* not empty has a smallest element.                                       *)
(***************************************************************************)
EXTENDS Histories, FiniteSetTheorems, WellFoundedInduction, TLAPS

-----------------------------------------------------------------------------
(***************************************************************************)
(* Extremes of sets of numbers.                                            *)
(***************************************************************************)

\* A set of natural numbers has a smallest element: the order of the natural
\* numbers is well-founded.
LEMMA SmallestOfNat ==
  ASSUME NEW T \in SUBSET Nat, T # {}
  PROVE  \E x \in T : \A y \in T : x <= y
<1> DEFINE R == {ss \in Nat \X Nat : ss[1] < ss[2]}
<1>1. IsWellFoundedOn(R, Nat)
  BY NatLessThanWellFounded DEF OpToRel
<1>2. PICK x \in T : \A y \in T : ~ (<<y, x>> \in R)
  <2> HIDE DEF R
  <2> QED BY <1>1, WFMin
<1>3. ASSUME NEW y \in T PROVE x <= y
  <2>1. x \in Nat /\ y \in Nat
    OBVIOUS
  <2>2. y < x => <<y, x>> \in R
    BY <2>1
  <2>3. ~ (y < x)
    <3> HIDE DEF R
    <3> QED BY <2>2, <1>2
  <2> QED BY <2>1, <2>3
<1> QED BY <1>3

\* So has a finite set of integers: among the values below its first element's
\* there are only finitely many, and the fewest are below the smallest.
LEMMA FiniteHasSmallest ==
  ASSUME NEW T \in SUBSET Int, T # {}, IsFiniteSet(T)
  PROVE  \E x \in T : \A y \in T : x <= y
<1> DEFINE below(x) == {y \in T : y < x}
           U == {Cardinality(below(x)) : x \in T}
<1>1. ASSUME NEW x \in T
      PROVE  IsFiniteSet(below(x)) /\ Cardinality(below(x)) \in Nat
  <2>1. below(x) \in SUBSET T
    OBVIOUS
  <2> HIDE DEF below
  <2>2. IsFiniteSet(below(x))
    BY <2>1, FS_Subset
  <2> QED BY <2>2, FS_CardinalityType
<1>2. U \in SUBSET Nat /\ U # {}
  <2> HIDE DEF below
  <2> QED BY <1>1
<1>3. PICK u \in U : \A w \in U : u <= w
  <2> HIDE DEF U
  <2> QED BY <1>2, SmallestOfNat
<1>4. PICK x \in T : u = Cardinality(below(x))
  <2> HIDE DEF below
  <2> QED OBVIOUS
<1>5. ASSUME NEW y \in T, y < x PROVE FALSE
  <2>1. below(y) \in SUBSET below(x) /\ y \in below(x) /\ y \notin below(y)
    <3>1. ASSUME NEW z \in T, z < y PROVE z < x
      BY <1>5, <3>1, x \in Int, y \in Int, z \in Int
    <3>2. ~ (y < y)
      BY y \in Int
    <3> QED BY <1>5, <3>1, <3>2
  <2>2. Cardinality(below(y)) < Cardinality(below(x))
    <3> HIDE DEF below
    <3>1. Cardinality(below(y)) <= Cardinality(below(x))
      BY <2>1, <1>1, FS_Subset
    <3>2. Cardinality(below(x)) # Cardinality(below(y))
      BY <2>1, <1>1, FS_Subset
    <3> QED BY <1>1, <3>1, <3>2
  <2>3. Cardinality(below(y)) \in U
    <3> HIDE DEF below
    <3> QED OBVIOUS
  <2>4. u <= Cardinality(below(y))
    <3> HIDE DEF U, below
    <3> QED BY <2>3, <1>3
  <2> HIDE DEF below
  <2> QED BY <2>2, <2>4, <1>4, <1>1
<1> QED BY <1>5

LEMMA FiniteHasLargest ==
  ASSUME NEW T \in SUBSET Int, T # {}, IsFiniteSet(T)
  PROVE  \E x \in T : \A y \in T : x >= y
<1> DEFINE U == {- y : y \in T}
           f == [y \in T |-> - y]
<1>1. U \in SUBSET Int /\ U # {} /\ f \in Surjection(T, U)
  BY DEF Surjection
<1>2. IsFiniteSet(U)
  <2> HIDE DEF U, f
  <2> QED BY <1>1, FS_Surjection
<1>3. PICK u \in U : \A w \in U : u <= w
  <2> HIDE DEF U
  <2> QED BY <1>1, <1>2, FiniteHasSmallest
<1>4. PICK x \in T : u = - x
  OBVIOUS
<1>5. ASSUME NEW y \in T PROVE x >= y
  <2>1. - y \in U
    OBVIOUS
  <2>2. - x <= - y
    <3> HIDE DEF U
    <3> QED BY <2>1, <1>3, <1>4
  <2> QED BY <2>2
<1> QED BY <1>5

\* What Max and Min of the community modules return.
LEMMA MaxOfFinite ==
  ASSUME NEW T \in SUBSET Int, T # {}, IsFiniteSet(T)
  PROVE  Max(T) \in T /\ \A y \in T : Max(T) >= y
<1>1. \E x \in T : \A y \in T : x >= y
  BY FiniteHasLargest
<1> QED BY <1>1 DEF Max

LEMMA MinOfFinite ==
  ASSUME NEW T \in SUBSET Int, T # {}, IsFiniteSet(T)
  PROVE  Min(T) \in T /\ \A y \in T : Min(T) <= y
<1>1. \E x \in T : \A y \in T : x <= y
  BY FiniteHasSmallest
<1> QED BY <1>1 DEF Min

-----------------------------------------------------------------------------
(***************************************************************************)
(* Rankings.                                                               *)
(***************************************************************************)

\* Tuples of numbers of one length are totally ordered.
LEMMA LessOrders ==
  ASSUME NEW n \in Nat, NEW a \in [1 .. n -> Int], NEW b \in [1 .. n -> Int], NEW c \in [1 .. n -> Int]
  PROVE  /\ ~ Less(a, a)
         /\ a # b => Less(a, b) \/ Less(b, a)
         /\ Less(a, b) => ~ Less(b, a)
         /\ Less(a, b) /\ Less(b, c) => Less(a, c)
<1>1. ~ Less(a, a)
  BY DEF Less
<1>2. ASSUME a # b PROVE Less(a, b) \/ Less(b, a)
  <2> DEFINE D == {k \in 1 .. n : a[k] # b[k]}
  <2>1. D # {}
    <3>1. ASSUME \A k \in 1 .. n : a[k] = b[k] PROVE FALSE
      <4>1. a = [k \in 1 .. n |-> a[k]] /\ b = [k \in 1 .. n |-> b[k]]
        OBVIOUS
      <4>2. [k \in 1 .. n |-> a[k]] = [k \in 1 .. n |-> b[k]]
        BY <3>1
      <4> QED BY <4>1, <4>2, <1>2
    <3> QED BY <3>1
  <2>2. PICK k \in D : \A j \in D : k <= j
    <3>1. D \in SUBSET Nat
      OBVIOUS
    <3> HIDE DEF D
    <3> QED BY <2>1, <3>1, SmallestOfNat
  <2>3. \A j \in 1 .. n : j < k => a[j] = b[j]
    BY <2>2
  <2>4. a[k] < b[k] \/ b[k] < a[k]
    BY <2>2
  <2> QED BY <2>2, <2>3, <2>4 DEF Less
<1>3. ASSUME Less(a, b), Less(b, c) PROVE Less(a, c)
  <2>1. PICK k \in 1 .. n : a[k] < b[k] /\ \A j \in 1 .. n : j < k => a[j] = b[j]
    BY <1>3 DEF Less
  <2>2. PICK l \in 1 .. n : b[l] < c[l] /\ \A j \in 1 .. n : j < l => b[j] = c[j]
    BY <1>3 DEF Less
  <2>3. CASE k <= l
    <3>1. a[k] < c[k] /\ \A j \in 1 .. n : j < k => a[j] = c[j]
      BY <2>1, <2>2, <2>3
    <3> QED BY <3>1 DEF Less
  <2>4. CASE l < k
    <3>1. a[l] < c[l] /\ \A j \in 1 .. n : j < l => a[j] = c[j]
      BY <2>1, <2>2, <2>4
    <3> QED BY <3>1 DEF Less
  <2> QED BY <2>3, <2>4
<1>4. ASSUME Less(a, b), Less(b, a) PROVE FALSE
  <2>1. PICK k \in 1 .. n : a[k] < b[k] /\ \A j \in 1 .. n : j < k => a[j] = b[j]
    BY <1>4 DEF Less
  <2>2. PICK l \in 1 .. n : b[l] < a[l] /\ \A j \in 1 .. n : j < l => b[j] = a[j]
    BY <1>4 DEF Less
  <2> QED BY <2>1, <2>2
<1> QED BY <1>1, <1>2, <1>3, <1>4

\* Keys of one, two and three numbers.
LEMMA LessOfOne ==
  ASSUME NEW a \in Int, NEW b \in Int
  PROVE  /\ <<a>> \in [1 .. 1 -> Int]
         /\ Less(<<a>>, <<b>>) <=> a < b
<1>1. DOMAIN <<a>> = {1} /\ <<a>>[1] = a /\ <<b>>[1] = b
  OBVIOUS
<1>2. <<a>> \in [1 .. 1 -> Int]
  <2>1. <<a>> \in Seq(Int) /\ Len(<<a>>) = 1
    OBVIOUS
  <2> QED BY <2>1
<1>3. Less(<<a>>, <<b>>) <=> a < b
  <2>1. Less(<<a>>, <<b>>) <=> \E k \in {1} : <<a>>[k] < <<b>>[k] /\ \A j \in {1} : j < k => <<a>>[j] = <<b>>[j]
    BY <1>1 DEF Less
  <2>2. ~ (1 < 1)
    OBVIOUS
  <2> QED BY <1>1, <2>1, <2>2
<1> QED BY <1>2, <1>3

LEMMA LessOfTwo ==
  ASSUME NEW a \in Int, NEW b \in Int, NEW c \in Int, NEW d \in Int
  PROVE  /\ <<a, b>> \in [1 .. 2 -> Int]
         /\ Less(<<a, b>>, <<c, d>>) <=> a < c \/ (a = c /\ b < d)
<1>1. /\ DOMAIN <<a, b>> = {1, 2}
      /\ <<a, b>>[1] = a /\ <<a, b>>[2] = b /\ <<c, d>>[1] = c /\ <<c, d>>[2] = d
  OBVIOUS
<1>2. Less(<<a, b>>, <<c, d>>) <=> a < c \/ (b < d /\ a = c)
  BY <1>1 DEF Less
<1> QED BY <1>2

LEMMA LessOfThree ==
  ASSUME NEW a \in Int, NEW b \in Int, NEW e \in Int, NEW c \in Int, NEW d \in Int, NEW f \in Int
  PROVE  /\ <<a, b, e>> \in [1 .. 3 -> Int]
         /\ Less(<<a, b, e>>, <<c, d, f>>)
              <=> a < c \/ (a = c /\ b < d) \/ (a = c /\ b = d /\ e < f)
<1>1. /\ DOMAIN <<a, b, e>> = {1, 2, 3}
      /\ <<a, b, e>>[1] = a /\ <<a, b, e>>[2] = b /\ <<a, b, e>>[3] = e
      /\ <<c, d, f>>[1] = c /\ <<c, d, f>>[2] = d /\ <<c, d, f>>[3] = f
  OBVIOUS
<1>2. Less(<<a, b, e>>, <<c, d, f>>)
        <=> a < c \/ (b < d /\ a = c) \/ (e < f /\ a = c /\ b = d)
  BY <1>1 DEF Less
<1> QED BY <1>2

\* What InOrder does with a set T, given what it makes of smaller ones.
Pivot(T) == CHOOSE x \in T : TRUE
Lower(T, key) == {x \in T : Less(key[x], key[Pivot(T)])}
Upper(T, key) == T \ (Lower(T, key) \union {Pivot(T)})

Arrangement(g, S, key) ==
  [T \in SUBSET S |->
     IF T = {} THEN <<>>
     ELSE g[Lower(T, key)] \o <<Pivot(T)>> \o g[Upper(T, key)]]

\* The parts that a set is divided into are smaller than it.
LEMMA PartsAreSmaller ==
  ASSUME NEW S, IsFiniteSet(S), NEW key, NEW T \in SUBSET S, T # {},
         ~ Less(key[Pivot(T)], key[Pivot(T)])
  PROVE  /\ Pivot(T) \in T
         /\ Lower(T, key) \in SUBSET S /\ Cardinality(Lower(T, key)) < Cardinality(T)
         /\ Upper(T, key) \in SUBSET S /\ Cardinality(Upper(T, key)) < Cardinality(T)
         /\ Cardinality(T) = Cardinality(Lower(T, key)) + 1 + Cardinality(Upper(T, key))
         /\ Cardinality(T) \in Nat
         /\ Cardinality(Lower(T, key)) \in Nat /\ Cardinality(Upper(T, key)) \in Nat
<1> DEFINE lower == Lower(T, key)
           upper == Upper(T, key)
           rest  == T \ {Pivot(T)}
<1>1. Pivot(T) \in T
  BY DEF Pivot
<1>2. IsFiniteSet(T)
  BY FS_Subset
<1>3. IsFiniteSet(rest) /\ Cardinality(rest) = Cardinality(T) - 1
  BY <1>1, <1>2, FS_RemoveElement
<1>4. /\ lower \in SUBSET rest /\ upper \in SUBSET rest
      /\ lower \intersect upper = {} /\ lower \union upper = rest
  BY <1>1 DEF Lower, Upper
<1> HIDE DEF lower, upper, rest
<1>5. IsFiniteSet(lower) /\ IsFiniteSet(upper)
  BY <1>3, <1>4, FS_Subset
<1>6. /\ Cardinality(T) \in Nat /\ Cardinality(lower) \in Nat /\ Cardinality(upper) \in Nat
      /\ Cardinality(lower \intersect upper) = 0
  BY <1>2, <1>4, <1>5, FS_CardinalityType, FS_EmptySet
<1>7. Cardinality(rest) = Cardinality(lower) + Cardinality(upper) - Cardinality(lower \intersect upper)
  BY <1>4, <1>5, FS_Union
<1>8. lower \in SUBSET S /\ upper \in SUBSET S
  BY <1>4 DEF rest
<1> QED BY <1>1, <1>3, <1>6, <1>7, <1>8 DEF lower, upper

\* The function that InOrder is defined by exists, as it does for sets of up to
\* n elements, for every n.
LEMMA InOrderStepByStep ==
  ASSUME NEW S, IsFiniteSet(S), NEW key, \A x \in S : ~ Less(key[x], key[x])
  PROVE  \E g : g[S] = InOrder(S, key) /\ g = Arrangement(g, S, key)
<1> DEFINE more(g) == Arrangement(g, S, key)
           UpTo(g, n) == \A T \in SUBSET S : Cardinality(T) <= n => g[T] = more(g)[T]
           Left == {n \in Nat : ~ \E g : UpTo(g, n)}
<1>1. \A T \in SUBSET S : /\ Cardinality(T) \in Nat /\ Cardinality(T) <= Cardinality(S)
                          /\ Cardinality(T) = 0 <=> T = {}
  BY FS_Subset, FS_CardinalityType, FS_EmptySet
<1>2. ASSUME NEW T \in SUBSET S, T # {}
      PROVE  /\ Lower(T, key) \in SUBSET S /\ Cardinality(Lower(T, key)) < Cardinality(T)
             /\ Upper(T, key) \in SUBSET S /\ Cardinality(Upper(T, key)) < Cardinality(T)
  <2>1. Pivot(T) \in S
    BY <1>2 DEF Pivot
  <2> QED BY <1>2, <2>1, PartsAreSmaller
<1>3. \A g : \A T \in SUBSET S :
        more(g)[T] = IF T = {} THEN <<>>
                     ELSE g[Lower(T, key)] \o <<Pivot(T)>> \o g[Upper(T, key)]
  BY DEF Arrangement
<1>4. \A g : more(g) = [T \in SUBSET S |-> more(g)[T]]
  BY DEF Arrangement
<1> HIDE DEF more
<1>5. \E g : UpTo(g, 0)
  <2> DEFINE g == [T \in SUBSET S |-> <<>>]
  <2>1. ASSUME NEW T \in SUBSET S, Cardinality(T) <= 0 PROVE g[T] = more(g)[T]
    <3>1. T = {}
      <4>1. Cardinality(T) \in Nat /\ (Cardinality(T) = 0 <=> T = {})
        BY <1>1
      <4> QED BY <2>1, <4>1
    <3>2. more(g)[T] = <<>>
      <4> HIDE DEF g
      <4> QED BY <3>1, <1>3
    <3> QED BY <3>2
  <2> QED BY <2>1
<1>6. ASSUME NEW n \in Nat, NEW g, UpTo(g, n) PROVE UpTo(more(g), n + 1)
  <2> SUFFICES ASSUME NEW T \in SUBSET S, Cardinality(T) <= n + 1
               PROVE  more(g)[T] = more(more(g))[T]
    OBVIOUS
  <2>1. CASE T = {}
    BY <2>1, <1>3
  <2>2. CASE T # {}
    <3>1. /\ Lower(T, key) \in SUBSET S /\ Cardinality(Lower(T, key)) <= n
          /\ Upper(T, key) \in SUBSET S /\ Cardinality(Upper(T, key)) <= n
      <4>1. /\ Cardinality(T) \in Nat
            /\ Cardinality(Lower(T, key)) \in Nat /\ Cardinality(Upper(T, key)) \in Nat
        BY <1>1, <1>2, <2>2
      <4> QED BY <4>1, <1>2, <2>2
    <3>2. g[Lower(T, key)] = more(g)[Lower(T, key)] /\ g[Upper(T, key)] = more(g)[Upper(T, key)]
      BY <1>6, <3>1
    <3>3. more(g)[T] = g[Lower(T, key)] \o <<Pivot(T)>> \o g[Upper(T, key)]
      BY <2>2, <1>3
    <3>4. more(more(g))[T] = more(g)[Lower(T, key)] \o <<Pivot(T)>> \o more(g)[Upper(T, key)]
      BY <2>2, <1>3
    <3> QED BY <3>2, <3>3, <3>4
  <2> QED BY <2>1, <2>2
<1> HIDE DEF UpTo
<1>7. Left = {}
  <2> SUFFICES ASSUME Left # {} PROVE FALSE
    OBVIOUS
  <2>1. PICK n \in Left : \A m \in Left : n <= m
    <3>1. Left \in SUBSET Nat
      OBVIOUS
    <3> HIDE DEF Left
    <3> QED BY <3>1, SmallestOfNat
  <2>2. n # 0 /\ n \in Nat
    BY <1>5
  <2>3. n - 1 \in Nat /\ n - 1 \notin Left
    BY <2>1, <2>2
  <2>4. PICK g : UpTo(g, n - 1)
    BY <2>3
  <2>5. UpTo(more(g), (n - 1) + 1)
    BY <1>6, <2>3, <2>4
  <2>6. (n - 1) + 1 = n
    BY <2>2
  <2> QED BY <2>5, <2>6
<1>8. PICK g : UpTo(g, Cardinality(S))
  BY <1>1, <1>7
<1>9. \A T \in SUBSET S : g[T] = more(g)[T]
  BY <1>1, <1>8 DEF UpTo
<1>10. \A T \in SUBSET S : more(g)[T] = more(more(g))[T]
  <2> SUFFICES ASSUME NEW T \in SUBSET S PROVE more(g)[T] = more(more(g))[T]
    OBVIOUS
  <2>1. CASE T = {}
    BY <2>1, <1>3
  <2>2. CASE T # {}
    <3>1. g[Lower(T, key)] = more(g)[Lower(T, key)] /\ g[Upper(T, key)] = more(g)[Upper(T, key)]
      BY <1>2, <1>9, <2>2
    <3>2. more(g)[T] = g[Lower(T, key)] \o <<Pivot(T)>> \o g[Upper(T, key)]
      BY <2>2, <1>3
    <3>3. more(more(g))[T] = more(g)[Lower(T, key)] \o <<Pivot(T)>> \o more(g)[Upper(T, key)]
      BY <2>2, <1>3
    <3> QED BY <3>1, <3>2, <3>3
  <2> QED BY <2>1, <2>2
<1>11. more(g) = more(more(g))
  BY <1>4, <1>10
<1> DEFINE arranged == CHOOSE f : f = more(f)
<1>12. arranged = more(arranged)
  BY <1>11
<1>13. InOrder(S, key) = arranged[S]
  BY DEF InOrder, more, Arrangement, Lower, Upper, Pivot
<1> HIDE DEF arranged
<1> QED BY <1>12, <1>13 DEF more

\* f has the elements of T, each once, those with the smaller keys first.
Arranges(f, T, key) ==
  /\ f \in Seq(T) /\ Len(f) = Cardinality(T)
  /\ \A x \in T : \E k \in 1 .. Len(f) : f[k] = x
  /\ \A i, j \in 1 .. Len(f) : i < j => Less(key[f[i]], key[f[j]])

\* Two arrangements, of what is below a pivot and of what is above it.
LEMMA ArrangementsJoin ==
  ASSUME NEW L, NEW p, NEW U, NEW key, NEW f, NEW h,
         Arranges(f, L, key), Arranges(h, U, key),
         \A x \in L : Less(key[x], key[p]), \A y \in U : Less(key[p], key[y]),
         \A x \in L, y \in U : Less(key[x], key[y]),
         NEW T, T = L \union {p} \union U, Cardinality(T) = Cardinality(L) + 1 + Cardinality(U)
  PROVE  Arranges(f \o <<p>> \o h, T, key)
<1> DEFINE s == f \o <<p>> \o h
           m == Len(f)
           n == Len(h)
<1>1. m \in Nat /\ n \in Nat /\ f \in [1 .. m -> L] /\ h \in [1 .. n -> U]
  BY DEF Arranges
<1>2. s \in Seq(T) /\ Len(s) = m + 1 + n
  <2>1. f \in Seq(T) /\ h \in Seq(T) /\ <<p>> \in Seq(T) /\ Len(<<p>>) = 1
    BY <1>1 DEF Arranges
  <2> QED BY <2>1
<1>3. /\ \A k \in 1 .. m : s[k] = f[k]
      /\ s[m + 1] = p
      /\ \A k \in 1 .. n : s[m + 1 + k] = h[k]
  <2>1. f \in Seq(T) /\ h \in Seq(T) /\ <<p>> \in Seq(T) /\ Len(<<p>>) = 1 /\ <<p>>[1] = p
    BY <1>1 DEF Arranges
  <2> QED BY <2>1, <1>1
<1> HIDE DEF s
<1>4. ASSUME NEW x \in T PROVE \E k \in 1 .. Len(s) : s[k] = x
  <2>1. CASE x \in L
    <3>1. PICK k \in 1 .. m : f[k] = x
      BY <2>1 DEF Arranges
    <3>2. k \in 1 .. Len(s) /\ s[k] = x
      BY <3>1, <1>1, <1>2, <1>3
    <3> QED BY <3>2
  <2>2. CASE x = p
    <3>1. m + 1 \in 1 .. Len(s) /\ s[m + 1] = x
      BY <2>2, <1>1, <1>2, <1>3
    <3> QED BY <3>1
  <2>3. CASE x \in U
    <3>1. PICK k \in 1 .. n : h[k] = x
      BY <2>3 DEF Arranges
    <3>2. m + 1 + k \in 1 .. Len(s) /\ s[m + 1 + k] = x
      BY <3>1, <1>1, <1>2, <1>3
    <3> QED BY <3>2
  <2> QED BY <2>1, <2>2, <2>3
<1>5. ASSUME NEW k \in 1 .. Len(s)
      PROVE  \/ k \in 1 .. m /\ s[k] = f[k] /\ f[k] \in L
             \/ k = m + 1 /\ s[k] = p
             \/ /\ k - m - 1 \in 1 .. n /\ k > m + 1
                /\ s[k] = h[k - m - 1] /\ h[k - m - 1] \in U
  <2>1. CASE k <= m
    BY <2>1, <1>1, <1>3
  <2>2. CASE k = m + 1
    BY <2>2, <1>3
  <2>3. CASE k > m + 1
    <3>1. k - m - 1 \in 1 .. n /\ m + 1 + (k - m - 1) = k
      BY <2>3, <1>1, <1>2
    <3>2. s[m + 1 + (k - m - 1)] = h[k - m - 1]
      BY <3>1, <1>3
    <3> QED BY <3>1, <3>2, <2>3, <1>1
  <2> QED BY <2>1, <2>2, <2>3, <1>1
<1>6. ASSUME NEW i \in 1 .. Len(s), NEW j \in 1 .. Len(s), i < j
      PROVE  Less(key[s[i]], key[s[j]])
  <2>1. CASE i \in 1 .. m /\ j \in 1 .. m
    <3>1. s[i] = f[i] /\ s[j] = f[j]
      BY <2>1, <1>3
    <3> QED BY <2>1, <3>1, <1>6 DEF Arranges
  <2>2. CASE i \in 1 .. m /\ j \notin 1 .. m
    BY <2>2, <1>5
  <2>3. CASE i = m + 1
    <3>1. s[i] = p /\ s[j] \in U
      BY <2>3, <1>1, <1>5, <1>6
    <3> QED BY <3>1
  <2>4. CASE i > m + 1
    <3>1. /\ i \in Int /\ j \in Int /\ m \in Int /\ j > m + 1
          /\ i - m - 1 < j - m - 1
      BY <2>4, <1>1, <1>6
    <3>2. i - m - 1 \in 1 .. n /\ s[i] = h[i - m - 1]
      BY <2>4, <3>1, <1>5
    <3>3. j - m - 1 \in 1 .. n /\ s[j] = h[j - m - 1]
      BY <3>1, <1>5
    <3>4. Less(key[h[i - m - 1]], key[h[j - m - 1]])
      BY <3>1, <3>2, <3>3 DEF Arranges
    <3> QED BY <3>2, <3>3, <3>4
  <2> QED BY <2>1, <2>2, <2>3, <2>4, <1>1
<1>7. Len(s) = Cardinality(T)
  BY <1>2 DEF Arranges
<1> QED BY <1>2, <1>4, <1>6, <1>7 DEF Arranges, s

\* Sorting sorts: were there a set that is not put in order, there would be a
\* smallest one, but the parts that it is divided into are smaller.
LEMMA InOrderSorts ==
  ASSUME NEW S, IsFiniteSet(S), NEW n \in Nat, NEW key \in [S -> [1 .. n -> Int]],
         \A x, y \in S : key[x] = key[y] => x = y
  PROVE  LET f == InOrder(S, key)
         IN /\ f \in Seq(S) /\ Len(f) = Cardinality(S) /\ DOMAIN f = 1 .. Cardinality(S)
            /\ Cardinality(S) \in Nat
            /\ f \in Bijection(1 .. Cardinality(S), S)
            /\ ToSet(f) = S
            /\ \A i, j \in DOMAIN f : i < j <=> Less(key[f[i]], key[f[j]])
<1>1. \A x, y, z \in S :
        /\ ~ Less(key[x], key[x])
        /\ x # y => Less(key[x], key[y]) \/ Less(key[y], key[x])
        /\ Less(key[x], key[y]) => ~ Less(key[y], key[x])
        /\ Less(key[x], key[y]) /\ Less(key[y], key[z]) => Less(key[x], key[z])
  <2> SUFFICES ASSUME NEW x \in S, NEW y \in S, NEW z \in S
               PROVE  /\ ~ Less(key[x], key[x])
                      /\ x # y => Less(key[x], key[y]) \/ Less(key[y], key[x])
                      /\ Less(key[x], key[y]) => ~ Less(key[y], key[x])
                      /\ Less(key[x], key[y]) /\ Less(key[y], key[z]) => Less(key[x], key[z])
    OBVIOUS
  <2>1. key[x] \in [1 .. n -> Int] /\ key[y] \in [1 .. n -> Int] /\ key[z] \in [1 .. n -> Int]
    OBVIOUS
  <2>2. x # y => key[x] # key[y]
    OBVIOUS
  <2> QED BY <2>1, <2>2, LessOrders
<1>2. PICK g : g[S] = InOrder(S, key) /\ g = Arrangement(g, S, key)
  BY <1>1, InOrderStepByStep
<1> DEFINE Wrong == {T \in SUBSET S : ~ Arranges(g[T], T, key)}
           Sizes == {Cardinality(T) : T \in Wrong}
<1>3. Wrong = {}
  <2> SUFFICES ASSUME Wrong # {} PROVE FALSE
    OBVIOUS
  <2>1. \A T \in SUBSET S : Cardinality(T) \in Nat
    BY FS_Subset, FS_CardinalityType
  <2>2. PICK m \in Sizes : \A k \in Sizes : m <= k
    <3>1. Sizes \in SUBSET Nat /\ Sizes # {}
      BY <2>1
    <3> HIDE DEF Sizes
    <3> QED BY <3>1, SmallestOfNat
  <2>3. PICK T \in Wrong : m = Cardinality(T)
    BY <2>2
  <2>4. \A R \in SUBSET S : Cardinality(R) < Cardinality(T) => Arranges(g[R], R, key)
    <3> SUFFICES ASSUME NEW R \in Wrong, Cardinality(R) < Cardinality(T) PROVE FALSE
      OBVIOUS
    <3>1. Cardinality(T) <= Cardinality(R)
      BY <2>2, <2>3
    <3> QED BY <3>1, <2>1
  <2>5. CASE T = {}
    <3>1. g[T] = <<>>
      BY <1>2, <2>5 DEF Arrangement
    <3>2. Cardinality(T) = 0
      BY <2>5, FS_EmptySet
    <3>3. <<>> \in Seq(T) /\ Len(<<>>) = 0 /\ 1 .. 0 = {}
      OBVIOUS
    <3>4. Arranges(g[T], T, key)
      BY <2>5, <3>1, <3>2, <3>3 DEF Arranges
    <3> QED BY <2>3, <3>4
  <2>6. CASE T # {}
    <3> DEFINE p == Pivot(T)
               L == Lower(T, key)
               U == Upper(T, key)
    <3>1. p \in T /\ p \in S /\ T \in SUBSET S
      BY <2>3, <2>6 DEF Pivot
    <3>2. /\ L \in SUBSET S /\ U \in SUBSET S
          /\ Cardinality(L) < Cardinality(T) /\ Cardinality(U) < Cardinality(T)
          /\ Cardinality(T) = Cardinality(L) + 1 + Cardinality(U)
      BY <2>6, <3>1, <1>1, PartsAreSmaller
    <3>3. Arranges(g[L], L, key) /\ Arranges(g[U], U, key)
      <4> HIDE DEF L, U
      <4> QED BY <2>4, <3>2
    <3>4. g[T] = g[L] \o <<p>> \o g[U]
      BY <1>2, <2>6, <3>1 DEF Arrangement
    <3>5. /\ T = L \union {p} \union U
          /\ \A x \in L : Less(key[x], key[p])
      BY <3>1 DEF Lower, Upper
    <3>6. \A y \in U : Less(key[p], key[y])
      BY <3>1, <1>1 DEF Lower, Upper
    <3> HIDE DEF p, L, U
    <3>7. \A x \in L, y \in U : Less(key[x], key[y])
      BY <3>1, <3>2, <3>5, <3>6, <1>1
    <3>8. Arranges(g[L] \o <<p>> \o g[U], T, key)
      BY <3>2, <3>3, <3>5, <3>6, <3>7, ArrangementsJoin
    <3> QED BY <2>3, <3>4, <3>8
  <2> QED BY <2>5, <2>6
<1> DEFINE f == InOrder(S, key)
<1>4. Arranges(f, S, key)
  BY <1>2, <1>3
<1> HIDE DEF f
<1>5. /\ f \in Seq(S) /\ Len(f) = Cardinality(S) /\ Len(f) \in Nat /\ DOMAIN f = 1 .. Len(f)
      /\ f \in [1 .. Len(f) -> S]
  BY <1>4 DEF Arranges
<1>6. ASSUME NEW i \in DOMAIN f, NEW j \in DOMAIN f
      PROVE  i < j <=> Less(key[f[i]], key[f[j]])
  <2>1. i < j => Less(key[f[i]], key[f[j]])
    BY <1>4, <1>5 DEF Arranges
  <2>2. j < i => Less(key[f[j]], key[f[i]])
    BY <1>4, <1>5 DEF Arranges
  <2>3. i = j \/ i < j \/ j < i
    BY <1>5
  <2>4. f[i] \in S /\ f[j] \in S
    BY <1>5
  <2> QED BY <2>1, <2>2, <2>3, <2>4, <1>1
<1>7. \A i, j \in DOMAIN f : f[i] = f[j] => i = j
  <2> SUFFICES ASSUME NEW i \in DOMAIN f, NEW j \in DOMAIN f, f[i] = f[j] PROVE i = j
    OBVIOUS
  <2>1. ~ (i < j) /\ ~ (j < i)
    <3>1. f[i] \in S
      BY <1>5
    <3> QED BY <1>1, <1>6, <3>1
  <2> QED BY <1>5, <2>1
<1>8. \A x \in S : \E k \in DOMAIN f : f[k] = x
  BY <1>4, <1>5 DEF Arranges
<1>9. f \in Bijection(1 .. Cardinality(S), S)
  BY <1>5, <1>7, <1>8 DEF Bijection, Injection, IsInjective, Surjection
<1>10. ToSet(f) = S
  BY <1>5, <1>8 DEF ToSet
<1> QED BY <1>5, <1>6, <1>9, <1>10 DEF f

\* The same of pairs and triples, as they are used.
LEMMA LessOfPairs ==
  ASSUME NEW p \in Int \X Int, NEW q \in Int \X Int
  PROVE  /\ p \in [1 .. 2 -> Int]
         /\ Less(p, q) => p[1] <= q[1]
<1>1. /\ p = <<p[1], p[2]>> /\ p[1] \in Int /\ p[2] \in Int
      /\ q = <<q[1], q[2]>> /\ q[1] \in Int /\ q[2] \in Int
  OBVIOUS
<1>2. /\ p \in [1 .. 2 -> Int]
      /\ Less(p, q) <=> p[1] < q[1] \/ (p[1] = q[1] /\ p[2] < q[2])
  BY <1>1, LessOfTwo
<1> QED BY <1>1, <1>2

LEMMA LessOfTriples ==
  ASSUME NEW p \in Int \X Int \X Int, NEW q \in Int \X Int \X Int
  PROVE  /\ p \in [1 .. 3 -> Int]
         /\ Less(p, q) => p[1] < q[1] \/ (p[1] = q[1] /\ p[2] <= q[2])
<1>1. /\ p = <<p[1], p[2], p[3]>> /\ p[1] \in Int /\ p[2] \in Int /\ p[3] \in Int
      /\ q = <<q[1], q[2], q[3]>> /\ q[1] \in Int /\ q[2] \in Int /\ q[3] \in Int
  OBVIOUS
<1>2. /\ p \in [1 .. 3 -> Int]
      /\ Less(p, q) <=> p[1] < q[1] \/ (p[1] = q[1] /\ p[2] < q[2])
                           \/ (p[1] = q[1] /\ p[2] = q[2] /\ p[3] < q[3])
  BY <1>1, LessOfThree
<1> QED BY <1>1, <1>2

\* The second number of a key is different for each element.
LEMMA SortedByPairs ==
  ASSUME NEW S, IsFiniteSet(S), NEW key \in [S -> Int \X Int],
         \A x, y \in S : key[x][2] = key[y][2] => x = y,
         NEW f, f = InOrder(S, key)
  PROVE  /\ f \in Seq(S) /\ Len(f) = Cardinality(S) /\ DOMAIN f = 1 .. Cardinality(S)
         /\ Cardinality(S) \in Nat
         /\ \A i \in DOMAIN f : f[i] \in S
         /\ ToSet(f) = S
         /\ \A i, j \in DOMAIN f : f[i] = f[j] => i = j
         /\ \A i, j \in DOMAIN f : i < j <=> Less(key[f[i]], key[f[j]])
<1>1. key \in [S -> [1 .. 2 -> Int]]
  <2>1. \A x \in S : key[x] \in [1 .. 2 -> Int]
    BY LessOfPairs
  <2>2. key = [x \in S |-> key[x]]
    OBVIOUS
  <2> QED BY <2>1, <2>2
<1>2. \A x, y \in S : key[x] = key[y] => x = y
  OBVIOUS
<1>3. /\ f \in Seq(S) /\ Len(f) = Cardinality(S) /\ DOMAIN f = 1 .. Cardinality(S)
      /\ Cardinality(S) \in Nat
      /\ f \in Bijection(1 .. Cardinality(S), S)
      /\ ToSet(f) = S
      /\ \A i, j \in DOMAIN f : i < j <=> Less(key[f[i]], key[f[j]])
  BY <1>1, <1>2, 2 \in Nat, InOrderSorts
<1>4. \A i, j \in DOMAIN f : f[i] = f[j] => i = j
  BY <1>3 DEF Bijection, Injection, IsInjective
<1>5. \A i \in DOMAIN f : f[i] \in S
  BY <1>3
<1> QED BY <1>3, <1>4, <1>5

-----------------------------------------------------------------------------
(***************************************************************************)
(* Places of a history.                                                    *)
(***************************************************************************)

\* Places of a sequence are finitely many numbers.
LEMMA PlacesAreFinite ==
  ASSUME NEW n \in Nat, NEW P \in SUBSET (1 .. n)
  PROVE  /\ P \in SUBSET Nat /\ P \in SUBSET Int /\ IsFiniteSet(P)
         /\ Cardinality(P) \in Nat
         /\ P # {} => Cardinality(P) >= 1
<1>1. IsFiniteSet(1 .. n)
  BY FS_Interval, 1 \in Int, n \in Int
<1>2. IsFiniteSet(P)
  BY <1>1, FS_Subset
<1>3. Cardinality(P) \in Nat /\ (Cardinality(P) = 0 <=> P = {})
  BY <1>2, FS_CardinalityType, FS_EmptySet
<1>4. P \in SUBSET Nat /\ P \in SUBSET Int
  <2>1. 1 .. n \subseteq Nat /\ Nat \subseteq Int
    OBVIOUS
  <2> QED BY <2>1
<1>5. ASSUME P # {} PROVE Cardinality(P) >= 1
  <2>1. Cardinality(P) # 0
    BY <1>3, <1>5
  <2> QED BY <1>3, <2>1
<1> QED BY <1>2, <1>3, <1>4, <1>5

\* Of some places, one has the largest value, and the first that has it.
LEMMA FirstOfLargest ==
  ASSUME NEW n \in Nat, NEW P \in SUBSET (1 .. n), P # {}, NEW v \in [P -> Int]
  PROVE  \E i \in P : \A j \in P : v[j] < v[i] \/ (v[j] = v[i] /\ i <= j)
<1> DEFINE V == {v[i] : i \in P}
<1>1. IsFiniteSet(P) /\ P \in SUBSET Nat
  BY PlacesAreFinite
<1>2. V \in SUBSET Int /\ V # {} /\ v \in Surjection(P, V)
  BY DEF Surjection
<1>3. IsFiniteSet(V)
  <2> HIDE DEF V
  <2> QED BY <1>1, <1>2, FS_Surjection
<1>4. PICK w \in V : \A u \in V : w >= u
  <2> HIDE DEF V
  <2> QED BY <1>2, <1>3, FiniteHasLargest
<1>5. \A j \in P : v[j] <= w
  BY <1>4
<1> DEFINE Q == {i \in P : v[i] = w}
<1>6. Q \in SUBSET Nat /\ Q # {}
  BY <1>1
<1>7. PICK i \in Q : \A j \in Q : i <= j
  <2> HIDE DEF Q, V
  <2> QED BY <1>6, SmallestOfNat
<1>8. i \in P /\ v[i] = w
  BY <1>7
<1>9. ASSUME NEW j \in P PROVE v[j] < v[i] \/ (v[j] = v[i] /\ i <= j)
  <2>1. v[j] \in Int /\ w \in Int
    BY <1>2, <1>4
  <2>2. CASE v[j] = w
    BY <2>2, <1>7, <1>8
  <2>3. CASE v[j] # w
    BY <2>1, <2>3, <1>5, <1>8
  <2> QED BY <2>2, <2>3
<1> QED BY <1>8, <1>9

-----------------------------------------------------------------------------
(***************************************************************************)
(* Sequences that are made of others.                                      *)
(***************************************************************************)

\* What is in a sequence that is made of two.
LEMMA InBothParts ==
  ASSUME NEW T, NEW a \in Seq(T), NEW b \in Seq(T)
  PROVE  /\ a \o b \in Seq(T) /\ Len(a \o b) = Len(a) + Len(b)
         /\ \A x : x \in ToSet(a \o b) <=> x \in ToSet(a) \/ x \in ToSet(b)
<1> DEFINE c == a \o b
           m == Len(a)
           n == Len(b)
<1>1. m \in Nat /\ n \in Nat /\ DOMAIN a = 1 .. m /\ DOMAIN b = 1 .. n
  OBVIOUS
<1>2. c \in Seq(T) /\ Len(c) = m + n /\ DOMAIN c = 1 .. m + n
  OBVIOUS
<1>3. \A k \in 1 .. m : c[k] = a[k]
  OBVIOUS
<1>4. \A k \in 1 .. n : c[m + k] = b[k]
  OBVIOUS
<1> HIDE DEF c, m, n
<1>5. ASSUME NEW k \in 1 .. m + n PROVE c[k] \in ToSet(a) \/ c[k] \in ToSet(b)
  <2>1. CASE k <= m
    <3>1. k \in 1 .. m
      BY <2>1, <1>1
    <3> QED BY <3>1, <1>1, <1>3 DEF ToSet
  <2>2. CASE ~ (k <= m)
    <3>1. k - m \in 1 .. n /\ m + (k - m) = k
      BY <2>2, <1>1
    <3>2. c[m + (k - m)] = b[k - m]
      BY <3>1, <1>4
    <3> QED BY <3>1, <3>2, <1>1 DEF ToSet
  <2> QED BY <2>1, <2>2
<1>6. ASSUME NEW k \in 1 .. m PROVE a[k] \in ToSet(c)
  <2>1. k \in 1 .. m + n /\ c[k] = a[k]
    BY <1>1, <1>3
  <2> QED BY <2>1, <1>2 DEF ToSet
<1>7. ASSUME NEW k \in 1 .. n PROVE b[k] \in ToSet(c)
  <2>1. m + k \in 1 .. m + n /\ c[m + k] = b[k]
    BY <1>1, <1>4
  <2> QED BY <2>1, <1>2 DEF ToSet
<1>8. \A x : x \in ToSet(c) <=> x \in ToSet(a) \/ x \in ToSet(b)
  <2>1. ASSUME NEW x \in ToSet(c) PROVE x \in ToSet(a) \/ x \in ToSet(b)
    BY <1>2, <1>5 DEF ToSet
  <2>2. ASSUME NEW x \in ToSet(a) PROVE x \in ToSet(c)
    BY <1>1, <1>6 DEF ToSet
  <2>3. ASSUME NEW x \in ToSet(b) PROVE x \in ToSet(c)
    BY <1>1, <1>7 DEF ToSet
  <2> QED BY <2>1, <2>2, <2>3
<1> QED BY <1>2, <1>8 DEF c, m, n

\* A sequence of sequences is flattened one by one: the function that this is
\* defined by exists, as it does up to the n-th, for every n.
LEMMA FlattenStepByStep ==
  ASSUME NEW s, NEW n \in Nat, n = Len(s), n # 0
  PROVE  \E f : /\ FlattenSeq(s) = f[n]
                /\ \A i \in 1 .. n : f[i] = IF i = 1 THEN s[i] ELSE f[i - 1] \o s[i]
<1> DEFINE more(g) == [i \in 1 .. n |-> IF i = 1 THEN s[i] ELSE g[i - 1] \o s[i]]
           UpTo(g, m) == \A i \in 1 .. n : i <= m => g[i] = more(g)[i]
           Left == {m \in Nat : ~ \E g : UpTo(g, m)}
<1>1. \A g : \A i \in 1 .. n : more(g)[i] = IF i = 1 THEN s[i] ELSE g[i - 1] \o s[i]
  OBVIOUS
<1>2. \A g : more(g) = [i \in 1 .. n |-> more(g)[i]]
  OBVIOUS
<1> HIDE DEF more
<1>3. \E g : UpTo(g, 0)
  <2>1. UpTo(s, 0)
    OBVIOUS
  <2> QED BY <2>1
<1>4. ASSUME NEW m \in Nat, NEW g, UpTo(g, m) PROVE UpTo(more(g), m + 1)
  <2> SUFFICES ASSUME NEW i \in 1 .. n, i <= m + 1 PROVE more(g)[i] = more(more(g))[i]
    OBVIOUS
  <2>1. CASE i = 1
    BY <2>1, <1>1
  <2>2. CASE i # 1
    <3>1. i - 1 \in 1 .. n /\ i - 1 <= m
      BY <2>2
    <3>2. g[i - 1] = more(g)[i - 1]
      BY <3>1, <1>4
    <3>3. more(g)[i] = g[i - 1] \o s[i] /\ more(more(g))[i] = more(g)[i - 1] \o s[i]
      BY <2>2, <1>1
    <3> QED BY <3>2, <3>3
  <2> QED BY <2>1, <2>2
<1> HIDE DEF UpTo
<1>5. Left = {}
  <2> SUFFICES ASSUME Left # {} PROVE FALSE
    OBVIOUS
  <2>1. PICK m \in Left : \A k \in Left : m <= k
    <3>1. Left \in SUBSET Nat
      OBVIOUS
    <3> HIDE DEF Left
    <3> QED BY <3>1, SmallestOfNat
  <2>2. m # 0 /\ m \in Nat
    BY <1>3
  <2>3. m - 1 \in Nat /\ m - 1 \notin Left
    BY <2>1, <2>2
  <2>4. PICK g : UpTo(g, m - 1)
    BY <2>3
  <2>5. UpTo(more(g), (m - 1) + 1)
    BY <1>4, <2>3, <2>4
  <2>6. (m - 1) + 1 = m
    BY <2>2
  <2> QED BY <2>5, <2>6
<1>6. PICK g : UpTo(g, n)
  BY <1>5
<1>7. \A i \in 1 .. n : g[i] = more(g)[i]
  BY <1>6 DEF UpTo
<1>8. \A i \in 1 .. n : more(g)[i] = more(more(g))[i]
  <2> SUFFICES ASSUME NEW i \in 1 .. n PROVE more(g)[i] = more(more(g))[i]
    OBVIOUS
  <2>1. CASE i = 1
    BY <2>1, <1>1
  <2>2. CASE i # 1
    <3>1. i - 1 \in 1 .. n
      BY <2>2
    <3>2. g[i - 1] = more(g)[i - 1]
      BY <3>1, <1>7
    <3>3. more(g)[i] = g[i - 1] \o s[i] /\ more(more(g))[i] = more(g)[i - 1] \o s[i]
      BY <2>2, <1>1
    <3> QED BY <3>2, <3>3
  <2> QED BY <2>1, <2>2
<1>9. more(g) = more(more(g))
  BY <1>2, <1>8
<1> DEFINE flatten == CHOOSE f : f = more(f)
<1>10. flatten = more(flatten)
  BY <1>9
<1>11. FlattenSeq(s) = flatten[n]
  BY DEF FlattenSeq, more
<1> HIDE DEF flatten
<1>12. \A i \in 1 .. n : flatten[i] = IF i = 1 THEN s[i] ELSE flatten[i - 1] \o s[i]
  BY <1>1, <1>10
<1> QED BY <1>11, <1>12

\* Flattening keeps what is in the sequences, and adds nothing.
LEMMA FlattenIs ==
  ASSUME NEW T, NEW s \in Seq(Seq(T))
  PROVE  /\ FlattenSeq(s) \in Seq(T)
         /\ \A x : x \in ToSet(FlattenSeq(s)) <=> \E k \in DOMAIN s : x \in ToSet(s[k])
<1> DEFINE n == Len(s)
<1>1. n \in Nat /\ DOMAIN s = 1 .. n /\ \A i \in 1 .. n : s[i] \in Seq(T)
  OBVIOUS
<1>2. CASE n = 0
  <2>1. FlattenSeq(s) = s /\ s = <<>>
    BY <1>2 DEF FlattenSeq
  <2>2. <<>> \in Seq(T) /\ ToSet(<<>>) = {} /\ DOMAIN s = {}
    BY <2>1 DEF ToSet
  <2> QED BY <2>1, <2>2
<1>3. CASE n # 0
  <2> HIDE DEF n
  <2>1. PICK f : /\ FlattenSeq(s) = f[n]
                 /\ \A i \in 1 .. n : f[i] = IF i = 1 THEN s[i] ELSE f[i - 1] \o s[i]
    BY <1>1, <1>3, FlattenStepByStep DEF n
  <2> DEFINE Fine(i) == /\ f[i] \in Seq(T)
                        /\ \A x : x \in ToSet(f[i]) <=> \E k \in 1 .. i : x \in ToSet(s[k])
             Wrong   == {i \in 1 .. n : ~ Fine(i)}
  <2>2. Fine(1)
    <3>1. f[1] = s[1] /\ s[1] \in Seq(T)
      BY <1>1, <1>3, <2>1
    <3>2. \A k : k \in 1 .. 1 <=> k = 1
      OBVIOUS
    <3> QED BY <3>1, <3>2
  <2>3. ASSUME NEW i \in 1 .. n, i # 1, Fine(i - 1) PROVE Fine(i)
    <3>1. f[i] = f[i - 1] \o s[i] /\ f[i - 1] \in Seq(T) /\ s[i] \in Seq(T) /\ i \in Nat
      <4>1. f[i] = f[i - 1] \o s[i]
        BY <2>1, <2>3
      <4>2. f[i - 1] \in Seq(T)
        BY <2>3
      <4>3. s[i] \in Seq(T) /\ i \in Nat
        BY <1>1
      <4> QED BY <4>1, <4>2, <4>3
    <3>2. f[i] \in Seq(T)
      BY <3>1
    <3>3. \A x : x \in ToSet(f[i]) <=> x \in ToSet(f[i - 1]) \/ x \in ToSet(s[i])
      BY <3>1, InBothParts
    <3>4. \A k : k \in 1 .. i <=> k \in 1 .. i - 1 \/ k = i
      BY <3>1, <2>3
    <3>5. \A x : x \in ToSet(f[i]) <=> \E k \in 1 .. i : x \in ToSet(s[k])
      BY <3>3, <3>4, <2>3
    <3> QED BY <3>2, <3>5
  <2> HIDE DEF Fine
  <2>4. Wrong = {}
    <3> SUFFICES ASSUME Wrong # {} PROVE FALSE
      OBVIOUS
    <3>1. PICK i \in Wrong : \A j \in Wrong : i <= j
      <4>1. Wrong \in SUBSET Nat
        OBVIOUS
      <4> HIDE DEF Wrong
      <4> QED BY <4>1, SmallestOfNat
    <3>2. i # 1 /\ i \in 1 .. n
      BY <2>2
    <3>3. i - 1 \in 1 .. n /\ i - 1 \notin Wrong
      BY <3>1, <3>2, <1>1
    <3> QED BY <3>2, <3>3, <2>3
  <2>5. n \in 1 .. n
    BY <1>1, <1>3
  <2>6. Fine(n)
    BY <2>4, <2>5
  <2> QED BY <2>1, <2>6, <1>1 DEF Fine
<1> QED BY <1>2, <1>3

-----------------------------------------------------------------------------
(***************************************************************************)
(* Scores.                                                                 *)
(***************************************************************************)

\* As many subsets as a power of two: which is positive and grows.
LEMMA PowersGrow ==
  ASSUME NEW m \in Nat, NEW n \in Nat, m <= n
  PROVE  2^m \in Nat /\ 2^n \in Nat /\ 2^m >= 1 /\ 2^m <= 2^n
<1>1. ASSUME NEW k \in Nat
      PROVE  /\ IsFiniteSet(SUBSET (1 .. k)) /\ Cardinality(SUBSET (1 .. k)) = 2^k
             /\ 2^k \in Nat /\ 2^k >= 1
  <2>1. IsFiniteSet(1 .. k) /\ Cardinality(1 .. k) = k
    BY FS_Interval, 1 \in Int, k \in Int
  <2>2. IsFiniteSet(SUBSET (1 .. k)) /\ Cardinality(SUBSET (1 .. k)) = 2^k
    BY <2>1, FS_SUBSET
  <2>3. Cardinality(SUBSET (1 .. k)) \in Nat /\ SUBSET (1 .. k) # {}
    BY <2>2, FS_CardinalityType
  <2>4. Cardinality(SUBSET (1 .. k)) # 0
    BY <2>2, <2>3, FS_EmptySet
  <2> QED BY <2>2, <2>3, <2>4
<1>2. SUBSET (1 .. m) \in SUBSET (SUBSET (1 .. n))
  <2>1. 1 .. m \subseteq 1 .. n
    OBVIOUS
  <2> QED BY <2>1
<1>3. Cardinality(SUBSET (1 .. m)) <= Cardinality(SUBSET (1 .. n))
  BY <1>1, <1>2, FS_Subset
<1> QED BY <1>1, <1>3

\* A larger divisor gives a smaller quotient.
LEMMA QuotientsFall ==
  ASSUME NEW c \in Nat, NEW m \in Nat, NEW n \in Nat, 1 <= m, m <= n
  PROVE  c \div m \in Nat /\ c \div n \in Nat /\ c \div m >= c \div n
<1> DEFINE a == c \div m
           b == c \div n
<1>1. a \in Nat /\ c < m * (a + 1)
  OBVIOUS
<1>2. b \in Nat /\ b * n <= c
  OBVIOUS
<1> HIDE DEF a, b
<1>3. b * m <= b * n
  BY <1>2
<1>4. m * b < m * (a + 1)
  BY <1>1, <1>2, <1>3
<1>5. b < a + 1
  BY <1>4, <1>1, <1>2
<1>6. a >= b
  BY <1>5, <1>1, <1>2
<1> QED BY <1>1, <1>2, <1>6 DEF a, b

\* The older an event, the less its recency counts.
LEMMA RecencyFalls ==
  ASSUME NEW a \in Int, NEW b \in Int, a <= b
  PROVE  /\ RecencyScore(a) \in Nat /\ RecencyScore(b) \in Nat
         /\ RecencyScore(a) >= RecencyScore(b)
<1> DEFINE m == (IF a < 0 THEN 0 ELSE a) \div HalfLife
           n == (IF b < 0 THEN 0 ELSE b) \div HalfLife
<1>1. m \in Nat /\ n \in Nat /\ m <= n
  BY DEF HalfLife
<1> HIDE DEF m, n
<1>2. 2^m \in Nat /\ 2^n \in Nat /\ 1 <= 2^m /\ 2^m <= 2^n
  BY <1>1, PowersGrow
<1>3. 3000 \div 2^m \in Nat /\ 3000 \div 2^n \in Nat /\ 3000 \div 2^m >= 3000 \div 2^n
  <2> DEFINE c == 3000
             u == 2^m
             w == 2^n
  <2>1. c \in Nat /\ u \in Nat /\ w \in Nat /\ 1 <= u /\ u <= w
    BY <1>2
  <2> HIDE DEF c, u, w
  <2>2. c \div u \in Nat /\ c \div w \in Nat /\ c \div u >= c \div w
    BY <2>1, QuotientsFall, Zenon
  <2> QED BY <2>2 DEF c, u, w
<1> QED BY <1>3 DEF RecencyScore, m, n

LEMMA FrequencyGrows ==
  ASSUME NEW m \in Nat, NEW n \in Nat, m <= n
  PROVE  /\ FrequencyScore(m) \in Nat /\ FrequencyScore(n) \in Nat
         /\ FrequencyScore(m) <= FrequencyScore(n)
BY DEF FrequencyScore

-----------------------------------------------------------------------------
(***************************************************************************)
(* IntentScorer, for every history of records that have a time.            *)
(***************************************************************************)

TimedHistories(Record) == {h \in Seq(Record) : \A i \in DOMAIN h : h[i].time \in Int}

LEMMA RecordsType ==
  ASSUME NEW Record, NEW history \in TimedHistories(Record), NEW action
  PROVE  /\ Len(history) \in Nat /\ DOMAIN history = 1 .. Len(history)
         /\ \A i \in DOMAIN history : history[i].time \in Int
         /\ Records(history, action) \in SUBSET (1 .. Len(history))
         /\ action \in Candidates(history) <=> Records(history, action) # {}
BY DEF TimedHistories, Records, Candidates

\* What is taken for the most recent record of an action is one of its latest.
LEMMA NewestRecord ==
  ASSUME NEW Record, NEW history \in TimedHistories(Record), NEW action \in Candidates(history)
  PROVE  \E i \in Records(history, action) :
           /\ MostRecent(history, action) = history[i]
           /\ history[i].time \in Int
           /\ \A j \in Records(history, action) : history[j].time <= history[i].time
<1> DEFINE P == Records(history, action)
           v == [i \in P |-> history[i].time]
           newest(i) == \A j \in P : \/ history[j].time < history[i].time
                                     \/ history[j].time = history[i].time /\ i <= j
<1>1. P \in SUBSET (1 .. Len(history)) /\ P # {} /\ Len(history) \in Nat
  BY RecordsType
<1>2. \A i \in P : history[i].time \in Int
  BY RecordsType
<1>3. v \in [P -> Int]
  <2> HIDE DEF P
  <2> QED BY <1>2
<1>4. \E i \in P : \A j \in P : v[j] < v[i] \/ (v[j] = v[i] /\ i <= j)
  <2> HIDE DEF P, v
  <2> QED BY <1>1, <1>3, FirstOfLargest
<1>5. \E i \in P : newest(i)
  <2> HIDE DEF P
  <2> QED BY <1>4
<1> DEFINE i == CHOOSE i \in P : newest(i)
<1>6. i \in P /\ newest(i)
  <2> HIDE DEF P, newest
  <2> QED BY <1>5
<1>7. MostRecent(history, action) = history[i]
  BY DEF MostRecent
<1>8. \A j \in P : history[j].time <= history[i].time
  <2> HIDE DEF P, i
  <2> QED BY <1>2, <1>6
<1> HIDE DEF P, i
<1> QED BY <1>2, <1>6, <1>7, <1>8 DEF P

\* An action of the history has a first record.
LEMMA FirstRecordIs ==
  ASSUME NEW Record, NEW history \in TimedHistories(Record), NEW action \in Candidates(history)
  PROVE  FirstRecord(history, action) \in Records(history, action) /\ FirstRecord(history, action) \in Int
<1> DEFINE P == Records(history, action)
<1>1. Len(history) \in Nat /\ P # {} /\ P \in SUBSET (1 .. Len(history))
  BY RecordsType
<1>2. Min(P) \in P /\ Min(P) \in Int
  <2> HIDE DEF P
  <2>1. P \in SUBSET Int /\ IsFiniteSet(P)
    BY <1>1, PlacesAreFinite
  <2> QED BY <1>1, <2>1, MinOfFinite
<1> QED BY <1>2 DEF FirstRecord

\* What a score is made of.
LEMMA ScoreIs ==
  ASSUME NEW Record, NEW history \in TimedHistories(Record), NEW action \in Candidates(history),
         NEW keywords, NEW now \in Int
  PROVE  /\ Count(history, action) \in Nat /\ Count(history, action) >= 1
         /\ \E i \in Records(history, action) :
              /\ \A j \in Records(history, action) : history[j].time <= history[i].time
              /\ history[i].time \in Int
              /\ Score(history, action, keywords, now).actionType = action
              /\ Score(history, action, keywords, now).confidence \in Nat
              /\ Score(history, action, keywords, now).confidence =
                   KeywordScore(action, keywords) + RecencyScore(now - history[i].time)
                     + FrequencyScore(Count(history, action))
<1>1. Count(history, action) \in Nat /\ Count(history, action) >= 1
  <2>1. /\ Records(history, action) \in SUBSET (1 .. Len(history)) /\ Len(history) \in Nat
        /\ Records(history, action) # {}
    BY RecordsType
  <2>2. Cardinality(Records(history, action)) \in Nat /\ Cardinality(Records(history, action)) >= 1
    BY <2>1, PlacesAreFinite
  <2> QED BY <2>2 DEF Count
<1>2. PICK i \in Records(history, action) :
        /\ MostRecent(history, action) = history[i]
        /\ history[i].time \in Int
        /\ \A j \in Records(history, action) : history[j].time <= history[i].time
  BY NewestRecord
<1>3. RecencyScore(now - history[i].time) \in Nat
  BY <1>2, RecencyFalls
<1>4. FrequencyScore(Count(history, action)) \in Nat
  BY <1>1, FrequencyGrows
<1>5. KeywordScore(action, keywords) \in Nat
  BY DEF KeywordScore
<1>6. KeywordScore(action, keywords) + RecencyScore(now - history[i].time)
        + FrequencyScore(Count(history, action)) \in Nat
  BY <1>3, <1>4, <1>5
<1> QED BY <1>1, <1>2, <1>6 DEF Score

\* An action is predicted with at least the confidence that any one of its
\* events would give alone (_group_by_action_type, _score_candidate).
THEOREM EveryUseAddsConfidence ==
  ASSUME NEW Record, NEW history \in TimedHistories(Record), NEW keywords, NEW now \in Int
  PROVE  EveryUseCountsIn(history, keywords, now)
<1> SUFFICES ASSUME NEW i \in DOMAIN history
             PROVE  Score(history, history[i].action, keywords, now).confidence
                      >= Score(<<history[i]>>, history[i].action, keywords, now).confidence
  BY DEF EveryUseCountsIn
<1> DEFINE action == history[i].action
           alone  == <<history[i]>>
<1>1. history[i] \in Record /\ history[i].time \in Int
  BY RecordsType DEF TimedHistories
<1>2. action \in Candidates(history) /\ i \in Records(history, action)
  BY DEF Candidates, Records
<1>3. alone \in TimedHistories(Record) /\ action \in Candidates(alone) /\ Records(alone, action) = {1}
      /\ alone[1] = history[i]
  BY <1>1 DEF TimedHistories, Candidates, Records
<1>4. Count(alone, action) = 1
  BY <1>3, FS_Singleton DEF Count
<1> HIDE DEF action, alone
<1>5. PICK m \in Records(history, action) :
        /\ \A j \in Records(history, action) : history[j].time <= history[m].time
        /\ history[m].time \in Int
        /\ Score(history, action, keywords, now).confidence =
             KeywordScore(action, keywords) + RecencyScore(now - history[m].time)
               + FrequencyScore(Count(history, action))
  BY <1>2, ScoreIs
<1>6. Score(alone, action, keywords, now).confidence =
        KeywordScore(action, keywords) + RecencyScore(now - history[i].time) + FrequencyScore(1)
  BY <1>3, <1>4, ScoreIs
<1>7. RecencyScore(now - history[m].time) \in Nat /\ RecencyScore(now - history[i].time) \in Nat
      /\ RecencyScore(now - history[m].time) >= RecencyScore(now - history[i].time)
  <2>1. now - history[m].time \in Int /\ now - history[i].time \in Int
        /\ now - history[m].time <= now - history[i].time
    BY <1>1, <1>2, <1>5
  <2> QED BY <2>1, RecencyFalls
<1>8. FrequencyScore(1) \in Nat /\ FrequencyScore(Count(history, action)) \in Nat
      /\ FrequencyScore(1) <= FrequencyScore(Count(history, action))
  <2>1. Count(history, action) \in Nat /\ 1 <= Count(history, action) /\ 1 \in Nat
    BY <1>2, ScoreIs
  <2> QED BY <2>1, FrequencyGrows
<1>9. KeywordScore(action, keywords) \in Nat
  BY DEF KeywordScore
<1>10. Score(history, action, keywords, now).confidence
         >= Score(alone, action, keywords, now).confidence
  BY <1>5, <1>6, <1>7, <1>8, <1>9
<1> QED BY <1>10 DEF action, alone

\* Scores of different actions are different records; there are finitely many.
LEMMA ScoresType ==
  ASSUME NEW Record, NEW history \in TimedHistories(Record), NEW keywords, NEW now \in Int
  PROVE  /\ IsFiniteSet(Candidates(history))
         /\ IsFiniteSet(Scores(history, keywords, now))
         /\ \A p \in Scores(history, keywords, now) :
              /\ p.actionType \in Candidates(history)
              /\ p = Score(history, p.actionType, keywords, now)
              /\ p.confidence \in Nat
         /\ \A action \in Candidates(history) :
              /\ Score(history, action, keywords, now) \in Scores(history, keywords, now)
              /\ Score(history, action, keywords, now).actionType = action
<1> DEFINE n == Len(history)
           C == Candidates(history)
           S == Scores(history, keywords, now)
           f == [i \in 1 .. n |-> history[i].action]
           g == [action \in C |-> Score(history, action, keywords, now)]
<1>1. n \in Nat /\ DOMAIN history = 1 .. n
  BY RecordsType
<1>2. IsFiniteSet(1 .. n)
  BY <1>1, FS_Interval, 1 \in Int, n \in Int
<1>3. f \in Surjection(1 .. n, C)
  BY <1>1 DEF Surjection, Candidates
<1>4. IsFiniteSet(C)
  <2> HIDE DEF f, C, n
  <2> QED BY <1>2, <1>3, FS_Surjection
<1>5. g \in Surjection(C, S)
  <2> HIDE DEF C
  <2> QED BY DEF Surjection, Scores, C
<1>6. IsFiniteSet(S)
  <2> HIDE DEF g, C, S
  <2> QED BY <1>4, <1>5, FS_Surjection
<1>7. ASSUME NEW action \in Candidates(history)
      PROVE  /\ Score(history, action, keywords, now) \in Scores(history, keywords, now)
             /\ Score(history, action, keywords, now).actionType = action
             /\ Score(history, action, keywords, now).confidence \in Nat
  BY ScoreIs DEF Scores
<1>8. ASSUME NEW p \in S
      PROVE  /\ p.actionType \in Candidates(history)
             /\ p = Score(history, p.actionType, keywords, now)
             /\ p.confidence \in Nat
  <2>1. PICK action \in Candidates(history) : p = Score(history, action, keywords, now)
    BY DEF Scores
  <2> QED BY <2>1, <1>7
<1> QED BY <1>4, <1>6, <1>7, <1>8

\* The ranked scores: all of them, the most confident first.
LEMMA RankedIsSorted ==
  ASSUME NEW Record, NEW history \in TimedHistories(Record), NEW keywords, NEW now \in Int
  PROVE  LET S == Scores(history, keywords, now)
             f == Ranked(history, S)
         IN /\ f \in Seq(S) /\ Len(f) = Cardinality(S) /\ ToSet(f) = S
            /\ \A i, j \in DOMAIN f : f[i] = f[j] => i = j
            /\ \A i, j \in DOMAIN f : i < j => f[i].confidence >= f[j].confidence
<1> DEFINE S == Scores(history, keywords, now)
           f == Ranked(history, S)
           first(p) == FirstRecord(history, p.actionType)
           key == [p \in S |-> <<- p.confidence, first(p)>>]
<1>1. IsFiniteSet(S)
  BY ScoresType
<1>2. ASSUME NEW p \in S
      PROVE  /\ p.confidence \in Int /\ - p.confidence \in Int
             /\ first(p) \in Records(history, p.actionType) /\ first(p) \in Int
  <2>1. p.actionType \in Candidates(history) /\ p.confidence \in Nat
    BY ScoresType
  <2>2. first(p) \in Records(history, p.actionType) /\ first(p) \in Int
    BY <2>1, FirstRecordIs
  <2> HIDE DEF first
  <2> QED BY <2>1, <2>2
<1>3. ASSUME NEW p \in S, NEW q \in S, first(p) = first(q)
      PROVE  p = q
  <2>1. first(p) \in Records(history, p.actionType) /\ first(q) \in Records(history, q.actionType)
    BY <1>2
  <2>2. p.actionType = q.actionType
    <3> HIDE DEF first
    <3> QED BY <2>1, <1>3 DEF Records
  <2> QED BY <2>2, ScoresType
<1>4. f = InOrder(S, key)
  BY DEF Ranked
<1> HIDE DEF f, S, first
<1>5. /\ key \in [S -> Int \X Int]
      /\ \A p \in S : key[p][1] = - p.confidence /\ p.confidence \in Int
      /\ \A p, q \in S : key[p][2] = key[q][2] => p = q
  BY <1>2, <1>3
<1> HIDE DEF key
<1>6. /\ f \in Seq(S) /\ Len(f) = Cardinality(S) /\ ToSet(f) = S
      /\ \A i \in DOMAIN f : f[i] \in S
      /\ \A i, j \in DOMAIN f : f[i] = f[j] => i = j
      /\ \A i, j \in DOMAIN f : i < j <=> Less(key[f[i]], key[f[j]])
  <2>1. key \in [S -> Int \X Int] /\ \A p, q \in S : key[p][2] = key[q][2] => p = q
    BY <1>5
  <2> QED BY <1>1, <1>4, <2>1, SortedByPairs
<1>7. ASSUME NEW i \in DOMAIN f, NEW j \in DOMAIN f, i < j
      PROVE  f[i].confidence >= f[j].confidence
  <2>1. /\ f[i] \in S /\ f[j] \in S /\ Less(key[f[i]], key[f[j]])
        /\ key[f[i]] \in Int \X Int /\ key[f[j]] \in Int \X Int
    BY <1>5, <1>6, <1>7
  <2>2. key[f[i]][1] <= key[f[j]][1]
    BY <2>1, LessOfPairs
  <2> QED BY <2>1, <2>2, <1>5
<1> QED BY <1>6, <1>7 DEF f, S

\* The predictions are as many as were asked for and there are actions, each
\* action once, the best first, and none left out that would be better
\* (IntentScorer.score).
THEOREM PredictionsAreTheBestAlways ==
  ASSUME NEW Record, NEW history \in TimedHistories(Record), NEW keywords, NEW now \in Int,
         NEW max_results \in Nat
  PROVE  PredictionsAreTheBestOf(history, keywords, now, max_results)
<1> DEFINE S == Scores(history, keywords, now)
           f == Ranked(history, S)
           n == IF Len(f) < max_results THEN Len(f) ELSE max_results
           made == Predictions(history, keywords, now, max_results)
           chosen == {p.actionType : p \in ToSet(made)}
           score(action) == Score(history, action, keywords, now)
<1>1. /\ f \in Seq(S) /\ Len(f) = Cardinality(S) /\ ToSet(f) = S
      /\ \A i, j \in DOMAIN f : f[i] = f[j] => i = j
      /\ \A i, j \in DOMAIN f : i < j => f[i].confidence >= f[j].confidence
  BY RankedIsSorted
<1>2. \A p \in S : /\ p.actionType \in Candidates(history)
                   /\ p = score(p.actionType)
                   /\ p.confidence \in Nat
  BY ScoresType
<1>3. \A action \in Candidates(history) : score(action) \in S /\ score(action).actionType = action
  BY ScoresType
<1>4. made = SubSeq(f, 1, n)
  BY DEF Predictions
<1> HIDE DEF f, S, made, score
<1>5. n \in Nat /\ n <= Len(f) /\ n <= max_results /\ (n = max_results \/ n = Len(f)) /\ Len(f) \in Nat
  BY <1>1
<1>6. Len(made) = n /\ DOMAIN made = 1 .. n /\ \A i \in 1 .. n : made[i] = f[i] /\ f[i] \in S
  BY <1>1, <1>4, <1>5
<1>7. \A i, j \in DOMAIN made : i < j => made[i].confidence >= made[j].confidence
  BY <1>1, <1>5, <1>6
<1>8. ToSet(made) = {f[i] : i \in 1 .. n} /\ chosen = {f[i].actionType : i \in 1 .. n}
  BY <1>6 DEF ToSet
<1>9. chosen \subseteq Candidates(history)
  BY <1>2, <1>6, <1>8
<1>10. Cardinality(chosen) = Len(made)
  <2> DEFINE a == [i \in 1 .. n |-> f[i].actionType]
  <2>1. a \in [1 .. n -> chosen] /\ \A c \in chosen : \E i \in 1 .. n : a[i] = c
    BY <1>8
  <2>2. ASSUME NEW i \in 1 .. n, NEW j \in 1 .. n, a[i] = a[j] PROVE i = j
    <3>1. f[i] = f[j]
      BY <2>2, <1>2, <1>6
    <3>2. i \in DOMAIN f /\ j \in DOMAIN f
      BY <1>1, <1>5
    <3> QED BY <3>1, <3>2, <1>1
  <2>3. a \in Bijection(1 .. n, chosen)
    <3> HIDE DEF a, chosen
    <3> QED BY <2>1, <2>2 DEF Bijection, Injection, IsInjective, Surjection
  <2> HIDE DEF a, chosen, n
  <2> QED BY <2>3, <1>5, <1>6, FS_CountingElements DEF ExistsBijection
<1>11. ASSUME NEW action \in Candidates(history)
       PROVE  \E i \in DOMAIN f : f[i] = score(action)
  BY <1>1, <1>3 DEF ToSet
<1>12. Len(made) = max_results \/ chosen = Candidates(history)
  <2> SUFFICES ASSUME n = Len(f) PROVE chosen = Candidates(history)
    BY <1>5, <1>6
  <2>1. ASSUME NEW action \in Candidates(history) PROVE action \in chosen
    <3>1. PICK i \in DOMAIN f : f[i] = score(action)
      BY <1>11
    <3>2. i \in 1 .. n /\ f[i].actionType = action
      BY <3>1, <1>1, <1>3
    <3> QED BY <3>2, <1>8
  <2> QED BY <2>1, <1>9
<1>13. ASSUME NEW action \in Candidates(history) \ chosen, NEW p \in ToSet(made)
       PROVE  p.confidence >= score(action).confidence
  <2>1. PICK i \in DOMAIN f : f[i] = score(action)
    BY <1>11
  <2>2. i \notin 1 .. n
    BY <2>1, <1>3, <1>8, <1>13
  <2>3. PICK j \in 1 .. n : p = f[j]
    BY <1>8
  <2>4. j \in DOMAIN f /\ j < i
    BY <2>2, <2>3, <1>1, <1>5
  <2> QED BY <2>1, <2>3, <2>4, <1>1
<1> QED BY <1>7, <1>9, <1>10, <1>12, <1>13 DEF PredictionsAreTheBestOf, made, score

-----------------------------------------------------------------------------
(***************************************************************************)
(* The confidences of sequences.                                           *)
(***************************************************************************)

\* The element of a set that a fold takes first.
Taken(s) == CHOOSE x \in s : TRUE

\* A sum of confidences is made element by element: the function that the fold
\* is defined by exists, as it does for sets of up to n elements, for every n.
LEMMA SumStepByStep ==
  ASSUME NEW S, IsFiniteSet(S)
  PROVE  \E sum : /\ sum[S] = MapThenSumSet(LAMBDA t : t.confidence, S)
                  /\ \A s \in SUBSET S :
                       sum[s] = IF s = {} THEN 0 ELSE Taken(s).confidence + sum[s \ {Taken(s)}]
<1> DEFINE more(g) == [s \in SUBSET S |->
                         IF s = {} THEN 0 ELSE Taken(s).confidence + g[s \ {Taken(s)}]]
           UpTo(g, n) == \A s \in SUBSET S : Cardinality(s) <= n => g[s] = more(g)[s]
           Left == {n \in Nat : ~ \E g : UpTo(g, n)}
<1>1. \A s \in SUBSET S :
        /\ Cardinality(s) \in Nat
        /\ Cardinality(s) <= Cardinality(S)
        /\ Cardinality(s) = 0 <=> s = {}
        /\ s # {} => /\ s \ {Taken(s)} \in SUBSET S
                     /\ Cardinality(s \ {Taken(s)}) = Cardinality(s) - 1
  <2> SUFFICES ASSUME NEW s \in SUBSET S
               PROVE  /\ Cardinality(s) \in Nat
                      /\ Cardinality(s) <= Cardinality(S)
                      /\ Cardinality(s) = 0 <=> s = {}
                      /\ s # {} => Cardinality(s \ {Taken(s)}) = Cardinality(s) - 1
    OBVIOUS
  <2>1. IsFiniteSet(s) /\ Cardinality(s) <= Cardinality(S)
    BY FS_Subset
  <2>2. s # {} => Taken(s) \in s
    BY DEF Taken
  <2>3. s # {} => Cardinality(s \ {Taken(s)}) = Cardinality(s) - 1
    BY <2>1, <2>2, FS_RemoveElement
  <2>4. Cardinality(s) \in Nat
    BY <2>1, FS_CardinalityType
  <2>5. Cardinality(s) = 0 <=> s = {}
    BY <2>1, FS_EmptySet
  <2> QED BY <2>1, <2>3, <2>4, <2>5
<1>2. \E g : UpTo(g, 0)
  <2> DEFINE g == [s \in SUBSET S |-> 0]
  <2>1. ASSUME NEW s \in SUBSET S, Cardinality(s) <= 0  PROVE s = {}
    <3>1. Cardinality(s) \in Nat /\ (Cardinality(s) = 0 <=> s = {})
      BY <1>1
    <3> QED BY <2>1, <3>1
  <2>2. UpTo(g, 0)
    BY <2>1
  <2> QED BY <2>2
<1>3. ASSUME NEW n \in Nat, NEW g, UpTo(g, n)  PROVE UpTo(more(g), n + 1)
  <2> DEFINE h == more(g)
  <2> SUFFICES ASSUME NEW s \in SUBSET S, Cardinality(s) <= n + 1
               PROVE  h[s] = more(h)[s]
    OBVIOUS
  <2>1. CASE s = {}
    BY <2>1
  <2>2. CASE s # {}
    <3>1. PICK r \in SUBSET S : r = s \ {Taken(s)} /\ Cardinality(r) <= n
      <4>1. /\ s \ {Taken(s)} \in SUBSET S /\ Cardinality(s) \in Nat
            /\ Cardinality(s \ {Taken(s)}) = Cardinality(s) - 1
        BY <1>1, <2>2
      <4>2. Cardinality(s) - 1 <= n
        BY <4>1
      <4> QED BY <4>1, <4>2
    <3>2. g[r] = h[r]
      BY <1>3, <3>1
    <3>3. h[s] = Taken(s).confidence + g[r]
      BY <2>2, <3>1
    <3>4. more(h)[s] = Taken(s).confidence + h[r]
      <4> HIDE DEF h
      <4> QED BY <2>2, <3>1
    <3> QED BY <3>2, <3>3, <3>4
  <2> QED BY <2>1, <2>2
<1> HIDE DEF UpTo
<1>4. Left = {}
  <2> SUFFICES ASSUME Left # {} PROVE FALSE
    OBVIOUS
  <2>1. PICK n \in Left : \A m \in Left : n <= m
    <3>1. Left \in SUBSET Nat
      OBVIOUS
    <3> HIDE DEF Left
    <3> QED BY <3>1, SmallestOfNat
  <2>2. n # 0 /\ n \in Nat
    BY <1>2
  <2>3. n - 1 \in Nat /\ n - 1 \notin Left
    BY <2>1, <2>2
  <2>4. PICK g : UpTo(g, n - 1)
    BY <2>3
  <2>5. UpTo(more(g), (n - 1) + 1)
    <3> HIDE DEF more
    <3> QED BY <1>3, <2>3, <2>4
  <2>6. (n - 1) + 1 = n
    BY <2>2
  <2> HIDE DEF more
  <2> QED BY <2>5, <2>6
<1>5. PICK g : UpTo(g, Cardinality(S))
  BY <1>1, <1>4
<1>6. more(g) = more(more(g))
  <2>1. \A s \in SUBSET S : g[s] = more(g)[s]
    BY <1>1, <1>5 DEF UpTo
  <2>2. \A s \in SUBSET S : s # {} => g[s \ {Taken(s)}] = more(g)[s \ {Taken(s)}]
    <3> HIDE DEF more
    <3> QED BY <1>1, <2>1
  <2>3. \A s \in SUBSET S :
          (IF s = {} THEN 0 ELSE Taken(s).confidence + g[s \ {Taken(s)}])
            = (IF s = {} THEN 0 ELSE Taken(s).confidence + more(g)[s \ {Taken(s)}])
    <3> HIDE DEF more
    <3> QED BY <2>2
  <2> QED BY <2>3
<1> DEFINE sum == CHOOSE f : f = more(f)
<1>7. sum = more(sum)
  <2> HIDE DEF more
  <2> QED BY <1>6
<1>8. MapThenSumSet(LAMBDA t : t.confidence, S) = sum[S]
  BY DEF MapThenSumSet, MapThenFoldSet, Taken
<1> HIDE DEF sum
<1>9. \A s \in SUBSET S : more(sum)[s] = IF s = {} THEN 0 ELSE Taken(s).confidence + sum[s \ {Taken(s)}]
  OBVIOUS
<1> HIDE DEF more
<1> QED BY <1>7, <1>8, <1>9

\* A confidence is rounded by less than one hundredth.
LEMMA ConfidenceIsRounded ==
  ASSUME NEW count \in Nat, NEW total \in Nat, total >= 1
  PROVE  /\ Confidence(count, total) \in Nat
         /\ total * Confidence(count, total) <= 100 * count + total
<1> DEFINE below == (100 * count) \div total
           left  == (100 * count) % total
<1>1. below \in Nat /\ total * below <= 100 * count
  OBVIOUS
<1>2. below % 2 \in {0, 1}
  <2> HIDE DEF below
  <2> QED BY <1>1
<1>3. Confidence(count, total) \in {below, below + 1} \/ (count >= total /\ Confidence(count, total) = 100)
  <2>1. /\ count < total => ~ (count >= total)
        /\ Confidence(count, total) =
             CASE count >= total                          -> 100
               [] count < total /\ 2 * left > total       -> below + 1
               [] count < total /\ 2 * left = total       -> below + (below % 2)
               [] OTHER                                   -> below
    BY DEF Confidence
  <2>2. below + 0 = below
    BY <1>1
  <2> HIDE DEF below, left
  <2>3. below + (below % 2) \in {below, below + 1}
    BY <1>2, <2>2
  <2> QED BY <2>1, <2>3
<1> HIDE DEF below
<1>4. total * (below + 1) = total * below + total
  BY <1>1
<1> QED BY <1>1, <1>3, <1>4

\* The trigger and the follower of a sequence, and where it occurs.
KeyOfSequence(t) == <<t.trigger_app, t.trigger_action, t.follow_app, t.follow_action>>

Starts(ordered, key) ==
  {i \in 1 .. Len(ordered) - 1 : <<i, i + 1>> \in Occurrences(ordered, key)}

\* Each occurrence begins at a use of the trigger of its own.
LEMMA SequencesStartAtUses ==
  ASSUME NEW Record, NEW ordered \in Seq(Record), NEW key \in Keys(ordered)
  PROVE  LET t      == Sequence(ordered, key)
             starts == Starts(ordered, key)
             uses   == Uses(ordered, key[1], key[2])
         IN  /\ KeyOfSequence(t) = key
             /\ t.trigger_app = key[1] /\ t.trigger_action = key[2]
             /\ starts \subseteq uses
             /\ IsFiniteSet(uses) /\ Cardinality(uses) \in Nat \ {0}
             /\ IsFiniteSet(starts) /\ Cardinality(starts) \in Nat
             /\ t.confidence \in Nat
             /\ Cardinality(uses) * t.confidence <= 100 * Cardinality(starts) + Cardinality(uses)
<1> DEFINE n      == Len(ordered)
           t      == Sequence(ordered, key)
           starts == Starts(ordered, key)
           uses   == Uses(ordered, key[1], key[2])
           found  == Occurrences(ordered, key)
<1>1. n \in Nat /\ DOMAIN ordered = 1 .. n
  OBVIOUS
<1>2. PICK p \in Transitions(ordered) : key = KeyOf(ordered, p)
  BY DEF Keys
<1>3. key = <<key[1], key[2], key[3], key[4]>>
  BY <1>2 DEF KeyOf
<1>4. /\ KeyOfSequence(t) = key /\ t.trigger_app = key[1] /\ t.trigger_action = key[2]
      /\ t.confidence = Confidence(Cardinality(found), Cardinality(uses))
  BY <1>3 DEF Sequence, KeyOfSequence
<1>5. \A o \in found : o \in Transitions(ordered) /\ KeyOf(ordered, o) = key
  BY DEF Occurrences
<1>6. \A o \in found : \E i \in starts : o = <<i, i + 1>>
  BY <1>5 DEF Transitions, Starts
<1>7. \A i \in starts : i \in 1 .. n - 1 /\ <<i, i + 1>> \in found
  BY DEF Starts
<1>8. starts \subseteq uses
  <2> SUFFICES ASSUME NEW i \in starts PROVE i \in uses
    OBVIOUS
  <2>1. i \in DOMAIN ordered
    <3>1. i \in 1 .. n - 1
      BY <1>7
    <3> HIDE DEF n
    <3> QED BY <1>1, <3>1
  <2>2. KeyOf(ordered, <<i, i + 1>>) = key
    BY <1>5, <1>7
  <2>3. key[1] = ordered[i].app /\ key[2] = ordered[i].action
    BY <2>2 DEF KeyOf
  <2> QED BY <2>1, <2>3 DEF Uses
<1>9. IsFiniteSet(uses)
  <2>1. IsFiniteSet(1 .. n)
    <3> HIDE DEF n
    <3> QED BY <1>1, FS_Interval, 1 \in Int, n \in Int
  <2>2. uses \in SUBSET (1 .. n)
    BY <1>1 DEF Uses
  <2> HIDE DEF uses, n
  <2> QED BY <2>1, <2>2, FS_Subset
<1>10. p \in found
  BY <1>2 DEF Occurrences
<1>11. starts # {}
  BY <1>6, <1>10
<1> HIDE DEF starts, uses, found, t
<1>12. IsFiniteSet(starts) /\ Cardinality(starts) <= Cardinality(uses)
  BY <1>8, <1>9, FS_Subset
<1>13. Cardinality(starts) \in Nat /\ Cardinality(uses) \in Nat /\ Cardinality(starts) # 0
  BY <1>9, <1>11, <1>12, FS_CardinalityType, FS_EmptySet
<1>14. Cardinality(found) = Cardinality(starts)
  <2> DEFINE f == [i \in starts |-> <<i, i + 1>>]
  <2>1. f \in [starts -> found] /\ \A i \in starts : f[i] = <<i, i + 1>>
    BY <1>7
  <2> HIDE DEF f
  <2>2. f \in Bijection(starts, found)
    <3>1. \A i, j \in starts : f[i] = f[j] => i = j
      BY <2>1
    <3>2. \A o \in found : \E i \in starts : f[i] = o
      BY <1>6, <2>1
    <3> QED BY <2>1, <3>1, <3>2 DEF Bijection, Injection, IsInjective, Surjection
  <2> QED BY <1>12, <2>2, FS_Bijection DEF ExistsBijection
<1>15. Cardinality(uses) >= 1
  BY <1>12, <1>13
<1>16. /\ t.confidence \in Nat
       /\ Cardinality(uses) * t.confidence <= 100 * Cardinality(starts) + Cardinality(uses)
  BY <1>4, <1>13, <1>14, <1>15, ConfidenceIsRounded
<1> QED BY <1>4, <1>8, <1>9, <1>12, <1>13, <1>15, <1>16 DEF t, starts, uses

\* Occurrences of different sequences do not begin at one place.
LEMMA StartsAreApart ==
  ASSUME NEW ordered, NEW k1, NEW k2, k1 # k2
  PROVE  Starts(ordered, k1) \intersect Starts(ordered, k2) = {}
BY DEF Starts, Occurrences

LEMMA OneMore ==
  ASSUME NEW n \in Nat, NEW c \in Nat, NEW s \in Nat, NEW f \in Nat, NEW a \in Nat, NEW r \in Nat,
         n * c <= 100 * f + n, n * s <= 100 * a + n * r
  PROVE  n * (c + s) <= 100 * (a + f) + n * (r + 1)
<1>1. n * (c + s) = n * c + n * s /\ n * (r + 1) = n * r + n
  OBVIOUS
<1>2. n * c \in Nat /\ n * s \in Nat /\ n * r \in Nat
  OBVIOUS
<1> QED BY <1>1, <1>2

\* The sequences of one trigger, in a history that is ordered: were there a set
\* of them with more confidence than their occurrences and the rounding make,
\* there would be a smallest one, and the element that is added to it last
\* cannot make the difference.
LEMMA SharedByTrigger ==
  ASSUME NEW Record, NEW ordered \in Seq(Record), NEW app, NEW action,
         NEW S, IsFiniteSet(S), S # {},
         \A t \in S : /\ t.trigger_app = app /\ t.trigger_action = action
                      /\ \E key \in Keys(ordered) : t = Sequence(ordered, key)
  PROVE  MapThenSumSet(LAMBDA t : t.confidence, S) <= 100 + Cardinality(S)
<1> DEFINE uses     == Uses(ordered, app, action)
           N        == Cardinality(uses)
           F(t)     == Starts(ordered, KeyOfSequence(t))
           all(T)   == UNION {F(t) : t \in T}
<1>1. ASSUME NEW t \in S
      PROVE  /\ t = Sequence(ordered, KeyOfSequence(t))
             /\ F(t) \subseteq uses
             /\ IsFiniteSet(uses) /\ N \in Nat \ {0}
             /\ IsFiniteSet(F(t)) /\ Cardinality(F(t)) \in Nat
             /\ t.confidence \in Nat
             /\ N * t.confidence <= 100 * Cardinality(F(t)) + N
  <2>1. PICK key \in Keys(ordered) : t = Sequence(ordered, key)
    OBVIOUS
  <2>2. KeyOfSequence(t) = key /\ app = key[1] /\ action = key[2]
    BY <2>1, SequencesStartAtUses
  <2> QED BY <2>1, <2>2, SequencesStartAtUses
<1>2. ASSUME NEW t \in S, NEW u \in S, t # u  PROVE F(t) \intersect F(u) = {}
  <2>1. KeyOfSequence(t) # KeyOfSequence(u)
    BY <1>1, <1>2
  <2> QED BY <2>1, StartsAreApart
<1>3. IsFiniteSet(uses) /\ N \in Nat \ {0}
  BY <1>1
<1> HIDE DEF F, uses, N
<1>4. ASSUME NEW T \in SUBSET S
      PROVE  /\ IsFiniteSet(T) /\ Cardinality(T) \in Nat
             /\ all(T) \in SUBSET uses /\ IsFiniteSet(all(T))
             /\ Cardinality(all(T)) \in Nat /\ Cardinality(all(T)) <= Cardinality(uses)
  <2>1. IsFiniteSet(T) /\ Cardinality(T) \in Nat
    BY FS_Subset, FS_CardinalityType
  <2>2. all(T) \in SUBSET uses
    BY <1>1
  <2> HIDE DEF all
  <2>3. IsFiniteSet(all(T)) /\ Cardinality(all(T)) <= Cardinality(uses)
    BY <1>3, <2>2, FS_Subset
  <2>4. Cardinality(all(T)) \in Nat
    BY <2>3, FS_CardinalityType
  <2> QED BY <2>1, <2>2, <2>3, <2>4
<1>5. PICK sum : /\ sum[S] = MapThenSumSet(LAMBDA t : t.confidence, S)
                 /\ \A s \in SUBSET S :
                      sum[s] = IF s = {} THEN 0 ELSE Taken(s).confidence + sum[s \ {Taken(s)}]
  BY SumStepByStep
<1> DEFINE Small(T) == /\ sum[T] \in Nat
                       /\ N * sum[T] <= 100 * Cardinality(all(T)) + N * Cardinality(T)
<1>6. Small({})
  <2> HIDE DEF Small
  <2>1. sum[{}] = 0
    BY <1>5
  <2>2. Cardinality({}) = 0
    BY FS_EmptySet
  <2>3. all({}) = {}
    OBVIOUS
  <2> HIDE DEF all
  <2>4. Cardinality(all({})) = 0
    BY <2>2, <2>3, Zenon
  <2>5. N * 0 = 0 /\ 100 * 0 = 0 /\ 0 <= 0 + 0 /\ 0 \in Nat
    BY <1>3
  <2>6. /\ 0 \in Nat
        /\ N * 0 <= 100 * 0 + N * 0
    BY <2>5
  <2>7. /\ sum[{}] \in Nat
        /\ N * sum[{}] <= 100 * Cardinality(all({})) + N * Cardinality({})
    BY <2>1, <2>2, <2>4, <2>6, Zenon
  <2> QED BY <2>7 DEF Small
<1>7. ASSUME NEW T \in SUBSET S, T # {}, Small(T \ {Taken(T)})
      PROVE  Small(T)
  <2> DEFINE t == Taken(T)
             R == T \ {t}
  <2>1. t \in T /\ t \in S /\ R \in SUBSET S
    BY <1>7 DEF Taken
  <2>2. sum[T] = t.confidence + sum[R]
    BY <1>5, <1>7
  <2>3. Cardinality(T) = Cardinality(R) + 1 /\ Cardinality(R) \in Nat
    <3> HIDE DEF t
    <3>1. Cardinality(R) = Cardinality(T) - 1 /\ Cardinality(T) \in Nat
      BY <1>4, <2>1, FS_RemoveElement
    <3>2. Cardinality(R) \in Nat
      BY <1>4, <2>1
    <3> HIDE DEF R
    <3> QED BY <3>1, <3>2
  <2>4. Cardinality(all(T)) = Cardinality(all(R)) + Cardinality(F(t))
    <3> HIDE DEF t
    <3>1. all(T) = all(R) \union F(t)
      BY <2>1
    <3>2. all(R) \intersect F(t) = {}
      BY <1>2, <2>1
    <3>3. /\ IsFiniteSet(all(R)) /\ IsFiniteSet(F(t))
          /\ Cardinality(all(R)) \in Nat /\ Cardinality(F(t)) \in Nat
      BY <1>1, <1>4, <2>1
    <3> HIDE DEF all, R
    <3>4. Cardinality(all(R) \union F(t)) = Cardinality(all(R)) + Cardinality(F(t)) - Cardinality({})
      BY <3>2, <3>3, FS_Union
    <3> QED BY <3>1, <3>3, <3>4, FS_EmptySet
  <2>5. /\ t.confidence \in Nat /\ Cardinality(F(t)) \in Nat
        /\ N * t.confidence <= 100 * Cardinality(F(t)) + N
    <3> HIDE DEF t
    <3> QED BY <1>1, <2>1
  <2>6. Cardinality(all(R)) \in Nat
    <3> HIDE DEF t, R, all
    <3> QED BY <1>4, <2>1
  <2>7. /\ sum[R] \in Nat
        /\ N * sum[R] <= 100 * Cardinality(all(R)) + N * Cardinality(R)
    BY <1>7
  <2> HIDE DEF t, R, all
  <2>8. N * (t.confidence + sum[R]) <=
          100 * (Cardinality(all(R)) + Cardinality(F(t))) + N * (Cardinality(R) + 1)
    <3> DEFINE c == t.confidence
               s == sum[R]
               a == Cardinality(all(R))
               b == Cardinality(F(t))
               r == Cardinality(R)
    <3>1. /\ c \in Nat /\ s \in Nat /\ a \in Nat /\ b \in Nat /\ r \in Nat
          /\ N * c <= 100 * b + N /\ N * s <= 100 * a + N * r
      BY <2>3, <2>5, <2>6, <2>7
    <3> HIDE DEF c, s, a, b, r
    <3>2. N * (c + s) <= 100 * (a + b) + N * (r + 1)
      BY <1>3, <3>1, OneMore
    <3> QED BY <3>2 DEF c, s, a, b, r
  <2>9. N * sum[T] <= 100 * Cardinality(all(T)) + N * Cardinality(T)
    BY <2>2, <2>3, <2>4, <2>8
  <2>10. sum[T] \in Nat
    BY <2>2, <2>5, <2>7
  <2> QED BY <2>9, <2>10 DEF all
<1>8. Small(S)
  <2> DEFINE Large == {Cardinality(T) : T \in {T \in SUBSET S : ~ Small(T)}}
  <2> HIDE DEF Small
  <2> SUFFICES ASSUME ~ Small(S) PROVE FALSE
    OBVIOUS
  <2>1. Large \in SUBSET Nat /\ Large # {}
    <3>1. \A T \in SUBSET S : Cardinality(T) \in Nat
      BY <1>4
    <3> QED BY <3>1
  <2>2. PICK m \in Large : \A k \in Large : m <= k
    <3> HIDE DEF Large
    <3> QED BY <2>1, SmallestOfNat
  <2>3. PICK T \in SUBSET S : ~ Small(T) /\ m = Cardinality(T)
    OBVIOUS
  <2>4. T # {}
    BY <1>6, <2>3
  <2>5. Taken(T) \in T
    BY <2>4 DEF Taken
  <2>6. /\ T \ {Taken(T)} \in SUBSET S
        /\ Cardinality(T \ {Taken(T)}) = Cardinality(T) - 1
        /\ Cardinality(T) \in Nat
    <3>1. IsFiniteSet(T) /\ Cardinality(T) \in Nat
      BY <1>4
    <3> QED BY <2>5, <3>1, FS_RemoveElement
  <2>7. ~ Small(T \ {Taken(T)})
    BY <1>7, <2>3, <2>4
  <2>8. Cardinality(T \ {Taken(T)}) \in Large
    BY <2>6, <2>7
  <2>9. m <= Cardinality(T) - 1
    <3> HIDE DEF Large
    <3> QED BY <2>2, <2>6, <2>8
  <2> HIDE DEF Large
  <2> QED BY <2>3, <2>6, <2>9
<1>9. /\ Cardinality(all(S)) \in Nat /\ Cardinality(all(S)) <= N /\ Cardinality(S) \in Nat
  <2> HIDE DEF all
  <2> QED BY <1>4 DEF N
<1>10. sum[S] \in Nat /\ N * sum[S] <= 100 * Cardinality(all(S)) + N * Cardinality(S)
  BY <1>8
<1> HIDE DEF all
<1>11. N * (100 + Cardinality(S)) = 100 * N + N * Cardinality(S)
  BY <1>3, <1>9
<1>12. N * Cardinality(S) \in Nat
  BY <1>3, <1>9
<1>13. N * sum[S] <= N * (100 + Cardinality(S))
  <2> DEFINE a == N * sum[S]
             b == Cardinality(all(S))
             c == N * Cardinality(S)
  <2>1. a \in Nat
    BY <1>3, <1>10
  <2>2. b \in Nat /\ b <= N /\ N \in Nat /\ c \in Nat /\ a <= 100 * b + c
    BY <1>3, <1>9, <1>10, <1>12
  <2> HIDE DEF a, b, c
  <2>3. a <= 100 * N + c
    BY <2>1, <2>2
  <2> QED BY <1>11, <2>3 DEF a, c
<1>14. sum[S] <= 100 + Cardinality(S)
  BY <1>3, <1>9, <1>10, <1>13
<1> QED BY <1>5, <1>14

\* A sequence that takes each of its elements from another place of a sequence.
PickedFrom(t, s) ==
  \E place \in [DOMAIN t -> DOMAIN s] :
    /\ \A k, l \in DOMAIN t : place[k] = place[l] => k = l
    /\ \A k \in DOMAIN t : t[k] = s[place[k]]

\* Sorting a history keeps its records, the earliest first.
LEMMA OrderedIsSorted ==
  ASSUME NEW Record, NEW history \in TimedHistories(Record)
  PROVE  /\ Ordered(history) \in TimedHistories(Record)
         /\ Len(Ordered(history)) = Len(history)
         /\ ToSet(Ordered(history)) = ToSet(history)
         /\ PickedFrom(Ordered(history), history)
         /\ \A i, j \in DOMAIN Ordered(history) :
              i < j => Ordered(history)[i].time <= Ordered(history)[j].time
<1> DEFINE n     == Len(history)
           D     == DOMAIN history
           key   == [i \in D |-> <<history[i].time, i>>]
           order == InOrder(D, key)
           f     == Ordered(history)
<1>1. /\ n \in Nat /\ D = 1 .. n /\ \A i \in D : i \in Int /\ history[i].time \in Int
      /\ \A i \in D : history[i] \in Record
  BY DEF TimedHistories
<1>2. IsFiniteSet(D) /\ Cardinality(D) = n
  <2> HIDE DEF n, D
  <2> QED BY <1>1, FS_Interval, 1 \in Int, n \in Int
<1>3. f = [k \in DOMAIN order |-> history[order[k]]] /\ order = InOrder(D, key)
  BY DEF Ordered
<1> HIDE DEF n, D, f, order
<1>4. /\ key \in [D -> Int \X Int]
      /\ \A i \in D : key[i][1] = history[i].time /\ key[i][1] \in Int
      /\ \A i, j \in D : key[i][2] = key[j][2] => i = j
  BY <1>1
<1> HIDE DEF key
<1>5. /\ DOMAIN order = 1 .. n /\ ToSet(order) = D /\ \A k \in DOMAIN order : order[k] \in D
      /\ \A i, j \in DOMAIN order : order[i] = order[j] => i = j
      /\ \A i, j \in DOMAIN order : i < j <=> Less(key[order[i]], key[order[j]])
  BY <1>2, <1>3, <1>4, SortedByPairs
<1>6. \A k \in 1 .. n : order[k] \in D /\ f[k] = history[order[k]]
  BY <1>3, <1>5
<1>7. f \in [1 .. n -> Record]
  BY <1>1, <1>3, <1>5, <1>6
<1>8. f \in Seq(Record) /\ Len(f) = n /\ DOMAIN f = 1 .. n
  BY <1>1, <1>7
<1>9. \A k \in 1 .. n : f[k].time \in Int
  BY <1>1, <1>6
<1>10. ASSUME NEW i \in 1 .. n, NEW j \in 1 .. n, i < j
       PROVE  f[i].time <= f[j].time
  <2>1. /\ order[i] \in D /\ order[j] \in D /\ Less(key[order[i]], key[order[j]])
        /\ key[order[i]] \in Int \X Int /\ key[order[j]] \in Int \X Int
    BY <1>4, <1>5, <1>6, <1>10
  <2>2. key[order[i]][1] <= key[order[j]][1]
    BY <2>1, LessOfPairs
  <2> QED BY <2>1, <2>2, <1>4, <1>6
<1>11. ToSet(f) = ToSet(history)
  <2>1. ToSet(f) = {history[order[k]] : k \in DOMAIN order}
    BY <1>3 DEF ToSet
  <2>2. D = {order[k] : k \in DOMAIN order}
    BY <1>5 DEF ToSet
  <2>3. ToSet(history) = {history[i] : i \in D}
    BY DEF ToSet, D
  <2> QED BY <2>1, <2>2, <2>3
<1>12. PickedFrom(f, history)
  <2>1. order \in Seq(D)
    BY <1>2, <1>3, <1>4, SortedByPairs
  <2>2. DOMAIN f = DOMAIN order
    BY <1>3
  <2>3. order \in [DOMAIN f -> DOMAIN history]
    BY <1>5, <2>1, <2>2 DEF D
  <2> QED BY <1>3, <1>5, <2>2, <2>3 DEF PickedFrom
<1> QED BY <1>8, <1>9, <1>10, <1>11, <1>12 DEF f, n, TimedHistories

\* What follows an action in different ways shares its confidence, in every
\* history: each occurrence of the trigger has one successor (_detect_sequences,
\* _build_sequence).
THEOREM SuccessorsShareConfidence ==
  ASSUME NEW Record, NEW history \in TimedHistories(Record)
  PROVE  ConfidencesAreShared(Sequences(history))
<1> DEFINE ordered == Ordered(history)
<1>1. ordered \in Seq(Record)
  BY OrderedIsSorted DEF TimedHistories
<1> HIDE DEF ordered
<1>2. IsFiniteSet(Sequences(history))
  <2> DEFINE m == Len(ordered)
             f == [i \in 1 .. m |-> Sequence(ordered, KeyOf(ordered, <<i, i + 1>>))]
             T == {f[i] : i \in 1 .. m}
  <2>1. m \in Nat
    BY <1>1
  <2>2. IsFiniteSet(1 .. m)
    <3> HIDE DEF m
    <3> QED BY <2>1, FS_Interval, 1 \in Int, m \in Int
  <2>3. f \in Surjection(1 .. m, T)
    <3>1. f \in [1 .. m -> T]
      OBVIOUS
    <3> HIDE DEF f, m
    <3> QED BY <3>1 DEF Surjection
  <2>4. IsFiniteSet(T)
    <3> HIDE DEF T, m, f
    <3> QED BY <2>2, <2>3, FS_Surjection
  <2>5. Sequences(history) \in SUBSET T
    <3> SUFFICES ASSUME NEW key \in Keys(ordered) PROVE Sequence(ordered, key) \in T
      BY DEF Sequences, ordered
    <3>1. PICK p \in Transitions(ordered) : key = KeyOf(ordered, p)
      BY DEF Keys
    <3>2. PICK i \in 1 .. m - 1 : p = <<i, i + 1>>
      BY <3>1 DEF Transitions
    <3>3. i \in 1 .. m
      BY <2>1, <3>2
    <3>4. f[i] = Sequence(ordered, key)
      BY <3>1, <3>2, <3>3
    <3> QED BY <3>3, <3>4
  <2> HIDE DEF T
  <2> QED BY <2>4, <2>5, FS_Subset
<1> SUFFICES ASSUME NEW s \in Sequences(history),
                    NEW alike, alike = {t \in Sequences(history) : /\ t.trigger_app = s.trigger_app
                                                                  /\ t.trigger_action = s.trigger_action}
             PROVE  MapThenSumSet(LAMBDA t : t.confidence, alike) <= 100 + Cardinality(alike)
  BY DEF ConfidencesAreShared
<1>3. alike \in SUBSET Sequences(history) /\ s \in alike
  OBVIOUS
<1>4. IsFiniteSet(alike) /\ alike # {}
  BY <1>2, <1>3, FS_Subset
<1>5. \A t \in alike : /\ t.trigger_app = s.trigger_app /\ t.trigger_action = s.trigger_action
                       /\ \E key \in Keys(ordered) : t = Sequence(ordered, key)
  BY DEF Sequences, ordered
<1> QED BY <1>1, <1>4, <1>5, SharedByTrigger, ZenonT(40)

-----------------------------------------------------------------------------
(***************************************************************************)
(* The cadence of routines, for windows of any length.                     *)
(***************************************************************************)

\* A day has 1440 minutes.
LEMMA TimesOfDays ==
  ASSUME NEW time \in Int
  PROVE  /\ DayOf(time) \in Int
         /\ Day * DayOf(time) <= time /\ time <= Day * DayOf(time) + Day - 1
BY DEF DayOf, Day

\* What a cadence is made from: the number of the uses and the latest and the
\* earliest of their times.
LEMMA SpanOfUses ==
  ASSUME NEW Record, NEW history \in TimedHistories(Record), NEW app, NEW action,
         Uses(history, app, action) # {}
  PROVE  LET uses  == Uses(history, app, action)
             times == {history[i].time : i \in uses}
         IN  /\ IsFiniteSet(uses) /\ Cardinality(uses) \in Nat
             /\ \E i, j \in uses :
                  /\ Max(times) = history[i].time /\ history[i].time \in Int
                  /\ Min(times) = history[j].time /\ history[j].time \in Int
                  /\ \A k \in uses : /\ history[k].time \in Int
                                     /\ history[j].time <= history[k].time
                                     /\ history[k].time <= history[i].time
<1> DEFINE uses  == Uses(history, app, action)
           times == {history[i].time : i \in uses}
           n     == Len(history)
           f     == [i \in uses |-> history[i].time]
<1>1. n \in Nat /\ DOMAIN history = 1 .. n /\ \A i \in DOMAIN history : history[i].time \in Int
  BY DEF TimedHistories
<1>2. uses \in SUBSET (1 .. n) /\ \A i \in uses : history[i].time \in Int
  BY <1>1 DEF Uses
<1>3. IsFiniteSet(1 .. n)
  <2> HIDE DEF n
  <2> QED BY <1>1, FS_Interval, 1 \in Int, n \in Int
<1>4. uses # {}
  OBVIOUS
<1> HIDE DEF uses, n
<1>5. IsFiniteSet(uses) /\ Cardinality(uses) \in Nat
  BY <1>2, <1>3, FS_Subset, FS_CardinalityType
<1>6. times \in SUBSET Int /\ times # {}
  BY <1>2, <1>4
<1>7. IsFiniteSet(times)
  <2>1. f \in [uses -> times] /\ \A t \in times : \E i \in uses : f[i] = t
    OBVIOUS
  <2> HIDE DEF f, times
  <2>2. f \in Surjection(uses, times)
    BY <2>1 DEF Surjection
  <2> QED BY <1>5, <2>2, FS_Surjection
<1>8. /\ Max(times) \in times /\ \A t \in times : Max(times) >= t
      /\ Min(times) \in times /\ \A t \in times : Min(times) <= t
  <2> HIDE DEF times
  <2> QED BY <1>6, <1>7, MaxOfFinite, MinOfFinite
<1>9. PICK i \in uses : Max(times) = history[i].time
  <2>1. Max(times) \in times
    BY <1>8
  <2> QED BY <2>1
<1>10. PICK j \in uses : Min(times) = history[j].time
  <2>1. Min(times) \in times
    BY <1>8
  <2> QED BY <2>1
<1>11. \A k \in uses : history[j].time <= history[k].time /\ history[k].time <= history[i].time
  <2> SUFFICES ASSUME NEW k \in uses
               PROVE  history[j].time <= history[k].time /\ history[k].time <= history[i].time
    OBVIOUS
  <2>1. history[k].time \in times
    OBVIOUS
  <2>2. Max(times) >= history[k].time /\ Min(times) <= history[k].time
    BY <1>8, <2>1
  <2> QED BY <1>2, <1>9, <1>10, <2>2
<1> QED BY <1>2, <1>5, <1>9, <1>10, <1>11 DEF uses

\* Of any number of days in a row at most two of each week that they touch are
\* at a weekend.
LEMMA WorkdaysAreMany ==
  ASSUME NEW first \in Int, NEW n \in Nat \ {0}
  PROVE  LET work == {day \in first .. first + n - 1 : day % 7 < 5}
         IN  /\ IsFiniteSet(work) /\ Cardinality(work) \in Nat
             /\ n - 2 * (n \div 7 + 1) <= Cardinality(work)
<1> DEFINE q    == n \div 7
           all  == first .. first + n - 1
           work == {day \in all : day % 7 < 5}
           rest == {day \in all : ~ (day % 7 < 5)}
           top  == 2 * (q + 1) - 1
           f    == [day \in rest |-> 2 * ((day - first) \div 7) + ((day % 7) - 5)]
<1>1. q \in Nat /\ 7 * q <= n /\ n <= 7 * q + 6
  OBVIOUS
<1>2. \A day \in rest : f[day] \in 0 .. top
  <2> SUFFICES ASSUME NEW day \in rest PROVE f[day] \in 0 .. top
    OBVIOUS
  <2>1. day \in Int /\ 0 <= day - first /\ day - first <= n - 1
    OBVIOUS
  <2>2. day % 7 \in {5, 6}
    BY <2>1
  <2>3. (day - first) \div 7 \in 0 .. q
    <3> HIDE DEF q
    <3> QED BY <1>1, <2>1
  <2>4. f[day] = 2 * ((day - first) \div 7) + ((day % 7) - 5)
    OBVIOUS
  <2> HIDE DEF f, q
  <2> QED BY <1>1, <2>2, <2>3, <2>4
<1>3. \A a, b \in rest : f[a] = f[b] => a = b
  <2> SUFFICES ASSUME NEW a \in rest, NEW b \in rest, f[a] = f[b] PROVE a = b
    OBVIOUS
  <2>1. /\ a \in Int /\ 0 <= a - first /\ b \in Int /\ 0 <= b - first
    OBVIOUS
  <2>2. a % 7 \in {5, 6} /\ b % 7 \in {5, 6}
    BY <2>1
  <2>3. 2 * ((a - first) \div 7) + ((a % 7) - 5) = 2 * ((b - first) \div 7) + ((b % 7) - 5)
    OBVIOUS
  <2> HIDE DEF f
  <2>4. (a - first) \div 7 = (b - first) \div 7 /\ a % 7 = b % 7
    BY <2>1, <2>2, <2>3
  <2> QED BY <2>1, <2>4
<1>4. IsFiniteSet(all) /\ Cardinality(all) = n
  <2>1. first + n - 1 \in Int /\ ~ (first > first + n - 1) /\ (first + n - 1) - first + 1 = n
    OBVIOUS
  <2> QED BY <2>1, FS_Interval
<1>5. IsFiniteSet(0 .. top) /\ Cardinality(0 .. top) = 2 * (q + 1)
  <2>1. top \in Int /\ 0 \in Int /\ ~ (0 > top) /\ top - 0 + 1 = 2 * (q + 1)
    BY <1>1
  <2> HIDE DEF top
  <2> QED BY <2>1, FS_Interval
<1>6. work \in SUBSET all /\ rest \in SUBSET all /\ work \union rest = all /\ work \intersect rest = {}
  OBVIOUS
<1>7. f \in [rest -> 0 .. top]
  <2> HIDE DEF rest, top
  <2> QED BY <1>2
<1> HIDE DEF all, work, rest, top, f, q
<1>8. /\ IsFiniteSet(work) /\ IsFiniteSet(rest)
      /\ Cardinality(work) \in Nat /\ Cardinality(rest) \in Nat
  BY <1>4, <1>6, FS_Subset, FS_CardinalityType
<1>9. f \in Injection(rest, 0 .. top)
  BY <1>3, <1>7 DEF Injection, IsInjective
<1>10. Cardinality(rest) <= 2 * (q + 1)
  BY <1>5, <1>9, FS_Injection
<1>11. n = Cardinality(work) + Cardinality(rest) - Cardinality({})
  BY <1>4, <1>6, <1>8, FS_Union
<1>12. n - 2 * (q + 1) <= Cardinality(work)
  BY <1>1, <1>8, <1>10, <1>11, FS_EmptySet
<1> QED BY <1>8, <1>12 DEF work, all, q

\* What is done on every workday is called daily, in every window of at least
\* nine weeks, whatever its hours and on whatever day the window begins and
\* ends (classify_frequency, _dates_for_cadence).
THEOREM WorkdaysAreDaily ==
  ASSUME NEW Record, NEW history \in TimedHistories(Record), NEW app, NEW action,
         NEW first \in Int, NEW last \in Int, last - first + 1 >= 63,
         DoneOnWorkdays(history, Uses(history, app, action), first, last)
  PROVE  ActionPattern(history, app, action).frequency = "daily"
<1> DEFINE uses  == Uses(history, app, action)
           times == {history[i].time : i \in uses}
           count == Cardinality(uses)
           n     == last - first + 1
           work  == {day \in first .. first + n - 1 : day % 7 < 5}
<1>1. n \in Nat \ {0} /\ n >= 63 /\ first + n - 1 = last
  OBVIOUS
<1>2. /\ IsFiniteSet(work) /\ Cardinality(work) \in Nat
      /\ n - 2 * (n \div 7 + 1) <= Cardinality(work)
  <2> HIDE DEF n
  <2> QED BY <1>1, WorkdaysAreMany
<1>3. \A day \in work : \E i \in uses : DayOf(history[i].time) = day
  BY <1>1 DEF DoneOnWorkdays
<1>4. work # {}
  <2>1. 0 < n - 2 * (n \div 7 + 1)
    BY <1>1
  <2> HIDE DEF work, n
  <2>2. Cardinality(work) # 0
    BY <1>1, <1>2, <2>1
  <2> QED BY <1>2, <2>2, FS_EmptySet
<1>5. uses # {}
  <2> HIDE DEF work, uses
  <2> QED BY <1>3, <1>4
<1>6. /\ IsFiniteSet(uses) /\ count \in Nat
      /\ \E i, j \in uses :
           /\ Max(times) = history[i].time /\ history[i].time \in Int
           /\ Min(times) = history[j].time /\ history[j].time \in Int
           /\ \A k \in uses : /\ history[k].time \in Int
                              /\ history[j].time <= history[k].time
                              /\ history[k].time <= history[i].time
  BY <1>5, SpanOfUses
<1>7. PICK i, j \in uses :
        /\ Max(times) = history[i].time /\ history[i].time \in Int
        /\ Min(times) = history[j].time /\ history[j].time \in Int
        /\ \A k \in uses : /\ history[k].time \in Int
                           /\ history[j].time <= history[k].time
                           /\ history[k].time <= history[i].time
  BY <1>6
<1>8. Cardinality(work) <= count
  <2> DEFINE g == [day \in work |-> CHOOSE k \in uses : DayOf(history[k].time) = day]
  <2>1. \A day \in work : g[day] \in uses /\ DayOf(history[g[day]].time) = day
    <3> HIDE DEF work, uses
    <3> QED BY <1>3
  <2>2. g = [day \in work |-> g[day]]
    OBVIOUS
  <2> HIDE DEF g, work, uses
  <2>3. g \in Injection(work, uses)
    BY <2>1, <2>2 DEF Injection, IsInjective
  <2> QED BY <1>6, <2>3, FS_Injection
<1> DEFINE span == Max(times) - Min(times)
<1>9. span \in Int /\ span <= 1440 * n - 1
  <2>1. DayOf(history[i].time) <= last /\ first <= DayOf(history[j].time)
    BY <1>7 DEF DoneOnWorkdays
  <2>2. /\ DayOf(history[i].time) \in Int /\ history[i].time <= 1440 * DayOf(history[i].time) + 1439
        /\ DayOf(history[j].time) \in Int /\ 1440 * DayOf(history[j].time) <= history[j].time
    <3>1. Day = 1440
      BY DEF Day
    <3>2. history[i].time \in Int /\ history[j].time \in Int
      BY <1>7
    <3>3. /\ DayOf(history[i].time) \in Int /\ history[i].time <= Day * DayOf(history[i].time) + Day - 1
          /\ DayOf(history[j].time) \in Int /\ Day * DayOf(history[j].time) <= history[j].time
      BY <3>2, TimesOfDays
    <3> HIDE DEF uses, times
    <3> QED BY <3>1, <3>2, <3>3
  <2>3. history[i].time - history[j].time <= 1440 * (last + 1) - 1 - 1440 * first
    BY <1>7, <2>1, <2>2
  <2>4. 1440 * (last + 1) - 1 - 1440 * first = 1440 * n - 1
    OBVIOUS
  <2> HIDE DEF n, times
  <2> QED BY <1>7, <2>3, <2>4
<1>10. count >= 2 /\ 2 * n <= 3 * (count - 1)
  <2>1. n - 2 * (n \div 7 + 1) <= count
    <3> HIDE DEF n, count, work
    <3> QED BY <1>1, <1>2, <1>6, <1>8
  <2> HIDE DEF n, count
  <2>2. 7 * (n \div 7) <= n /\ n \div 7 \in Nat
    BY <1>1
  <2> QED BY <1>1, <1>6, <2>1, <2>2
<1>11. span # 0
  <2>1. PICK a \in work, b \in work : a # b
    <3>1. Cardinality(work) # 1
      <4>1. 1 < n - 2 * (n \div 7 + 1)
        BY <1>1
      <4> HIDE DEF work, n
      <4> QED BY <1>1, <1>2, <4>1
    <3>2. \A day : work # {day}
      <4> HIDE DEF work
      <4> QED BY <1>2, <3>1, FS_Singleton
    <3> HIDE DEF work
    <3> QED BY <1>4, <3>2
  <2>2. PICK k \in uses, m \in uses : DayOf(history[k].time) = a /\ DayOf(history[m].time) = b
    <3> HIDE DEF work, uses
    <3> QED BY <1>3, <2>1
  <2>3. history[k].time # history[m].time
    BY <2>1, <2>2
  <2>4. history[i].time # history[j].time
    BY <1>7, <2>3
  <2> HIDE DEF times, uses, work
  <2> QED BY <1>7, <2>4
<1>12. ClassifyFrequency(count, times) = "daily"
  <2>1. Cadence(span, count - 1) = "daily"
    <3> HIDE DEF span, count, n
    <3>1. 2 * span <= 3 * 1440 * (count - 1)
      BY <1>1, <1>6, <1>9, <1>10
    <3>2. 3 * Day * (count - 1) = 3 * 1440 * (count - 1)
      BY DEF Day
    <3> QED BY <3>1, <3>2 DEF Cadence
  <2>2. ~ (count < 2)
    <3> HIDE DEF count
    <3> QED BY <1>6, <1>10
  <2> HIDE DEF count, times
  <2> QED BY <1>11, <2>1, <2>2 DEF ClassifyFrequency
<1> QED BY <1>12 DEF ActionPattern

\* What is done once or twice a week, on one day of the week and at any hour, is
\* called weekly in every window of at least two weeks (classify_frequency,
\* _dates_for_cadence).
THEOREM OneDayAWeekIsWeekly ==
  ASSUME NEW Record, NEW history \in TimedHistories(Record), NEW app, NEW action,
         NEW weekday \in Int, NEW first \in Int, NEW last \in Int, first < last,
         DoneWeekly(history, Uses(history, app, action), weekday, first, last)
  PROVE  ActionPattern(history, app, action).frequency = "weekly"
<1> DEFINE uses  == Uses(history, app, action)
           times == {history[i].time : i \in uses}
           count == Cardinality(uses)
           n     == last - first + 1
           weeks == first .. last
           g     == [week \in weeks |-> CHOOSE k \in uses : DayOf(history[k].time) = 7 * week + weekday]
<1>1. \A week \in weeks : g[week] \in uses /\ DayOf(history[g[week]].time) = 7 * week + weekday
  BY DEF DoneWeekly
<1>2. first \in weeks /\ last \in weeks
  OBVIOUS
<1>3. uses # {}
  <2> HIDE DEF g, uses, weeks
  <2> QED BY <1>1, <1>2
<1>4. /\ IsFiniteSet(uses) /\ count \in Nat
      /\ \E i, j \in uses :
           /\ Max(times) = history[i].time /\ history[i].time \in Int
           /\ Min(times) = history[j].time /\ history[j].time \in Int
           /\ \A k \in uses : /\ history[k].time \in Int
                              /\ history[j].time <= history[k].time
                              /\ history[k].time <= history[i].time
  BY <1>3, SpanOfUses
<1>5. PICK i, j \in uses :
        /\ Max(times) = history[i].time /\ history[i].time \in Int
        /\ Min(times) = history[j].time /\ history[j].time \in Int
        /\ \A k \in uses : /\ history[k].time \in Int
                           /\ history[j].time <= history[k].time
                           /\ history[k].time <= history[i].time
  BY <1>4
<1>6. IsFiniteSet(weeks) /\ Cardinality(weeks) = n
  <2>1. ~ (first > last)
    OBVIOUS
  <2> QED BY <2>1, FS_Interval
<1>7. count \in n .. 2 * n
  <2>1. g = [week \in weeks |-> g[week]]
    OBVIOUS
  <2>2. \A a, b \in weeks : g[a] = g[b] => a = b
    <3> SUFFICES ASSUME NEW a \in weeks, NEW b \in weeks, g[a] = g[b] PROVE a = b
      OBVIOUS
    <3>1. 7 * a + weekday = 7 * b + weekday
      <4> HIDE DEF g
      <4> QED BY <1>1
    <3> QED BY <3>1
  <2>3. n <= count
    <3> HIDE DEF g, weeks, uses, n
    <3>1. g \in Injection(weeks, uses)
      BY <1>1, <2>1, <2>2 DEF Injection, IsInjective
    <3> QED BY <1>4, <1>6, <3>1, FS_Injection
  \* Of each week, the use that g picks goes first and the other one second.
  <2> DEFINE week(k) == CHOOSE w \in weeks : DayOf(history[k].time) = 7 * w + weekday
             at(k)   == 2 * (week(k) - first) + (IF g[week(k)] = k THEN 0 ELSE 1)
             places  == 0 .. 2 * n - 1
             f       == [k \in uses |-> at(k)]
  <2>4. \A k \in uses : week(k) \in weeks /\ DayOf(history[k].time) = 7 * week(k) + weekday
    <3> HIDE DEF g
    <3> QED BY DEF DoneWeekly
  <2>5. \A k \in uses : at(k) \in places
    <3> HIDE DEF week, g
    <3> QED BY <2>4
  <2>6. \A k, m \in uses : at(k) = at(m) => k = m
    <3> SUFFICES ASSUME NEW k \in uses, NEW m \in uses, at(k) = at(m) PROVE k = m
      OBVIOUS
    <3>1. week(k) \in weeks /\ week(m) \in weeks
      BY <2>4
    <3> HIDE DEF week, g
    <3>2. week(k) = week(m) /\ (g[week(k)] = k <=> g[week(m)] = m)
      BY <3>1
    <3>3. g[week(k)] \in uses /\ DayOf(history[g[week(k)]].time) = DayOf(history[k].time)
      BY <1>1, <2>4
    <3>4. DayOf(history[m].time) = DayOf(history[k].time)
      BY <2>4, <3>2
    <3>5. g[week(k)] = k \/ k = m \/ g[week(k)] = m
      <4> HIDE DEF uses
      <4> QED BY <3>3, <3>4 DEF DoneWeekly, uses
    <3> QED BY <3>2, <3>5
  <2>7. f \in [uses -> places] /\ \A k \in uses : f[k] = at(k)
    <3> HIDE DEF at, places
    <3> QED BY <2>5
  <2>8. f \in Injection(uses, places)
    <3> HIDE DEF f, at, places, uses
    <3> QED BY <2>6, <2>7 DEF Injection, IsInjective
  <2>9. IsFiniteSet(places) /\ Cardinality(places) = 2 * n
    <3>1. 2 * n - 1 \in Int /\ 0 \in Int /\ ~ (0 > 2 * n - 1) /\ (2 * n - 1) - 0 + 1 = 2 * n
      OBVIOUS
    <3> HIDE DEF n
    <3> QED BY <3>1, FS_Interval
  <2>10. count <= 2 * n
    <3> HIDE DEF f, places, uses, n
    <3> QED BY <2>8, <2>9, FS_Injection
  <2> HIDE DEF count
  <2> QED BY <1>4, <2>3, <2>10
<1> DEFINE span == Max(times) - Min(times)
<1>8. /\ span \in Int
      /\ 1440 * 7 * (n - 1) - 1439 <= span
      /\ span <= 1440 * 7 * (n - 1) + 1439
  <2>1. \A k \in uses : /\ 7 * first + weekday <= DayOf(history[k].time)
                        /\ DayOf(history[k].time) <= 7 * last + weekday
                        /\ DayOf(history[k].time) \in Int
    <3> SUFFICES ASSUME NEW k \in uses
                 PROVE  /\ 7 * first + weekday <= DayOf(history[k].time)
                        /\ DayOf(history[k].time) <= 7 * last + weekday
                        /\ DayOf(history[k].time) \in Int
      OBVIOUS
    <3>1. PICK week \in weeks : DayOf(history[k].time) = 7 * week + weekday
      BY DEF DoneWeekly
    <3> QED BY <3>1
  <2>2. PICK a \in uses, b \in uses : /\ DayOf(history[a].time) = 7 * last + weekday
                                      /\ DayOf(history[b].time) = 7 * first + weekday
    <3> HIDE DEF g, weeks
    <3> QED BY <1>1, <1>2
  <2>3. \A k \in uses : /\ history[k].time \in Int
                        /\ 1440 * DayOf(history[k].time) <= history[k].time
                        /\ history[k].time <= 1440 * DayOf(history[k].time) + 1439
    <3> SUFFICES ASSUME NEW k \in uses
                 PROVE  /\ history[k].time \in Int
                        /\ 1440 * DayOf(history[k].time) <= history[k].time
                        /\ history[k].time <= 1440 * DayOf(history[k].time) + 1439
      OBVIOUS
    <3>1. history[k].time \in Int
      BY <1>5
    <3>2. Day = 1440
      BY DEF Day
    <3>3. /\ DayOf(history[k].time) \in Int
          /\ Day * DayOf(history[k].time) <= history[k].time
          /\ history[k].time <= Day * DayOf(history[k].time) + Day - 1
      BY <3>1, TimesOfDays
    <3> HIDE DEF uses
    <3> QED BY <3>1, <3>2, <3>3
  <2> DEFINE latest   == history[i].time
             earliest == history[j].time
  <2>4. latest \in Int /\ earliest \in Int
    BY <1>5
  <2>5. latest <= 1440 * (7 * last + weekday) + 1439 /\ 1440 * (7 * first + weekday) <= earliest
    BY <2>1, <2>3
  <2>6. 1440 * (7 * last + weekday) <= latest
    <3>1. history[a].time <= latest /\ history[a].time \in Int
      BY <1>5
    <3>2. 1440 * (7 * last + weekday) <= history[a].time
      BY <2>2, <2>3
    <3> HIDE DEF latest
    <3> QED BY <2>4, <3>1, <3>2
  <2>7. earliest <= 1440 * (7 * first + weekday) + 1439
    <3>1. earliest <= history[b].time /\ history[b].time \in Int
      BY <1>5
    <3>2. history[b].time <= 1440 * (7 * first + weekday) + 1439
      BY <2>2, <2>3
    <3> HIDE DEF earliest
    <3> QED BY <2>4, <3>1, <3>2
  <2>8. span = latest - earliest
    BY <1>5
  <2> HIDE DEF latest, earliest, span
  <2> QED BY <2>4, <2>5, <2>6, <2>7, <2>8
<1>9. n \in Nat /\ n >= 2
  OBVIOUS
<1>10. ClassifyFrequency(count, times) = "weekly"
  <2>1. Cadence(span, count - 1) = "weekly"
    <3> HIDE DEF span, count, n
    <3>1. /\ ~ (2 * span <= 3 * 1440 * (count - 1))
          /\ span <= 10 * 1440 * (count - 1)
      BY <1>7, <1>8, <1>9
    <3>2. /\ 3 * Day * (count - 1) = 3 * 1440 * (count - 1)
          /\ 10 * Day * (count - 1) = 10 * 1440 * (count - 1)
      BY DEF Day
    <3> QED BY <3>1, <3>2 DEF Cadence
  <2>2. ~ (count < 2) /\ span # 0
    <3> HIDE DEF count, n, span
    <3> QED BY <1>7, <1>8, <1>9
  <2> HIDE DEF count, times
  <2> QED BY <2>1, <2>2 DEF ClassifyFrequency
<1> QED BY <1>10 DEF ActionPattern

-----------------------------------------------------------------------------
(***************************************************************************)
(* The definitions of the sample companies.                                *)
(***************************************************************************)

Cadences == {"daily", "weekday", "weekly", "monthly_end"}

\* What the routines of every company have in common: the hours are such that
\* no jitter and no steps lead to another day.
IsRoutine(r) ==
  /\ r.cadence \in Cadences
  /\ r.hour \in 8 .. 16 /\ r.minute \in 0 .. 30 /\ r.jitter \in 0 .. 60
  /\ DOMAIN r.activities = 1 .. Len(r.activities) /\ Len(r.activities) \in 1 .. 3
  /\ r.steps[1] \in 0 .. 12 /\ r.steps[2] \in 0 .. 12
  /\ r.occurrences[1] \in 1 .. 12 /\ r.occurrences[2] \in 1 .. 12

\* And the links, from one application to another, whose gap may be as long as
\* a quarter of an hour.
IsLink(l) ==
  /\ l.cadence = "weekly" /\ l.first[1] # l.then[1]
  /\ l.hour \in 10 .. 19 /\ l.minute \in 0 .. 15 /\ l.jitter \in 0 .. 30
  /\ l.gap[1] \in 3 .. 15 /\ l.gap[2] \in 3 .. 15 /\ l.gap[1] <= l.gap[2]

AreRoutines(s) == s \in Seq(ToSet(s)) /\ \A r \in ToSet(s) : IsRoutine(r)
AreLinks(s) == s \in Seq(ToSet(s)) /\ \A l \in ToSet(s) : IsLink(l)

\* The routines of SuccessFactors.
LEMMA SapPeopleRoutinesAre ==
  AreRoutines(SapPeopleRoutines)
<1>1. /\ IsRoutine(SapPeopleRoutines[1])
      /\ IsRoutine(SapPeopleRoutines[2])
      /\ IsRoutine(SapPeopleRoutines[3])
      /\ IsRoutine(SapPeopleRoutines[4])
  <2>1. IsRoutine(SapPeopleRoutines[1]) /\ IsRoutine(SapPeopleRoutines[2])
    BY DEF SapPeopleRoutines, Routine, Once, IsRoutine, Cadences
  <2>2. IsRoutine(SapPeopleRoutines[3]) /\ IsRoutine(SapPeopleRoutines[4])
    BY DEF SapPeopleRoutines, Routine, Once, IsRoutine, Cadences
  <2> QED BY <2>1, <2>2
<1>2. /\ IsRoutine(SapPeopleRoutines[5])
      /\ IsRoutine(SapPeopleRoutines[6])
      /\ IsRoutine(SapPeopleRoutines[7])
      /\ IsRoutine(SapPeopleRoutines[8])
  <2>1. IsRoutine(SapPeopleRoutines[5]) /\ IsRoutine(SapPeopleRoutines[6])
    BY DEF SapPeopleRoutines, Routine, Once, IsRoutine, Cadences
  <2>2. IsRoutine(SapPeopleRoutines[7]) /\ IsRoutine(SapPeopleRoutines[8])
    BY DEF SapPeopleRoutines, Routine, Once, IsRoutine, Cadences
  <2> QED BY <2>1, <2>2
<1>3. /\ IsRoutine(SapPeopleRoutines[9])
      /\ IsRoutine(SapPeopleRoutines[10])
      /\ IsRoutine(SapPeopleRoutines[11])
  <2>1. IsRoutine(SapPeopleRoutines[9]) /\ IsRoutine(SapPeopleRoutines[10])
    BY DEF SapPeopleRoutines, Routine, Once, IsRoutine, Cadences
  <2>2. IsRoutine(SapPeopleRoutines[11])
    BY DEF SapPeopleRoutines, Routine, Once, IsRoutine, Cadences
  <2> QED BY <2>1, <2>2
<1>4. SapPeopleRoutines \in Seq(ToSet(SapPeopleRoutines)) /\ DOMAIN SapPeopleRoutines = 1 .. 11
  BY DEF SapPeopleRoutines, ToSet
<1>5. \A i \in 1 .. 11 : IsRoutine(SapPeopleRoutines[i])
  BY <1>1, <1>2, <1>3
<1> QED BY <1>4, <1>5 DEF AreRoutines, ToSet

\* The routines of S/4HANA, Ariba and Concur.
LEMMA SapBusinessRoutinesAre ==
  AreRoutines(SapBusinessRoutines)
<1>1. /\ IsRoutine(SapBusinessRoutines[1])
      /\ IsRoutine(SapBusinessRoutines[2])
      /\ IsRoutine(SapBusinessRoutines[3])
      /\ IsRoutine(SapBusinessRoutines[4])
  <2>1. IsRoutine(SapBusinessRoutines[1]) /\ IsRoutine(SapBusinessRoutines[2])
    BY DEF SapBusinessRoutines, Routine, Once, IsRoutine, Cadences
  <2>2. IsRoutine(SapBusinessRoutines[3]) /\ IsRoutine(SapBusinessRoutines[4])
    BY DEF SapBusinessRoutines, Routine, Once, IsRoutine, Cadences
  <2> QED BY <2>1, <2>2
<1>2. /\ IsRoutine(SapBusinessRoutines[5])
      /\ IsRoutine(SapBusinessRoutines[6])
      /\ IsRoutine(SapBusinessRoutines[7])
      /\ IsRoutine(SapBusinessRoutines[8])
  <2>1. IsRoutine(SapBusinessRoutines[5]) /\ IsRoutine(SapBusinessRoutines[6])
    BY DEF SapBusinessRoutines, Routine, Once, IsRoutine, Cadences
  <2>2. IsRoutine(SapBusinessRoutines[7]) /\ IsRoutine(SapBusinessRoutines[8])
    BY DEF SapBusinessRoutines, Routine, Once, IsRoutine, Cadences
  <2> QED BY <2>1, <2>2
<1>3. /\ IsRoutine(SapBusinessRoutines[9])
      /\ IsRoutine(SapBusinessRoutines[10])
      /\ IsRoutine(SapBusinessRoutines[11])
      /\ IsRoutine(SapBusinessRoutines[12])
  <2>1. IsRoutine(SapBusinessRoutines[9]) /\ IsRoutine(SapBusinessRoutines[10])
    BY DEF SapBusinessRoutines, Routine, Once, IsRoutine, Cadences
  <2>2. IsRoutine(SapBusinessRoutines[11]) /\ IsRoutine(SapBusinessRoutines[12])
    BY DEF SapBusinessRoutines, Routine, Once, IsRoutine, Cadences
  <2> QED BY <2>1, <2>2
<1>4. SapBusinessRoutines \in Seq(ToSet(SapBusinessRoutines)) /\ DOMAIN SapBusinessRoutines = 1 .. 12
  BY DEF SapBusinessRoutines, ToSet
<1>5. \A i \in 1 .. 12 : IsRoutine(SapBusinessRoutines[i])
  BY <1>1, <1>2, <1>3
<1> QED BY <1>4, <1>5 DEF AreRoutines, ToSet

\* The links of SAP.
LEMMA SapLinksAre ==
  AreLinks(SapLinks)
<1>1. /\ IsLink(SapLinks[1])
      /\ IsLink(SapLinks[2])
      /\ IsLink(SapLinks[3])
      /\ IsLink(SapLinks[4])
  BY DEF SapLinks, CrossAppLink, IsLink
<1>2. SapLinks \in Seq(ToSet(SapLinks)) /\ DOMAIN SapLinks = 1 .. 4
  BY DEF SapLinks, ToSet
<1>3. \A i \in 1 .. 4 : IsLink(SapLinks[i])
  BY <1>1
<1> QED BY <1>2, <1>3 DEF AreLinks, ToSet

\* The routines of Salesforce.
LEMMA SalesforceRoutinesAre ==
  AreRoutines(SalesforceRoutines)
<1>1. /\ IsRoutine(SalesforceRoutines[1])
      /\ IsRoutine(SalesforceRoutines[2])
      /\ IsRoutine(SalesforceRoutines[3])
      /\ IsRoutine(SalesforceRoutines[4])
  <2>1. IsRoutine(SalesforceRoutines[1]) /\ IsRoutine(SalesforceRoutines[2])
    BY DEF SalesforceRoutines, Routine, Once, IsRoutine, Cadences
  <2>2. IsRoutine(SalesforceRoutines[3]) /\ IsRoutine(SalesforceRoutines[4])
    BY DEF SalesforceRoutines, Routine, Once, IsRoutine, Cadences
  <2> QED BY <2>1, <2>2
<1>2. /\ IsRoutine(SalesforceRoutines[5])
      /\ IsRoutine(SalesforceRoutines[6])
      /\ IsRoutine(SalesforceRoutines[7])
      /\ IsRoutine(SalesforceRoutines[8])
  <2>1. IsRoutine(SalesforceRoutines[5]) /\ IsRoutine(SalesforceRoutines[6])
    BY DEF SalesforceRoutines, Routine, Once, IsRoutine, Cadences
  <2>2. IsRoutine(SalesforceRoutines[7]) /\ IsRoutine(SalesforceRoutines[8])
    BY DEF SalesforceRoutines, Routine, Once, IsRoutine, Cadences
  <2> QED BY <2>1, <2>2
<1>3. /\ IsRoutine(SalesforceRoutines[9])
      /\ IsRoutine(SalesforceRoutines[10])
      /\ IsRoutine(SalesforceRoutines[11])
      /\ IsRoutine(SalesforceRoutines[12])
  <2>1. IsRoutine(SalesforceRoutines[9]) /\ IsRoutine(SalesforceRoutines[10])
    BY DEF SalesforceRoutines, Routine, Once, IsRoutine, Cadences
  <2>2. IsRoutine(SalesforceRoutines[11]) /\ IsRoutine(SalesforceRoutines[12])
    BY DEF SalesforceRoutines, Routine, Once, IsRoutine, Cadences
  <2> QED BY <2>1, <2>2
<1>4. IsRoutine(SalesforceRoutines[13])
  BY DEF SalesforceRoutines, Routine, Once, IsRoutine, Cadences
<1>5. SalesforceRoutines \in Seq(ToSet(SalesforceRoutines)) /\ DOMAIN SalesforceRoutines = 1 .. 13
  BY DEF SalesforceRoutines, ToSet
<1>6. \A i \in 1 .. 13 : IsRoutine(SalesforceRoutines[i])
  BY <1>1, <1>2, <1>3, <1>4
<1> QED BY <1>5, <1>6 DEF AreRoutines, ToSet

\* The links of Salesforce.
LEMMA SalesforceLinksAre ==
  AreLinks(SalesforceLinks)
<1>1. /\ IsLink(SalesforceLinks[1])
      /\ IsLink(SalesforceLinks[2])
      /\ IsLink(SalesforceLinks[3])
      /\ IsLink(SalesforceLinks[4])
  BY DEF SalesforceLinks, CrossAppLink, IsLink
<1>2. SalesforceLinks \in Seq(ToSet(SalesforceLinks)) /\ DOMAIN SalesforceLinks = 1 .. 4
  BY DEF SalesforceLinks, ToSet
<1>3. \A i \in 1 .. 4 : IsLink(SalesforceLinks[i])
  BY <1>1
<1> QED BY <1>2, <1>3 DEF AreLinks, ToSet

\* The routines of Fusion HCM and ERP.
LEMMA OraclePeopleAndFinanceRoutinesAre ==
  AreRoutines(OraclePeopleAndFinanceRoutines)
<1>1. /\ IsRoutine(OraclePeopleAndFinanceRoutines[1])
      /\ IsRoutine(OraclePeopleAndFinanceRoutines[2])
      /\ IsRoutine(OraclePeopleAndFinanceRoutines[3])
      /\ IsRoutine(OraclePeopleAndFinanceRoutines[4])
  <2>1. IsRoutine(OraclePeopleAndFinanceRoutines[1]) /\ IsRoutine(OraclePeopleAndFinanceRoutines[2])
    BY DEF OraclePeopleAndFinanceRoutines, Routine, Once, IsRoutine, Cadences
  <2>2. IsRoutine(OraclePeopleAndFinanceRoutines[3]) /\ IsRoutine(OraclePeopleAndFinanceRoutines[4])
    BY DEF OraclePeopleAndFinanceRoutines, Routine, Once, IsRoutine, Cadences
  <2> QED BY <2>1, <2>2
<1>2. /\ IsRoutine(OraclePeopleAndFinanceRoutines[5])
      /\ IsRoutine(OraclePeopleAndFinanceRoutines[6])
      /\ IsRoutine(OraclePeopleAndFinanceRoutines[7])
      /\ IsRoutine(OraclePeopleAndFinanceRoutines[8])
  <2>1. IsRoutine(OraclePeopleAndFinanceRoutines[5]) /\ IsRoutine(OraclePeopleAndFinanceRoutines[6])
    BY DEF OraclePeopleAndFinanceRoutines, Routine, Once, IsRoutine, Cadences
  <2>2. IsRoutine(OraclePeopleAndFinanceRoutines[7]) /\ IsRoutine(OraclePeopleAndFinanceRoutines[8])
    BY DEF OraclePeopleAndFinanceRoutines, Routine, Once, IsRoutine, Cadences
  <2> QED BY <2>1, <2>2
<1>3. /\ IsRoutine(OraclePeopleAndFinanceRoutines[9])
      /\ IsRoutine(OraclePeopleAndFinanceRoutines[10])
      /\ IsRoutine(OraclePeopleAndFinanceRoutines[11])
  <2>1. IsRoutine(OraclePeopleAndFinanceRoutines[9]) /\ IsRoutine(OraclePeopleAndFinanceRoutines[10])
    BY DEF OraclePeopleAndFinanceRoutines, Routine, Once, IsRoutine, Cadences
  <2>2. IsRoutine(OraclePeopleAndFinanceRoutines[11])
    BY DEF OraclePeopleAndFinanceRoutines, Routine, Once, IsRoutine, Cadences
  <2> QED BY <2>1, <2>2
<1>4. OraclePeopleAndFinanceRoutines \in Seq(ToSet(OraclePeopleAndFinanceRoutines)) /\ DOMAIN OraclePeopleAndFinanceRoutines = 1 .. 11
  BY DEF OraclePeopleAndFinanceRoutines, ToSet
<1>5. \A i \in 1 .. 11 : IsRoutine(OraclePeopleAndFinanceRoutines[i])
  BY <1>1, <1>2, <1>3
<1> QED BY <1>4, <1>5 DEF AreRoutines, ToSet

\* The routines of Fusion SCM, CX and NetSuite.
LEMMA OracleSupplyAndSalesRoutinesAre ==
  AreRoutines(OracleSupplyAndSalesRoutines)
<1>1. /\ IsRoutine(OracleSupplyAndSalesRoutines[1])
      /\ IsRoutine(OracleSupplyAndSalesRoutines[2])
      /\ IsRoutine(OracleSupplyAndSalesRoutines[3])
      /\ IsRoutine(OracleSupplyAndSalesRoutines[4])
  <2>1. IsRoutine(OracleSupplyAndSalesRoutines[1]) /\ IsRoutine(OracleSupplyAndSalesRoutines[2])
    BY DEF OracleSupplyAndSalesRoutines, Routine, Once, IsRoutine, Cadences
  <2>2. IsRoutine(OracleSupplyAndSalesRoutines[3]) /\ IsRoutine(OracleSupplyAndSalesRoutines[4])
    BY DEF OracleSupplyAndSalesRoutines, Routine, Once, IsRoutine, Cadences
  <2> QED BY <2>1, <2>2
<1>2. /\ IsRoutine(OracleSupplyAndSalesRoutines[5])
      /\ IsRoutine(OracleSupplyAndSalesRoutines[6])
      /\ IsRoutine(OracleSupplyAndSalesRoutines[7])
  <2>1. IsRoutine(OracleSupplyAndSalesRoutines[5]) /\ IsRoutine(OracleSupplyAndSalesRoutines[6])
    BY DEF OracleSupplyAndSalesRoutines, Routine, Once, IsRoutine, Cadences
  <2>2. IsRoutine(OracleSupplyAndSalesRoutines[7])
    BY DEF OracleSupplyAndSalesRoutines, Routine, Once, IsRoutine, Cadences
  <2> QED BY <2>1, <2>2
<1>3. OracleSupplyAndSalesRoutines \in Seq(ToSet(OracleSupplyAndSalesRoutines)) /\ DOMAIN OracleSupplyAndSalesRoutines = 1 .. 7
  BY DEF OracleSupplyAndSalesRoutines, ToSet
<1>4. \A i \in 1 .. 7 : IsRoutine(OracleSupplyAndSalesRoutines[i])
  BY <1>1, <1>2
<1> QED BY <1>3, <1>4 DEF AreRoutines, ToSet

\* The links of Oracle.
LEMMA OracleLinksAre ==
  AreLinks(OracleLinks)
<1>1. /\ IsLink(OracleLinks[1])
      /\ IsLink(OracleLinks[2])
      /\ IsLink(OracleLinks[3])
      /\ IsLink(OracleLinks[4])
  BY DEF OracleLinks, CrossAppLink, IsLink
<1>2. OracleLinks \in Seq(ToSet(OracleLinks)) /\ DOMAIN OracleLinks = 1 .. 4
  BY DEF OracleLinks, ToSet
<1>3. \A i \in 1 .. 4 : IsLink(OracleLinks[i])
  BY <1>1
<1> QED BY <1>2, <1>3 DEF AreLinks, ToSet

\* The patterns of acme-corp are functions of their own.
LEMMA AcmePatternsAre ==
  /\ AreRoutines(AcmeCorp.routines)
  /\ AreLinks(AcmeCorp.cross_app)
<1> DEFINE routines == <<AcmeSprintChecks, AcmeLeaveApprovals, AcmeExpenseSubmissions>>
           links    == <<AcmeLeaveToCapacity>>
<1>1. IsRoutine(AcmeSprintChecks)
  BY DEF AcmeSprintChecks, Routine, Once, IsRoutine, Cadences
<1>2. IsRoutine(AcmeLeaveApprovals)
  BY DEF AcmeLeaveApprovals, Routine, IsRoutine, Cadences
<1>3. IsRoutine(AcmeExpenseSubmissions)
  BY DEF AcmeExpenseSubmissions, Routine, Once, IsRoutine, Cadences
<1>4. IsLink(AcmeLeaveToCapacity)
  BY DEF AcmeLeaveToCapacity, CrossAppLink, IsLink
<1>5. /\ routines \in Seq(ToSet(routines)) /\ DOMAIN routines = 1 .. 3
      /\ links \in Seq(ToSet(links)) /\ DOMAIN links = 1 .. 1
  BY DEF ToSet
<1>6. (\A i \in 1 .. 3 : IsRoutine(routines[i])) /\ (\A i \in 1 .. 1 : IsLink(links[i]))
  BY <1>1, <1>2, <1>3, <1>4
<1>7. AcmeCorp.routines = routines /\ AcmeCorp.cross_app = links
  BY DEF AcmeCorp
<1> HIDE DEF routines, links
<1> QED BY <1>5, <1>6, <1>7 DEF AreRoutines, AreLinks, ToSet

\* Two lists of routines are one.
LEMMA RoutinesOfBoth ==
  ASSUME NEW a, NEW b, AreRoutines(a), AreRoutines(b)
  PROVE  AreRoutines(a \o b)
<1> DEFINE T == ToSet(a) \union ToSet(b)
<1>1. a \in Seq(T) /\ b \in Seq(T)
  BY DEF AreRoutines
<1>2. /\ a \o b \in Seq(T)
      /\ \A x : x \in ToSet(a \o b) <=> x \in ToSet(a) \/ x \in ToSet(b)
  <2> HIDE DEF T
  <2> QED BY <1>1, InBothParts
<1>3. ToSet(a \o b) = T
  BY <1>2
<1>4. \A r \in T : IsRoutine(r)
  BY DEF AreRoutines
<1> QED BY <1>2, <1>3, <1>4 DEF AreRoutines

\* All that is expanded for a persona is a routine or a link of its company.
LEMMA CompaniesAre ==
  ASSUME NEW company \in Companies
  PROVE  AreRoutines(company.routines) /\ AreLinks(company.cross_app)
<1>1. CASE company = SapShop
  <2>1. /\ company.routines = SapPeopleRoutines \o SapBusinessRoutines
        /\ company.cross_app = SapLinks
    BY <1>1 DEF SapShop
  <2> QED BY <2>1, SapPeopleRoutinesAre, SapBusinessRoutinesAre, SapLinksAre, RoutinesOfBoth
<1>2. CASE company = SalesforceShop
  <2>1. company.routines = SalesforceRoutines /\ company.cross_app = SalesforceLinks
    BY <1>2 DEF SalesforceShop
  <2> QED BY <2>1, SalesforceRoutinesAre, SalesforceLinksAre
<1>3. CASE company = OracleShop
  <2>1. /\ company.routines = OraclePeopleAndFinanceRoutines \o OracleSupplyAndSalesRoutines
        /\ company.cross_app = OracleLinks
    BY <1>3 DEF OracleShop
  <2> QED BY <2>1, OraclePeopleAndFinanceRoutinesAre, OracleSupplyAndSalesRoutinesAre,
             OracleLinksAre, RoutinesOfBoth
<1>4. CASE company = AcmeCorp
  BY <1>4, AcmePatternsAre
<1> QED BY <1>1, <1>2, <1>3, <1>4 DEF Companies, Shops

\* No activity is in two routines, or twice in one.
ActivitiesApart(s) ==
  \A i, j \in DOMAIN s : \A a \in DOMAIN s[i].activities, b \in DOMAIN s[j].activities :
    s[i].activities[a] = s[j].activities[b] => i = j /\ a = b

\* No activity is in routines of both lists.
NothingShared(s, t) ==
  \A i \in DOMAIN s, j \in DOMAIN t :
    \A a \in DOMAIN s[i].activities, b \in DOMAIN t[j].activities :
      s[i].activities[a] # t[j].activities[b]

\* A persona has one link at most.
LinksApart(s) == \A i, j \in DOMAIN s : s[i].persona = s[j].persona => i = j

\* The activities of SAP.
LEMMA SapActivitiesAre ==
  /\ ActivitiesApart(SapPeopleRoutines)
  /\ ActivitiesApart(SapBusinessRoutines)
  /\ NothingShared(SapPeopleRoutines, SapBusinessRoutines)
<1>1. /\ DOMAIN SapPeopleRoutines = 1 .. 11
      /\ DOMAIN SapBusinessRoutines = 1 .. 12
  BY DEF SapPeopleRoutines, SapBusinessRoutines
<1>2. /\ SapPeopleRoutines[1].activities = <<"view_employee_profile", "update_personal_info">>
      /\ SapPeopleRoutines[2].activities = <<"submit_time_off">>
      /\ SapPeopleRoutines[3].activities = <<"approve_time_off">>
      /\ SapPeopleRoutines[4].activities = <<"screen_candidate", "advance_candidate_stage">>
      /\ SapPeopleRoutines[5].activities = <<"create_job_requisition">>
      /\ SapPeopleRoutines[6].activities = <<"launch_content", "complete_course">>
      /\ SapPeopleRoutines[7].activities = <<"assign_learning">>
      /\ SapPeopleRoutines[8].activities = <<"write_review", "submit_feedback">>
      /\ SapPeopleRoutines[9].activities = <<"set_goal">>
      /\ SapPeopleRoutines[10].activities = <<"model_comp_plan", "submit_merit_increase">>
      /\ SapPeopleRoutines[11].activities = <<"run_headcount_report">>
  BY DEF SapPeopleRoutines, Routine
<1>3. /\ SapBusinessRoutines[1].activities = <<"post_journal_entry">>
      /\ SapBusinessRoutines[2].activities = <<"run_financial_close">>
      /\ SapBusinessRoutines[3].activities = <<"create_purchase_order", "post_goods_receipt">>
      /\ SapBusinessRoutines[4].activities = <<"create_sales_order", "create_delivery">>
      /\ SapBusinessRoutines[5].activities = <<"create_sourcing_event", "award_supplier">>
      /\ SapBusinessRoutines[6].activities = <<"create_requisition", "approve_requisition">>
      /\ SapBusinessRoutines[7].activities = <<"assess_supplier_risk">>
      /\ SapBusinessRoutines[8].activities = <<"create_expense_report", "submit_expense_report">>
      /\ SapBusinessRoutines[9].activities = <<"approve_expense_report">>
      /\ SapBusinessRoutines[10].activities = <<"audit_expense_report">>
      /\ SapBusinessRoutines[11].activities = <<"book_flight">>
      /\ SapBusinessRoutines[12].activities = <<"process_vendor_invoice", "match_invoice_po">>
  BY DEF SapBusinessRoutines, Routine
<1>4. ActivitiesApart(SapPeopleRoutines)
  BY <1>1, <1>2 DEF ActivitiesApart
<1>5. ActivitiesApart(SapBusinessRoutines)
  BY <1>1, <1>3 DEF ActivitiesApart
<1>6. NothingShared(SapPeopleRoutines, SapBusinessRoutines)
  BY <1>1, <1>2, <1>3 DEF NothingShared
<1> QED BY <1>4, <1>5, <1>6

\* The activities of Salesforce.
LEMMA SalesforceActivitiesAre ==
  ActivitiesApart(SalesforceRoutines)
<1>1. DOMAIN SalesforceRoutines = 1 .. 13
  BY DEF SalesforceRoutines
<1>2. /\ SalesforceRoutines[1].activities = <<"create_lead", "qualify_lead">>
      /\ SalesforceRoutines[2].activities = <<"view_opportunity", "update_stage", "log_activity">>
      /\ SalesforceRoutines[3].activities = <<"submit_forecast">>
      /\ SalesforceRoutines[4].activities = <<"update_account", "create_contact">>
      /\ SalesforceRoutines[5].activities = <<"create_case", "add_case_comment", "resolve_case">>
      /\ SalesforceRoutines[6].activities = <<"publish_article">>
      /\ SalesforceRoutines[7].activities = <<"route_work_item">>
      /\ SalesforceRoutines[8].activities = <<"build_journey", "send_journey_email">>
      /\ SalesforceRoutines[9].activities = <<"create_campaign">>
      /\ SalesforceRoutines[10].activities = <<"create_quote", "configure_product", "generate_quote_doc">>
      /\ SalesforceRoutines[11].activities = <<"approve_discount">>
      /\ SalesforceRoutines[12].activities = <<"register_deal">>
      /\ SalesforceRoutines[13].activities = <<"open_community_case">>
  BY DEF SalesforceRoutines, Routine
<1> QED BY <1>1, <1>2 DEF ActivitiesApart

\* The activities of Oracle.
LEMMA OracleActivitiesAre ==
  /\ ActivitiesApart(OraclePeopleAndFinanceRoutines)
  /\ ActivitiesApart(OracleSupplyAndSalesRoutines)
  /\ NothingShared(OraclePeopleAndFinanceRoutines, OracleSupplyAndSalesRoutines)
<1>1. /\ DOMAIN OraclePeopleAndFinanceRoutines = 1 .. 11
      /\ DOMAIN OracleSupplyAndSalesRoutines = 1 .. 7
  BY DEF OraclePeopleAndFinanceRoutines, OracleSupplyAndSalesRoutines
<1>2. /\ OraclePeopleAndFinanceRoutines[1].activities = <<"update_worker_assignment", "process_promotion">>
      /\ OraclePeopleAndFinanceRoutines[2].activities = <<"run_payroll", "verify_payroll">>
      /\ OraclePeopleAndFinanceRoutines[3].activities = <<"complete_check_in", "create_performance_goal">>
      /\ OraclePeopleAndFinanceRoutines[4].activities = <<"record_absence">>
      /\ OraclePeopleAndFinanceRoutines[5].activities = <<"approve_absence">>
      /\ OraclePeopleAndFinanceRoutines[6].activities = <<"move_candidate", "post_requisition">>
      /\ OraclePeopleAndFinanceRoutines[7].activities = <<"create_journal", "post_journal">>
      /\ OraclePeopleAndFinanceRoutines[8].activities = <<"close_period">>
      /\ OraclePeopleAndFinanceRoutines[9].activities = <<"enter_invoice", "validate_invoice">>
      /\ OraclePeopleAndFinanceRoutines[10].activities = <<"create_receipt", "apply_receipt">>
      /\ OraclePeopleAndFinanceRoutines[11].activities = <<"create_expense_report", "submit_expense_report">>
  BY DEF OraclePeopleAndFinanceRoutines, Routine
<1>3. /\ OracleSupplyAndSalesRoutines[1].activities = <<"create_purchase_order", "approve_po">>
      /\ OracleSupplyAndSalesRoutines[2].activities = <<"record_receipt", "cycle_count">>
      /\ OracleSupplyAndSalesRoutines[3].activities = <<"create_sales_order", "book_order", "schedule_shipment">>
      /\ OracleSupplyAndSalesRoutines[4].activities = <<"update_opportunity", "create_lead">>
      /\ OracleSupplyAndSalesRoutines[5].activities = <<"create_service_request", "resolve_service_request">>
      /\ OracleSupplyAndSalesRoutines[6].activities = <<"close_books">>
      /\ OracleSupplyAndSalesRoutines[7].activities = <<"create_invoice", "apply_payment">>
  BY DEF OracleSupplyAndSalesRoutines, Routine
<1>4. ActivitiesApart(OraclePeopleAndFinanceRoutines)
  BY <1>1, <1>2 DEF ActivitiesApart
<1>5. ActivitiesApart(OracleSupplyAndSalesRoutines)
  BY <1>1, <1>3 DEF ActivitiesApart
<1>6. NothingShared(OraclePeopleAndFinanceRoutines, OracleSupplyAndSalesRoutines)
  BY <1>1, <1>2, <1>3 DEF NothingShared
<1> QED BY <1>4, <1>5, <1>6

\* Two lists that share nothing are apart in one.
LEMMA ActivitiesOfBoth ==
  ASSUME NEW S, NEW T, NEW s \in Seq(S), NEW t \in Seq(T),
         ActivitiesApart(s), ActivitiesApart(t), NothingShared(s, t)
  PROVE  ActivitiesApart(s \o t)
<1> DEFINE m == Len(s)
           n == Len(t)
           f == s \o t
<1>1. /\ m \in Nat /\ n \in Nat /\ DOMAIN s = 1 .. m /\ DOMAIN t = 1 .. n
      /\ DOMAIN f = 1 .. m + n
  OBVIOUS
<1>2. /\ \A i \in 1 .. m : f[i] = s[i]
      /\ \A i \in 1 .. m + n : i \notin 1 .. m => i - m \in 1 .. n /\ f[i] = t[i - m]
  OBVIOUS
<1> HIDE DEF m, n, f
<1>3. ASSUME NEW i \in DOMAIN f, NEW j \in DOMAIN f,
             NEW a \in DOMAIN f[i].activities, NEW b \in DOMAIN f[j].activities,
             f[i].activities[a] = f[j].activities[b]
      PROVE  i = j /\ a = b
  <2>1. CASE i \in 1 .. m /\ j \in 1 .. m
    BY <1>1, <1>2, <1>3, <2>1 DEF ActivitiesApart
  <2>2. CASE i \in 1 .. m /\ j \notin 1 .. m
    BY <1>1, <1>2, <1>3, <2>2 DEF NothingShared
  <2>3. CASE i \notin 1 .. m /\ j \in 1 .. m
    BY <1>1, <1>2, <1>3, <2>3 DEF NothingShared
  <2>4. CASE i \notin 1 .. m /\ j \notin 1 .. m
    <3>1. i - m = j - m /\ a = b
      BY <1>1, <1>2, <1>3, <2>4 DEF ActivitiesApart
    <3> QED BY <1>1, <3>1
  <2> QED BY <2>1, <2>2, <2>3, <2>4
<1> QED BY <1>3 DEF ActivitiesApart, f

\* The activities and the link of acme-corp.
LEMMA AcmeActivitiesAre ==
  ActivitiesApart(AcmeCorp.routines) /\ LinksApart(AcmeCorp.cross_app)
<1> DEFINE s == AcmeCorp.routines
           l == AcmeCorp.cross_app
<1>1. DOMAIN s = 1 .. 3 /\ DOMAIN l = 1 .. 1
  BY DEF AcmeCorp
<1>2. /\ s[1] = AcmeSprintChecks /\ s[2] = AcmeLeaveApprovals /\ s[3] = AcmeExpenseSubmissions
  BY DEF AcmeCorp
<1>3. /\ AcmeSprintChecks.activities = <<"view_sprint_board", "update_issue_status">>
      /\ AcmeLeaveApprovals.activities = <<"approve_leave_request">>
      /\ AcmeExpenseSubmissions.activities = <<"submit_expense_report">>
  BY DEF AcmeSprintChecks, AcmeLeaveApprovals, AcmeExpenseSubmissions, Routine
<1> HIDE DEF s, l
<1>4. /\ s[1].activities = <<"view_sprint_board", "update_issue_status">>
      /\ s[2].activities = <<"approve_leave_request">>
      /\ s[3].activities = <<"submit_expense_report">>
  BY <1>2, <1>3
<1> QED BY <1>1, <1>4 DEF ActivitiesApart, LinksApart, s, l

\* The links of the shops.
LEMMA ShopLinksAre ==
  LinksApart(SapLinks) /\ LinksApart(SalesforceLinks) /\ LinksApart(OracleLinks)
<1>1. LinksApart(SapLinks)
  <2>1. DOMAIN SapLinks = 1 .. 4
    BY DEF SapLinks
  <2>2. /\ SapLinks[1].persona = "EXP_SUBMITTER"
        /\ SapLinks[2].persona = "PROCUREMENT_SPEC"
        /\ SapLinks[3].persona = "RECRUITER"
        /\ SapLinks[4].persona = "AP_PROCESSOR"
    BY DEF SapLinks, CrossAppLink
  <2> QED BY <2>1, <2>2 DEF LinksApart
<1>2. LinksApart(SalesforceLinks)
  <2>1. DOMAIN SalesforceLinks = 1 .. 4
    BY DEF SalesforceLinks
  <2>2. /\ SalesforceLinks[1].persona = "AE_ONE"
        /\ SalesforceLinks[2].persona = "AE_TWO"
        /\ SalesforceLinks[3].persona = "SUPPORT_LEAD"
        /\ SalesforceLinks[4].persona = "SALES_MANAGER"
    BY DEF SalesforceLinks, CrossAppLink
  <2> QED BY <2>1, <2>2 DEF LinksApart
<1>3. LinksApart(OracleLinks)
  <2>1. DOMAIN OracleLinks = 1 .. 4
    BY DEF OracleLinks
  <2>2. /\ OracleLinks[1].persona = "AR_ANALYST"
        /\ OracleLinks[2].persona = "GL_ACCOUNTANT"
        /\ OracleLinks[3].persona = "PEOPLE_MANAGER"
        /\ OracleLinks[4].persona = "SALES_REP"
    BY DEF OracleLinks, CrossAppLink
  <2> QED BY <2>1, <2>2 DEF LinksApart
<1> QED BY <1>1, <1>2, <1>3

\* No company has an activity in two of its routines, or two links of a persona.
LEMMA CompaniesAreApart ==
  ASSUME NEW company \in Companies
  PROVE  ActivitiesApart(company.routines) /\ LinksApart(company.cross_app)
<1>1. CASE company = SapShop
  <2>1. /\ company.routines = SapPeopleRoutines \o SapBusinessRoutines
        /\ company.cross_app = SapLinks
    BY <1>1 DEF SapShop
  <2>2. /\ SapPeopleRoutines \in Seq(ToSet(SapPeopleRoutines))
        /\ SapBusinessRoutines \in Seq(ToSet(SapBusinessRoutines))
    BY SapPeopleRoutinesAre, SapBusinessRoutinesAre DEF AreRoutines
  <2> QED BY <2>1, <2>2, SapActivitiesAre, ShopLinksAre, ActivitiesOfBoth
<1>2. CASE company = SalesforceShop
  <2>1. company.routines = SalesforceRoutines /\ company.cross_app = SalesforceLinks
    BY <1>2 DEF SalesforceShop
  <2> QED BY <2>1, SalesforceActivitiesAre, ShopLinksAre
<1>3. CASE company = OracleShop
  <2>1. /\ company.routines = OraclePeopleAndFinanceRoutines \o OracleSupplyAndSalesRoutines
        /\ company.cross_app = OracleLinks
    BY <1>3 DEF OracleShop
  <2>2. /\ OraclePeopleAndFinanceRoutines \in Seq(ToSet(OraclePeopleAndFinanceRoutines))
        /\ OracleSupplyAndSalesRoutines \in Seq(ToSet(OracleSupplyAndSalesRoutines))
    BY OraclePeopleAndFinanceRoutinesAre, OracleSupplyAndSalesRoutinesAre DEF AreRoutines
  <2> QED BY <2>1, <2>2, OracleActivitiesAre, ShopLinksAre, ActivitiesOfBoth
<1>4. CASE company = AcmeCorp
  BY <1>4, AcmeActivitiesAre
<1> QED BY <1>1, <1>2, <1>3, <1>4 DEF Companies, Shops

\* The company of a persona is one of them.
LEMMA CompanyOfUser ==
  ASSUME NEW u \in Users
  PROVE  CompanyOf(u) \in Companies
<1>1. \E company \in Companies : company.key = u[1]
  BY DEF Users
<1> HIDE DEF Companies
<1> QED BY <1>1 DEF CompanyOf

-----------------------------------------------------------------------------
(***************************************************************************)
(* What is expanded, and on which days.                                    *)
(***************************************************************************)

\* The elements of a sequence, and a larger set.
LEMMA SeqOfMore ==
  ASSUME NEW S, NEW T, S \in SUBSET T, NEW f \in Seq(S)
  PROVE  /\ f \in Seq(T) /\ Len(f) \in Nat /\ DOMAIN f = 1 .. Len(f)
         /\ \A k \in DOMAIN f : f[k] \in S
OBVIOUS

\* A sequence is one of its own elements.
LEMMA SeqOfItsOwn ==
  ASSUME NEW S, NEW f \in Seq(S)
  PROVE  f \in Seq(ToSet(f)) /\ ToSet(f) \subseteq S
<1>1. DOMAIN f = 1 .. Len(f) /\ Len(f) \in Nat /\ \A i \in DOMAIN f : f[i] \in S
  OBVIOUS
<1> DEFINE T == ToSet(f)
<1>2. \A i \in DOMAIN f : f[i] \in T
  BY DEF ToSet
<1>3. T \subseteq S
  BY <1>1 DEF ToSet
<1> HIDE DEF T
<1>4. f \in [1 .. Len(f) -> T]
  <2>1. f = [i \in DOMAIN f |-> f[i]]
    OBVIOUS
  <2> QED BY <1>1, <1>2, <2>1
<1>5. f \in Seq(T)
  BY <1>1, <1>4
<1> QED BY <1>3, <1>5 DEF T

\* Sorting numbers keeps them.
LEMMA AscendingSorts ==
  ASSUME NEW S \in SUBSET Int, IsFiniteSet(S)
  PROVE  /\ Ascending(S) \in Seq(S) /\ ToSet(Ascending(S)) = S
         /\ \A i, j \in DOMAIN Ascending(S) : Ascending(S)[i] = Ascending(S)[j] => i = j
<1> DEFINE key == [x \in S |-> <<x>>]
           f   == Ascending(S)
<1>1. \A x \in S : key[x] = <<x>> /\ <<x>> \in [1 .. 1 -> Int]
  BY LessOfOne
<1>2. \A x, y \in S : key[x] = key[y] => x = y
  OBVIOUS
<1>3. key \in [S -> [1 .. 1 -> Int]]
  BY <1>1
<1>4. f = InOrder(S, key)
  BY DEF Ascending
<1> HIDE DEF key, f
<1>5. /\ f \in Seq(S) /\ ToSet(f) = S /\ DOMAIN f = 1 .. Cardinality(S)
      /\ f \in Bijection(1 .. Cardinality(S), S)
  BY <1>2, <1>3, <1>4, 1 \in Nat, InOrderSorts
<1>6. \A i, j \in DOMAIN f : f[i] = f[j] => i = j
  BY <1>5 DEF Bijection, Injection, IsInjective
<1> QED BY <1>5, <1>6 DEF f

\* Some places of a sequence have what the sequence has at them.
LEMMA AtPlacesIs ==
  ASSUME NEW T, NEW s \in Seq(T), NEW P \in SUBSET (DOMAIN s)
  PROVE  /\ AtPlaces(s, P) \in Seq(ToSet(AtPlaces(s, P)))
         /\ PickedFrom(AtPlaces(s, P), s)
         /\ \A x : x \in ToSet(AtPlaces(s, P)) <=> \E i \in P : x = s[i]
<1> DEFINE place == Ascending(P)
           f     == AtPlaces(s, P)
<1>1. P \in SUBSET Int /\ IsFiniteSet(P)
  <2>1. P \in SUBSET (1 .. Len(s)) /\ Len(s) \in Nat
    OBVIOUS
  <2> QED BY <2>1, PlacesAreFinite
<1>2. /\ place \in Seq(P) /\ ToSet(place) = P
      /\ \A i, j \in DOMAIN place : place[i] = place[j] => i = j
  BY <1>1, AscendingSorts
<1>3. f = [k \in DOMAIN place |-> s[place[k]]]
  BY DEF AtPlaces
<1> HIDE DEF place, f
<1>4. DOMAIN f = 1 .. Len(place) /\ Len(place) \in Nat /\ DOMAIN place = 1 .. Len(place)
  BY <1>2, <1>3
<1>5. f \in Seq(ToSet(f))
  <2>1. f \in [1 .. Len(place) -> ToSet(f)]
    BY <1>3, <1>4 DEF ToSet
  <2> QED BY <1>4, <2>1
<1>6. ASSUME NEW x PROVE x \in ToSet(f) <=> \E i \in P : x = s[i]
  <2>1. x \in ToSet(f) <=> \E k \in DOMAIN place : x = s[place[k]]
    BY <1>3 DEF ToSet
  <2>2. \A i : i \in P <=> \E k \in DOMAIN place : i = place[k]
    BY <1>2 DEF ToSet
  <2> QED BY <2>1, <2>2
<1>7. PickedFrom(f, s)
  <2>1. DOMAIN f = DOMAIN place /\ place \in [DOMAIN place -> DOMAIN s]
    BY <1>2, <1>3
  <2> QED BY <1>2, <1>3, <2>1 DEF PickedFrom
<1> QED BY <1>5, <1>6, <1>7 DEF f

\* The dates of a cadence are days of the window.
LEMMA DatesAreDays ==
  ASSUME NEW cadence \in Cadences
  PROVE  DatesForCadence(cadence) \in SUBSET (Start .. End)
BY DEF Cadences, DatesForCadence, EveryDay, Workdays, Mondays, MonthEndWorkdays

\* Each definition has a job on each of its dates, and one only.
LEMMA DatedIs ==
  ASSUME NEW s, s \in Seq(ToSet(s)), \A d \in ToSet(s) : d.cadence \in Cadences
  PROVE  /\ Dated(s) \in Seq(ToSet(Dated(s)))
         /\ \A x : x \in ToSet(Dated(s)) <=>
              \E d \in ToSet(s) : \E day \in DatesForCadence(d.cadence) :
                 x = [of |-> d, day |-> day]
         /\ (\A i, j \in DOMAIN s : s[i] = s[j] => i = j) =>
              \A k, l \in DOMAIN Dated(s) : Dated(s)[k] = Dated(s)[l] => k = l
<1> DEFINE dates(i) == DatesForCadence(s[i].cadence)
           due   == UNION {{i} \X dates(i) : i \in DOMAIN s}
           key   == [job \in due |-> job]
           order == InOrder(due, key)
           f     == Dated(s)
<1>1. f = [k \in DOMAIN order |-> [of |-> s[order[k][1]], day |-> order[k][2]]]
  BY DEF Dated
<1>2. /\ DOMAIN s = 1 .. Len(s) /\ Len(s) \in Nat
      /\ \A i \in DOMAIN s : s[i] \in ToSet(s) /\ dates(i) \in SUBSET (Start .. End)
  BY DatesAreDays DEF ToSet
<1> HIDE DEF dates
<1>3. \A p : p \in due <=> \E i \in DOMAIN s : \E day \in dates(i) : p = <<i, day>>
  OBVIOUS
<1>4. due \in SUBSET ((1 .. Len(s)) \X (Start .. End))
  BY <1>2, <1>3
<1> HIDE DEF due, f
<1>5. IsFiniteSet(due)
  <2>1. IsFiniteSet(1 .. Len(s)) /\ IsFiniteSet(Start .. End)
    BY <1>2, WindowAssumption, FS_Interval
  <2> QED BY <1>4, <2>1, FS_Product, FS_Subset
<1>6. /\ key \in [due -> Int \X Int]
      /\ \A p \in due : key[p] = p
  BY <1>2, <1>4, WindowAssumption
<1>7. key \in [due -> [1 .. 2 -> Int]]
  <2>1. \A p \in due : key[p] \in [1 .. 2 -> Int]
    BY <1>6, LessOfPairs
  <2> QED BY <2>1
<1>8. \A x, y \in due : key[x] = key[y] => x = y
  BY <1>6
<1> HIDE DEF key, order
<1>9. /\ order \in Seq(due) /\ DOMAIN order = 1 .. Cardinality(due) /\ Cardinality(due) \in Nat
      /\ order \in Bijection(1 .. Cardinality(due), due) /\ ToSet(order) = due
  BY <1>5, <1>7, <1>8, 2 \in Nat, InOrderSorts DEF order
<1>10. \A k, l \in DOMAIN order : order[k] = order[l] => k = l
  BY <1>9 DEF Bijection, Injection, IsInjective
<1>11. f \in Seq(ToSet(f))
  <2>1. f \in [1 .. Cardinality(due) -> ToSet(f)]
    BY <1>1, <1>9 DEF ToSet
  <2> QED BY <1>9, <2>1
<1>12. ASSUME NEW x
       PROVE  x \in ToSet(f) <=>
                \E d \in ToSet(s) : \E day \in DatesForCadence(d.cadence) :
                   x = [of |-> d, day |-> day]
  <2>1. x \in ToSet(f) <=> \E p \in ToSet(order) : x = [of |-> s[p[1]], day |-> p[2]]
    BY <1>1 DEF ToSet
  <2> DEFINE job(i, day) == [of |-> s[i], day |-> day]
  <2>2. x \in ToSet(f) <=> \E i \in DOMAIN s : \E day \in dates(i) : x = job(i, day)
    <3>1. x \in ToSet(f) <=> \E p \in due : x = job(p[1], p[2])
      BY <2>1, <1>9
    <3>2. ASSUME NEW p \in due
          PROVE  \E i \in DOMAIN s : \E day \in dates(i) : job(p[1], p[2]) = job(i, day)
      <4>1. PICK i \in DOMAIN s : \E day \in dates(i) : p = <<i, day>>
        BY <1>3
      <4> QED BY <4>1
    <3>3. ASSUME NEW i \in DOMAIN s, NEW day \in dates(i)
          PROVE  \E p \in due : job(p[1], p[2]) = job(i, day)
      <4>1. <<i, day>> \in due
        BY <1>3
      <4> QED BY <4>1
    <3> HIDE DEF job
    <3> QED BY <3>1, <3>2, <3>3
  <2> QED BY <2>2 DEF ToSet, dates
<1>13. ASSUME \A i, j \in DOMAIN s : s[i] = s[j] => i = j,
              NEW k \in DOMAIN f, NEW l \in DOMAIN f, f[k] = f[l]
       PROVE  k = l
  <2>1. /\ k \in DOMAIN order /\ l \in DOMAIN order
        /\ order[k] \in due /\ order[l] \in due
    BY <1>1, <1>9
  <2>2. s[order[k][1]] = s[order[l][1]] /\ order[k][2] = order[l][2]
    <3>1. /\ f[k] = [of |-> s[order[k][1]], day |-> order[k][2]]
          /\ f[l] = [of |-> s[order[l][1]], day |-> order[l][2]]
      BY <1>1, <2>1
    <3> QED BY <3>1, <1>13
  <2>3. order[k] = order[l]
    BY <1>3, <1>13, <2>1, <2>2
  <2> QED BY <1>10, <2>1, <2>3
<1> QED BY <1>11, <1>12, <1>13 DEF f

\* What there is to expand for a persona: the routines and links of its
\* company, on days of the window, and every routine on each of its dates.
LEMMA JobsAre ==
  ASSUME NEW u \in Users
  PROVE  /\ RoutineJobs[u] \in Seq(ToSet(RoutineJobs[u]))
         /\ \A job \in ToSet(RoutineJobs[u]) : IsRoutine(job.of) /\ job.day \in Start .. End
         /\ LinkJobs[u] \in Seq(ToSet(LinkJobs[u]))
         /\ \A job \in ToSet(LinkJobs[u]) : IsLink(job.of) /\ job.day \in Start .. End
         /\ \A routine \in ToSet(RoutinesOf(u)) :
              /\ IsRoutine(routine)
              /\ \A day \in DatesForCadence(routine.cadence) :
                   [of |-> routine, day |-> day] \in ToSet(RoutineJobs[u])
<1> DEFINE all   == CompanyOf(u).routines
           links == CompanyOf(u).cross_app
           mine  == {i \in DOMAIN all : u[2] \in all[i].personas}
           ours  == {i \in DOMAIN links : links[i].persona = u[2]}
           R     == RoutinesOf(u)
           L     == LinksOf(u)
<1>1. AreRoutines(all) /\ AreLinks(links)
  BY CompanyOfUser, CompaniesAre
<1>2. /\ R = AtPlaces(all, mine) /\ L = AtPlaces(links, ours)
      /\ mine \in SUBSET (DOMAIN all) /\ ours \in SUBSET (DOMAIN links)
      /\ all \in Seq(ToSet(all)) /\ links \in Seq(ToSet(links))
  BY <1>1 DEF RoutinesOf, LinksOf, AreRoutines, AreLinks
<1>3. RoutineJobs[u] = Dated(R) /\ LinkJobs[u] = Dated(L)
  BY DEF RoutineJobs, LinkJobs
<1> HIDE DEF all, links, mine, ours, R, L
<1>4. /\ R \in Seq(ToSet(R)) /\ \A x : x \in ToSet(R) <=> \E i \in mine : x = all[i]
      /\ L \in Seq(ToSet(L)) /\ \A x : x \in ToSet(L) <=> \E i \in ours : x = links[i]
  BY <1>2, AtPlacesIs
<1>5. (\A r \in ToSet(R) : IsRoutine(r)) /\ (\A l \in ToSet(L) : IsLink(l))
  BY <1>1, <1>2, <1>4 DEF AreRoutines, AreLinks, ToSet
<1>6. (\A r \in ToSet(R) : r.cadence \in Cadences) /\ (\A l \in ToSet(L) : l.cadence \in Cadences)
  BY <1>5 DEF IsRoutine, IsLink, Cadences
<1>7. \A c \in Cadences : \A day \in DatesForCadence(c) : day \in Start .. End
  BY DatesAreDays
<1>8. /\ Dated(R) \in Seq(ToSet(Dated(R)))
      /\ \A x : x \in ToSet(Dated(R)) <=>
           \E d \in ToSet(R) : \E day \in DatesForCadence(d.cadence) :
              x = [of |-> d, day |-> day]
  BY <1>4, <1>6, DatedIs
<1>9. /\ Dated(L) \in Seq(ToSet(Dated(L)))
      /\ \A x : x \in ToSet(Dated(L)) <=>
           \E d \in ToSet(L) : \E day \in DatesForCadence(d.cadence) :
              x = [of |-> d, day |-> day]
  BY <1>4, <1>6, DatedIs
<1>10. \A job \in ToSet(Dated(R)) : IsRoutine(job.of) /\ job.day \in Start .. End
  <2> TAKE job \in ToSet(Dated(R))
  <2>1. PICK d \in ToSet(R) : \E day \in DatesForCadence(d.cadence) : job = [of |-> d, day |-> day]
    BY <1>8
  <2>2. PICK day \in DatesForCadence(d.cadence) : job = [of |-> d, day |-> day]
    BY <2>1
  <2>3. job.of = d /\ job.day = day
    BY <2>2
  <2> QED BY <2>3, <1>5, <1>6, <1>7
<1>11. \A job \in ToSet(Dated(L)) : IsLink(job.of) /\ job.day \in Start .. End
  <2> TAKE job \in ToSet(Dated(L))
  <2>1. PICK d \in ToSet(L) : \E day \in DatesForCadence(d.cadence) : job = [of |-> d, day |-> day]
    BY <1>9
  <2>2. PICK day \in DatesForCadence(d.cadence) : job = [of |-> d, day |-> day]
    BY <2>1
  <2>3. job.of = d /\ job.day = day
    BY <2>2
  <2> QED BY <2>3, <1>5, <1>6, <1>7
<1>12. \A r \in ToSet(R) : \A day \in DatesForCadence(r.cadence) :
         [of |-> r, day |-> day] \in ToSet(Dated(R))
  BY <1>8
<1> QED BY <1>3, <1>5, <1>8, <1>9, <1>10, <1>11, <1>12 DEF R, L

\* An activity of a persona is of one of its routines, there is one link, and no
\* two jobs are the same.
LEMMA JobsAreApart ==
  ASSUME NEW u \in Users
  PROVE  /\ \A q, r \in ToSet(RoutinesOf(u)) :
              \A a \in DOMAIN q.activities, b \in DOMAIN r.activities :
                q.activities[a] = r.activities[b] => q = r /\ a = b
         /\ \A l, m \in ToSet(LinksOf(u)) : l = m
         /\ \A job \in ToSet(RoutineJobs[u]) :
              /\ job.of \in ToSet(RoutinesOf(u)) /\ job.day \in DatesForCadence(job.of.cadence)
              /\ job = [of |-> job.of, day |-> job.day]
         /\ \A job \in ToSet(LinkJobs[u]) :
              /\ job.of \in ToSet(LinksOf(u)) /\ job.day \in DatesForCadence(job.of.cadence)
              /\ job = [of |-> job.of, day |-> job.day]
         /\ \A k, l \in DOMAIN RoutineJobs[u] : RoutineJobs[u][k] = RoutineJobs[u][l] => k = l
         /\ \A k, l \in DOMAIN LinkJobs[u] : LinkJobs[u][k] = LinkJobs[u][l] => k = l
<1> DEFINE all   == CompanyOf(u).routines
           links == CompanyOf(u).cross_app
           mine  == {i \in DOMAIN all : u[2] \in all[i].personas}
           ours  == {i \in DOMAIN links : links[i].persona = u[2]}
           R     == RoutinesOf(u)
           L     == LinksOf(u)
<1>1. AreRoutines(all) /\ AreLinks(links) /\ ActivitiesApart(all) /\ LinksApart(links)
  BY CompanyOfUser, CompaniesAre, CompaniesAreApart
<1>2. /\ R = AtPlaces(all, mine) /\ L = AtPlaces(links, ours)
      /\ mine \in SUBSET (DOMAIN all) /\ ours \in SUBSET (DOMAIN links)
      /\ all \in Seq(ToSet(all)) /\ links \in Seq(ToSet(links))
      /\ \A i \in ours : links[i].persona = u[2]
  BY <1>1 DEF RoutinesOf, LinksOf, AreRoutines, AreLinks
<1>3. RoutineJobs[u] = Dated(R) /\ LinkJobs[u] = Dated(L)
  BY DEF RoutineJobs, LinkJobs
<1>4. \A r \in ToSet(R) : IsRoutine(r)
  BY JobsAre
<1> HIDE DEF all, links, mine, ours, R, L
<1>5. /\ R \in Seq(ToSet(R)) /\ PickedFrom(R, all)
      /\ \A x : x \in ToSet(R) <=> \E i \in mine : x = all[i]
      /\ L \in Seq(ToSet(L)) /\ PickedFrom(L, links)
      /\ \A x : x \in ToSet(L) <=> \E i \in ours : x = links[i]
  BY <1>2, AtPlacesIs
<1>6. (\A r \in ToSet(R) : r.cadence \in Cadences) /\ (\A l \in ToSet(L) : l.cadence \in Cadences)
  <2>1. \A l \in ToSet(L) : IsLink(l)
    BY <1>1, <1>2, <1>5 DEF AreLinks, ToSet
  <2> QED BY <2>1, <1>4 DEF IsRoutine, IsLink, Cadences
<1>7. ActivitiesApart(R)
  <2>1. PICK place \in [DOMAIN R -> DOMAIN all] :
          /\ \A k, l \in DOMAIN R : place[k] = place[l] => k = l
          /\ \A k \in DOMAIN R : R[k] = all[place[k]]
    BY <1>5 DEF PickedFrom
  <2> QED BY <2>1, <1>1 DEF ActivitiesApart
<1>8. \A i, j \in DOMAIN R : R[i] = R[j] => i = j
  <2> SUFFICES ASSUME NEW i \in DOMAIN R, NEW j \in DOMAIN R, R[i] = R[j] PROVE i = j
    OBVIOUS
  <2>1. 1 \in DOMAIN R[i].activities
    <3>1. R[i] \in ToSet(R)
      BY DEF ToSet
    <3>2. DOMAIN R[i].activities = 1 .. Len(R[i].activities) /\ Len(R[i].activities) \in 1 .. 3
      BY <1>4, <3>1 DEF IsRoutine
    <3>3. \A n \in 1 .. 3 : 1 \in 1 .. n
      OBVIOUS
    <3> QED BY <3>2, <3>3
  <2> QED BY <2>1, <1>7 DEF ActivitiesApart
<1>9. \A i, j \in DOMAIN L : i = j
  <2> SUFFICES ASSUME NEW i \in DOMAIN L, NEW j \in DOMAIN L PROVE i = j
    OBVIOUS
  <2>1. PICK place \in [DOMAIN L -> DOMAIN links] :
          /\ \A k, l \in DOMAIN L : place[k] = place[l] => k = l
          /\ \A k \in DOMAIN L : L[k] = links[place[k]]
    BY <1>5 DEF PickedFrom
  <2>2. L[i].persona = u[2] /\ L[j].persona = u[2]
    <3>1. L[i] \in ToSet(L) /\ L[j] \in ToSet(L)
      BY DEF ToSet
    <3> QED BY <1>2, <1>5, <3>1
  <2> QED BY <2>1, <2>2, <1>1 DEF LinksApart
<1>10. /\ \A x : x \in ToSet(Dated(R)) <=>
            \E d \in ToSet(R) : \E day \in DatesForCadence(d.cadence) : x = [of |-> d, day |-> day]
       /\ \A k, l \in DOMAIN Dated(R) : Dated(R)[k] = Dated(R)[l] => k = l
  BY <1>5, <1>6, <1>8, DatedIs
<1>11. /\ \A x : x \in ToSet(Dated(L)) <=>
            \E d \in ToSet(L) : \E day \in DatesForCadence(d.cadence) : x = [of |-> d, day |-> day]
       /\ \A k, l \in DOMAIN Dated(L) : Dated(L)[k] = Dated(L)[l] => k = l
  <2>1. \A i, j \in DOMAIN L : L[i] = L[j] => i = j
    BY <1>9
  <2> QED BY <2>1, <1>5, <1>6, DatedIs
<1>12. \A q, r \in ToSet(R) : \A a \in DOMAIN q.activities, b \in DOMAIN r.activities :
         q.activities[a] = r.activities[b] => q = r /\ a = b
  BY <1>7 DEF ActivitiesApart, ToSet
<1>13. \A l, m \in ToSet(L) : l = m
  BY <1>9 DEF ToSet
<1>14. \A job \in ToSet(Dated(R)) :
         /\ job.of \in ToSet(R) /\ job.day \in DatesForCadence(job.of.cadence)
         /\ job = [of |-> job.of, day |-> job.day]
  BY <1>10
<1>15. \A job \in ToSet(Dated(L)) :
         /\ job.of \in ToSet(L) /\ job.day \in DatesForCadence(job.of.cadence)
         /\ job = [of |-> job.of, day |-> job.day]
  BY <1>11
<1> QED BY <1>3, <1>10, <1>11, <1>12, <1>13, <1>14, <1>15 DEF R, L

\* The minutes of a day.
MinutesOf(day) == day * Day .. day * Day + Day - 1

\* Each of them is on it.
LEMMA MinutesAreOfDay ==
  ASSUME NEW day \in Int, NEW time \in MinutesOf(day)
  PROVE  time \in Int /\ DayOf(time) = day
BY DEF MinutesOf, DayOf, Day

\* When a routine may be done on a day, and when a link may begin.
RoutineTimes(routine, day) ==
  At(day, routine.hour, routine.minute, - routine.jitter) ..
    At(day, routine.hour, routine.minute, routine.jitter) + 12 * (Len(routine.activities) - 1)
LinkMoments(link, day) ==
  At(day, link.hour, link.minute, - link.jitter) .. At(day, link.hour, link.minute, link.jitter)

\* The events of a routine on a day, and the pairs of events of a link.
RoutineEvents(routine, day) ==
  {[app |-> routine.module, action |-> routine.activities[k], time |-> time, corr |-> <<>>] :
     k \in DOMAIN routine.activities, time \in RoutineTimes(routine, day)}
LinkPairs(link, day) ==
  {Pair(link, day, moment, gap) : moment \in LinkMoments(link, day), gap \in link.gap[1] .. link.gap[2]}

\* A routine is done on the day it is due, whatever the jitter and the steps.
LEMMA RoutineTimesAreOfDay ==
  ASSUME NEW routine, IsRoutine(routine), NEW day \in Int, NEW time \in RoutineTimes(routine, day)
  PROVE  time \in MinutesOf(day)
<1> DEFINE h == routine.hour
           m == routine.minute
           j == routine.jitter
           n == Len(routine.activities)
           base == day * Day
<1>1. h \in 8 .. 16 /\ m \in 0 .. 30 /\ j \in 0 .. 60 /\ n \in 1 .. 3
  BY DEF IsRoutine
<1>2. time \in At(day, h, m, - j) .. At(day, h, m, j) + 12 * (n - 1)
  BY DEF RoutineTimes
<1> HIDE DEF h, m, j, n
<1>3. base \in Int /\ Day = 1440
  BY DEF Day
<1>4. At(day, h, m, - j) = base + h * 60 + m + (- j) /\ At(day, h, m, j) = base + h * 60 + m + j
  BY DEF At
<1>5. MinutesOf(day) = base .. base + 1440 - 1
  BY <1>3 DEF MinutesOf
<1> HIDE DEF base
<1>6. h \in Int /\ m \in Int /\ j \in Int /\ n \in Int /\ 480 <= h * 60 /\ h * 60 <= 960
  BY <1>1
<1> QED BY <1>1, <1>2, <1>3, <1>4, <1>5, <1>6

\* Up to three activities follow each other within twelve minutes each.
LEMMA TimesAreNear ==
  ASSUME NEW moment \in Int, NEW n \in 1 .. 3, NEW steps \in [2 .. n -> 0 .. 12]
  PROVE  \A k \in 1 .. n : TimesFrom(moment, steps, n)[k] \in moment .. moment + 12 * (n - 1)
<1> DEFINE time == TimesFrom(moment, steps, n)
           second == moment + steps[2]
           g == [k \in 1 .. n |-> IF k = 1 THEN moment ELSE IF k = 2 THEN second ELSE second + steps[3]]
           more(f) == [k \in 1 .. n |-> IF k = 1 THEN moment ELSE f[k - 1] + steps[k]]
<1>1. \A k \in 1 .. n : k = 1 \/ k = 2 \/ k = 3
  OBVIOUS
<1>2. g = more(g)
  <2>1. ASSUME NEW k \in 1 .. n PROVE g[k] = IF k = 1 THEN moment ELSE g[k - 1] + steps[k]
    <3>1. CASE k = 1
      BY <3>1
    <3>2. CASE k = 2
      <4>1. 1 \in 1 .. n
        OBVIOUS
      <4> QED BY <3>2, <4>1
    <3>3. CASE k = 3
      <4>1. 2 \in 1 .. n
        BY <3>3
      <4> QED BY <3>3, <4>1
    <3> QED BY <1>1, <3>1, <3>2, <3>3
  <2> QED BY <2>1
<1>3. time = CHOOSE f : f = more(f)
  BY DEF TimesFrom
<1> HIDE DEF g, time, more
<1>4. time = more(time)
  BY <1>2, <1>3
<1>5. \A k \in 1 .. n : time[k] = IF k = 1 THEN moment ELSE time[k - 1] + steps[k]
  BY <1>4 DEF more
<1>6. time[1] = moment
  BY <1>5
<1>7. n >= 2 => time[2] \in moment .. moment + 12
  <2> SUFFICES ASSUME n >= 2 PROVE time[2] \in moment .. moment + 12
    OBVIOUS
  <2>1. 2 \in 1 .. n /\ 2 \in 2 .. n
    OBVIOUS
  <2>2. time[2] = time[1] + steps[2]
    BY <1>5, <2>1
  <2>3. steps[2] \in 0 .. 12
    BY <2>1
  <2> QED BY <1>6, <2>2, <2>3
<1>8. n = 3 => time[3] \in moment .. moment + 24
  <2> SUFFICES ASSUME n = 3 PROVE time[3] \in moment .. moment + 24
    OBVIOUS
  <2>1. time[2] \in moment .. moment + 12 /\ time[3] = time[2] + steps[3] /\ steps[3] \in 0 .. 12
    BY <1>5, <1>7
  <2> QED BY <2>1
<1>9. ASSUME NEW k \in 1 .. n PROVE time[k] \in moment .. moment + 12 * (n - 1)
  <2>1. CASE k = 1
    BY <1>6, <2>1
  <2>2. CASE k = 2
    BY <1>7, <2>2
  <2>3. CASE k = 3
    BY <1>8, <2>3
  <2> QED BY <1>1, <2>1, <2>2, <2>3
<1> QED BY <1>9 DEF time

\* One pass over the activities of a routine is on one day, and has them all.
LEMMA OccurrenceIs ==
  ASSUME NEW routine, IsRoutine(routine), NEW day \in Int,
         NEW jitter \in - routine.jitter .. routine.jitter,
         NEW steps \in [2 .. Len(routine.activities) -> 0 .. 12],
         NEW pass, pass = Occurrence(routine, At(day, routine.hour, routine.minute, jitter), steps)
  PROVE  /\ pass \in Seq(RoutineEvents(routine, day)) /\ DOMAIN pass = DOMAIN routine.activities
         /\ \A a \in DOMAIN routine.activities :
              /\ pass[a] \in ToSet(pass)
              /\ pass[a].app = routine.module /\ pass[a].action = routine.activities[a]
<1> DEFINE n      == Len(routine.activities)
           moment == At(day, routine.hour, routine.minute, jitter)
           time   == TimesFrom(moment, steps, n)
           E      == RoutineEvents(routine, day)
<1>1. DOMAIN routine.activities = 1 .. n /\ n \in 1 .. 3
  BY DEF IsRoutine
<1>2. /\ moment \in Int
      /\ \A later \in 0 .. 24 : later <= 12 * (n - 1) => moment + later \in RoutineTimes(routine, day)
  <2> DEFINE j    == routine.jitter
             base == day * Day + routine.hour * 60 + routine.minute
  <2>1. routine.hour \in 8 .. 16 /\ routine.minute \in 0 .. 30 /\ j \in 0 .. 60
    BY DEF IsRoutine
  <2>2. base \in Int
    <3>1. day * Day \in Int
      BY DEF Day
    <3>2. \A h \in 8 .. 16, m \in 0 .. 30 : h * 60 \in Int /\ m \in Int
      OBVIOUS
    <3>3. routine.hour * 60 \in Int /\ routine.minute \in Int
      BY <2>1, <3>2
    <3> QED BY <3>1, <3>3
  <2>3. moment = base + jitter
    BY DEF At
  <2>4. RoutineTimes(routine, day) = base + (- j) .. base + j + 12 * (n - 1)
    BY DEF RoutineTimes, At
  <2>5. jitter \in - j .. j
    OBVIOUS
  <2> HIDE DEF base, j, n, moment
  <2>6. jitter \in Int /\ - j <= jitter /\ jitter <= j /\ j \in Int /\ n \in Int
    BY <2>1, <2>5, <1>1
  <2> QED BY <2>2, <2>3, <2>4, <2>6
<1> HIDE DEF n, moment
<1>3. ASSUME NEW k \in 1 .. n
      PROVE  time[k] \in RoutineTimes(routine, day)
  <2>1. time[k] \in moment .. moment + 12 * (n - 1)
    <3>1. steps \in [2 .. n -> 0 .. 12]
      BY DEF n
    <3> QED BY <1>1, <1>2, <3>1, TimesAreNear
  <2> HIDE DEF time
  <2>2. \A x \in moment .. moment + 12 * (n - 1) :
          /\ x - moment \in 0 .. 24 /\ x - moment <= 12 * (n - 1)
          /\ x = moment + (x - moment)
    BY <1>1, <1>2
  <2> QED BY <2>1, <2>2, <1>2
<1>4. pass = [k \in 1 .. n |-> [app |-> routine.module, action |-> routine.activities[k],
                                time |-> time[k], corr |-> <<>>]]
  BY <1>1 DEF Occurrence, moment, n
<1> HIDE DEF time
<1>5. \A k \in 1 .. n : pass[k] \in E
  <2> HIDE DEF E
  <2> TAKE k \in 1 .. n
  <2>1. pass[k] = [app |-> routine.module, action |-> routine.activities[k],
                   time |-> time[k], corr |-> <<>>]
    BY <1>4
  <2> QED BY <2>1, <1>1, <1>3 DEF E, RoutineEvents
<1>6. pass \in [1 .. n -> E]
  <2> HIDE DEF E
  <2> QED BY <1>4, <1>5
<1>7. pass \in Seq(E)
  <2> HIDE DEF E
  <2> QED BY <1>1, <1>6
<1>8. ASSUME NEW a \in 1 .. n
      PROVE  /\ pass[a] \in ToSet(pass)
             /\ pass[a].app = routine.module /\ pass[a].action = routine.activities[a]
  <2>1. pass[a] \in ToSet(pass)
    BY <1>4 DEF ToSet
  <2>2. pass[a].app = routine.module /\ pass[a].action = routine.activities[a]
    BY <1>4
  <2> QED BY <2>1, <2>2
<1>9. DOMAIN pass = 1 .. n
  BY <1>4
<1> QED BY <1>1, <1>7, <1>8, <1>9

\* What is done in a routine is on the day.
LEMMA RoutineEventsAre ==
  ASSUME NEW routine, IsRoutine(routine), NEW day \in Int, NEW e \in RoutineEvents(routine, day)
  PROVE  /\ e.time \in Int /\ DayOf(e.time) = day /\ e.time \in RoutineTimes(routine, day)
         /\ e.corr = <<>> /\ e.app = routine.module
         /\ \E a \in DOMAIN routine.activities : e.action = routine.activities[a]
<1>1. PICK k \in DOMAIN routine.activities, time \in RoutineTimes(routine, day) :
        e = [app |-> routine.module, action |-> routine.activities[k], time |-> time, corr |-> <<>>]
  BY DEF RoutineEvents
<1>2. /\ e.app = routine.module /\ e.action = routine.activities[k]
      /\ e.time = time /\ e.corr = <<>>
  BY <1>1
<1>3. time \in Int /\ DayOf(time) = day
  BY RoutineTimesAreOfDay, MinutesAreOfDay
<1> QED BY <1>2, <1>3

\* The two events of a link are on one day, with its gap between them.
LEMMA LinkPairIs ==
  ASSUME NEW link, IsLink(link), NEW day \in Int, NEW pair \in LinkPairs(link, day)
  PROVE  /\ DOMAIN pair = 1 .. 2 /\ Len(pair) = 2 /\ pair \in Seq(ToSet(pair))
         /\ \A e : e \in ToSet(pair) <=> e = pair[1] \/ e = pair[2]
         /\ pair[1].app = link.first[1] /\ pair[1].action = link.first[2]
         /\ pair[2].app = link.then[1] /\ pair[2].action = link.then[2]
         /\ pair[1].corr = <<link.name, day>> /\ pair[2].corr = <<link.name, day>>
         /\ pair[1].time \in Int /\ DayOf(pair[1].time) = day
         /\ pair[2].time \in Int /\ DayOf(pair[2].time) = day
         /\ pair[1].time \in LinkMoments(link, day)
         /\ pair[2].time - pair[1].time \in link.gap[1] .. link.gap[2]
<1>1. PICK moment \in LinkMoments(link, day), gap \in link.gap[1] .. link.gap[2] :
        pair = Pair(link, day, moment, gap)
  BY DEF LinkPairs
<1> DEFINE h == link.hour
           m == link.minute
           j == link.jitter
           base == day * Day
<1>2. /\ h \in 10 .. 19 /\ m \in 0 .. 15 /\ j \in 0 .. 30
      /\ link.gap[1] \in 3 .. 15 /\ link.gap[2] \in 3 .. 15
  BY DEF IsLink
<1>3. /\ moment \in base + h * 60 + m + (- j) .. base + h * 60 + m + j
      /\ MinutesOf(day) = base .. base + 1440 - 1 /\ base \in Int
  BY DEF LinkMoments, At, MinutesOf, Day
<1> HIDE DEF h, m, j, base
<1>4. h \in Int /\ m \in Int /\ j \in Int /\ 600 <= h * 60 /\ h * 60 <= 1140
  BY <1>2
<1>5. moment \in Int /\ gap \in Int /\ gap \in 0 .. 24
  <2> DEFINE lo == base + h * 60 + m + (- j)
             hi == base + h * 60 + m + j
             a  == link.gap[1]
             b  == link.gap[2]
  <2>1. moment \in lo .. hi /\ gap \in a .. b /\ a \in 3 .. 15 /\ b \in 3 .. 15
    BY <1>2, <1>3
  <2> HIDE DEF lo, hi, a, b
  <2>2. moment \in Int /\ gap \in Int
    BY <2>1
  <2>3. gap \in 0 .. 24
    BY <2>1
  <2> QED BY <2>2, <2>3
<1>6. moment \in MinutesOf(day) /\ moment + gap \in MinutesOf(day)
  <2> DEFINE k == h * 60
  <2>1. k \in Int /\ 600 <= k /\ k <= 1140
    BY <1>2, <1>4
  <2>2. moment \in base + k + m + (- j) .. base + k + m + j
    BY <1>3
  <2> HIDE DEF k
  <2>3. base + 570 <= moment /\ moment <= base + 1185
    BY <1>2, <1>3, <1>4, <1>5, <2>1, <2>2
  <2>4. moment \in base .. base + 1440 - 1 /\ moment + gap \in base .. base + 1440 - 1
    BY <1>3, <1>5, <2>3
  <2> QED BY <1>3, <2>4
<1> DEFINE id  == <<link.name, day>>
           one == [app |-> link.first[1], action |-> link.first[2], time |-> moment, corr |-> id]
           two == [app |-> link.then[1], action |-> link.then[2], time |-> moment + gap, corr |-> id]
<1>7. pair = <<one, two>>
  BY <1>1 DEF Pair
<1>8. /\ one.app = link.first[1] /\ one.action = link.first[2] /\ one.time = moment
      /\ one.corr = <<link.name, day>>
      /\ two.app = link.then[1] /\ two.action = link.then[2] /\ two.time = moment + gap
      /\ two.corr = <<link.name, day>>
  OBVIOUS
<1> HIDE DEF one, two
<1>9. /\ DOMAIN pair = 1 .. 2 /\ Len(pair) = 2 /\ pair[1] = one /\ pair[2] = two
      /\ \A e : e \in ToSet(pair) <=> e = one \/ e = two
  BY <1>7 DEF ToSet
<1>10. pair \in Seq(ToSet(pair))
  <2>1. one \in ToSet(pair) /\ two \in ToSet(pair)
    BY <1>9
  <2> HIDE DEF id
  <2> QED BY <1>7, <2>1
<1>11. DayOf(moment) = day /\ DayOf(moment + gap) = day /\ moment + gap \in Int
  BY <1>6, MinutesAreOfDay
<1>12. pair[2].time - pair[1].time \in link.gap[1] .. link.gap[2]
  <2> DEFINE t    == pair[1].time
             w    == pair[2].time
             gaps == link.gap[1] .. link.gap[2]
  <2>1. t = moment /\ w = moment + gap
    BY <1>8, <1>9
  <2>2. gap \in gaps
    OBVIOUS
  <2> HIDE DEF t, w, gaps
  <2>3. w - t = gap
    BY <2>1, <1>5
  <2>4. w - t \in gaps
    BY <2>2, <2>3, Zenon
  <2> QED BY <2>4 DEF t, w, gaps
<1> HIDE DEF id
<1> QED BY <1>5, <1>8, <1>9, <1>10, <1>11, <1>12

\* And they are of two applications.
LEMMA LinkEventsAre ==
  ASSUME NEW link, IsLink(link), NEW day \in Int, NEW pair \in LinkPairs(link, day)
  PROVE  /\ pair[1].app # pair[2].app
         /\ \A e \in ToSet(pair) : /\ e.time \in Int /\ DayOf(e.time) = day
                                   /\ e.corr = <<link.name, day>> /\ e.corr # <<>>
<1>1. pair[1].app # pair[2].app
  BY LinkPairIs DEF IsLink
<1>2. <<link.name, day>> # <<>>
  OBVIOUS
<1>3. ASSUME NEW e \in ToSet(pair)
      PROVE  e.time \in Int /\ DayOf(e.time) = day /\ e.corr = <<link.name, day>>
  <2>1. CASE e = pair[1]
    BY <2>1, LinkPairIs
  <2>2. CASE e = pair[2]
    BY <2>2, LinkPairIs
  <2> QED BY <2>1, <2>2, LinkPairIs
<1> QED BY <1>1, <1>2, <1>3

\* A random number is between the ends of its range.
LEMMA DrawnIsInRange ==
  ASSUME NEW range, NEW low \in Int, NEW high \in Int,
         range[1] \in low .. high, range[2] \in low .. high,
         NEW day, NEW x \in Drawn(range, day)
  PROVE  x \in low .. high
BY DEF Drawn

\* So is a jitter, to both sides.
LEMMA JitterIsInRange ==
  ASSUME NEW jitter \in Nat, NEW day, NEW x \in Drawn(<<- jitter, jitter>>, day)
  PROVE  x \in - jitter .. jitter
BY DEF Drawn

\* One sequence, concatenated.
LEMMA FlattenOfOne ==
  ASSUME NEW s, Len(s) = 1
  PROVE  FlattenSeq(s) = s[1]
<1>1. 1 \in Nat /\ 1 # 0 /\ 1 \in 1 .. 1
  OBVIOUS
<1>2. PICK f : /\ FlattenSeq(s) = f[1]
               /\ \A i \in 1 .. 1 : f[i] = IF i = 1 THEN s[i] ELSE f[i - 1] \o s[i]
  BY <1>1, FlattenStepByStep
<1> QED BY <1>1, <1>2

\* What a routine of a day is expanded to.
Expanded(routine, day, n, jitter, steps) ==
  FlattenSeq([k \in 1 .. n |->
    Occurrence(routine, At(day, routine.hour, routine.minute, jitter[k]), steps[k])])

\* A routine of a day is all its occurrences, at least one; what is done once
\* has each activity once.
LEMMA RoutineIsExpanded ==
  ASSUME NEW routine, IsRoutine(routine), NEW day \in Int,
         NEW count \in Drawn(routine.occurrences, day),
         NEW steps \in StepsOf(routine, Capped(count), day),
         NEW jitter \in [1 .. Capped(count) -> Drawn(<<- routine.jitter, routine.jitter>>, day)],
         NEW new, new = Expanded(routine, day, Capped(count), jitter, steps)
  PROVE  /\ new \in Seq(RoutineEvents(routine, day))
         /\ \A a \in DOMAIN routine.activities :
              \E e \in ToSet(new) : e.app = routine.module /\ e.action = routine.activities[a]
         /\ routine.occurrences = Once =>
              /\ DOMAIN new = DOMAIN routine.activities
              /\ \A a \in DOMAIN new : new[a].action = routine.activities[a]
<1> DEFINE n       == Capped(count)
           pass(k) == Occurrence(routine, At(day, routine.hour, routine.minute, jitter[k]), steps[k])
           passes  == [k \in 1 .. n |-> pass(k)]
           E       == RoutineEvents(routine, day)
<1>1. n \in Nat \ {0} /\ (routine.occurrences = Once => n = 1)
  <2>1. routine.occurrences[1] \in 1 .. 12 /\ routine.occurrences[2] \in 1 .. 12
    BY DEF IsRoutine
  <2>2. count \in 1 .. 12
    BY <2>1, 1 \in Int, 12 \in Int, DrawnIsInRange
  <2>3. ASSUME routine.occurrences = Once PROVE count = 1
    <3>1. routine.occurrences[1] \in 1 .. 1 /\ routine.occurrences[2] \in 1 .. 1
      BY <2>3 DEF Once
    <3>2. count \in 1 .. 1
      BY <3>1, 1 \in Int, DrawnIsInRange
    <3> QED BY <3>2
  <2> QED BY <2>2, <2>3, WindowAssumption DEF Capped
<1>2. \A k \in 1 .. n : steps[k] \in [2 .. Len(routine.activities) -> 0 .. 12]
  <2>1. routine.steps[1] \in 0 .. 12 /\ routine.steps[2] \in 0 .. 12
    BY DEF IsRoutine
  <2>2. Drawn(routine.steps, day) \subseteq 0 .. 12
    BY <2>1, 0 \in Int, 12 \in Int, DrawnIsInRange
  <2> DEFINE places == 2 .. Len(routine.activities)
  <2>3. \E numbers \in SUBSET (0 .. 12) : steps \in [1 .. n -> [places -> numbers]]
    BY <2>2 DEF StepsOf
  <2> HIDE DEF places, n
  <2> QED BY <2>3 DEF places
<1>3. \A k \in 1 .. n : jitter[k] \in - routine.jitter .. routine.jitter
  <2>1. routine.jitter \in Nat
    <3>1. routine.jitter \in 0 .. 60
      BY DEF IsRoutine
    <3>2. 0 .. 60 \subseteq Nat
      OBVIOUS
    <3> QED BY <3>1, <3>2
  <2> QED BY <2>1, JitterIsInRange
<1> HIDE DEF n, E, pass
<1>4. ASSUME NEW k \in 1 .. n
      PROVE  /\ pass(k) \in Seq(E) /\ DOMAIN pass(k) = DOMAIN routine.activities
             /\ \A a \in DOMAIN routine.activities :
                  /\ pass(k)[a] \in ToSet(pass(k))
                  /\ pass(k)[a].app = routine.module /\ pass(k)[a].action = routine.activities[a]
  BY <1>2, <1>3, OccurrenceIs DEF pass, E
<1>5. passes \in Seq(Seq(E)) /\ DOMAIN passes = 1 .. n /\ Len(passes) = n
  <2>1. passes \in [1 .. n -> Seq(E)]
    BY <1>4
  <2> QED BY <1>1, <2>1
<1>6. new = FlattenSeq(passes)
  BY DEF Expanded, pass, n
<1>7. passes[1] = pass(1) /\ 1 \in 1 .. n
  BY <1>1
<1> HIDE DEF passes
<1>8. /\ new \in Seq(E)
      /\ \A x : x \in ToSet(new) <=> \E k \in DOMAIN passes : x \in ToSet(passes[k])
  BY <1>5, <1>6, FlattenIs
<1>9. \A x \in ToSet(pass(1)) : x \in ToSet(new)
  BY <1>5, <1>7, <1>8
<1>10. \A a \in DOMAIN routine.activities :
         \E e \in ToSet(new) : e.app = routine.module /\ e.action = routine.activities[a]
  BY <1>4, <1>7, <1>9
<1>11. routine.occurrences = Once => new = pass(1)
  BY <1>1, <1>5, <1>6, <1>7, FlattenOfOne
<1>12. routine.occurrences = Once =>
         /\ DOMAIN new = DOMAIN routine.activities
         /\ \A a \in DOMAIN new : new[a].action = routine.activities[a]
  BY <1>4, <1>7, <1>11
<1> QED BY <1>8, <1>10, <1>12 DEF E

\* The two events of a link that are drawn are one of its pairs.
LEMMA LinkIsExpanded ==
  ASSUME NEW link, IsLink(link), NEW day \in Int,
         NEW jitter \in Drawn(<<- link.jitter, link.jitter>>, day), NEW gap \in Drawn(link.gap, day)
  PROVE  Pair(link, day, At(day, link.hour, link.minute, jitter), gap) \in LinkPairs(link, day)
<1> DEFINE low  == link.gap[1]
           high == link.gap[2]
           j    == link.jitter
           base == day * Day + link.hour * 60 + link.minute
<1>1. /\ low \in 3 .. 15 /\ high \in 3 .. 15 /\ low <= high /\ j \in 0 .. 30
      /\ link.hour \in 10 .. 19 /\ link.minute \in 0 .. 15
  BY DEF IsLink
<1>2. gap \in low .. high
  <2>1. low \in Int /\ high \in Int
    <3> HIDE DEF low, high
    <3> QED BY <1>1
  <2>2. low \in low .. high /\ high \in low .. high
    <3> HIDE DEF low, high
    <3> QED BY <1>1, <2>1
  <2> QED BY <2>1, <2>2, DrawnIsInRange
<1>3. jitter \in - j .. j
  BY <1>1, JitterIsInRange
<1>4. base \in Int
  BY <1>1 DEF Day
<1>5. /\ At(day, link.hour, link.minute, jitter) = base + jitter
      /\ LinkMoments(link, day) = base + (- j) .. base + j
  BY DEF At, LinkMoments
<1> DEFINE moment == At(day, link.hour, link.minute, jitter)
<1>6. moment \in LinkMoments(link, day)
  <2> HIDE DEF moment, base, j
  <2> QED BY <1>1, <1>3, <1>4, <1>5 DEF moment
<1> HIDE DEF moment
<1> QED BY <1>2, <1>6 DEF LinkPairs, moment

-----------------------------------------------------------------------------
(***************************************************************************)
(* What the histories are that the generators and the loader make.         *)
(***************************************************************************)

AllJobs == Len(RoutineJobs[user]) + Len(LinkJobs[user])

\* The jobs that have been expanded.
ExpandedRoutines ==
  {RoutineJobs[user][k] : k \in {m \in 1 .. Len(RoutineJobs[user]) : m <= jobs}}
ExpandedLinks ==
  {LinkJobs[user][k] : k \in {m \in 1 .. Len(LinkJobs[user]) : Len(RoutineJobs[user]) + m <= jobs}}

\* Something was done on a day.
DoneOn(app, action, day) ==
  \E e \in ToSet(events) : e.app = app /\ e.action = action /\ DayOf(e.time) = day

\* The same is done on the same day, and not in another occurrence of a link.
SameUse(d, e) ==
  /\ d.app = e.app /\ d.action = e.action /\ d.corr = e.corr
  /\ DayOf(d.time) = DayOf(e.time)

\* What is done once on a day: links, and what routines say is.
DoneOnce(e) ==
  \/ e.corr # <<>>
  \/ \E r \in ToSet(RoutinesOf(user)) :
       r.occurrences = Once /\ \E a \in DOMAIN r.activities : e.action = r.activities[a]

\* The part of the invariant that is about progress: the jobs are expanded one
\* after the other, before anything is sorted or loaded.
ProgressIsMade ==
  /\ user \in Users
  /\ jobs \in 0 .. AllJobs
  /\ sorted \in BOOLEAN /\ (sorted => jobs = AllJobs)
  /\ loaded \in 0 .. Len(events)

\* An event is of a routine that was expanded, or of a link, whose other event
\* is there as well.
OfRoutine(e) == \E job \in ExpandedRoutines : e \in RoutineEvents(job.of, job.day)
OfLink(e) ==
  \E job \in ExpandedLinks : \E pair \in LinkPairs(job.of, job.day) :
    e \in ToSet(pair) /\ ToSet(pair) \subseteq ToSet(events)
EventsHaveOrigins ==
  /\ events \in Seq(ToSet(events))
  /\ \A e \in ToSet(events) : OfRoutine(e) \/ OfLink(e)

\* What an expanded job of a routine consists of was done on the job's day.
RoutinesAreDone ==
  \A job \in ExpandedRoutines : \A a \in DOMAIN job.of.activities :
    DoneOn(job.of.module, job.of.activities[a], job.day)

\* What is done once on a day is one event.
NothingIsRepeated ==
  \A i, j \in DOMAIN events : SameUse(events[i], events[j]) /\ DoneOnce(events[i]) => i = j

HistoryInv == ProgressIsMade /\ EventsHaveOrigins /\ RoutinesAreDone /\ NothingIsRepeated

\* What the engine reads of the loaded events are those since a time, each
\* with its time.
LEMMA HistorySinceIs ==
  ASSUME NEW since \in Int, NEW tie \in BOOLEAN, NEW Record,
         events \in TimedHistories(Record), loaded \in 0 .. Len(events)
  PROVE  /\ HistorySince(since, tie) \in TimedHistories(Record)
         /\ ToSet(HistorySince(since, tie)) = {events[i] : i \in {j \in 1 .. loaded : events[j].time >= since}}
         /\ PickedFrom(HistorySince(since, tie), events)
<1> DEFINE recent == {i \in 1 .. loaded : events[i].time >= since}
           key    == [i \in recent |-> <<- events[i].time, IF tie THEN i ELSE - i>>]
           order  == InOrder(recent, key)
           f      == HistorySince(since, tie)
<1>1. /\ loaded \in Nat /\ recent \in SUBSET (1 .. loaded) /\ recent \in SUBSET (DOMAIN events)
      /\ \A i \in recent : i \in Int /\ events[i] \in Record /\ events[i].time \in Int
  BY DEF TimedHistories
<1>2. IsFiniteSet(recent) /\ Cardinality(recent) \in Nat
  <2> HIDE DEF recent
  <2> QED BY <1>1, PlacesAreFinite
<1>3. f = [k \in DOMAIN order |-> events[order[k]]] /\ order = InOrder(recent, key)
  BY DEF HistorySince
<1> HIDE DEF recent, f, order
<1>4. /\ key \in [recent -> Int \X Int]
      /\ \A i, j \in recent : key[i][2] = key[j][2] => i = j
  BY <1>1
<1> HIDE DEF key
<1>5. /\ DOMAIN order = 1 .. Cardinality(recent) /\ ToSet(order) = recent
      /\ \A k \in DOMAIN order : order[k] \in recent
      /\ order \in Seq(recent)
      /\ \A i, j \in DOMAIN order : order[i] = order[j] => i = j
  BY <1>2, <1>3, <1>4, SortedByPairs
<1>6. \A k \in DOMAIN order : f[k] = events[order[k]] /\ f[k] \in Record /\ f[k].time \in Int
  BY <1>1, <1>3, <1>5
<1>7. f \in [1 .. Cardinality(recent) -> Record]
  BY <1>3, <1>5, <1>6
<1>8. f \in Seq(Record) /\ DOMAIN f = DOMAIN order
  BY <1>2, <1>3, <1>7
<1>9. f \in TimedHistories(Record)
  BY <1>6, <1>8 DEF TimedHistories
<1>10. ToSet(f) = {events[i] : i \in recent}
  <2>1. ToSet(f) = {events[order[k]] : k \in DOMAIN order}
    BY <1>3 DEF ToSet
  <2>2. recent = {order[k] : k \in DOMAIN order}
    BY <1>5 DEF ToSet
  <2> QED BY <2>1, <2>2
<1>11. PickedFrom(f, events)
  <2>1. order \in Seq(recent) /\ recent \in SUBSET (DOMAIN events) /\ DOMAIN f = DOMAIN order
    BY <1>1, <1>5, <1>8
  <2>2. order \in [DOMAIN order -> DOMAIN events]
    BY <2>1
  <2> QED BY <1>3, <1>5, <2>1, <2>2 DEF PickedFrom
<1> QED BY <1>9, <1>10, <1>11 DEF f, recent

\* Jobs are numbered.
LEMMA JobsAreCounted ==
  ASSUME user \in Users
  PROVE  /\ Len(RoutineJobs[user]) \in Nat /\ Len(LinkJobs[user]) \in Nat /\ AllJobs \in Nat
         /\ \A k \in 1 .. Len(RoutineJobs[user]) : RoutineJobs[user][k] \in ToSet(RoutineJobs[user])
         /\ \A k \in 1 .. Len(LinkJobs[user]) : LinkJobs[user][k] \in ToSet(LinkJobs[user])
<1> DEFINE R == RoutineJobs[user]
           L == LinkJobs[user]
<1>1. R \in Seq(ToSet(R)) /\ L \in Seq(ToSet(L))
  BY JobsAre
<1>2. AllJobs = Len(R) + Len(L)
  BY DEF AllJobs
<1> HIDE DEF R, L
<1>3. /\ Len(R) \in Nat /\ Len(L) \in Nat /\ AllJobs \in Nat
      /\ \A k \in 1 .. Len(R) : R[k] \in ToSet(R)
      /\ \A k \in 1 .. Len(L) : L[k] \in ToSet(L)
  BY <1>1, <1>2
<1> QED BY <1>3 DEF R, L

\* What has been expanded is a routine or a link on a day of the window.
LEMMA ExpandedAre ==
  ASSUME user \in Users
  PROVE  /\ \A job \in ExpandedRoutines :
              /\ job \in ToSet(RoutineJobs[user]) /\ IsRoutine(job.of)
              /\ job.day \in Start .. End /\ job.day \in Int
         /\ \A job \in ExpandedLinks :
              /\ job \in ToSet(LinkJobs[user]) /\ IsLink(job.of)
              /\ job.day \in Start .. End /\ job.day \in Int
<1>1. /\ \A job \in ExpandedRoutines : job \in ToSet(RoutineJobs[user])
      /\ \A job \in ExpandedLinks : job \in ToSet(LinkJobs[user])
  BY JobsAreCounted DEF ExpandedRoutines, ExpandedLinks
<1>2. \A day \in Start .. End : day \in Int
  BY WindowAssumption
<1> QED BY <1>1, <1>2, JobsAre

\* An event of a routine, and where it comes from.
LEMMA RoutineOfEvent ==
  ASSUME user \in Users, NEW e, OfRoutine(e)
  PROVE  \E job \in ExpandedRoutines :
           /\ job = [of |-> job.of, day |-> job.day] /\ job.day \in Start .. End
           /\ job.of \in ToSet(RoutinesOf(user)) /\ IsRoutine(job.of)
           /\ job.day \in DatesForCadence(job.of.cadence)
           /\ e.time \in Int /\ DayOf(e.time) = job.day /\ e.time \in RoutineTimes(job.of, job.day)
           /\ e.corr = <<>> /\ e.app = job.of.module
           /\ \E a \in DOMAIN job.of.activities : e.action = job.of.activities[a]
<1>1. PICK job \in ExpandedRoutines : e \in RoutineEvents(job.of, job.day)
  BY DEF OfRoutine
<1>2. /\ job \in ToSet(RoutineJobs[user]) /\ IsRoutine(job.of)
      /\ job.day \in Start .. End /\ job.day \in Int
  BY ExpandedAre
<1>3. /\ job = [of |-> job.of, day |-> job.day]
      /\ job.of \in ToSet(RoutinesOf(user)) /\ job.day \in DatesForCadence(job.of.cadence)
  BY <1>2, JobsAreApart
<1> DEFINE routine == job.of
           day     == job.day
<1>4. /\ IsRoutine(routine) /\ day \in Int /\ e \in RoutineEvents(routine, day)
  BY <1>1, <1>2
<1> HIDE DEF routine, day
<1>5. /\ e.time \in Int /\ DayOf(e.time) = day /\ e.time \in RoutineTimes(routine, day)
      /\ e.corr = <<>> /\ e.app = routine.module
      /\ \E a \in DOMAIN routine.activities : e.action = routine.activities[a]
  BY <1>4, RoutineEventsAre
<1> QED BY <1>2, <1>3, <1>5 DEF routine, day

\* An event of a link, where it comes from and what it comes with.
LEMMA LinkOfEvent ==
  ASSUME user \in Users, NEW e, OfLink(e)
  PROVE  \E job \in ExpandedLinks : \E pair \in LinkPairs(job.of, job.day) :
           /\ job = [of |-> job.of, day |-> job.day] /\ job.day \in Start .. End
           /\ job.of \in ToSet(LinksOf(user)) /\ IsLink(job.of)
           /\ job.day \in DatesForCadence(job.of.cadence)
           /\ e \in ToSet(pair) /\ ToSet(pair) \subseteq ToSet(events)
           /\ e.time \in Int /\ DayOf(e.time) = job.day
           /\ e.corr = <<job.of.name, job.day>> /\ e.corr # <<>>
<1>1. PICK job \in ExpandedLinks :
        \E pair \in LinkPairs(job.of, job.day) : e \in ToSet(pair) /\ ToSet(pair) \subseteq ToSet(events)
  BY DEF OfLink
<1>2. PICK pair \in LinkPairs(job.of, job.day) : e \in ToSet(pair) /\ ToSet(pair) \subseteq ToSet(events)
  BY <1>1
<1>3. /\ job \in ToSet(LinkJobs[user]) /\ IsLink(job.of)
      /\ job.day \in Start .. End /\ job.day \in Int
  BY ExpandedAre
<1>4. /\ job = [of |-> job.of, day |-> job.day]
      /\ job.of \in ToSet(LinksOf(user)) /\ job.day \in DatesForCadence(job.of.cadence)
  BY <1>3, JobsAreApart
<1> DEFINE link == job.of
           day  == job.day
<1>5. IsLink(link) /\ day \in Int /\ pair \in LinkPairs(link, day)
  BY <1>3
<1> HIDE DEF link, day
<1>6. e.time \in Int /\ DayOf(e.time) = day /\ e.corr = <<link.name, day>> /\ e.corr # <<>>
  BY <1>2, <1>5, LinkEventsAre
<1> QED BY <1>2, <1>3, <1>4, <1>6 DEF link, day

\* Each event has its time in the window.
LEMMA EventsAreInWindow ==
  ASSUME HistoryInv
  PROVE  /\ events \in Seq(ToSet(events))
         /\ \A e \in ToSet(events) : e.time \in Int /\ DayOf(e.time) \in Start .. End
<1>1. user \in Users /\ events \in Seq(ToSet(events)) /\ \A e \in ToSet(events) : OfRoutine(e) \/ OfLink(e)
  BY DEF HistoryInv, ProgressIsMade, EventsHaveOrigins
<1>2. ASSUME NEW e \in ToSet(events) PROVE e.time \in Int /\ DayOf(e.time) \in Start .. End
  <2>1. CASE OfRoutine(e)
    BY <1>1, <2>1, RoutineOfEvent
  <2>2. CASE OfLink(e)
    BY <1>1, <2>2, LinkOfEvent
  <2> QED BY <1>1, <2>1, <2>2
<1> QED BY <1>1, <1>2

\* A routine that is expanded next is expanded for the first time.
LEMMA RoutineIsNext ==
  ASSUME user \in Users, jobs \in Nat, jobs < Len(RoutineJobs[user]), jobs' = jobs + 1, user' = user
  PROVE  LET job == RoutineJobs[user][jobs + 1]
         IN /\ job \in ToSet(RoutineJobs[user]) /\ job \notin ExpandedRoutines
            /\ ExpandedRoutines' = ExpandedRoutines \union {job}
            /\ ExpandedLinks \subseteq ExpandedLinks'
<1> DEFINE R    == RoutineJobs[user]
           L    == LinkJobs[user]
           n    == Len(R)
           l    == Len(L)
           next == jobs + 1
<1>1. /\ n \in Nat /\ l \in Nat /\ \A k \in 1 .. n : R[k] \in ToSet(R)
  BY JobsAreCounted
<1>2. \A k, m \in DOMAIN R : R[k] = R[m] => k = m
  BY JobsAreApart
<1>3. DOMAIN R = 1 .. n
  <2>1. R \in Seq(ToSet(R))
    BY JobsAre
  <2> HIDE DEF R
  <2> QED BY <2>1
<1>4. /\ ExpandedRoutines = {R[k] : k \in {m \in 1 .. n : m <= jobs}}
      /\ ExpandedRoutines' = {R[k] : k \in {m \in 1 .. n : m <= jobs'}}
      /\ ExpandedLinks = {L[k] : k \in {m \in 1 .. l : n + m <= jobs}}
      /\ ExpandedLinks' = {L[k] : k \in {m \in 1 .. l : n + m <= jobs'}}
  BY DEF ExpandedRoutines, ExpandedLinks
<1> HIDE DEF R, L, n, l
<1>5. /\ next \in 1 .. n
      /\ \A m \in 1 .. n : m <= jobs' <=> m <= jobs \/ m = next
      /\ \A m \in 1 .. n : m <= jobs => m # next
      /\ \A m \in 1 .. l : n + m <= jobs => n + m <= jobs'
  BY <1>1 DEF n, R
<1> HIDE DEF next
<1>6. R[next] \notin ExpandedRoutines
  BY <1>2, <1>3, <1>4, <1>5
<1>7. ExpandedRoutines' = ExpandedRoutines \union {R[next]}
  BY <1>4, <1>5
<1>8. ExpandedLinks \subseteq ExpandedLinks'
  BY <1>4, <1>5
<1> QED BY <1>1, <1>5, <1>6, <1>7, <1>8 DEF R, next

\* So is a link.
LEMMA LinkIsNext ==
  ASSUME user \in Users,
         jobs \in Len(RoutineJobs[user]) .. Len(RoutineJobs[user]) + Len(LinkJobs[user]) - 1,
         jobs' = jobs + 1, user' = user
  PROVE  LET job == LinkJobs[user][jobs - Len(RoutineJobs[user]) + 1]
         IN /\ job \in ToSet(LinkJobs[user]) /\ job \notin ExpandedLinks
            /\ ExpandedLinks' = ExpandedLinks \union {job}
            /\ ExpandedRoutines' = ExpandedRoutines
<1> DEFINE R    == RoutineJobs[user]
           L    == LinkJobs[user]
           n    == Len(R)
           l    == Len(L)
           next == jobs - n + 1
<1>1. /\ n \in Nat /\ l \in Nat /\ \A k \in 1 .. l : L[k] \in ToSet(L)
  BY JobsAreCounted
<1>2. \A k, m \in DOMAIN L : L[k] = L[m] => k = m
  BY JobsAreApart
<1>3. DOMAIN L = 1 .. l
  <2>1. L \in Seq(ToSet(L))
    BY JobsAre
  <2> HIDE DEF L
  <2> QED BY <2>1
<1>4. /\ ExpandedRoutines = {R[k] : k \in {m \in 1 .. n : m <= jobs}}
      /\ ExpandedRoutines' = {R[k] : k \in {m \in 1 .. n : m <= jobs'}}
      /\ ExpandedLinks = {L[k] : k \in {m \in 1 .. l : n + m <= jobs}}
      /\ ExpandedLinks' = {L[k] : k \in {m \in 1 .. l : n + m <= jobs'}}
  BY DEF ExpandedRoutines, ExpandedLinks
<1>5. jobs \in n .. n + l - 1
  OBVIOUS
<1> HIDE DEF R, L, n, l
<1>6. /\ next \in 1 .. l
      /\ \A m \in 1 .. l : n + m <= jobs' <=> n + m <= jobs \/ m = next
      /\ \A m \in 1 .. l : n + m <= jobs => m # next
      /\ \A m \in 1 .. n : m <= jobs /\ m <= jobs'
  BY <1>1, <1>5
<1> HIDE DEF next
<1>7. L[next] \notin ExpandedLinks
  BY <1>2, <1>3, <1>4, <1>6
<1>8. ExpandedLinks' = ExpandedLinks \union {L[next]}
  BY <1>4, <1>6
<1>9. ExpandedRoutines' = ExpandedRoutines
  BY <1>4, <1>6
<1> QED BY <1>1, <1>6, <1>7, <1>8, <1>9 DEF R, L, n, next

\* Before the first job there are no events.
LEMMA HistoryInitHolds ==
  HistoryInit => HistoryInv
<1> SUFFICES ASSUME HistoryInit PROVE HistoryInv
  OBVIOUS
<1> USE DEF HistoryInit
<1>1. AllJobs \in Nat
  BY JobsAreCounted
<1>2. ToSet(events) = {} /\ DOMAIN events = {} /\ events \in Seq({}) /\ Len(events) = 0
  BY DEF ToSet
<1>3. ProgressIsMade
  <2>1. jobs \in 0 .. AllJobs /\ loaded \in 0 .. Len(events)
    BY <1>1, <1>2
  <2> QED BY <2>1 DEF ProgressIsMade
<1>4. EventsHaveOrigins
  BY <1>2 DEF EventsHaveOrigins
<1>5. RoutinesAreDone
  BY DEF RoutinesAreDone, ExpandedRoutines
<1>6. NothingIsRepeated
  BY <1>2 DEF NothingIsRepeated
<1> QED BY <1>3, <1>4, <1>5, <1>6 DEF HistoryInv

\* A job that is expanded adds its events to those that are there.
LEMMA EventsAreAdded ==
  ASSUME HistoryInv, jobs < AllJobs, jobs' = jobs + 1, UNCHANGED <<user, sorted, loaded>>,
         NEW T, NEW new \in Seq(T), events' = events \o new
  PROVE  /\ ProgressIsMade' /\ events' \in Seq(ToSet(events'))
         /\ ToSet(events') = ToSet(events) \union ToSet(new)
         /\ \A i \in DOMAIN events' :
              \/ i \in DOMAIN events /\ events'[i] = events[i]
              \/ /\ i \notin DOMAIN events /\ i \in Int /\ i - Len(events) \in DOMAIN new
                 /\ events'[i] = new[i - Len(events)]
<1>1. AllJobs \in Nat
  BY JobsAreCounted DEF HistoryInv, ProgressIsMade
<1>2. AllJobs' = AllJobs
  BY DEF AllJobs
<1> DEFINE U == ToSet(events) \union T
<1>3. events \in Seq(U) /\ new \in Seq(U)
  BY DEF HistoryInv, EventsHaveOrigins
<1> HIDE DEF U
<1>4. /\ events' \in Seq(U) /\ Len(events') = Len(events) + Len(new)
      /\ \A x : x \in ToSet(events') <=> x \in ToSet(events) \/ x \in ToSet(new)
  BY <1>3, InBothParts
<1>5. ProgressIsMade'
  <2>1. Len(events) \in Nat /\ Len(events') \in Nat /\ Len(events) <= Len(events')
    BY <1>3, <1>4
  <2> QED BY <1>1, <1>2, <2>1 DEF HistoryInv, ProgressIsMade
<1>6. events' \in Seq(ToSet(events'))
  BY <1>4, SeqOfItsOwn
<1>7. ASSUME NEW i \in DOMAIN events'
      PROVE  \/ i \in DOMAIN events /\ events'[i] = events[i]
             \/ /\ i \notin DOMAIN events /\ i \in Int /\ i - Len(events) \in DOMAIN new
                /\ events'[i] = new[i - Len(events)]
  <2> DEFINE m == Len(events)
             n == Len(new)
  <2>1. /\ m \in Nat /\ n \in Nat /\ DOMAIN events = 1 .. m /\ DOMAIN new = 1 .. n
        /\ DOMAIN events' = 1 .. m + n
    BY <1>3
  <2>2. /\ \A k \in 1 .. m : events'[k] = events[k]
        /\ \A k \in m + 1 .. m + n : events'[k] = new[k - m]
    BY <1>3
  <2> HIDE DEF m, n
  <2>3. i \in 1 .. m \/ (i \in m + 1 .. m + n /\ i \notin 1 .. m /\ i \in Int /\ i - m \in 1 .. n)
    BY <1>7, <2>1
  <2> QED BY <2>1, <2>2, <2>3 DEF m
<1>8. ToSet(events') = ToSet(events) \union ToSet(new)
  BY <1>4
<1> QED BY <1>5, <1>6, <1>7, <1>8

\* New events that neither repeat each other nor what is there repeat nothing.
LEMMA NothingIsRepeatedStill ==
  ASSUME NothingIsRepeated, user' = user, NEW new, NEW n \in Int,
         \A i \in DOMAIN events' :
           \/ i \in DOMAIN events /\ events'[i] = events[i]
           \/ /\ i \notin DOMAIN events /\ i \in Int /\ i - n \in DOMAIN new
              /\ events'[i] = new[i - n],
         \A i, j \in DOMAIN new : SameUse(new[i], new[j]) /\ DoneOnce(new[i]) => i = j,
         \A i \in DOMAIN new, d \in ToSet(events) : ~ (SameUse(d, new[i]) /\ DoneOnce(new[i]))
  PROVE  NothingIsRepeated'
<1> SUFFICES ASSUME NEW i \in DOMAIN events', NEW j \in DOMAIN events',
                    SameUse(events'[i], events'[j]), DoneOnce(events'[i])
             PROVE  i = j
  BY DEF NothingIsRepeated, DoneOnce, SameUse
<1> DEFINE old(k) == k \in DOMAIN events /\ events'[k] = events[k]
           add(k) == k \in Int /\ k - n \in DOMAIN new /\ events'[k] = new[k - n]
<1>1. (old(i) \/ add(i)) /\ (old(j) \/ add(j))
  OBVIOUS
<1>2. CASE old(i) /\ old(j)
  BY <1>2 DEF NothingIsRepeated
<1>3. CASE old(i) /\ add(j)
  <2>1. events[i] \in ToSet(events)
    BY <1>3 DEF ToSet
  <2>2. DoneOnce(events'[j])
    BY DEF SameUse, DoneOnce
  <2> QED BY <1>3, <2>1, <2>2
<1>4. CASE add(i) /\ old(j)
  <2>1. events[j] \in ToSet(events)
    BY <1>4 DEF ToSet
  <2>2. SameUse(events'[j], events'[i])
    BY DEF SameUse
  <2> QED BY <1>4, <2>1, <2>2
<1>5. CASE add(i) /\ add(j)
  <2>1. i - n = j - n
    BY <1>5
  <2> QED BY <1>5, <2>1
<1> QED BY <1>1, <1>2, <1>3, <1>4, <1>5

\* What is there keeps its origins.
LEMMA OriginsRemain ==
  ASSUME EventsHaveOrigins, ToSet(events) \subseteq ToSet(events'),
         ExpandedRoutines \subseteq ExpandedRoutines', ExpandedLinks \subseteq ExpandedLinks'
  PROVE  \A e \in ToSet(events) : OfRoutine(e)' \/ OfLink(e)'
<1> TAKE e \in ToSet(events)
<1>1. CASE OfRoutine(e)
  BY <1>1 DEF OfRoutine
<1>2. CASE OfLink(e)
  BY <1>2 DEF OfLink
<1> QED BY <1>1, <1>2 DEF EventsHaveOrigins

\* What is done stays done.
LEMMA RoutinesRemainDone ==
  ASSUME RoutinesAreDone, ToSet(events) \subseteq ToSet(events'), ExpandedRoutines' = ExpandedRoutines
  PROVE  RoutinesAreDone'
BY DEF RoutinesAreDone, DoneOn

\* Expanding a routine keeps to the invariant.
LEMMA EmitRoutineKeeps ==
  ASSUME HistoryInv, EmitRoutine
  PROVE  HistoryInv'
<1>1. /\ user \in Users /\ jobs \in Nat /\ jobs < Len(RoutineJobs[user]) /\ jobs < AllJobs
      /\ jobs' = jobs + 1 /\ UNCHANGED <<user, sorted, loaded>> /\ user' = user
  <2> DEFINE n == Len(RoutineJobs[user])
             m == Len(LinkJobs[user])
  <2>1. user \in Users /\ jobs \in 0 .. AllJobs
    BY DEF HistoryInv, ProgressIsMade
  <2>2. n \in Nat /\ m \in Nat /\ AllJobs = n + m
    BY <2>1, JobsAreCounted DEF AllJobs
  <2>3. jobs < n /\ jobs' = jobs + 1 /\ UNCHANGED <<user, sorted, loaded>>
    BY DEF EmitRoutine
  <2> HIDE DEF n, m
  <2>4. jobs \in Nat /\ jobs < AllJobs
    BY <2>1, <2>2, <2>3
  <2> QED BY <2>1, <2>3, <2>4 DEF n
<1>2. PICK job : job = RoutineJobs[user][jobs + 1]
  OBVIOUS
<1>3. /\ job \in ToSet(RoutineJobs[user]) /\ job \notin ExpandedRoutines
      /\ ExpandedRoutines' = ExpandedRoutines \union {job}
      /\ ExpandedLinks \subseteq ExpandedLinks'
  BY <1>1, <1>2, RoutineIsNext
<1> DEFINE routine == job.of
           day     == job.day
           R       == ToSet(RoutinesOf(user))
<1>4. /\ IsRoutine(routine) /\ day \in Int /\ routine \in R
      /\ job = [of |-> routine, day |-> day]
  <2>1. \A x \in Start .. End : x \in Int
    BY WindowAssumption
  <2> QED BY <1>1, <1>3, <2>1, JobsAre, JobsAreApart
<1>5. \A q, r \in R : \A a \in DOMAIN q.activities, b \in DOMAIN r.activities :
        q.activities[a] = r.activities[b] => q = r /\ a = b
  BY <1>1, JobsAreApart
<1>6. PICK count \in Drawn(routine.occurrences, day) :
        \E jitter \in [1 .. Capped(count) -> Drawn(<<- routine.jitter, routine.jitter>>, day)],
           steps \in StepsOf(routine, Capped(count), day) :
          events' = events \o Expanded(routine, day, Capped(count), jitter, steps)
  BY <1>2 DEF EmitRoutine, Expanded
<1>7. PICK jitter \in [1 .. Capped(count) -> Drawn(<<- routine.jitter, routine.jitter>>, day)],
           steps \in StepsOf(routine, Capped(count), day) :
        events' = events \o Expanded(routine, day, Capped(count), jitter, steps)
  BY <1>6
<1> DEFINE new == Expanded(routine, day, Capped(count), jitter, steps)
           E   == RoutineEvents(routine, day)
<1> HIDE DEF routine, day, R
<1>8. /\ new \in Seq(E)
      /\ \A a \in DOMAIN routine.activities :
           \E e \in ToSet(new) : e.app = routine.module /\ e.action = routine.activities[a]
      /\ routine.occurrences = Once =>
           /\ DOMAIN new = DOMAIN routine.activities
           /\ \A a \in DOMAIN new : new[a].action = routine.activities[a]
  BY <1>4, RoutineIsExpanded
<1>9. events' = events \o new
  BY <1>7
<1> HIDE DEF new, E
<1>10. /\ ProgressIsMade' /\ events' \in Seq(ToSet(events'))
       /\ ToSet(events') = ToSet(events) \union ToSet(new)
       /\ \A i \in DOMAIN events' :
            \/ i \in DOMAIN events /\ events'[i] = events[i]
            \/ /\ i \notin DOMAIN events /\ i \in Int /\ i - Len(events) \in DOMAIN new
               /\ events'[i] = new[i - Len(events)]
  BY <1>1, <1>8, <1>9, EventsAreAdded
<1>11. (\A i \in DOMAIN new : new[i] \in E) /\ (\A e \in ToSet(new) : e \in E)
  BY <1>8, SeqOfItsOwn
<1>12. ASSUME NEW e \in E
       PROVE  /\ DayOf(e.time) = day /\ e.corr = <<>> /\ e.app = routine.module
              /\ \E a \in DOMAIN routine.activities : e.action = routine.activities[a]
  BY <1>4, RoutineEventsAre DEF E
<1>13. EventsHaveOrigins'
  <2>1. ASSUME NEW e \in ToSet(events) PROVE OfRoutine(e)' \/ OfLink(e)'
    BY <1>3, <1>10, OriginsRemain DEF HistoryInv
  <2>2. ASSUME NEW e \in ToSet(new) PROVE OfRoutine(e)'
    BY <1>3, <1>11 DEF OfRoutine, E, routine, day
  <2> QED BY <1>10, <2>1, <2>2 DEF EventsHaveOrigins
<1>14. RoutinesAreDone'
  <2> SUFFICES ASSUME NEW other \in ExpandedRoutines', NEW a \in DOMAIN other.of.activities
               PROVE  \E e \in ToSet(events') : /\ e.app = other.of.module
                                                /\ e.action = other.of.activities[a]
                                                /\ DayOf(e.time) = other.day
    BY DEF RoutinesAreDone, DoneOn
  <2>1. CASE other \in ExpandedRoutines
    <3>1. DoneOn(other.of.module, other.of.activities[a], other.day)
      BY <2>1 DEF HistoryInv, RoutinesAreDone
    <3> QED BY <3>1, <1>10 DEF DoneOn
  <2>2. CASE other = job
    <3>1. PICK e \in ToSet(new) : e.app = routine.module /\ e.action = routine.activities[a]
      BY <2>2, <1>8 DEF routine
    <3>2. DayOf(e.time) = day
      BY <1>11, <1>12
    <3> QED BY <2>2, <3>1, <3>2, <1>10 DEF routine, day
  <2> QED BY <2>1, <2>2, <1>3
\* A new event that is done once is of a routine with one occurrence.
<1>15. ASSUME NEW e \in E, DoneOnce(e)
       PROVE  routine.occurrences = Once
  <2>1. PICK r \in R : r.occurrences = Once /\ \E a \in DOMAIN r.activities : e.action = r.activities[a]
    BY <1>12, <1>15 DEF DoneOnce, R
  <2>2. PICK a \in DOMAIN r.activities : e.action = r.activities[a]
    BY <2>1
  <2>3. PICK b \in DOMAIN routine.activities : e.action = routine.activities[b]
    BY <1>12
  <2>4. r.activities[a] = routine.activities[b]
    BY <2>2, <2>3
  <2>5. r = routine
    BY <1>4, <1>5, <2>4
  <2> QED BY <2>1, <2>5
<1>16. ASSUME NEW i \in DOMAIN new, NEW j \in DOMAIN new,
              SameUse(new[i], new[j]), DoneOnce(new[i])
       PROVE  i = j
  <2>1. routine.occurrences = Once
    BY <1>11, <1>15, <1>16
  <2>2. /\ i \in DOMAIN routine.activities /\ new[i].action = routine.activities[i]
        /\ j \in DOMAIN routine.activities /\ new[j].action = routine.activities[j]
    BY <1>8, <2>1
  <2>3. routine.activities[i] = routine.activities[j]
    BY <2>2, <1>16 DEF SameUse
  <2> QED BY <2>2, <2>3, <1>4, <1>5
<1>17. ASSUME NEW i \in DOMAIN new, NEW d \in ToSet(events), SameUse(d, new[i])
       PROVE  FALSE
  <2> DEFINE e == new[i]
  <2>1. e \in E
    BY <1>11
  <2> HIDE DEF e
  <2>2. /\ d.corr = <<>> /\ d.action = e.action /\ DayOf(d.time) = day
    BY <2>1, <1>12, <1>17 DEF SameUse, e
  <2>3. ~ OfLink(d)
    BY <1>1, <2>2, LinkOfEvent
  <2>4. OfRoutine(d)
    BY <2>3 DEF HistoryInv, EventsHaveOrigins
  <2>5. PICK other \in ExpandedRoutines :
          /\ other = [of |-> other.of, day |-> other.day] /\ other.of \in R
          /\ DayOf(d.time) = other.day
          /\ \E a \in DOMAIN other.of.activities : d.action = other.of.activities[a]
    BY <1>1, <2>4, RoutineOfEvent DEF R
  <2>6. PICK a \in DOMAIN other.of.activities : d.action = other.of.activities[a]
    BY <2>5
  <2>7. PICK b \in DOMAIN routine.activities : e.action = routine.activities[b]
    BY <2>1, <1>12
  <2>8. other.of.activities[a] = routine.activities[b]
    BY <2>2, <2>6, <2>7
  <2>9. other.of = routine
    BY <1>4, <1>5, <2>5, <2>8
  <2>10. other = job
    BY <1>4, <2>2, <2>5, <2>9
  <2> QED BY <1>3, <2>10
<1>18. NothingIsRepeated'
  <2>1. Len(events) \in Int
    BY DEF HistoryInv, EventsHaveOrigins
  <2> QED BY <1>1, <1>10, <1>16, <1>17, <2>1, NothingIsRepeatedStill DEF HistoryInv
<1> QED BY <1>10, <1>13, <1>14, <1>18 DEF HistoryInv

\* So does expanding a link, or leaving it out.
LEMMA EmitCrossAppKeeps ==
  ASSUME HistoryInv, EmitCrossApp
  PROVE  HistoryInv'
<1>1. /\ user \in Users /\ jobs < AllJobs
      /\ jobs \in Len(RoutineJobs[user]) .. Len(RoutineJobs[user]) + Len(LinkJobs[user]) - 1
      /\ jobs' = jobs + 1 /\ UNCHANGED <<user, sorted, loaded>> /\ user' = user
  <2> DEFINE n == Len(RoutineJobs[user])
             m == Len(LinkJobs[user])
  <2>1. user \in Users
    BY DEF HistoryInv, ProgressIsMade
  <2>2. n \in Nat /\ m \in Nat /\ AllJobs = n + m
    BY <2>1, JobsAreCounted DEF AllJobs
  <2>3. jobs \in n .. n + m - 1 /\ jobs' = jobs + 1 /\ UNCHANGED <<user, sorted, loaded>>
    BY DEF EmitCrossApp
  <2> HIDE DEF n, m
  <2>4. jobs < AllJobs
    BY <2>2, <2>3
  <2> QED BY <2>1, <2>3, <2>4 DEF n, m
<1>2. PICK job : job = LinkJobs[user][jobs - Len(RoutineJobs[user]) + 1]
  OBVIOUS
<1>3. /\ job \in ToSet(LinkJobs[user]) /\ job \notin ExpandedLinks
      /\ ExpandedLinks' = ExpandedLinks \union {job}
      /\ ExpandedRoutines' = ExpandedRoutines
  BY <1>1, <1>2, LinkIsNext
<1> DEFINE link == job.of
           day  == job.day
<1>4. /\ IsLink(link) /\ day \in Int /\ link \in ToSet(LinksOf(user))
      /\ job = [of |-> link, day |-> day]
  <2>1. \A x \in Start .. End : x \in Int
    BY WindowAssumption
  <2> QED BY <1>1, <1>3, <2>1, JobsAre, JobsAreApart
<1>5. CASE UNCHANGED events
  <2>1. AllJobs \in Nat /\ AllJobs' = AllJobs
    BY <1>1, JobsAreCounted DEF AllJobs
  <2>2. ProgressIsMade'
    BY <1>1, <1>5, <2>1 DEF HistoryInv, ProgressIsMade
  <2>3. \A e \in ToSet(events) : OfRoutine(e)' \/ OfLink(e)'
    BY <1>3, <1>5, OriginsRemain DEF HistoryInv
  <2>4. EventsHaveOrigins'
    BY <1>5, <2>3 DEF HistoryInv, EventsHaveOrigins
  <2>5. RoutinesAreDone'
    BY <1>3, <1>5, RoutinesRemainDone DEF HistoryInv
  <2>6. NothingIsRepeated'
    BY <1>1, <1>5 DEF HistoryInv, NothingIsRepeated, DoneOnce, SameUse
  <2> QED BY <2>2, <2>4, <2>5, <2>6 DEF HistoryInv
<1>6. ASSUME NEW new \in LinkPairs(link, day), events' = events \o new
      PROVE  HistoryInv'
  <2> HIDE DEF link, day
  <2>1. /\ DOMAIN new = 1 .. 2 /\ new \in Seq(ToSet(new))
        /\ new[1].app # new[2].app
        /\ \A e \in ToSet(new) : /\ DayOf(e.time) = day /\ e.corr = <<link.name, day>>
                                 /\ e.corr # <<>>
    BY <1>4, LinkPairIs, LinkEventsAre
  <2>2. /\ ProgressIsMade' /\ events' \in Seq(ToSet(events'))
        /\ ToSet(events') = ToSet(events) \union ToSet(new)
        /\ \A i \in DOMAIN events' :
             \/ i \in DOMAIN events /\ events'[i] = events[i]
             \/ /\ i \notin DOMAIN events /\ i \in Int /\ i - Len(events) \in DOMAIN new
                /\ events'[i] = new[i - Len(events)]
    BY <1>1, <1>6, <2>1, EventsAreAdded
  <2>3. EventsHaveOrigins'
    <3>1. ASSUME NEW e \in ToSet(events) PROVE OfRoutine(e)' \/ OfLink(e)'
      BY <1>3, <2>2, OriginsRemain DEF HistoryInv
    <3>2. ASSUME NEW e \in ToSet(new) PROVE OfLink(e)'
      BY <1>3, <1>6, <2>2 DEF OfLink, link, day
    <3> QED BY <2>2, <3>1, <3>2 DEF EventsHaveOrigins
  <2>4. RoutinesAreDone'
    BY <1>3, <2>2, RoutinesRemainDone DEF HistoryInv
  <2>5. ASSUME NEW i \in DOMAIN new, NEW j \in DOMAIN new, SameUse(new[i], new[j])
        PROVE  i = j
    BY <2>1, <2>5 DEF SameUse
  <2>6. ASSUME NEW i \in DOMAIN new, NEW d \in ToSet(events), SameUse(d, new[i])
        PROVE  FALSE
    <3>1. new[i] \in ToSet(new)
      BY DEF ToSet
    <3>2. d.corr # <<>> /\ DayOf(d.time) = day
      BY <2>1, <2>6, <3>1 DEF SameUse
    <3>3. ~ OfRoutine(d)
      BY <1>1, <3>2, RoutineOfEvent
    <3>4. OfLink(d)
      BY <3>3 DEF HistoryInv, EventsHaveOrigins
    <3>5. PICK other \in ExpandedLinks :
            /\ other = [of |-> other.of, day |-> other.day]
            /\ other.of \in ToSet(LinksOf(user)) /\ DayOf(d.time) = other.day
      BY <1>1, <3>4, LinkOfEvent
    <3>6. other.of = link
      BY <1>1, <1>4, <3>5, JobsAreApart
    <3>7. other = job
      BY <1>4, <3>2, <3>5, <3>6
    <3> QED BY <1>3, <3>7
  <2>7. NothingIsRepeated'
    <3>1. Len(events) \in Int
      BY DEF HistoryInv, EventsHaveOrigins
    <3> QED BY <1>1, <2>2, <2>5, <2>6, <3>1, NothingIsRepeatedStill DEF HistoryInv
  <2> QED BY <2>2, <2>3, <2>4, <2>7 DEF HistoryInv
<1>7. CASE ~ UNCHANGED events
  <2>1. PICK jitter \in Drawn(<<- link.jitter, link.jitter>>, day), gap \in Drawn(link.gap, day) :
          events' = events \o Pair(link, day, At(day, link.hour, link.minute, jitter), gap)
    BY <1>2, <1>7 DEF EmitCrossApp
  <2>2. Pair(link, day, At(day, link.hour, link.minute, jitter), gap) \in LinkPairs(link, day)
    <3> HIDE DEF link, day
    <3> QED BY <1>4, LinkIsExpanded
  <2> HIDE DEF link, day
  <2> QED BY <1>6, <2>1, <2>2
<1> QED BY <1>5, <1>7

\* Sorting keeps all that is known of the events.
LEMMA FinishKeeps ==
  ASSUME HistoryInv, Finish
  PROVE  HistoryInv'
<1>1. /\ jobs = AllJobs /\ sorted' = TRUE /\ events' = Ordered(events)
      /\ UNCHANGED <<user, jobs, loaded>> /\ user' = user
  BY DEF Finish, AllJobs
<1>2. events \in TimedHistories(ToSet(events))
  BY EventsAreInWindow DEF TimedHistories, ToSet
<1>3. /\ events' \in Seq(ToSet(events)) /\ Len(events') = Len(events)
      /\ ToSet(events') = ToSet(events) /\ PickedFrom(events', events)
  BY <1>1, <1>2, OrderedIsSorted DEF TimedHistories
<1>4. AllJobs' = AllJobs /\ ExpandedRoutines' = ExpandedRoutines /\ ExpandedLinks' = ExpandedLinks
  BY <1>1 DEF AllJobs, ExpandedRoutines, ExpandedLinks
<1>5. ProgressIsMade'
  BY <1>1, <1>3, <1>4 DEF HistoryInv, ProgressIsMade
<1>6. EventsHaveOrigins'
  <2>1. \A e \in ToSet(events) : OfRoutine(e)' \/ OfLink(e)'
    BY <1>3, <1>4, OriginsRemain DEF HistoryInv
  <2> QED BY <1>3, <2>1 DEF EventsHaveOrigins
<1>7. RoutinesAreDone'
  BY <1>3, <1>4, RoutinesRemainDone DEF HistoryInv
<1>8. NothingIsRepeated'
  <2>1. PICK place \in [DOMAIN events' -> DOMAIN events] :
          /\ \A k, l \in DOMAIN events' : place[k] = place[l] => k = l
          /\ \A k \in DOMAIN events' : events'[k] = events[place[k]]
    BY <1>3 DEF PickedFrom
  <2> QED BY <1>1, <2>1 DEF HistoryInv, NothingIsRepeated, DoneOnce, SameUse
<1> QED BY <1>5, <1>6, <1>7, <1>8 DEF HistoryInv

\* Each step of a generator or the loader keeps to it.
LEMMA HistoryInvHolds ==
  HistoryInv /\ [HistoryNext]_historyVars => HistoryInv'
<1> SUFFICES ASSUME HistoryInv, [HistoryNext]_historyVars PROVE HistoryInv'
  OBVIOUS
<1>1. ASSUME user' = user, jobs' = jobs, events' = events, sorted' = sorted,
             loaded' \in 0 .. Len(events)
      PROVE  HistoryInv'
  <2>1. ProgressIsMade'
    BY <1>1 DEF HistoryInv, ProgressIsMade, AllJobs
  <2>2. EventsHaveOrigins'
    BY <1>1 DEF HistoryInv, EventsHaveOrigins, OfRoutine, OfLink, ExpandedRoutines, ExpandedLinks
  <2>3. RoutinesAreDone'
    BY <1>1 DEF HistoryInv, RoutinesAreDone, DoneOn, ExpandedRoutines
  <2>4. NothingIsRepeated'
    BY <1>1 DEF HistoryInv, NothingIsRepeated, SameUse, DoneOnce
  <2> QED BY <2>1, <2>2, <2>3, <2>4 DEF HistoryInv
<1>2. CASE EmitRoutine
  BY <1>2, EmitRoutineKeeps
<1>3. CASE EmitCrossApp
  BY <1>3, EmitCrossAppKeeps
<1>4. CASE Finish
  BY <1>4, FinishKeeps
<1>5. CASE Load
  <2>1. /\ loaded < Len(events) /\ UNCHANGED <<user, jobs, events, sorted>>
        /\ loaded' = IF loaded + BatchSize < Len(events) THEN loaded + BatchSize ELSE Len(events)
    BY <1>5 DEF Load
  <2>2. Len(events) \in Nat /\ loaded \in Nat
    BY DEF HistoryInv, ProgressIsMade, EventsHaveOrigins
  <2>3. loaded' \in 0 .. Len(events)
    BY <2>1, <2>2, WindowAssumption
  <2> QED BY <1>1, <2>1, <2>3
<1>6. CASE UNCHANGED historyVars
  <2>1. loaded \in 0 .. Len(events)
    BY DEF HistoryInv, ProgressIsMade
  <2> QED BY <1>1, <1>6, <2>1 DEF historyVars
<1> QED BY <1>2, <1>3, <1>4, <1>5, <1>6 DEF HistoryNext, Done

\* What is generated and loaded is as HistoryInv says (_expand_persona_jobs,
\* _emit_routine, _emit_cross_app, generate_shop_events, seed_shops).
THEOREM HistoryIsGenerated ==
  HistorySpec => []HistoryInv
BY HistoryInitHolds, HistoryInvHolds, PTL DEF HistorySpec

\* The histories that are read have a time in each record.
LEMMA HistoriesAreTimed ==
  ASSUME HistoryInv, NEW since \in Int, NEW tie \in BOOLEAN
  PROVE  HistorySince(since, tie) \in TimedHistories(ToSet(events))
<1>1. events \in TimedHistories(ToSet(events))
  BY EventsAreInWindow DEF TimedHistories, ToSet
<1>2. loaded \in 0 .. Len(events)
  BY DEF HistoryInv, ProgressIsMade
<1> QED BY <1>1, <1>2, HistorySinceIs

\* What follows an action in different ways shares its confidence, in every
\* history that is generated for a persona, whatever the window and however
\* much of it is loaded (_detect_sequences, _build_sequence).
THEOREM GeneratedSuccessorsShareConfidence ==
  HistorySpec => []SuccessorsAreShared
<1>1. HistoryInv => SuccessorsAreShared
  <2> SUFFICES ASSUME HistoryInv, NEW tie \in BOOLEAN
               PROVE  ConfidencesAreShared(Sequences(HistorySince(Start * Day, tie)))
    BY DEF SuccessorsAreShared, ProfileHistories
  <2>1. Start * Day \in Int
    BY WindowAssumption DEF Day
  <2>2. HistorySince(Start * Day, tie) \in TimedHistories(ToSet(events))
    BY <2>1, HistoriesAreTimed
  <2> QED BY <2>2, SuccessorsShareConfidence
<1> QED BY <1>1, HistoryIsGenerated, PTL

\* An action is predicted with at least the confidence that each of its uses
\* gives, in what was generated and loaded and at whatever time a prediction
\* is asked for (_group_by_action_type, _score_candidate).
THEOREM GeneratedUsesCount ==
  HistorySpec => []EveryUseCounts
<1>1. HistoryInv => EveryUseCounts
  <2> SUFFICES ASSUME HistoryInv, NEW now \in AskedAt, NEW tie \in BOOLEAN, NEW keywords \in Triggers
               PROVE  EveryUseCountsIn(HistorySince(now - 14 * Day, tie), keywords, now)
    BY DEF EveryUseCounts, RecentHistories
  <2>1. now \in Int /\ now - 14 * Day \in Int
    BY WindowAssumption DEF Day
  <2>2. HistorySince(now - 14 * Day, tie) \in TimedHistories(ToSet(events))
    BY <2>1, HistoriesAreTimed
  <2> QED BY <2>1, <2>2, EveryUseAddsConfidence
<1> QED BY <1>1, HistoryIsGenerated, PTL

\* The predictions are the best of what was generated and loaded until then,
\* after each batch of the loader (IntentScorer.score).
THEOREM GeneratedPredictionsAreTheBest ==
  HistorySpec => []PredictionsAreTheBest
<1>1. HistoryInv => PredictionsAreTheBest
  <2> SUFFICES ASSUME HistoryInv, NEW now \in AskedAt, NEW tie \in BOOLEAN, NEW keywords \in Triggers
               PROVE  PredictionsAreTheBestOf(HistorySince(now - 14 * Day, tie), keywords, now,
                                              MaxResults)
    BY DEF PredictionsAreTheBest, RecentHistories
  <2>1. now \in Int /\ now - 14 * Day \in Int /\ MaxResults \in Nat
    BY WindowAssumption DEF Day
  <2>2. HistorySince(now - 14 * Day, tie) \in TimedHistories(ToSet(events))
    BY <2>1, HistoriesAreTimed
  <2> QED BY <2>1, <2>2, PredictionsAreTheBestAlways
<1> QED BY <1>1, HistoryIsGenerated, PTL

\* A profile is made of all the events, once they are loaded, each of them once.
LEMMA ProfilesAreComplete ==
  ASSUME HistoryInv, Complete, NEW tie \in BOOLEAN
  PROVE  /\ ToSet(HistorySince(Start * Day, tie)) = ToSet(events)
         /\ PickedFrom(HistorySince(Start * Day, tie), events)
<1>1. /\ events \in TimedHistories(ToSet(events)) /\ loaded \in 0 .. Len(events)
      /\ DOMAIN events = 1 .. loaded
  BY EventsAreInWindow DEF HistoryInv, ProgressIsMade, TimedHistories, ToSet, Complete
<1>2. Start * Day \in Int
  BY WindowAssumption DEF Day
<1>3. /\ ToSet(HistorySince(Start * Day, tie))
           = {events[i] : i \in {j \in 1 .. loaded : events[j].time >= Start * Day}}
      /\ PickedFrom(HistorySince(Start * Day, tie), events)
  BY <1>1, <1>2, HistorySinceIs
<1>4. ASSUME NEW j \in 1 .. loaded PROVE events[j].time >= Start * Day
  <2> DEFINE time == events[j].time
  <2>1. time \in Int /\ DayOf(time) \in Start .. End
    BY <1>1, EventsAreInWindow DEF ToSet
  <2> HIDE DEF time
  <2>2. DayOf(time) \in Int /\ Day * DayOf(time) <= time
    BY <2>1, TimesOfDays
  <2>3. Start <= DayOf(time)
    BY <2>1, WindowAssumption
  <2>4. \A d \in Int : Start <= d => Start * Day <= Day * d
    BY WindowAssumption DEF Day
  <2>5. Start * Day <= time
    BY <1>2, <2>1, <2>2, <2>3, <2>4 DEF Day
  <2> QED BY <2>5, <2>1, <1>2 DEF time
<1>5. {j \in 1 .. loaded : events[j].time >= Start * Day} = DOMAIN events
  BY <1>1, <1>4
<1> QED BY <1>3, <1>5 DEF ToSet

\* What a routine consists of was done on each of its dates, at last.
LEMMA RoutineIsDone ==
  ASSUME HistoryInv, Complete, NEW routine \in ToSet(RoutinesOf(user)),
         NEW a \in DOMAIN routine.activities, NEW day \in DatesForCadence(routine.cadence)
  PROVE  DoneOn(routine.module, routine.activities[a], day)
<1> DEFINE R == RoutineJobs[user]
<1>1. user \in Users /\ jobs = AllJobs
  BY DEF HistoryInv, ProgressIsMade, Complete
<1>2. PICK job : job = [of |-> routine, day |-> day]
  OBVIOUS
<1>3. job \in ToSet(R) /\ job.of = routine /\ job.day = day
  BY <1>1, <1>2, JobsAre
<1>4. /\ R \in Seq(ToSet(R)) /\ Len(R) \in Nat /\ jobs = Len(R) + Len(LinkJobs[user])
      /\ Len(LinkJobs[user]) \in Nat
  BY <1>1, JobsAre, JobsAreCounted DEF AllJobs
<1> HIDE DEF R
<1>5. PICK k \in 1 .. Len(R) : R[k] = job
  BY <1>3, <1>4 DEF ToSet
<1>6. k <= jobs
  <2>1. \A m, n \in Nat : k \in 1 .. m => k <= m + n
    OBVIOUS
  <2> QED BY <2>1, <1>4
<1>7. job \in ExpandedRoutines
  BY <1>5, <1>6 DEF ExpandedRoutines, R
<1>8. \A b \in DOMAIN job.of.activities : DoneOn(job.of.module, job.of.activities[b], job.day)
  BY <1>7 DEF HistoryInv, RoutinesAreDone
<1> QED BY <1>3, <1>8

\* What a routine of every workday consists of is done on each of the workdays
\* and on no day outside of the window, in the profile of all events.
LEMMA WeekdayRoutinesAreDone ==
  ASSUME HistoryInv, Complete, NEW tie \in BOOLEAN,
         NEW routine \in ToSet(RoutinesOf(user)), routine.cadence = "weekday",
         NEW a \in DOMAIN routine.activities,
         NEW history, history = HistorySince(Start * Day, tie)
  PROVE  DoneOnWorkdays(history, UsesOf(routine, a, history), Start, End)
<1> DEFINE uses == UsesOf(routine, a, history)
<1>1. ToSet(history) = ToSet(events)
  BY ProfilesAreComplete
<1>2. uses = {i \in DOMAIN history : /\ history[i].app = routine.module
                                     /\ history[i].action = routine.activities[a]}
  BY DEF UsesOf, Uses
<1> HIDE DEF uses
<1>3. ASSUME NEW i \in uses PROVE DayOf(history[i].time) \in Start .. End
  <2>1. history[i] \in ToSet(events)
    BY <1>1, <1>2 DEF ToSet
  <2> QED BY <2>1, EventsAreInWindow
<1>4. ASSUME NEW day \in Start .. End, day % 7 < 5
      PROVE  \E i \in uses : DayOf(history[i].time) = day
  <2>1. day \in DatesForCadence(routine.cadence)
    BY <1>4 DEF DatesForCadence, Workdays, EveryDay, IsWorkday
  <2>2. PICK e \in ToSet(events) : /\ e.app = routine.module /\ e.action = routine.activities[a]
                                   /\ DayOf(e.time) = day
    BY <2>1, RoutineIsDone DEF DoneOn
  <2>3. PICK i \in DOMAIN history : history[i] = e
    BY <1>1 DEF ToSet
  <2> QED BY <1>2, <2>2, <2>3
<1> QED BY <1>3, <1>4 DEF DoneOnWorkdays, uses

\* The Mondays of the window are one a week.
LEMMA MondaysAre ==
  ASSUME NEW day
  PROVE  day \in Mondays <=> \E week \in (Start + 6) \div 7 .. End \div 7 : day = 7 * week + 0
<1>1. Start \in Int /\ End \in Int
  BY WindowAssumption
<1>2. ASSUME NEW s \in Int, NEW e \in Int, NEW d \in s .. e, d % 7 = 0
      PROVE  d \div 7 \in (s + 6) \div 7 .. e \div 7 /\ d = 7 * (d \div 7) + 0
  BY <1>2
<1>3. ASSUME NEW s \in Int, NEW e \in Int, NEW w \in (s + 6) \div 7 .. e \div 7
      PROVE  7 * w + 0 \in s .. e /\ (7 * w + 0) % 7 = 0
  BY <1>3
<1>4. day \in Mondays <=> day \in Start .. End /\ day % 7 = 0
  BY DEF Mondays, EveryDay, IsMonday
<1>5. ASSUME day \in Mondays
      PROVE  \E week \in (Start + 6) \div 7 .. End \div 7 : day = 7 * week + 0
  BY <1>1, <1>2, <1>4, <1>5
<1>6. ASSUME NEW week \in (Start + 6) \div 7 .. End \div 7, day = 7 * week + 0
      PROVE  day \in Mondays
  BY <1>1, <1>3, <1>4, <1>6
<1> QED BY <1>5, <1>6

\* An activity of a routine is done on the routine's dates, and on Mondays, in
\* the one link of the persona.
LEMMA UsesOfRoutineAre ==
  ASSUME HistoryInv, NEW routine \in ToSet(RoutinesOf(user)), NEW a \in DOMAIN routine.activities,
         NEW e \in ToSet(events), e.action = routine.activities[a]
  PROVE  /\ DayOf(e.time) \in DatesForCadence(routine.cadence) \union Mondays
         /\ \/ e.corr = <<>>
            \/ \E link \in ToSet(LinksOf(user)) : e.corr = <<link.name, DayOf(e.time)>>
<1>1. user \in Users /\ (OfRoutine(e) \/ OfLink(e))
  BY DEF HistoryInv, ProgressIsMade, EventsHaveOrigins
<1>2. CASE OfRoutine(e)
  <2>1. PICK job \in ExpandedRoutines :
          /\ job.of \in ToSet(RoutinesOf(user)) /\ job.day \in DatesForCadence(job.of.cadence)
          /\ DayOf(e.time) = job.day /\ e.corr = <<>>
          /\ \E b \in DOMAIN job.of.activities : e.action = job.of.activities[b]
    BY <1>1, <1>2, RoutineOfEvent
  <2>2. PICK b \in DOMAIN job.of.activities : e.action = job.of.activities[b]
    BY <2>1
  <2>3. job.of.activities[b] = routine.activities[a]
    BY <2>2
  <2>4. \A q, r \in ToSet(RoutinesOf(user)) :
          \A c \in DOMAIN q.activities, d \in DOMAIN r.activities :
            q.activities[c] = r.activities[d] => q = r /\ c = d
    BY <1>1, JobsAreApart
  <2>5. job.of = routine
    BY <2>1, <2>2, <2>3, <2>4, Zenon
  <2> QED BY <2>1, <2>5
<1>3. CASE OfLink(e)
  <2>1. PICK job \in ExpandedLinks :
          /\ job.of \in ToSet(LinksOf(user)) /\ IsLink(job.of)
          /\ job.day \in DatesForCadence(job.of.cadence)
          /\ DayOf(e.time) = job.day /\ e.corr = <<job.of.name, job.day>>
    BY <1>1, <1>3, LinkOfEvent
  <2>2. DatesForCadence(job.of.cadence) = Mondays
    BY <2>1 DEF IsLink, DatesForCadence
  <2> QED BY <2>1, <2>2
<1> QED BY <1>1, <1>2, <1>3

\* What is done once in every week is done on each Monday, at most twice.
LEMMA WeeklyRoutinesAreDone ==
  ASSUME HistoryInv, Complete, NEW tie \in BOOLEAN,
         NEW routine \in ToSet(RoutinesOf(user)), routine.cadence = "weekly",
         routine.occurrences = Once, NEW a \in DOMAIN routine.activities,
         NEW history, history = HistorySince(Start * Day, tie)
  PROVE  DoneWeekly(history, UsesOf(routine, a, history), 0, (Start + 6) \div 7, End \div 7)
<1> DEFINE uses   == UsesOf(routine, a, history)
           first  == (Start + 6) \div 7
           last   == End \div 7
           day(i) == DayOf(history[i].time)
<1>1. ToSet(history) = ToSet(events) /\ PickedFrom(history, events)
  BY ProfilesAreComplete
<1>2. uses = {i \in DOMAIN history : /\ history[i].app = routine.module
                                     /\ history[i].action = routine.activities[a]}
  BY DEF UsesOf, Uses
<1>3. \A d : d \in Mondays <=> \E week \in first .. last : d = 7 * week + 0
  BY MondaysAre
<1> HIDE DEF uses, first, last
<1>4. DatesForCadence(routine.cadence) = Mondays
  BY DEF DatesForCadence
<1>5. ASSUME NEW i \in uses
      PROVE  /\ day(i) \in Mondays
             /\ \/ history[i].corr = <<>>
                \/ \E link \in ToSet(LinksOf(user)) : history[i].corr = <<link.name, day(i)>>
  <2>1. history[i] \in ToSet(events) /\ history[i].action = routine.activities[a]
    BY <1>1, <1>2 DEF ToSet
  <2> QED BY <2>1, <1>4, UsesOfRoutineAre
<1>6. ASSUME NEW i \in uses PROVE \E week \in first .. last : day(i) = 7 * week + 0
  BY <1>3, <1>5
<1>7. ASSUME NEW week \in first .. last PROVE \E i \in uses : day(i) = 7 * week + 0
  <2>1. 7 * week + 0 \in DatesForCadence(routine.cadence)
    BY <1>3, <1>4
  <2>2. PICK e \in ToSet(events) : /\ e.app = routine.module /\ e.action = routine.activities[a]
                                   /\ DayOf(e.time) = 7 * week + 0
    BY <2>1, RoutineIsDone DEF DoneOn
  <2>3. PICK i \in DOMAIN history : history[i] = e
    BY <1>1 DEF ToSet
  <2> QED BY <1>2, <2>2, <2>3
<1>8. ASSUME NEW i \in uses, NEW j \in uses, day(i) = day(j), history[i].corr = history[j].corr
      PROVE  i = j
  <2>1. PICK place \in [DOMAIN history -> DOMAIN events] :
          /\ \A k, l \in DOMAIN history : place[k] = place[l] => k = l
          /\ \A k \in DOMAIN history : history[k] = events[place[k]]
    BY <1>1 DEF PickedFrom
  <2>2. /\ i \in DOMAIN history /\ j \in DOMAIN history
        /\ history[i] = events[place[i]] /\ history[j] = events[place[j]]
    BY <1>2, <2>1
  <2>3. SameUse(history[i], history[j])
    BY <1>2, <1>8 DEF SameUse
  <2>4. DoneOnce(history[i])
    BY <1>2 DEF DoneOnce
  <2>5. place[i] = place[j]
    BY <2>1, <2>2, <2>3, <2>4 DEF HistoryInv, NothingIsRepeated
  <2> QED BY <2>1, <2>2, <2>5
<1>9. ASSUME NEW i \in uses, NEW j \in uses, day(i) = day(j),
             history[i].corr # <<>>, history[j].corr # <<>>
      PROVE  i = j
  <2>1. PICK l \in ToSet(LinksOf(user)) : history[i].corr = <<l.name, day(i)>>
    BY <1>5, <1>9
  <2>2. PICK m \in ToSet(LinksOf(user)) : history[j].corr = <<m.name, day(j)>>
    BY <1>5, <1>9
  <2>3. l = m
    <3>1. user \in Users
      BY DEF HistoryInv, ProgressIsMade
    <3> QED BY <3>1, JobsAreApart
  <2>4. history[i].corr = history[j].corr
    BY <2>1, <2>2, <2>3, <1>9
  <2> QED BY <1>8, <1>9, <2>4
<1> HIDE DEF day
<1>10. ASSUME NEW week \in first .. last, NEW i \in uses, NEW j \in uses, NEW k \in uses,
              day(i) = 7 * week + 0, day(j) = 7 * week + 0, day(k) = 7 * week + 0
       PROVE  i = j \/ j = k \/ i = k
  BY <1>8, <1>9, <1>10
<1>11. /\ \A i \in uses : \E week \in first .. last : day(i) = 7 * week + 0
       /\ \A week \in first .. last : \E i \in uses : day(i) = 7 * week + 0
  BY <1>6, <1>7
<1> QED BY <1>10, <1>11 DEF DoneWeekly, uses, first, last, day

\* What is done on each workday is called daily.
LEMMA WeekdaysAreCalledDaily ==
  ASSUME HistoryInv, End - Start + 1 >= 63
  PROVE  WeekdayRoutinesAreDaily
<1> SUFFICES ASSUME Complete, NEW tie \in BOOLEAN,
                    NEW routine \in ToSet(RoutinesOf(user)), routine.cadence = "weekday",
                    NEW a \in DOMAIN routine.activities,
                    NEW history, history = HistorySince(Start * Day, tie)
             PROVE  /\ DoneOnWorkdays(history, UsesOf(routine, a, history), Start, End)
                    /\ FrequencyOf(routine, a, history) = "daily"
  BY DEF WeekdayRoutinesAreDaily, ProfileHistories
<1>1. Start \in Int /\ End \in Int /\ Start * Day \in Int
  BY WindowAssumption DEF Day
<1>2. history \in TimedHistories(ToSet(events))
  BY <1>1, HistoriesAreTimed
<1>3. DoneOnWorkdays(history, UsesOf(routine, a, history), Start, End)
  BY WeekdayRoutinesAreDone
<1>4. FrequencyOf(routine, a, history) = "daily"
  BY <1>1, <1>2, <1>3, WorkdaysAreDaily DEF UsesOf, FrequencyOf
<1> QED BY <1>3, <1>4

\* What is done once a week is called weekly.
LEMMA WeeksAreCalledWeekly ==
  ASSUME HistoryInv, End - Start + 1 >= 63
  PROVE  WeeklyRoutinesAreWeekly
<1> SUFFICES ASSUME Complete, NEW tie \in BOOLEAN,
                    NEW routine \in ToSet(RoutinesOf(user)), routine.cadence = "weekly",
                    routine.occurrences = Once, NEW a \in DOMAIN routine.activities,
                    NEW history, history = HistorySince(Start * Day, tie)
             PROVE  /\ DoneWeekly(history, UsesOf(routine, a, history), 0,
                                  (Start + 6) \div 7, End \div 7)
                    /\ FrequencyOf(routine, a, history) = "weekly"
  BY DEF WeeklyRoutinesAreWeekly, ProfileHistories
<1> DEFINE first == (Start + 6) \div 7
           last  == End \div 7
<1>1. Start \in Int /\ End \in Int /\ Start * Day \in Int
  BY WindowAssumption DEF Day
<1>2. history \in TimedHistories(ToSet(events))
  BY <1>1, HistoriesAreTimed
<1>3. first \in Int /\ last \in Int /\ first < last /\ 0 \in Int
  BY <1>1
<1>4. DoneWeekly(history, UsesOf(routine, a, history), 0, first, last)
  BY WeeklyRoutinesAreDone
<1> HIDE DEF first, last
<1>5. FrequencyOf(routine, a, history) = "weekly"
  BY <1>2, <1>3, <1>4, OneDayAWeekIsWeekly DEF UsesOf, FrequencyOf
<1> QED BY <1>4, <1>5 DEF first, last

\* What a persona does on every workday is called daily in its profile, and what
\* it does once in every week weekly, in every window of at least nine weeks,
\* whatever else the persona does, in routines or links, and however the random
\* hours, steps and occurrences fall (_dates_for_cadence, _emit_routine,
\* _emit_cross_app, classify_frequency).
THEOREM GeneratedCadencesAreRecovered ==
  ASSUME End - Start + 1 >= 63
  PROVE  HistorySpec => []CadenceIsRecovered
<1>1. HistoryInv => CadenceIsRecovered
  BY WeekdaysAreCalledDaily, WeeksAreCalledWeekly DEF CadenceIsRecovered
<1> QED BY <1>1, HistoryIsGenerated, PTL

-----------------------------------------------------------------------------
(***************************************************************************)
(* The links of the companies stand out of what their personas do.         *)
(***************************************************************************)

\* Between which minutes of a day a routine is done, and a link.
RoutineBegins(r) == r.hour * 60 + r.minute - r.jitter
RoutineEnds(r) == r.hour * 60 + r.minute + r.jitter + 12 * (Len(r.activities) - 1)
LinkBegins(l) == l.hour * 60 + l.minute - l.jitter
LinkEnds(l) == l.hour * 60 + l.minute + l.jitter + l.gap[2]

\* Routines of two modules are too far from each other to be a sequence.
RoutinesAreFar(q, r) ==
  \/ RoutineEnds(q) + SequenceGapMinutes < RoutineBegins(r)
  \/ RoutineEnds(r) + SequenceGapMinutes < RoutineBegins(q)

\* And a routine is too far from a link, or ends before it.
LinkIsFar(l, r) ==
  \/ RoutineEnds(r) + SequenceGapMinutes < LinkBegins(l)
  \/ LinkEnds(l) + SequenceGapMinutes < RoutineBegins(r)

\* A link stands out of routines that do not have its first step: what happens
\* shortly before it is one of two activities.
LinkStandsOut(l, S) ==
  /\ \A r \in S : \A a \in DOMAIN r.activities : r.activities[a] # l.first[2]
  /\ \A q, r \in S : q.module # r.module => RoutinesAreFar(q, r)
  /\ \E x, y : \A r \in S :
       \/ LinkIsFar(l, r)
       \/ /\ RoutineEnds(r) < LinkBegins(l)
          /\ \A a \in DOMAIN r.activities : <<r.module, r.activities[a]>> \in {x, y}

\* When the shops' routines are done.
OfShop(r) == r.minute = 0 /\ r.jitter = 25

\* In which modules a persona is busy, and at which hours; an action is not
\* among what it does.
BusyAt(s, persona, slots, action) ==
  \A i \in DOMAIN s : persona \in s[i].personas =>
    /\ <<s[i].module, s[i].hour>> \in slots /\ OfShop(s[i])
    /\ \A a \in DOMAIN s[i].activities : s[i].activities[a] # action

\* The links of the shops are in the evening.
InTheEvening(l) == l.hour \in 18 .. 19 /\ l.minute = 0 /\ l.jitter = 8

\* What is done in two modules is two hours apart.
SlotsApart(slots) ==
  \A a, b \in slots : a[1] # b[1] => a[2] + 2 <= b[2] \/ b[2] + 2 <= a[2]

\* When shop routines are done.
LEMMA ShopRoutineTimes ==
  ASSUME NEW r, IsRoutine(r), OfShop(r)
  PROVE  /\ RoutineBegins(r) = r.hour * 60 - 25 /\ r.hour \in 8 .. 16
         /\ RoutineEnds(r) \in r.hour * 60 + 25 .. r.hour * 60 + 49
<1> DEFINE h == r.hour
           n == Len(r.activities)
<1>1. h \in 8 .. 16 /\ n \in 1 .. 3
  BY DEF IsRoutine
<1>2. RoutineBegins(r) = h * 60 + 0 - 25 /\ RoutineEnds(r) = h * 60 + 0 + 25 + 12 * (n - 1)
  BY DEF RoutineBegins, RoutineEnds, OfShop
<1> HIDE DEF h, n
<1>3. h * 60 \in Int /\ n \in Int
  BY <1>1
<1> QED BY <1>1, <1>2, <1>3 DEF h

\* The link of a persona of a shop stands out, if what the persona does in two
\* modules is two hours apart.
LEMMA ShopLinkStandsOut ==
  ASSUME NEW l, InTheEvening(l), NEW slots, SlotsApart(slots), NEW S,
         \A r \in S : /\ IsRoutine(r) /\ OfShop(r) /\ <<r.module, r.hour>> \in slots
                      /\ \A a \in DOMAIN r.activities : r.activities[a] # l.first[2]
  PROVE  LinkStandsOut(l, S)
<1>1. LinkBegins(l) >= 1072
  BY DEF InTheEvening, LinkBegins
<1>2. ASSUME NEW q \in S, NEW r \in S, q.module # r.module
      PROVE  RoutinesAreFar(q, r)
  <2> DEFINE g == q.hour
             h == r.hour
  <2>1. /\ RoutineBegins(q) = g * 60 - 25 /\ RoutineEnds(q) \in g * 60 + 25 .. g * 60 + 49
        /\ RoutineBegins(r) = h * 60 - 25 /\ RoutineEnds(r) \in h * 60 + 25 .. h * 60 + 49
        /\ g \in 8 .. 16 /\ h \in 8 .. 16
    BY ShopRoutineTimes
  <2>2. PICK a \in slots : a = <<q.module, q.hour>>
    OBVIOUS
  <2>3. PICK b \in slots : b = <<r.module, r.hour>>
    OBVIOUS
  <2>4. g + 2 <= h \/ h + 2 <= g
    <3>1. a[1] # b[1] /\ a[2] = g /\ b[2] = h
      BY <1>2, <2>2, <2>3
    <3> QED BY <3>1 DEF SlotsApart
  <2> HIDE DEF g, h
  <2> QED BY <2>1, <2>4 DEF RoutinesAreFar, SequenceGapMinutes
<1>3. ASSUME NEW r \in S PROVE LinkIsFar(l, r)
  <2> DEFINE h == r.hour
  <2>1. RoutineEnds(r) \in h * 60 + 25 .. h * 60 + 49 /\ h \in 8 .. 16
    BY ShopRoutineTimes
  <2> HIDE DEF h
  <2>2. RoutineEnds(r) \in Int /\ RoutineEnds(r) <= 1009
    BY <2>1
  <2>3. LinkBegins(l) \in Int
    BY DEF InTheEvening, LinkBegins
  <2> QED BY <1>1, <2>2, <2>3 DEF LinkIsFar, SequenceGapMinutes
<1> QED BY <1>2, <1>3 DEF LinkStandsOut

\* So does the link of a persona that is busy in two lists of routines.
LEMMA BusyLinkStandsOut ==
  ASSUME NEW s, AreRoutines(s), NEW t, AreRoutines(t), NEW l, InTheEvening(l),
         NEW slots, SlotsApart(slots),
         BusyAt(s, l.persona, slots, l.first[2]), BusyAt(t, l.persona, slots, l.first[2]),
         NEW S, \A r \in S : (r \in ToSet(s) \/ r \in ToSet(t)) /\ l.persona \in r.personas
  PROVE  LinkStandsOut(l, S)
<1>1. ASSUME NEW r \in S
      PROVE  /\ IsRoutine(r) /\ OfShop(r) /\ <<r.module, r.hour>> \in slots
             /\ \A a \in DOMAIN r.activities : r.activities[a] # l.first[2]
  <2>1. CASE r \in ToSet(s)
    <3>1. PICK i \in DOMAIN s : r = s[i]
      BY <2>1 DEF ToSet
    <3> QED BY <2>1, <3>1 DEF AreRoutines, BusyAt
  <2>2. CASE r \in ToSet(t)
    <3>1. PICK i \in DOMAIN t : r = t[i]
      BY <2>2 DEF ToSet
    <3> QED BY <2>2, <3>1 DEF AreRoutines, BusyAt
  <2> QED BY <2>1, <2>2
<1> QED BY <1>1, ShopLinkStandsOut

\* What personas with a link do in SuccessFactors.
LEMMA SapPeopleBusy ==
  /\ BusyAt(SapPeopleRoutines, "EXP_SUBMITTER", {<<"sap_concur_expense", 16>>},
            "create_travel_request")
  /\ BusyAt(SapPeopleRoutines, "PROCUREMENT_SPEC", {<<"sap_s4hana_mm", 10>>},
            "release_requisition")
  /\ BusyAt(SapPeopleRoutines, "RECRUITER", {<<"sap_successfactors_rcm", 10>>},
            "mark_candidate_hired")
  /\ BusyAt(SapPeopleRoutines, "AP_PROCESSOR", {<<"sap_concur_invoice", 13>>},
            "post_vendor_invoice")
<1> DEFINE s == SapPeopleRoutines
<1>1. DOMAIN s = 1 .. 11
  BY DEF SapPeopleRoutines
<1>2. /\ s[1].personas = {"HR_SPECIALIST"}
      /\ s[2].personas = {"EMPLOYEE"}
      /\ s[3].personas = {"PEOPLE_MANAGER"}
      /\ s[4].personas = {"RECRUITER"}
      /\ s[5].personas = {"HIRING_MANAGER"}
      /\ s[6].personas = {"EMPLOYEE", "PEOPLE_MANAGER"}
      /\ s[7].personas = {"LEARNING_ADMIN"}
      /\ s[8].personas = {"PEOPLE_MANAGER"}
      /\ s[9].personas = {"EMPLOYEE"}
      /\ s[10].personas = {"COMP_ANALYST"}
      /\ s[11].personas = {"HR_ANALYST"}
  BY DEF SapPeopleRoutines, Routine
<1>3. /\ s[4].module = "sap_successfactors_rcm" /\ s[4].hour = 10 /\ OfShop(s[4])
      /\ s[4].activities = <<"screen_candidate", "advance_candidate_stage">>
  BY DEF SapPeopleRoutines, Routine, OfShop
<1> HIDE DEF s
<1>4. BusyAt(s, "EXP_SUBMITTER", {<<"sap_concur_expense", 16>>},
             "create_travel_request")
  <2>1. \A i \in 1 .. 11 : "EXP_SUBMITTER" \in s[i].personas => FALSE
    BY <1>2
  <2> QED BY <1>1, <2>1 DEF BusyAt
<1>5. BusyAt(s, "PROCUREMENT_SPEC", {<<"sap_s4hana_mm", 10>>},
             "release_requisition")
  <2>1. \A i \in 1 .. 11 : "PROCUREMENT_SPEC" \in s[i].personas => FALSE
    BY <1>2
  <2> QED BY <1>1, <2>1 DEF BusyAt
<1>6. BusyAt(s, "RECRUITER", {<<"sap_successfactors_rcm", 10>>},
             "mark_candidate_hired")
  <2>1. \A i \in 1 .. 11 : "RECRUITER" \in s[i].personas => i = 4
    BY <1>2
  <2> QED BY <1>1, <1>3, <2>1 DEF BusyAt
<1>7. BusyAt(s, "AP_PROCESSOR", {<<"sap_concur_invoice", 13>>},
             "post_vendor_invoice")
  <2>1. \A i \in 1 .. 11 : "AP_PROCESSOR" \in s[i].personas => FALSE
    BY <1>2
  <2> QED BY <1>1, <2>1 DEF BusyAt
<1> QED BY <1>4, <1>5, <1>6, <1>7 DEF s

\* What personas with a link do in S/4HANA, Ariba and Concur.
LEMMA SapBusinessBusy ==
  /\ BusyAt(SapBusinessRoutines, "EXP_SUBMITTER", {<<"sap_concur_expense", 16>>},
            "create_travel_request")
  /\ BusyAt(SapBusinessRoutines, "PROCUREMENT_SPEC", {<<"sap_s4hana_mm", 10>>},
            "release_requisition")
  /\ BusyAt(SapBusinessRoutines, "RECRUITER", {<<"sap_successfactors_rcm", 10>>},
            "mark_candidate_hired")
  /\ BusyAt(SapBusinessRoutines, "AP_PROCESSOR", {<<"sap_concur_invoice", 13>>},
            "post_vendor_invoice")
<1> DEFINE s == SapBusinessRoutines
<1>1. DOMAIN s = 1 .. 12
  BY DEF SapBusinessRoutines
<1>2. /\ s[1].personas = {"FIN_ACCOUNTANT"}
      /\ s[2].personas = {"FIN_ACCOUNTANT", "AP_CLERK"}
      /\ s[3].personas = {"PROCUREMENT_SPEC"}
      /\ s[4].personas = {"ORDER_PROCESSOR"}
      /\ s[5].personas = {"SOURCING_MANAGER"}
      /\ s[6].personas = {"BUYER"}
      /\ s[7].personas = {"CATEGORY_MANAGER"}
      /\ s[8].personas = {"EXP_SUBMITTER"}
      /\ s[9].personas = {"EXP_APPROVER"}
      /\ s[10].personas = {"FIN_AUDITOR"}
      /\ s[11].personas = {"TRAVEL_ARRANGER"}
      /\ s[12].personas = {"AP_PROCESSOR"}
  BY DEF SapBusinessRoutines, Routine
<1>3. /\ s[3].module = "sap_s4hana_mm" /\ s[3].hour = 10 /\ OfShop(s[3])
      /\ s[3].activities = <<"create_purchase_order", "post_goods_receipt">>
      /\ s[8].module = "sap_concur_expense" /\ s[8].hour = 16 /\ OfShop(s[8])
      /\ s[8].activities = <<"create_expense_report", "submit_expense_report">>
      /\ s[12].module = "sap_concur_invoice" /\ s[12].hour = 13 /\ OfShop(s[12])
      /\ s[12].activities = <<"process_vendor_invoice", "match_invoice_po">>
  BY DEF SapBusinessRoutines, Routine, OfShop
<1> HIDE DEF s
<1>4. BusyAt(s, "EXP_SUBMITTER", {<<"sap_concur_expense", 16>>},
             "create_travel_request")
  <2>1. \A i \in 1 .. 12 : "EXP_SUBMITTER" \in s[i].personas => i = 8
    BY <1>2
  <2> QED BY <1>1, <1>3, <2>1 DEF BusyAt
<1>5. BusyAt(s, "PROCUREMENT_SPEC", {<<"sap_s4hana_mm", 10>>},
             "release_requisition")
  <2>1. \A i \in 1 .. 12 : "PROCUREMENT_SPEC" \in s[i].personas => i = 3
    BY <1>2
  <2> QED BY <1>1, <1>3, <2>1 DEF BusyAt
<1>6. BusyAt(s, "RECRUITER", {<<"sap_successfactors_rcm", 10>>},
             "mark_candidate_hired")
  <2>1. \A i \in 1 .. 12 : "RECRUITER" \in s[i].personas => FALSE
    BY <1>2
  <2> QED BY <1>1, <2>1 DEF BusyAt
<1>7. BusyAt(s, "AP_PROCESSOR", {<<"sap_concur_invoice", 13>>},
             "post_vendor_invoice")
  <2>1. \A i \in 1 .. 12 : "AP_PROCESSOR" \in s[i].personas => i = 12
    BY <1>2
  <2> QED BY <1>1, <1>3, <2>1 DEF BusyAt
<1> QED BY <1>4, <1>5, <1>6, <1>7 DEF s

\* What personas with a link do in Salesforce.
LEMMA SalesforceBusy ==
  /\ BusyAt(SalesforceRoutines, "AE_ONE", {<<"sfdc_sales_opportunities", 9>>},
            "convert_lead")
  /\ BusyAt(SalesforceRoutines, "AE_TWO", {<<"sfdc_sales_opportunities", 9>>},
            "move_to_proposal")
  /\ BusyAt(SalesforceRoutines, "SUPPORT_LEAD", {<<"sfdc_service_omni", 9>>},
            "escalate_case")
  /\ BusyAt(SalesforceRoutines, "SALES_MANAGER", {<<"sfdc_sales_forecasting", 16>>},
            "review_opportunity")
<1> DEFINE s == SalesforceRoutines
<1>1. DOMAIN s = 1 .. 13
  BY DEF SalesforceRoutines
<1>2. /\ s[1].personas = {"SDR"}
      /\ s[2].personas = {"AE_ONE", "AE_TWO"}
      /\ s[3].personas = {"SALES_MANAGER"}
      /\ s[4].personas = {"SALES_OPS"}
      /\ s[5].personas = {"SUPPORT_AGENT_ONE", "SUPPORT_AGENT_TWO"}
      /\ s[6].personas = {"KNOWLEDGE_MANAGER"}
      /\ s[7].personas = {"SUPPORT_LEAD"}
      /\ s[8].personas = {"MKT_SPECIALIST"}
      /\ s[9].personas = {"CAMPAIGN_MANAGER"}
      /\ s[10].personas = {"DEAL_DESK_ANALYST", "SALES_ENGINEER"}
      /\ s[11].personas = {"DEAL_DESK_MANAGER"}
      /\ s[12].personas = {"PARTNER_USER"}
      /\ s[13].personas = {"COMMUNITY_CUSTOMER"}
  BY DEF SalesforceRoutines, Routine
<1>3. /\ s[2].module = "sfdc_sales_opportunities" /\ s[2].hour = 9 /\ OfShop(s[2])
      /\ s[2].activities = <<"view_opportunity", "update_stage", "log_activity">>
      /\ s[3].module = "sfdc_sales_forecasting" /\ s[3].hour = 16 /\ OfShop(s[3])
      /\ s[3].activities = <<"submit_forecast">>
      /\ s[7].module = "sfdc_service_omni" /\ s[7].hour = 9 /\ OfShop(s[7])
      /\ s[7].activities = <<"route_work_item">>
  BY DEF SalesforceRoutines, Routine, OfShop
<1> HIDE DEF s
<1>4. BusyAt(s, "AE_ONE", {<<"sfdc_sales_opportunities", 9>>},
             "convert_lead")
  <2>1. \A i \in 1 .. 13 : "AE_ONE" \in s[i].personas => i = 2
    BY <1>2
  <2> QED BY <1>1, <1>3, <2>1 DEF BusyAt
<1>5. BusyAt(s, "AE_TWO", {<<"sfdc_sales_opportunities", 9>>},
             "move_to_proposal")
  <2>1. \A i \in 1 .. 13 : "AE_TWO" \in s[i].personas => i = 2
    BY <1>2
  <2> QED BY <1>1, <1>3, <2>1 DEF BusyAt
<1>6. BusyAt(s, "SUPPORT_LEAD", {<<"sfdc_service_omni", 9>>},
             "escalate_case")
  <2>1. \A i \in 1 .. 13 : "SUPPORT_LEAD" \in s[i].personas => i = 7
    BY <1>2
  <2> QED BY <1>1, <1>3, <2>1 DEF BusyAt
<1>7. BusyAt(s, "SALES_MANAGER", {<<"sfdc_sales_forecasting", 16>>},
             "review_opportunity")
  <2>1. \A i \in 1 .. 13 : "SALES_MANAGER" \in s[i].personas => i = 3
    BY <1>2
  <2> QED BY <1>1, <1>3, <2>1 DEF BusyAt
<1> QED BY <1>4, <1>5, <1>6, <1>7 DEF s

\* What personas with a link do in Fusion HCM and ERP.
LEMMA OraclePeopleAndFinanceBusy ==
  /\ BusyAt(OraclePeopleAndFinanceRoutines, "AR_ANALYST", {<<"oracle_erp_ar", 11>>},
            "invoice_customer")
  /\ BusyAt(OraclePeopleAndFinanceRoutines, "GL_ACCOUNTANT", {<<"oracle_erp_gl", 9>>, <<"oracle_erp_gl", 12>>},
            "finalize_period_journal")
  /\ BusyAt(OraclePeopleAndFinanceRoutines, "PEOPLE_MANAGER", {<<"oracle_hcm_talent", 15>>, <<"oracle_hcm_absence", 9>>},
            "close_absence_case")
  /\ BusyAt(OraclePeopleAndFinanceRoutines, "SALES_REP", {<<"oracle_cx_sales", 9>>},
            "win_opportunity")
<1> DEFINE s == OraclePeopleAndFinanceRoutines
<1>1. DOMAIN s = 1 .. 11
  BY DEF OraclePeopleAndFinanceRoutines
<1>2. /\ s[1].personas = {"HR_SPECIALIST"}
      /\ s[2].personas = {"PAYROLL_MANAGER"}
      /\ s[3].personas = {"PEOPLE_MANAGER"}
      /\ s[4].personas = {"EMPLOYEE"}
      /\ s[5].personas = {"PEOPLE_MANAGER"}
      /\ s[6].personas = {"ORC_RECRUITER"}
      /\ s[7].personas = {"GL_ACCOUNTANT"}
      /\ s[8].personas = {"GL_ACCOUNTANT", "CONTROLLER"}
      /\ s[9].personas = {"AP_SPECIALIST"}
      /\ s[10].personas = {"AR_ANALYST"}
      /\ s[11].personas = {"EMPLOYEE"}
  BY DEF OraclePeopleAndFinanceRoutines, Routine
<1>3. /\ s[3].module = "oracle_hcm_talent" /\ s[3].hour = 15 /\ OfShop(s[3])
      /\ s[3].activities = <<"complete_check_in", "create_performance_goal">>
      /\ s[5].module = "oracle_hcm_absence" /\ s[5].hour = 9 /\ OfShop(s[5])
      /\ s[5].activities = <<"approve_absence">>
      /\ s[7].module = "oracle_erp_gl" /\ s[7].hour = 9 /\ OfShop(s[7])
      /\ s[7].activities = <<"create_journal", "post_journal">>
      /\ s[8].module = "oracle_erp_gl" /\ s[8].hour = 12 /\ OfShop(s[8])
      /\ s[8].activities = <<"close_period">>
      /\ s[10].module = "oracle_erp_ar" /\ s[10].hour = 11 /\ OfShop(s[10])
      /\ s[10].activities = <<"create_receipt", "apply_receipt">>
  BY DEF OraclePeopleAndFinanceRoutines, Routine, OfShop
<1> HIDE DEF s
<1>4. BusyAt(s, "AR_ANALYST", {<<"oracle_erp_ar", 11>>},
             "invoice_customer")
  <2>1. \A i \in 1 .. 11 : "AR_ANALYST" \in s[i].personas => i = 10
    BY <1>2
  <2> QED BY <1>1, <1>3, <2>1 DEF BusyAt
<1>5. BusyAt(s, "GL_ACCOUNTANT", {<<"oracle_erp_gl", 9>>, <<"oracle_erp_gl", 12>>},
             "finalize_period_journal")
  <2>1. \A i \in 1 .. 11 : "GL_ACCOUNTANT" \in s[i].personas => i = 7 \/ i = 8
    BY <1>2
  <2> QED BY <1>1, <1>3, <2>1 DEF BusyAt
<1>6. BusyAt(s, "PEOPLE_MANAGER", {<<"oracle_hcm_talent", 15>>, <<"oracle_hcm_absence", 9>>},
             "close_absence_case")
  <2>1. \A i \in 1 .. 11 : "PEOPLE_MANAGER" \in s[i].personas => i = 3 \/ i = 5
    BY <1>2
  <2> QED BY <1>1, <1>3, <2>1 DEF BusyAt
<1>7. BusyAt(s, "SALES_REP", {<<"oracle_cx_sales", 9>>},
             "win_opportunity")
  <2>1. \A i \in 1 .. 11 : "SALES_REP" \in s[i].personas => FALSE
    BY <1>2
  <2> QED BY <1>1, <2>1 DEF BusyAt
<1> QED BY <1>4, <1>5, <1>6, <1>7 DEF s

\* What personas with a link do in Fusion SCM, CX and NetSuite.
LEMMA OracleSupplyAndSalesBusy ==
  /\ BusyAt(OracleSupplyAndSalesRoutines, "AR_ANALYST", {<<"oracle_erp_ar", 11>>},
            "invoice_customer")
  /\ BusyAt(OracleSupplyAndSalesRoutines, "GL_ACCOUNTANT", {<<"oracle_erp_gl", 9>>, <<"oracle_erp_gl", 12>>},
            "finalize_period_journal")
  /\ BusyAt(OracleSupplyAndSalesRoutines, "PEOPLE_MANAGER", {<<"oracle_hcm_talent", 15>>, <<"oracle_hcm_absence", 9>>},
            "close_absence_case")
  /\ BusyAt(OracleSupplyAndSalesRoutines, "SALES_REP", {<<"oracle_cx_sales", 9>>},
            "win_opportunity")
<1> DEFINE s == OracleSupplyAndSalesRoutines
<1>1. DOMAIN s = 1 .. 7
  BY DEF OracleSupplyAndSalesRoutines
<1>2. /\ s[1].personas = {"BUYER"}
      /\ s[2].personas = {"WAREHOUSE_ANALYST"}
      /\ s[3].personas = {"ORDER_MANAGER"}
      /\ s[4].personas = {"SALES_REP"}
      /\ s[5].personas = {"SERVICE_AGENT"}
      /\ s[6].personas = {"CONTROLLER"}
      /\ s[7].personas = {"BILLING_SPECIALIST"}
  BY DEF OracleSupplyAndSalesRoutines, Routine
<1>3. /\ s[4].module = "oracle_cx_sales" /\ s[4].hour = 9 /\ OfShop(s[4])
      /\ s[4].activities = <<"update_opportunity", "create_lead">>
  BY DEF OracleSupplyAndSalesRoutines, Routine, OfShop
<1> HIDE DEF s
<1>4. BusyAt(s, "AR_ANALYST", {<<"oracle_erp_ar", 11>>},
             "invoice_customer")
  <2>1. \A i \in 1 .. 7 : "AR_ANALYST" \in s[i].personas => FALSE
    BY <1>2
  <2> QED BY <1>1, <2>1 DEF BusyAt
<1>5. BusyAt(s, "GL_ACCOUNTANT", {<<"oracle_erp_gl", 9>>, <<"oracle_erp_gl", 12>>},
             "finalize_period_journal")
  <2>1. \A i \in 1 .. 7 : "GL_ACCOUNTANT" \in s[i].personas => FALSE
    BY <1>2
  <2> QED BY <1>1, <2>1 DEF BusyAt
<1>6. BusyAt(s, "PEOPLE_MANAGER", {<<"oracle_hcm_talent", 15>>, <<"oracle_hcm_absence", 9>>},
             "close_absence_case")
  <2>1. \A i \in 1 .. 7 : "PEOPLE_MANAGER" \in s[i].personas => FALSE
    BY <1>2
  <2> QED BY <1>1, <2>1 DEF BusyAt
<1>7. BusyAt(s, "SALES_REP", {<<"oracle_cx_sales", 9>>},
             "win_opportunity")
  <2>1. \A i \in 1 .. 7 : "SALES_REP" \in s[i].personas => i = 4
    BY <1>2
  <2> QED BY <1>1, <1>3, <2>1 DEF BusyAt
<1> QED BY <1>4, <1>5, <1>6, <1>7 DEF s

\* The links of SAP stand out.
LEMMA SapLinksStandOut ==
  ASSUME NEW l \in ToSet(SapLinks), NEW S,
         \A r \in S : /\ (r \in ToSet(SapPeopleRoutines) \/ r \in ToSet(SapBusinessRoutines))
                      /\ l.persona \in r.personas
  PROVE  LinkStandsOut(l, S)
<1>1. PICK i \in 1 .. 4 : l = SapLinks[i]
  <2>1. DOMAIN SapLinks = 1 .. 4
    BY DEF SapLinks
  <2> QED BY <2>1 DEF ToSet
<1>2. \A k \in 1 .. 4 : InTheEvening(SapLinks[k])
  BY DEF SapLinks, CrossAppLink, InTheEvening
<1>3. CASE i = 1
  <2>1. l.persona = "EXP_SUBMITTER" /\ l.first[2] = "create_travel_request"
    BY <1>1, <1>3 DEF SapLinks, CrossAppLink
  <2>2. SlotsApart({<<"sap_concur_expense", 16>>})
    BY DEF SlotsApart
  <2> QED BY <1>1, <1>2, <2>1, <2>2, SapPeopleBusy, SapBusinessBusy, SapPeopleRoutinesAre, SapBusinessRoutinesAre, BusyLinkStandsOut
<1>4. CASE i = 2
  <2>1. l.persona = "PROCUREMENT_SPEC" /\ l.first[2] = "release_requisition"
    BY <1>1, <1>4 DEF SapLinks, CrossAppLink
  <2>2. SlotsApart({<<"sap_s4hana_mm", 10>>})
    BY DEF SlotsApart
  <2> QED BY <1>1, <1>2, <2>1, <2>2, SapPeopleBusy, SapBusinessBusy, SapPeopleRoutinesAre, SapBusinessRoutinesAre, BusyLinkStandsOut
<1>5. CASE i = 3
  <2>1. l.persona = "RECRUITER" /\ l.first[2] = "mark_candidate_hired"
    BY <1>1, <1>5 DEF SapLinks, CrossAppLink
  <2>2. SlotsApart({<<"sap_successfactors_rcm", 10>>})
    BY DEF SlotsApart
  <2> QED BY <1>1, <1>2, <2>1, <2>2, SapPeopleBusy, SapBusinessBusy, SapPeopleRoutinesAre, SapBusinessRoutinesAre, BusyLinkStandsOut
<1>6. CASE i = 4
  <2>1. l.persona = "AP_PROCESSOR" /\ l.first[2] = "post_vendor_invoice"
    BY <1>1, <1>6 DEF SapLinks, CrossAppLink
  <2>2. SlotsApart({<<"sap_concur_invoice", 13>>})
    BY DEF SlotsApart
  <2> QED BY <1>1, <1>2, <2>1, <2>2, SapPeopleBusy, SapBusinessBusy, SapPeopleRoutinesAre, SapBusinessRoutinesAre, BusyLinkStandsOut
<1> QED BY <1>1, <1>3, <1>4, <1>5, <1>6

\* The links of Salesforce stand out.
LEMMA SalesforceLinksStandOut ==
  ASSUME NEW l \in ToSet(SalesforceLinks), NEW S,
         \A r \in S : /\ r \in ToSet(SalesforceRoutines)
                      /\ l.persona \in r.personas
  PROVE  LinkStandsOut(l, S)
<1>1. PICK i \in 1 .. 4 : l = SalesforceLinks[i]
  <2>1. DOMAIN SalesforceLinks = 1 .. 4
    BY DEF SalesforceLinks
  <2> QED BY <2>1 DEF ToSet
<1>2. \A k \in 1 .. 4 : InTheEvening(SalesforceLinks[k])
  BY DEF SalesforceLinks, CrossAppLink, InTheEvening
<1>3. CASE i = 1
  <2>1. l.persona = "AE_ONE" /\ l.first[2] = "convert_lead"
    BY <1>1, <1>3 DEF SalesforceLinks, CrossAppLink
  <2>2. SlotsApart({<<"sfdc_sales_opportunities", 9>>})
    BY DEF SlotsApart
  <2> QED BY <1>1, <1>2, <2>1, <2>2, SalesforceBusy, SalesforceRoutinesAre, BusyLinkStandsOut
<1>4. CASE i = 2
  <2>1. l.persona = "AE_TWO" /\ l.first[2] = "move_to_proposal"
    BY <1>1, <1>4 DEF SalesforceLinks, CrossAppLink
  <2>2. SlotsApart({<<"sfdc_sales_opportunities", 9>>})
    BY DEF SlotsApart
  <2> QED BY <1>1, <1>2, <2>1, <2>2, SalesforceBusy, SalesforceRoutinesAre, BusyLinkStandsOut
<1>5. CASE i = 3
  <2>1. l.persona = "SUPPORT_LEAD" /\ l.first[2] = "escalate_case"
    BY <1>1, <1>5 DEF SalesforceLinks, CrossAppLink
  <2>2. SlotsApart({<<"sfdc_service_omni", 9>>})
    BY DEF SlotsApart
  <2> QED BY <1>1, <1>2, <2>1, <2>2, SalesforceBusy, SalesforceRoutinesAre, BusyLinkStandsOut
<1>6. CASE i = 4
  <2>1. l.persona = "SALES_MANAGER" /\ l.first[2] = "review_opportunity"
    BY <1>1, <1>6 DEF SalesforceLinks, CrossAppLink
  <2>2. SlotsApart({<<"sfdc_sales_forecasting", 16>>})
    BY DEF SlotsApart
  <2> QED BY <1>1, <1>2, <2>1, <2>2, SalesforceBusy, SalesforceRoutinesAre, BusyLinkStandsOut
<1> QED BY <1>1, <1>3, <1>4, <1>5, <1>6

\* The links of Oracle stand out.
LEMMA OracleLinksStandOut ==
  ASSUME NEW l \in ToSet(OracleLinks), NEW S,
         \A r \in S : /\ (r \in ToSet(OraclePeopleAndFinanceRoutines) \/ r \in ToSet(OracleSupplyAndSalesRoutines))
                      /\ l.persona \in r.personas
  PROVE  LinkStandsOut(l, S)
<1>1. PICK i \in 1 .. 4 : l = OracleLinks[i]
  <2>1. DOMAIN OracleLinks = 1 .. 4
    BY DEF OracleLinks
  <2> QED BY <2>1 DEF ToSet
<1>2. \A k \in 1 .. 4 : InTheEvening(OracleLinks[k])
  BY DEF OracleLinks, CrossAppLink, InTheEvening
<1>3. CASE i = 1
  <2>1. l.persona = "AR_ANALYST" /\ l.first[2] = "invoice_customer"
    BY <1>1, <1>3 DEF OracleLinks, CrossAppLink
  <2>2. SlotsApart({<<"oracle_erp_ar", 11>>})
    BY DEF SlotsApart
  <2> QED BY <1>1, <1>2, <2>1, <2>2, OraclePeopleAndFinanceBusy, OracleSupplyAndSalesBusy, OraclePeopleAndFinanceRoutinesAre, OracleSupplyAndSalesRoutinesAre, BusyLinkStandsOut
<1>4. CASE i = 2
  <2>1. l.persona = "GL_ACCOUNTANT" /\ l.first[2] = "finalize_period_journal"
    BY <1>1, <1>4 DEF OracleLinks, CrossAppLink
  <2>2. SlotsApart({<<"oracle_erp_gl", 9>>, <<"oracle_erp_gl", 12>>})
    BY DEF SlotsApart
  <2> QED BY <1>1, <1>2, <2>1, <2>2, OraclePeopleAndFinanceBusy, OracleSupplyAndSalesBusy, OraclePeopleAndFinanceRoutinesAre, OracleSupplyAndSalesRoutinesAre, BusyLinkStandsOut
<1>5. CASE i = 3
  <2>1. l.persona = "PEOPLE_MANAGER" /\ l.first[2] = "close_absence_case"
    BY <1>1, <1>5 DEF OracleLinks, CrossAppLink
  <2>2. SlotsApart({<<"oracle_hcm_talent", 15>>, <<"oracle_hcm_absence", 9>>})
    BY DEF SlotsApart
  <2> QED BY <1>1, <1>2, <2>1, <2>2, OraclePeopleAndFinanceBusy, OracleSupplyAndSalesBusy, OraclePeopleAndFinanceRoutinesAre, OracleSupplyAndSalesRoutinesAre, BusyLinkStandsOut
<1>6. CASE i = 4
  <2>1. l.persona = "SALES_REP" /\ l.first[2] = "win_opportunity"
    BY <1>1, <1>6 DEF OracleLinks, CrossAppLink
  <2>2. SlotsApart({<<"oracle_cx_sales", 9>>})
    BY DEF SlotsApart
  <2> QED BY <1>1, <1>2, <2>1, <2>2, OraclePeopleAndFinanceBusy, OracleSupplyAndSalesBusy, OraclePeopleAndFinanceRoutinesAre, OracleSupplyAndSalesRoutinesAre, BusyLinkStandsOut
<1> QED BY <1>1, <1>3, <1>4, <1>5, <1>6

\* The link of acme-corp stands out: a persona looks at the sprint board before
\* it, and submits expenses after it.
LEMMA AcmeLinkStandsOut ==
  ASSUME NEW l \in ToSet(AcmeCorp.cross_app), NEW S,
         \A r \in S : r \in ToSet(AcmeCorp.routines) /\ l.persona \in r.personas
  PROVE  LinkStandsOut(l, S)
<1> DEFINE q == AcmeSprintChecks
           r == AcmeExpenseSubmissions
           x == <<"jira", "view_sprint_board">>
           y == <<"jira", "update_issue_status">>
<1>1. l = AcmeLeaveToCapacity
  <2>1. AcmeCorp.cross_app = <<AcmeLeaveToCapacity>>
    BY DEF AcmeCorp
  <2> QED BY <2>1 DEF ToSet
<1>2. /\ l.persona = "ERIN" /\ l.first[2] = "approve_leave_request"
      /\ LinkBegins(l) = 585 /\ LinkEnds(l) = 655
  BY <1>1 DEF AcmeLeaveToCapacity, CrossAppLink, LinkBegins, LinkEnds
<1>3. /\ q.module = "jira" /\ q.activities = <<"view_sprint_board", "update_issue_status">>
      /\ RoutineBegins(q) = 515 /\ RoutineEnds(q) = 577
  BY DEF AcmeSprintChecks, Routine, RoutineBegins, RoutineEnds
<1>4. /\ r.module = "concur" /\ r.activities = <<"submit_expense_report">>
      /\ RoutineBegins(r) = 900 /\ RoutineEnds(r) = 1020
  BY DEF AcmeExpenseSubmissions, Routine, RoutineBegins, RoutineEnds
<1>5. \A s \in S : s = q \/ s = r
  <2>1. AcmeCorp.routines = <<AcmeSprintChecks, AcmeLeaveApprovals, AcmeExpenseSubmissions>>
    BY DEF AcmeCorp
  <2>2. "ERIN" \notin AcmeLeaveApprovals.personas
    BY DEF AcmeLeaveApprovals, Routine
  <2> QED BY <1>2, <2>1, <2>2 DEF ToSet
<1> HIDE DEF q, r
<1>6. \A s \in S : \A a \in DOMAIN s.activities : s.activities[a] # l.first[2]
  BY <1>2, <1>3, <1>4, <1>5
<1>7. RoutinesAreFar(q, r) /\ RoutinesAreFar(r, q)
  BY <1>3, <1>4 DEF RoutinesAreFar, SequenceGapMinutes
<1>8. \A s, t \in S : s.module # t.module => RoutinesAreFar(s, t)
  BY <1>5, <1>7
<1>9. \A a \in DOMAIN q.activities : <<q.module, q.activities[a]>> \in {x, y}
  BY <1>3
<1>10. RoutineEnds(q) < LinkBegins(l) /\ LinkIsFar(l, r)
  BY <1>2, <1>3, <1>4 DEF LinkIsFar, SequenceGapMinutes
<1> HIDE DEF x, y
<1>11. \A s \in S : \/ LinkIsFar(l, s)
                    \/ /\ RoutineEnds(s) < LinkBegins(l)
                       /\ \A a \in DOMAIN s.activities : <<s.module, s.activities[a]>> \in {x, y}
  BY <1>5, <1>9, <1>10
<1> QED BY <1>6, <1>8, <1>11 DEF LinkStandsOut

\* The link of a persona stands out of its routines.
LEMMA LinksStandOut ==
  ASSUME NEW u \in Users, NEW l \in ToSet(LinksOf(u))
  PROVE  LinkStandsOut(l, ToSet(RoutinesOf(u)))
<1> DEFINE c     == CompanyOf(u)
           mine  == {i \in DOMAIN c.routines : u[2] \in c.routines[i].personas}
           ours  == {i \in DOMAIN c.cross_app : c.cross_app[i].persona = u[2]}
           S     == ToSet(RoutinesOf(u))
<1>1. c \in Companies
  BY CompanyOfUser
<1>2. /\ RoutinesOf(u) = AtPlaces(c.routines, mine) /\ LinksOf(u) = AtPlaces(c.cross_app, ours)
      /\ mine \in SUBSET (DOMAIN c.routines) /\ ours \in SUBSET (DOMAIN c.cross_app)
  BY DEF RoutinesOf, LinksOf
<1>3. c.routines \in Seq(ToSet(c.routines)) /\ c.cross_app \in Seq(ToSet(c.cross_app))
  BY <1>1, CompaniesAre DEF AreRoutines, AreLinks
<1> HIDE DEF c
<1>4. l \in ToSet(c.cross_app) /\ l.persona = u[2]
  <2>1. \A k : k \in ours => k \in DOMAIN c.cross_app /\ c.cross_app[k].persona = u[2]
    OBVIOUS
  <2> HIDE DEF ours
  <2>2. PICK i \in ours : l = c.cross_app[i]
    BY <1>2, <1>3, AtPlacesIs
  <2> QED BY <2>1, <2>2 DEF ToSet
<1>5. ASSUME NEW r \in S
      PROVE  r \in ToSet(c.routines) /\ l.persona \in r.personas
  <2>1. \A k : k \in mine => k \in DOMAIN c.routines /\ u[2] \in c.routines[k].personas
    OBVIOUS
  <2> HIDE DEF mine
  <2>2. PICK i \in mine : r = c.routines[i]
    BY <1>2, <1>3, AtPlacesIs
  <2> QED BY <1>4, <2>1, <2>2 DEF ToSet
<1> HIDE DEF S
<1>6. ASSUME NEW s, NEW t, AreRoutines(s), AreRoutines(t), c.routines = s \o t
      PROVE  \A r \in S : (r \in ToSet(s) \/ r \in ToSet(t)) /\ l.persona \in r.personas
  <2> DEFINE T == ToSet(s) \union ToSet(t)
  <2>1. s \in Seq(T) /\ t \in Seq(T)
    BY <1>6 DEF AreRoutines
  <2> HIDE DEF T
  <2>2. \A r : r \in ToSet(s \o t) <=> r \in ToSet(s) \/ r \in ToSet(t)
    BY <2>1, InBothParts
  <2> QED BY <1>5, <1>6, <2>2
<1>7. CASE c = SapShop
  <2>1. c.routines = SapPeopleRoutines \o SapBusinessRoutines /\ c.cross_app = SapLinks
    BY <1>7 DEF SapShop
  <2> QED BY <1>4, <1>6, <2>1, SapPeopleRoutinesAre, SapBusinessRoutinesAre, SapLinksStandOut DEF S
<1>8. CASE c = SalesforceShop
  <2>1. c.routines = SalesforceRoutines /\ c.cross_app = SalesforceLinks
    BY <1>8 DEF SalesforceShop
  <2> QED BY <1>4, <1>5, <2>1, SalesforceLinksStandOut DEF S
<1>9. CASE c = OracleShop
  <2>1. /\ c.routines = OraclePeopleAndFinanceRoutines \o OracleSupplyAndSalesRoutines
        /\ c.cross_app = OracleLinks
    BY <1>9 DEF OracleShop
  <2> QED BY <1>4, <1>6, <2>1, OraclePeopleAndFinanceRoutinesAre, OracleSupplyAndSalesRoutinesAre,
             OracleLinksStandOut DEF S
<1>10. CASE c = AcmeCorp
  BY <1>4, <1>5, <1>10, AcmeLinkStandsOut DEF S
<1> QED BY <1>1, <1>7, <1>8, <1>9, <1>10 DEF Companies, Shops

-----------------------------------------------------------------------------
(***************************************************************************)
(* Links in the profile: what the history is like around one.              *)
(***************************************************************************)

MinuteOf(e) == e.time - DayOf(e.time) * Day

\* An event is of a routine.
IsUseOf(e, r) ==
  /\ e.app = r.module /\ e.corr = <<>>
  /\ \E a \in DOMAIN r.activities : e.action = r.activities[a]
  /\ MinuteOf(e) \in RoutineBegins(r) .. RoutineEnds(r)

\* Two events are those of a link on one day.
Linked(l, d, f) ==
  /\ d.app = l.first[1] /\ d.action = l.first[2] /\ f.app = l.then[1] /\ f.action = l.then[2]
  /\ d.corr = <<l.name, DayOf(d.time)>> /\ f.corr = d.corr /\ DayOf(f.time) = DayOf(d.time)
  /\ f.time - d.time \in l.gap[1] .. l.gap[2]
  /\ LinkBegins(l) <= MinuteOf(d) /\ MinuteOf(f) <= LinkEnds(l)

\* A history of routines and one link, each of whose occurrences is there once.
AroundLink(l, S, s) ==
  /\ \A i \in DOMAIN s :
       \/ \E r \in S : IsUseOf(s[i], r)
       \/ \E j, k \in DOMAIN s : Linked(l, s[j], s[k]) /\ (i = j \/ i = k)
  /\ \A i, j \in DOMAIN s : SameUse(s[i], s[j]) /\ s[i].corr # <<>> => i = j

\* Routines are done, and links too, between 7:00 and 20:00.
LEMMA TimesOfDay ==
  /\ \A r : IsRoutine(r) => RoutineBegins(r) \in 420 .. 1200 /\ RoutineEnds(r) \in 420 .. 1200
  /\ \A l : IsLink(l) => LinkBegins(l) \in 420 .. 1200 /\ LinkEnds(l) \in 420 .. 1200
<1>1. ASSUME NEW r, IsRoutine(r)
      PROVE  RoutineBegins(r) \in 420 .. 1200 /\ RoutineEnds(r) \in 420 .. 1200
  <2> DEFINE h == r.hour
             m == r.minute
             j == r.jitter
             n == Len(r.activities)
  <2>1. h \in 8 .. 16 /\ m \in 0 .. 30 /\ j \in 0 .. 60 /\ n \in 1 .. 3
    BY <1>1 DEF IsRoutine
  <2>2. RoutineBegins(r) = h * 60 + m - j /\ RoutineEnds(r) = h * 60 + m + j + 12 * (n - 1)
    BY DEF RoutineBegins, RoutineEnds
  <2> HIDE DEF h, m, j, n
  <2> QED BY <2>1, <2>2
<1>2. ASSUME NEW l, IsLink(l)
      PROVE  LinkBegins(l) \in 420 .. 1200 /\ LinkEnds(l) \in 420 .. 1200
  <2> DEFINE h == l.hour
             m == l.minute
             j == l.jitter
             g == l.gap[2]
  <2>1. h \in 10 .. 19 /\ m \in 0 .. 15 /\ j \in 0 .. 30 /\ g \in 3 .. 15
    BY <1>2 DEF IsLink
  <2>2. LinkBegins(l) = h * 60 + m - j /\ LinkEnds(l) = h * 60 + m + j + g
    BY DEF LinkBegins, LinkEnds
  <2> HIDE DEF h, m, j, g
  <2> QED BY <2>1, <2>2
<1> QED BY <1>1, <1>2

\* An event of a routine is one of its uses.
LEMMA RoutineIsUsed ==
  ASSUME user \in Users, NEW e, OfRoutine(e)
  PROVE  \E r \in ToSet(RoutinesOf(user)) : IsUseOf(e, r)
<1>1. PICK job \in ExpandedRoutines :
        /\ job.of \in ToSet(RoutinesOf(user)) /\ IsRoutine(job.of)
        /\ e.time \in Int /\ DayOf(e.time) = job.day /\ e.time \in RoutineTimes(job.of, job.day)
        /\ e.corr = <<>> /\ e.app = job.of.module
        /\ \E a \in DOMAIN job.of.activities : e.action = job.of.activities[a]
  BY RoutineOfEvent
<1> DEFINE r == job.of
           day == DayOf(e.time)
           base == day * Day
           h == r.hour * 60 + r.minute
           j == r.jitter
           n == 12 * (Len(r.activities) - 1)
           time == e.time
<1>2. h \in Int /\ j \in Int /\ n \in Int
  <2>1. r.hour \in 8 .. 16 /\ r.minute \in 0 .. 30 /\ r.jitter \in 0 .. 60 /\ Len(r.activities) \in 1 .. 3
    BY <1>1 DEF IsRoutine
  <2>2. \A a \in 8 .. 16, b \in 0 .. 30, c \in 1 .. 3 : a * 60 + b \in Int /\ 12 * (c - 1) \in Int
    OBVIOUS
  <2>3. \A a \in 0 .. 60 : a \in Int
    OBVIOUS
  <2> QED BY <2>1, <2>2, <2>3
<1>3. base \in Int
  <2>1. e.time \in Int
    BY <1>1
  <2>2. day \in Int
    BY <2>1, TimesOfDays
  <2>3. base = day * 1440
    BY DEF Day
  <2> HIDE DEF day, base
  <2> QED BY <2>2, <2>3
<1>4. RoutineTimes(r, day) = base + r.hour * 60 + r.minute + (- j) .. base + r.hour * 60 + r.minute + j + n
  BY DEF RoutineTimes, At
<1>5. \A b \in Int : b + r.hour * 60 + r.minute = b + h
  <2>1. r.hour \in 8 .. 16 /\ r.minute \in 0 .. 30
    BY <1>1 DEF IsRoutine
  <2>2. \A x \in 8 .. 16, y \in 0 .. 30 : \A b \in Int : b + x * 60 + y = b + (x * 60 + y)
    OBVIOUS
  <2> QED BY <2>1, <2>2
<1>6. time \in Int /\ time \in RoutineTimes(r, day)
  BY <1>1
<1>7. RoutineBegins(r) = h - j /\ RoutineEnds(r) = h + j + n /\ MinuteOf(e) = time - base
  <2>1. RoutineBegins(r) = h - j
    <3>1. r.hour \in 8 .. 16 /\ r.minute \in 0 .. 30 /\ r.jitter \in 0 .. 60
      BY <1>1 DEF IsRoutine
    <3>2. \A x \in 8 .. 16, y \in 0 .. 30, z \in 0 .. 60 : x * 60 + y - z = (x * 60 + y) - z
      OBVIOUS
    <3>3. RoutineBegins(r) = r.hour * 60 + r.minute - r.jitter
      BY Zenon DEF RoutineBegins
    <3> QED BY <3>1, <3>2, <3>3
  <2>2. RoutineEnds(r) = h + j + n
    BY Zenon DEF RoutineEnds
  <2>3. MinuteOf(e) = time - base
    BY Zenon DEF MinuteOf
  <2> QED BY <2>1, <2>2, <2>3
<1> HIDE DEF h, j, n, base, time
<1>8. time \in base + h + (- j) .. base + h + j + n
  BY <1>3, <1>4, <1>5, <1>6
<1>9. MinuteOf(e) \in RoutineBegins(r) .. RoutineEnds(r)
  BY <1>2, <1>3, <1>6, <1>7, <1>8
<1> QED BY <1>1, <1>9 DEF IsUseOf

\* The events of a link on a day are linked.
LEMMA PairIsLinked ==
  ASSUME NEW l, IsLink(l), NEW day \in Int, NEW pair \in LinkPairs(l, day)
  PROVE  Linked(l, pair[1], pair[2])
<1> DEFINE d    == pair[1]
           f    == pair[2]
           base == day * Day
           h    == l.hour
           m    == l.minute
           j    == l.jitter
           a    == l.gap[1]
           b    == l.gap[2]
           t    == d.time
           w    == f.time
<1>1. /\ d.app = l.first[1] /\ d.action = l.first[2] /\ f.app = l.then[1] /\ f.action = l.then[2]
      /\ d.corr = <<l.name, day>> /\ f.corr = <<l.name, day>>
      /\ DayOf(t) = day /\ DayOf(w) = day
      /\ t \in Int /\ w \in Int /\ w - t \in a .. b
      /\ t \in LinkMoments(l, day)
  BY LinkPairIs
<1>2. h \in 10 .. 19 /\ m \in 0 .. 15 /\ j \in 0 .. 30 /\ a \in 3 .. 15 /\ b \in 3 .. 15
  BY DEF IsLink
<1>3. t \in base + h * 60 + m + (- j) .. base + h * 60 + m + j
  BY <1>1 DEF LinkMoments, At
<1>4. base \in Int
  BY DEF Day
<1>5. LinkBegins(l) = h * 60 + m - j /\ LinkEnds(l) = h * 60 + m + j + b
  BY DEF LinkBegins, LinkEnds
<1>6. MinuteOf(d) = t - base /\ MinuteOf(f) = w - base
  BY <1>1 DEF MinuteOf
<1> HIDE DEF d, f, base, h, m, j, a, b, t, w
<1>7. LinkBegins(l) <= MinuteOf(d)
  BY <1>1, <1>2, <1>3, <1>4, <1>5, <1>6
<1>8. MinuteOf(f) <= LinkEnds(l)
  BY <1>1, <1>2, <1>3, <1>4, <1>5, <1>6
<1>9. f.time - d.time \in l.gap[1] .. l.gap[2]
  BY <1>1 DEF t, w, a, b
<1>10. f.corr = d.corr /\ d.corr = <<l.name, DayOf(d.time)>> /\ DayOf(f.time) = DayOf(d.time)
  BY <1>1 DEF t, w
<1> QED BY <1>1, <1>7, <1>8, <1>9, <1>10 DEF Linked, d, f

\* An event of a link is linked to another event, by the one link of the persona.
LEMMA LinkIsLinked ==
  ASSUME user \in Users, NEW l \in ToSet(LinksOf(user)), NEW e, OfLink(e)
  PROVE  \E d, f \in ToSet(events) : Linked(l, d, f) /\ (e = d \/ e = f)
<1>1. PICK job \in ExpandedLinks :
        \E pair \in LinkPairs(job.of, job.day) :
           /\ job.of \in ToSet(LinksOf(user)) /\ IsLink(job.of)
           /\ e \in ToSet(pair) /\ ToSet(pair) \subseteq ToSet(events)
  BY LinkOfEvent
<1>2. PICK pair \in LinkPairs(job.of, job.day) :
           /\ job.of \in ToSet(LinksOf(user)) /\ IsLink(job.of)
           /\ e \in ToSet(pair) /\ ToSet(pair) \subseteq ToSet(events)
  BY <1>1
<1>3. job.of = l
  BY <1>2, JobsAreApart
<1>4. job.day \in Int
  BY ExpandedAre
<1>5. IsLink(l) /\ pair \in LinkPairs(l, job.day)
  BY <1>2, <1>3
<1>6. Linked(l, pair[1], pair[2])
  BY <1>4, <1>5, PairIsLinked
<1>7. \A x : x \in ToSet(pair) <=> x = pair[1] \/ x = pair[2]
  BY <1>4, <1>5, LinkPairIs
<1>8. pair[1] \in ToSet(events) /\ pair[2] \in ToSet(events)
  BY <1>2, <1>7
<1> QED BY <1>2, <1>6, <1>7, <1>8

\* A selection of a selection is one.
LEMMA PickedTwice ==
  ASSUME NEW r, NEW s, NEW t, PickedFrom(t, s), PickedFrom(s, r)
  PROVE  PickedFrom(t, r)
<1>1. PICK f \in [DOMAIN t -> DOMAIN s] :
        /\ \A k, l \in DOMAIN t : f[k] = f[l] => k = l
        /\ \A k \in DOMAIN t : t[k] = s[f[k]]
  BY DEF PickedFrom
<1>2. PICK g \in [DOMAIN s -> DOMAIN r] :
        /\ \A k, l \in DOMAIN s : g[k] = g[l] => k = l
        /\ \A k \in DOMAIN s : s[k] = r[g[k]]
  BY DEF PickedFrom
<1> DEFINE h == [k \in DOMAIN t |-> g[f[k]]]
<1>3. /\ h \in [DOMAIN t -> DOMAIN r] /\ \A k \in DOMAIN t : h[k] = g[f[k]]
  BY <1>1, <1>2
<1> HIDE DEF h
<1>4. \A k, l \in DOMAIN t : h[k] = h[l] => k = l
  BY <1>1, <1>2, <1>3
<1>5. \A k \in DOMAIN t : t[k] = r[h[k]]
  BY <1>1, <1>2, <1>3
<1> QED BY <1>3, <1>4, <1>5 DEF PickedFrom

\* The events of a persona, in whatever order, are those of its routines and of
\* its link.
LEMMA EventsAroundLink ==
  ASSUME HistoryInv, NEW l \in ToSet(LinksOf(user)),
         NEW s, ToSet(s) = ToSet(events), PickedFrom(s, events)
  PROVE  AroundLink(l, ToSet(RoutinesOf(user)), s)
<1>1. user \in Users
  BY DEF HistoryInv, ProgressIsMade
<1>2. ASSUME NEW i \in DOMAIN s
      PROVE  \/ \E r \in ToSet(RoutinesOf(user)) : IsUseOf(s[i], r)
             \/ \E j, k \in DOMAIN s : Linked(l, s[j], s[k]) /\ (i = j \/ i = k)
  <2>1. s[i] \in ToSet(events)
    BY DEF ToSet
  <2>2. CASE OfRoutine(s[i])
    BY <1>1, <2>2, RoutineIsUsed
  <2>3. CASE OfLink(s[i])
    <3>1. PICK d, f \in ToSet(events) : Linked(l, d, f) /\ (s[i] = d \/ s[i] = f)
      BY <1>1, <2>3, LinkIsLinked
    <3>2. PICK j \in DOMAIN s : s[j] = d
      BY DEF ToSet
    <3>3. PICK k \in DOMAIN s : s[k] = f
      BY DEF ToSet
    <3>4. CASE s[i] = d
      BY <3>1, <3>3, <3>4
    <3>5. CASE s[i] = f
      BY <3>1, <3>2, <3>5
    <3> QED BY <3>1, <3>4, <3>5
  <2> QED BY <2>1, <2>2, <2>3 DEF HistoryInv, EventsHaveOrigins
<1>3. ASSUME NEW i \in DOMAIN s, NEW j \in DOMAIN s, SameUse(s[i], s[j]), s[i].corr # <<>>
      PROVE  i = j
  <2>1. PICK place \in [DOMAIN s -> DOMAIN events] :
          /\ \A k, m \in DOMAIN s : place[k] = place[m] => k = m
          /\ \A k \in DOMAIN s : s[k] = events[place[k]]
    BY DEF PickedFrom
  <2>2. SameUse(events[place[i]], events[place[j]]) /\ DoneOnce(events[place[i]])
    BY <1>3, <2>1 DEF DoneOnce
  <2>3. place[i] = place[j]
    BY <2>1, <2>2 DEF HistoryInv, NothingIsRepeated
  <2> QED BY <2>1, <2>3
<1> QED BY <1>2, <1>3 DEF AroundLink

\* The time of an event is a minute of its day.
LEMMA MinutesAre ==
  ASSUME NEW e, e.time \in Int
  PROVE  /\ DayOf(e.time) \in Int /\ MinuteOf(e) \in 0 .. 1439
         /\ e.time = 1440 * DayOf(e.time) + MinuteOf(e)
<1> DEFINE t == e.time
<1>1. DayOf(t) \in Int /\ Day * DayOf(t) <= t /\ t <= Day * DayOf(t) + Day - 1
  BY TimesOfDays
<1>2. MinuteOf(e) = t - DayOf(t) * Day
  BY DEF MinuteOf
<1> HIDE DEF t
<1>3. Day = 1440 /\ t \in Int
  BY DEF Day, t
<1>4. MinuteOf(e) \in 0 .. 1439 /\ t = 1440 * DayOf(t) + MinuteOf(e)
  BY <1>1, <1>2, <1>3
<1> QED BY <1>1, <1>4 DEF t

\* Linked events are in the hours of their link, one after the other.
LEMMA LinkedAre ==
  ASSUME NEW l, IsLink(l), NEW d, NEW f, d.time \in Int, f.time \in Int, Linked(l, d, f)
  PROVE  /\ d.app # f.app /\ d.corr # <<>> /\ f.corr = d.corr
         /\ f.time - d.time \in 3 .. 15 /\ d.time < f.time /\ DayOf(d.time) = DayOf(f.time)
         /\ MinuteOf(d) \in LinkBegins(l) .. LinkEnds(l)
         /\ MinuteOf(f) \in LinkBegins(l) .. LinkEnds(l)
<1>1. d.app # f.app
  BY DEF Linked, IsLink
<1>2. d.corr # <<>> /\ f.corr = d.corr
  <2>1. <<l.name, DayOf(d.time)>> # <<>>
    OBVIOUS
  <2> QED BY <2>1 DEF Linked
<1>3. f.time - d.time \in 3 .. 15
  <2>1. l.gap[1] \in 3 .. 15 /\ l.gap[2] \in 3 .. 15 /\ f.time - d.time \in l.gap[1] .. l.gap[2]
    BY DEF Linked, IsLink
  <2> DEFINE a == l.gap[1]
             b == l.gap[2]
             g == f.time - d.time
  <2>2. g \in Int
    OBVIOUS
  <2> HIDE DEF a, b, g
  <2>3. g \in 3 .. 15
    <3>1. a \in 3 .. 15 /\ b \in 3 .. 15 /\ g \in a .. b
      BY <2>1 DEF a, b, g
    <3> QED BY <2>2, <3>1
  <2> QED BY <2>3 DEF g
<1>4. DayOf(d.time) = DayOf(f.time) /\ LinkBegins(l) <= MinuteOf(d) /\ MinuteOf(f) <= LinkEnds(l)
  BY DEF Linked
<1>5. LinkBegins(l) \in Int /\ LinkEnds(l) \in Int
  BY TimesOfDay
<1> DEFINE t == d.time
           w == f.time
           y == DayOf(d.time)
<1>6. /\ MinuteOf(d) \in Int /\ MinuteOf(f) \in Int /\ y \in Int
      /\ t = 1440 * y + MinuteOf(d) /\ w = 1440 * y + MinuteOf(f)
  <2>1. DayOf(t) \in Int /\ MinuteOf(d) \in 0 .. 1439 /\ t = 1440 * DayOf(t) + MinuteOf(d)
    BY MinutesAre
  <2>2. MinuteOf(f) \in 0 .. 1439 /\ w = 1440 * DayOf(w) + MinuteOf(f)
    BY MinutesAre
  <2>3. DayOf(w) = y /\ DayOf(t) = y
    BY <1>4
  <2> DEFINE a == MinuteOf(d)
             b == MinuteOf(f)
  <2>4. a \in 0 .. 1439 /\ b \in 0 .. 1439 /\ y \in Int
    BY <2>1, <2>2
  <2>5. t = 1440 * y + a
    BY <2>1, <2>3
  <2>6. w = 1440 * y + b
    <3> HIDE DEF w, y, b
    <3> QED BY <2>2, <2>3 DEF b
  <2> HIDE DEF t, w, y, a, b
  <2>7. a \in Int /\ b \in Int
    BY <2>4
  <2> QED BY <2>4, <2>5, <2>6, <2>7 DEF a, b
<1>7. t < w
  <2>1. t \in Int /\ w \in Int /\ w - t \in 3 .. 15
    BY <1>3
  <2> HIDE DEF t, w
  <2> QED BY <2>1
<1>8. MinuteOf(d) < MinuteOf(f)
  <2>1. t \in Int /\ w \in Int
    OBVIOUS
  <2> HIDE DEF t, w, y
  <2> QED BY <1>6, <1>7, <2>1
<1> HIDE DEF y
<1> QED BY <1>1, <1>2, <1>3, <1>4, <1>5, <1>6, <1>7, <1>8

\* A sorted history, in which a link stands out of routines.
LinkedHistory(l, S, s, Record) ==
  /\ s \in TimedHistories(Record)
  /\ \A i, j \in DOMAIN s : i < j => s[i].time <= s[j].time
  /\ IsLink(l) /\ (\A r \in S : IsRoutine(r))
  /\ LinkStandsOut(l, S) /\ AroundLink(l, S, s)

\* On one day there is one occurrence of the link.
LEMMA OneLinkADay ==
  ASSUME NEW l, NEW S, NEW s, NEW Record, LinkedHistory(l, S, s, Record),
         NEW i \in DOMAIN s, NEW j \in DOMAIN s, NEW k \in DOMAIN s, NEW m \in DOMAIN s,
         Linked(l, s[i], s[j]), Linked(l, s[k], s[m]),
         DayOf(s[i].time) = DayOf(s[k].time)
  PROVE  i = k /\ j = m
<1>1. /\ s[i].time \in Int /\ s[j].time \in Int /\ s[k].time \in Int /\ s[m].time \in Int
      /\ IsLink(l)
      /\ \A a, b \in DOMAIN s : SameUse(s[a], s[b]) /\ s[a].corr # <<>> => a = b
  BY DEF LinkedHistory, TimedHistories, AroundLink
<1>2. s[i].corr # <<>> /\ s[j].corr # <<>>
  BY <1>1, LinkedAre
<1>3. SameUse(s[i], s[k]) /\ SameUse(s[j], s[m])
  BY DEF SameUse, Linked
<1> QED BY <1>1, <1>2, <1>3

\* The first event of a link is followed by the second, with nothing between them.
LEMMA LinkIsFollowed ==
  ASSUME NEW l, NEW S, NEW s, NEW Record, LinkedHistory(l, S, s, Record),
         NEW i \in DOMAIN s, s[i].app = l.first[1], s[i].action = l.first[2]
  PROVE  i + 1 \in DOMAIN s /\ Linked(l, s[i], s[i + 1])
<1>1. /\ DOMAIN s = 1 .. Len(s) /\ Len(s) \in Nat
      /\ \A m \in DOMAIN s : s[m].time \in Int
      /\ \A m, n \in DOMAIN s : m < n => s[m].time <= s[n].time
      /\ IsLink(l) /\ \A r \in S : IsRoutine(r)
  BY DEF LinkedHistory, TimedHistories
<1>2. /\ \A r \in S : \A a \in DOMAIN r.activities : r.activities[a] # l.first[2]
      /\ \A r \in S : LinkIsFar(l, r) \/ RoutineEnds(r) < LinkBegins(l)
  BY DEF LinkedHistory, LinkStandsOut
<1>3. \A m \in DOMAIN s : \/ \E r \in S : IsUseOf(s[m], r)
                          \/ \E j, k \in DOMAIN s : Linked(l, s[j], s[k]) /\ (m = j \/ m = k)
  BY DEF LinkedHistory, AroundLink
<1>4. PICK j, k \in DOMAIN s : Linked(l, s[j], s[k]) /\ (i = j \/ i = k)
  <2>1. ASSUME NEW r \in S, IsUseOf(s[i], r) PROVE FALSE
    BY <1>2, <2>1 DEF IsUseOf
  <2> QED BY <1>3, <2>1
<1>5. /\ s[j].app # s[k].app /\ s[j].time < s[k].time /\ DayOf(s[j].time) = DayOf(s[k].time)
      /\ MinuteOf(s[j]) \in LinkBegins(l) .. LinkEnds(l)
      /\ MinuteOf(s[k]) \in LinkBegins(l) .. LinkEnds(l)
  BY <1>1, <1>4, LinkedAre
<1>6. i = j
  <2>1. s[j].app = l.first[1]
    BY <1>4 DEF Linked
  <2> QED BY <1>4, <1>5, <2>1
<1>7. j < k
  <2>1. k < j \/ k = j \/ j < k
    BY <1>1
  <2>2. CASE k < j
    <3>1. s[k].time <= s[j].time
      BY <1>1, <2>2
    <3> QED BY <1>1, <1>5, <3>1
  <2>3. CASE k = j
    BY <1>5, <2>3
  <2> QED BY <2>1, <2>2, <2>3
<1>8. ASSUME NEW n \in DOMAIN s, j < n, n < k PROVE FALSE
  <2> DEFINE day == DayOf(s[j].time)
             t   == s[j].time
             v   == s[n].time
             w   == s[k].time
  <2>1. t \in Int /\ v \in Int /\ w \in Int /\ t <= v /\ v <= w
    BY <1>1, <1>8
  <2>2. /\ DayOf(v) \in Int /\ MinuteOf(s[n]) \in 0 .. 1439 /\ v = 1440 * DayOf(v) + MinuteOf(s[n])
        /\ day \in Int /\ MinuteOf(s[j]) \in 0 .. 1439 /\ t = 1440 * day + MinuteOf(s[j])
        /\ MinuteOf(s[k]) \in 0 .. 1439 /\ w = 1440 * day + MinuteOf(s[k])
    <3>1. \A i1 \in DOMAIN s :
            /\ DayOf(s[i1].time) \in Int /\ MinuteOf(s[i1]) \in 0 .. 1439
            /\ s[i1].time = 1440 * DayOf(s[i1].time) + MinuteOf(s[i1])
      BY <1>1, MinutesAre
    <3>2. DayOf(w) = day
      BY <1>5
    <3>3. DayOf(v) \in Int /\ MinuteOf(s[n]) \in 0 .. 1439 /\ v = 1440 * DayOf(v) + MinuteOf(s[n])
      BY <3>1
    <3>4. day \in Int /\ MinuteOf(s[j]) \in 0 .. 1439 /\ t = 1440 * day + MinuteOf(s[j])
      BY <3>1
    <3>5. MinuteOf(s[k]) \in 0 .. 1439 /\ w = 1440 * DayOf(w) + MinuteOf(s[k])
      BY <3>1
    <3> HIDE DEF day, t, v, w
    <3>6. w = 1440 * day + MinuteOf(s[k])
      BY <3>2, <3>5
    <3> QED BY <3>3, <3>4, <3>5, <3>6
  <2>3. LinkBegins(l) \in 420 .. 1200 /\ LinkEnds(l) \in 420 .. 1200
    BY <1>1, TimesOfDay
  <2> DEFINE a == MinuteOf(s[j])
             b == MinuteOf(s[n])
             c == MinuteOf(s[k])
             from == LinkBegins(l)
             upto == LinkEnds(l)
  <2> HIDE DEF day, t, v, w, a, b, c, from, upto
  <2>4. DayOf(v) = day /\ a <= b /\ b <= c
    <3>1. 1440 * day + a <= 1440 * DayOf(v) + b /\ 1440 * DayOf(v) + b <= 1440 * day + c
      <4>1. t = 1440 * day + a /\ v = 1440 * DayOf(v) + b /\ w = 1440 * day + c
        BY <2>2 DEF a, b, c
      <4>2. t <= v /\ v <= w
        BY <2>1
      <4> QED BY <4>1, <4>2
    <3>2. /\ day \in Int /\ DayOf(v) \in Int
          /\ a \in 0 .. 1439 /\ b \in 0 .. 1439 /\ c \in 0 .. 1439
      <4>1. day \in Int /\ DayOf(v) \in Int
        BY <2>2
      <4>2. a \in 0 .. 1439
        BY <2>2 DEF a
      <4>3. b \in 0 .. 1439
        BY <2>2 DEF b
      <4>4. c \in 0 .. 1439
        BY <2>2 DEF c
      <4> QED BY <4>1, <4>2, <4>3, <4>4
    <3>3. PICK V \in Int : V = DayOf(v)
      BY <3>2
    <3>4. 1440 * day + a <= 1440 * V + b /\ 1440 * V + b <= 1440 * day + c
      BY <3>1, <3>3
    <3>5. day \in Int /\ a \in 0 .. 1439 /\ b \in 0 .. 1439 /\ c \in 0 .. 1439
      BY <3>2
    <3>6. V = day /\ a <= b /\ b <= c
      BY <3>4, <3>5
    <3> QED BY <3>3, <3>6
  <2>5. b \in Int /\ from \in Int /\ upto \in Int /\ from <= b /\ b <= upto
    <3>1. b \in Int
      BY <2>2 DEF b
    <3>2. a \in from .. upto /\ c \in from .. upto /\ from \in Int /\ upto \in Int
      BY <1>5, <2>3 DEF a, c, from, upto
    <3> QED BY <2>4, <3>1, <3>2
  <2>6. ASSUME NEW r \in S, IsUseOf(s[n], r) PROVE FALSE
    <3> DEFINE begin == RoutineBegins(r)
               end   == RoutineEnds(r)
    <3>1. b \in begin .. end
      BY <2>6 DEF IsUseOf, b
    <3>2. begin \in Int /\ end \in Int
      <4>1. begin \in 420 .. 1200 /\ end \in 420 .. 1200
        BY <1>1, TimesOfDay
      <4> HIDE DEF begin, end
      <4> QED BY <4>1
    <3>3. end + 30 < from \/ upto + 30 < begin \/ end < from
      BY <1>2 DEF LinkIsFar, SequenceGapMinutes, from, upto
    <3> HIDE DEF begin, end
    <3> QED BY <2>5, <3>1, <3>2, <3>3
  <2>7. ASSUME NEW x \in DOMAIN s, NEW y \in DOMAIN s, Linked(l, s[x], s[y]), n = x \/ n = y
        PROVE  FALSE
    <3>1. DayOf(s[x].time) = DayOf(s[y].time)
      BY <2>7 DEF Linked
    <3>2. DayOf(s[j].time) = DayOf(s[x].time)
      BY <2>4, <2>7, <3>1 DEF day, v
    <3>3. j = x /\ k = y
      BY <1>4, <2>7, <3>2, OneLinkADay
    <3> QED BY <1>1, <1>8, <2>7, <3>3
  <2> QED BY <1>3, <2>6, <2>7
<1>9. k = j + 1
  <2>1. j + 1 \in DOMAIN s /\ j < j + 1
    BY <1>1, <1>7
  <2>2. ~ (j + 1 < k)
    BY <1>8, <2>1
  <2> QED BY <1>1, <1>7, <2>2
<1> QED BY <1>4, <1>6, <1>9

\* Everything is done between 7:00 and 20:00.
LEMMA AllIsDoneByDay ==
  ASSUME NEW l, NEW S, NEW s, NEW Record, LinkedHistory(l, S, s, Record), NEW i \in DOMAIN s
  PROVE  MinuteOf(s[i]) \in 420 .. 1200
<1>1. /\ \A m \in DOMAIN s : s[m].time \in Int
      /\ IsLink(l) /\ \A r \in S : IsRoutine(r)
  BY DEF LinkedHistory, TimedHistories
<1>2. ASSUME NEW r \in S, IsUseOf(s[i], r) PROVE MinuteOf(s[i]) \in 420 .. 1200
  <2> DEFINE begin == RoutineBegins(r)
             end   == RoutineEnds(r)
  <2>1. MinuteOf(s[i]) \in begin .. end
    BY <1>2 DEF IsUseOf
  <2>2. begin \in 420 .. 1200 /\ end \in 420 .. 1200
    BY <1>1, TimesOfDay
  <2> HIDE DEF begin, end
  <2>3. begin .. end \in SUBSET (420 .. 1200)
    BY <2>2
  <2> QED BY <2>1, <2>3
<1>3. ASSUME NEW j \in DOMAIN s, NEW k \in DOMAIN s, Linked(l, s[j], s[k]), i = j \/ i = k
      PROVE  MinuteOf(s[i]) \in 420 .. 1200
  <2> DEFINE begin == LinkBegins(l)
             end   == LinkEnds(l)
  <2>1. MinuteOf(s[j]) \in begin .. end /\ MinuteOf(s[k]) \in begin .. end
    BY <1>1, <1>3, LinkedAre
  <2>2. begin \in 420 .. 1200 /\ end \in 420 .. 1200
    BY <1>1, TimesOfDay
  <2> HIDE DEF begin, end
  <2>3. begin .. end \in SUBSET (420 .. 1200)
    BY <2>2
  <2> QED BY <1>3, <2>1, <2>3
<1>4. \/ \E r \in S : IsUseOf(s[i], r)
      \/ \E j, k \in DOMAIN s : Linked(l, s[j], s[k]) /\ (i = j \/ i = k)
  BY DEF LinkedHistory, AroundLink
<1> QED BY <1>2, <1>3, <1>4

\* What is followed within half an hour is followed on the same day.
LEMMA NeighboursAreOfDay ==
  ASSUME NEW l, NEW S, NEW s, NEW Record, LinkedHistory(l, S, s, Record),
         NEW i \in DOMAIN s, NEW j \in DOMAIN s, s[j].time - s[i].time \in 0 .. 30
  PROVE  DayOf(s[i].time) = DayOf(s[j].time) /\ MinuteOf(s[j]) - MinuteOf(s[i]) \in 0 .. 30
<1>1. s[i].time \in Int /\ s[j].time \in Int
  BY DEF LinkedHistory, TimedHistories
<1> DEFINE D == DayOf(s[i].time)
           E == DayOf(s[j].time)
           m == MinuteOf(s[i])
           n == MinuteOf(s[j])
           t == s[i].time
           w == s[j].time
<1>2. D \in Int /\ E \in Int /\ t = 1440 * D + m /\ w = 1440 * E + n
  BY <1>1, MinutesAre
<1>3. m \in 420 .. 1200 /\ n \in 420 .. 1200
  BY AllIsDoneByDay
<1>4. w - t \in 0 .. 30 /\ t \in Int /\ w \in Int
  BY <1>1
<1> HIDE DEF D, E, m, n, t, w
<1>5. D = E /\ n - m \in 0 .. 30
  BY <1>2, <1>3, <1>4
<1> QED BY <1>5 DEF D, E, m, n

LinkKey(l) == <<l.first[1], l.first[2], l.then[1], l.then[2]>>
LeadKey(x, l) == <<x[1], x[2], l.first[1], l.first[2]>>

\* Two routines are no transition.
LEMMA RoutinesAreNoTransition ==
  ASSUME NEW l, NEW S, NEW s, NEW Record, LinkedHistory(l, S, s, Record),
         NEW i \in DOMAIN s, NEW j \in DOMAIN s, CrossesApps(s[i], s[j]),
         NEW q \in S, NEW r \in S, IsUseOf(s[i], q), IsUseOf(s[j], r)
  PROVE  FALSE
<1> DEFINE m  == MinuteOf(s[i])
           n  == MinuteOf(s[j])
           qb == RoutineBegins(q)
           qe == RoutineEnds(q)
           rb == RoutineBegins(r)
           re == RoutineEnds(r)
<1>1. s[i].app # s[j].app /\ s[j].time - s[i].time \in 0 .. 30
  BY DEF CrossesApps, SequenceGapMinutes
<1>2. n - m \in 0 .. 30 /\ m \in 420 .. 1200 /\ n \in 420 .. 1200
  BY <1>1, NeighboursAreOfDay, AllIsDoneByDay
<1>3. q.module # r.module /\ m \in qb .. qe /\ n \in rb .. re
  BY <1>1 DEF IsUseOf
<1>4. qe + 30 < rb \/ re + 30 < qb
  BY <1>3 DEF LinkedHistory, LinkStandsOut, RoutinesAreFar, SequenceGapMinutes
<1>5. qb \in 420 .. 1200 /\ qe \in 420 .. 1200 /\ rb \in 420 .. 1200 /\ re \in 420 .. 1200
  BY TimesOfDay DEF LinkedHistory
<1> HIDE DEF m, n, qb, qe, rb, re
<1> QED BY <1>2, <1>3, <1>4, <1>5

\* After a link there is no transition to a routine.
LEMMA LinkEndsInNoTransition ==
  ASSUME NEW l, NEW S, NEW s, NEW Record, LinkedHistory(l, S, s, Record),
         NEW i \in DOMAIN s, NEW j \in DOMAIN s, CrossesApps(s[i], s[j]),
         MinuteOf(s[i]) \in LinkBegins(l) .. LinkEnds(l), NEW r \in S, IsUseOf(s[j], r)
  PROVE  FALSE
<1> DEFINE m  == MinuteOf(s[i])
           n  == MinuteOf(s[j])
           lb == LinkBegins(l)
           le == LinkEnds(l)
           rb == RoutineBegins(r)
           re == RoutineEnds(r)
<1>1. s[j].time - s[i].time \in 0 .. 30
  BY DEF CrossesApps, SequenceGapMinutes
<1>2. n - m \in 0 .. 30 /\ m \in 420 .. 1200 /\ n \in 420 .. 1200
  BY <1>1, NeighboursAreOfDay, AllIsDoneByDay
<1>3. m \in lb .. le /\ n \in rb .. re
  BY DEF IsUseOf
<1>4. re + 30 < lb \/ le + 30 < rb \/ re < lb
  BY DEF LinkedHistory, LinkStandsOut, LinkIsFar, SequenceGapMinutes
<1>5. lb \in 420 .. 1200 /\ le \in 420 .. 1200 /\ rb \in 420 .. 1200 /\ re \in 420 .. 1200
  BY TimesOfDay DEF LinkedHistory
<1> HIDE DEF m, n, lb, le, rb, re
<1> QED BY <1>2, <1>3, <1>4, <1>5

\* A routine that is followed by a link is not far from it.
LEMMA LinkIsNear ==
  ASSUME NEW l, NEW S, NEW s, NEW Record, LinkedHistory(l, S, s, Record),
         NEW i \in DOMAIN s, NEW j \in DOMAIN s, CrossesApps(s[i], s[j]),
         MinuteOf(s[j]) \in LinkBegins(l) .. LinkEnds(l), NEW r \in S, IsUseOf(s[i], r)
  PROVE  ~ LinkIsFar(l, r)
<1> SUFFICES ASSUME LinkIsFar(l, r) PROVE FALSE
  OBVIOUS
<1> DEFINE m  == MinuteOf(s[i])
           n  == MinuteOf(s[j])
           lb == LinkBegins(l)
           le == LinkEnds(l)
           rb == RoutineBegins(r)
           re == RoutineEnds(r)
<1>1. s[j].time - s[i].time \in 0 .. 30
  BY DEF CrossesApps, SequenceGapMinutes
<1>2. n - m \in 0 .. 30 /\ m \in 420 .. 1200 /\ n \in 420 .. 1200
  BY <1>1, NeighboursAreOfDay, AllIsDoneByDay
<1>3. n \in lb .. le /\ m \in rb .. re
  BY DEF IsUseOf
<1>4. re + 30 < lb \/ le + 30 < rb
  BY DEF LinkIsFar, SequenceGapMinutes
<1>5. lb \in 420 .. 1200 /\ le \in 420 .. 1200 /\ rb \in 420 .. 1200 /\ re \in 420 .. 1200
  BY TimesOfDay DEF LinkedHistory
<1> HIDE DEF m, n, lb, le, rb, re
<1> QED BY <1>2, <1>3, <1>4, <1>5

\* The transitions are the link itself and those of two activities to it.
LEMMA TransitionsAre ==
  ASSUME NEW l, NEW S, NEW s, NEW Record, LinkedHistory(l, S, s, Record)
  PROVE  \E x, y : \A p \in Transitions(s) :
           KeyOf(s, p) \in {LinkKey(l), LeadKey(x, l), LeadKey(y, l)}
<1>1. /\ DOMAIN s = 1 .. Len(s) /\ Len(s) \in Nat
      /\ \A m \in DOMAIN s : s[m].time \in Int
      /\ \A m, n \in DOMAIN s : m < n => s[m].time <= s[n].time
      /\ IsLink(l)
  BY DEF LinkedHistory, TimedHistories
<1>2. \A m \in DOMAIN s : \/ \E r \in S : IsUseOf(s[m], r)
                          \/ \E j, k \in DOMAIN s : Linked(l, s[j], s[k]) /\ (m = j \/ m = k)
  BY DEF LinkedHistory, AroundLink
<1>3. PICK x, y : \A r \in S :
        \/ LinkIsFar(l, r)
        \/ /\ RoutineEnds(r) < LinkBegins(l)
           /\ \A a \in DOMAIN r.activities : <<r.module, r.activities[a]>> \in {x, y}
  BY DEF LinkedHistory, LinkStandsOut
<1>4. ASSUME NEW i \in DOMAIN s, NEW j \in DOMAIN s, j = i + 1, CrossesApps(s[i], s[j])
      PROVE  KeyOf(s, <<i, j>>) \in {LinkKey(l), LeadKey(x, l), LeadKey(y, l)}
  <2>1. /\ s[i].app # s[j].app /\ s[j].time - s[i].time \in 0 .. 30
        /\ i \in Int /\ i < j
    BY <1>1, <1>4 DEF CrossesApps, SequenceGapMinutes
  <2>2. DayOf(s[i].time) = DayOf(s[j].time)
    BY <2>1, NeighboursAreOfDay
  <2>3. KeyOf(s, <<i, j>>) = <<s[i].app, s[i].action, s[j].app, s[j].action>>
    BY DEF KeyOf
  <2>4. ASSUME NEW d \in DOMAIN s, NEW f \in DOMAIN s, Linked(l, s[d], s[f])
        PROVE  /\ s[d].time < s[f].time /\ DayOf(s[d].time) = DayOf(s[f].time) /\ d < f
               /\ MinuteOf(s[d]) \in LinkBegins(l) .. LinkEnds(l)
               /\ MinuteOf(s[f]) \in LinkBegins(l) .. LinkEnds(l)
    <3>1. /\ s[d].time < s[f].time /\ DayOf(s[d].time) = DayOf(s[f].time)
          /\ MinuteOf(s[d]) \in LinkBegins(l) .. LinkEnds(l)
          /\ MinuteOf(s[f]) \in LinkBegins(l) .. LinkEnds(l)
      BY <1>1, <2>4, LinkedAre
    <3>2. f < d \/ f = d => s[f].time <= s[d].time
      BY <1>1
    <3>3. d < f
      BY <1>1, <3>1, <3>2
    <3> QED BY <3>1, <3>3
  <2>5. ASSUME NEW q \in S, IsUseOf(s[i], q), NEW r \in S, IsUseOf(s[j], r)
        PROVE  FALSE
    BY <1>4, <2>5, RoutinesAreNoTransition
  <2>6. ASSUME NEW d \in DOMAIN s, NEW f \in DOMAIN s, Linked(l, s[d], s[f]), i = d \/ i = f,
               NEW r \in S, IsUseOf(s[j], r)
        PROVE  FALSE
    <3>1. MinuteOf(s[i]) \in LinkBegins(l) .. LinkEnds(l)
      BY <2>4, <2>6
    <3> QED BY <1>4, <2>6, <3>1, LinkEndsInNoTransition
  <2>7. ASSUME NEW d \in DOMAIN s, NEW f \in DOMAIN s, Linked(l, s[d], s[f]), j = d \/ j = f,
               NEW r \in S, IsUseOf(s[i], r)
        PROVE  KeyOf(s, <<i, j>>) \in {LeadKey(x, l), LeadKey(y, l)}
    <3>1. MinuteOf(s[j]) \in LinkBegins(l) .. LinkEnds(l)
      BY <2>4, <2>7
    <3>2. ~ LinkIsFar(l, r)
      BY <1>4, <2>7, <3>1, LinkIsNear
    <3>3. /\ RoutineEnds(r) < LinkBegins(l)
          /\ \A a \in DOMAIN r.activities : <<r.module, r.activities[a]>> \in {x, y}
      BY <1>3, <3>2
    <3>4. j = d
      <4> SUFFICES ASSUME j = f PROVE FALSE
        BY <2>7
      <4>1. d < f /\ MinuteOf(s[d]) \in LinkBegins(l) .. LinkEnds(l)
            /\ DayOf(s[d].time) = DayOf(s[i].time)
        BY <2>2, <2>4, <2>7
      <4>2. s[d].time <= s[i].time
        <5>1. d < i \/ d = i
          BY <1>1, <1>4, <4>1
        <5> QED BY <1>1, <5>1
      <4>3. MinuteOf(s[i]) \in RoutineBegins(r) .. RoutineEnds(r)
        BY <2>7 DEF IsUseOf
      <4> DEFINE m  == MinuteOf(s[i])
                 n  == MinuteOf(s[d])
                 D  == DayOf(s[i].time)
                 t  == s[i].time
                 w  == s[d].time
                 lb == LinkBegins(l)
                 le == LinkEnds(l)
                 rb == RoutineBegins(r)
                 re == RoutineEnds(r)
      <4>4. D \in Int /\ t = 1440 * D + m /\ w = 1440 * D + n /\ m \in 0 .. 1439 /\ n \in 0 .. 1439
        BY <1>1, <4>1, MinutesAre
      <4>5. lb \in 420 .. 1200 /\ re \in 420 .. 1200 /\ rb \in 420 .. 1200 /\ le \in 420 .. 1200
        BY TimesOfDay DEF LinkedHistory
      <4>6. w <= t /\ re < lb /\ m \in rb .. re /\ n \in lb .. le
        BY <3>3, <4>1, <4>2, <4>3
      <4> HIDE DEF m, n, D, t, w, lb, le, rb, re
      <4> QED BY <4>4, <4>5, <4>6
    <3>5. PICK a \in DOMAIN r.activities : s[i].action = r.activities[a]
      BY <2>7 DEF IsUseOf
    <3>6. <<s[i].app, s[i].action>> = x \/ <<s[i].app, s[i].action>> = y
      BY <2>7, <3>3, <3>5 DEF IsUseOf
    <3>7. s[j].app = l.first[1] /\ s[j].action = l.first[2]
      BY <2>7, <3>4 DEF Linked
    <3>8. KeyOf(s, <<i, j>>) = LeadKey(<<s[i].app, s[i].action>>, l)
      BY <2>3, <3>7 DEF LeadKey
    <3> QED BY <3>6, <3>8
  <2>8. ASSUME NEW d \in DOMAIN s, NEW f \in DOMAIN s, Linked(l, s[d], s[f]), i = d \/ i = f,
               NEW g \in DOMAIN s, NEW h \in DOMAIN s, Linked(l, s[g], s[h]), j = g \/ j = h
        PROVE  KeyOf(s, <<i, j>>) = LinkKey(l)
    <3>1. DayOf(s[d].time) = DayOf(s[g].time)
      BY <2>2, <2>4, <2>8
    <3>2. d = g /\ f = h
      BY <2>8, <3>1, OneLinkADay
    <3>3. d < f
      BY <2>4, <2>8
    <3>4. i = d /\ j = f
      BY <1>1, <2>1, <2>8, <3>2, <3>3
    <3> QED BY <2>3, <2>8, <3>4 DEF Linked, LinkKey
  <2>9. CASE \E q \in S : IsUseOf(s[i], q)
    <3>1. PICK q \in S : IsUseOf(s[i], q)
      BY <2>9
    <3>2. ~ \E r \in S : IsUseOf(s[j], r)
      BY <2>5, <3>1
    <3>3. PICK d, f \in DOMAIN s : Linked(l, s[d], s[f]) /\ (j = d \/ j = f)
      BY <1>2, <3>2
    <3>4. KeyOf(s, <<i, j>>) \in {LeadKey(x, l), LeadKey(y, l)}
      BY <2>7, <3>1, <3>3
    <3> QED BY <3>4
  <2>10. CASE ~ \E q \in S : IsUseOf(s[i], q)
    <3>1. PICK d, f \in DOMAIN s : Linked(l, s[d], s[f]) /\ (i = d \/ i = f)
      BY <1>2, <2>10
    <3>2. ~ \E r \in S : IsUseOf(s[j], r)
      BY <2>6, <3>1
    <3>3. PICK g, h \in DOMAIN s : Linked(l, s[g], s[h]) /\ (j = g \/ j = h)
      BY <1>2, <3>2
    <3>4. KeyOf(s, <<i, j>>) = LinkKey(l)
      BY <2>8, <3>1, <3>3
    <3> QED BY <3>4
  <2> QED BY <2>9, <2>10
<1>5. \A p \in Transitions(s) : KeyOf(s, p) \in {LinkKey(l), LeadKey(x, l), LeadKey(y, l)}
  <2> TAKE p \in Transitions(s)
  <2>1. PICK i \in 1 .. Len(s) - 1 : p = <<i, i + 1>> /\ CrossesApps(s[i], s[i + 1])
    BY DEF Transitions
  <2>2. i \in DOMAIN s /\ i + 1 \in DOMAIN s
    BY <1>1
  <2> QED BY <1>4, <2>1, <2>2
<1> QED BY <1>5

\* The occurrences of the link begin where its first step is.
LEMMA OccurrencesAreUses ==
  ASSUME NEW l, NEW S, NEW s, NEW Record, LinkedHistory(l, S, s, Record)
  PROVE  LET uses  == Uses(s, l.first[1], l.first[2])
             found == Occurrences(s, LinkKey(l))
         IN  /\ IsFiniteSet(uses) /\ IsFiniteSet(found) /\ Cardinality(uses) \in Nat
             /\ Cardinality(found) = Cardinality(uses)
             /\ \A p \in found : Gap(s, p) \in l.gap[1] .. l.gap[2]
             /\ \A i \in uses : <<i, i + 1>> \in found
<1> DEFINE uses  == Uses(s, l.first[1], l.first[2])
           key   == LinkKey(l)
           found == Occurrences(s, key)
<1>1. /\ DOMAIN s = 1 .. Len(s) /\ Len(s) \in Nat
      /\ \A m \in DOMAIN s : s[m].time \in Int
      /\ IsLink(l)
  BY DEF LinkedHistory, TimedHistories
<1>2. \A i \in uses : i \in DOMAIN s /\ s[i].app = l.first[1] /\ s[i].action = l.first[2]
  BY DEF Uses
<1>3. ASSUME NEW i \in uses
      PROVE  <<i, i + 1>> \in found /\ s[i + 1].time - s[i].time \in l.gap[1] .. l.gap[2]
  <2>1. i \in DOMAIN s /\ i + 1 \in DOMAIN s /\ Linked(l, s[i], s[i + 1])
    BY <1>2, LinkIsFollowed
  <2>2. i \in 1 .. Len(s) - 1
    BY <1>1, <2>1
  <2>3. /\ s[i].app # s[i + 1].app /\ s[i + 1].time - s[i].time \in 3 .. 15
        /\ s[i + 1].time - s[i].time \in l.gap[1] .. l.gap[2]
    <3>1. s[i].time \in Int /\ s[i + 1].time \in Int
      BY <1>1, <2>1
    <3>2. s[i].app # s[i + 1].app /\ s[i + 1].time - s[i].time \in 3 .. 15
      BY <1>1, <2>1, <3>1, LinkedAre
    <3>3. s[i + 1].time - s[i].time \in l.gap[1] .. l.gap[2]
      BY <2>1 DEF Linked
    <3> QED BY <3>2, <3>3
  <2>4. CrossesApps(s[i], s[i + 1])
    <3>1. \A g \in 3 .. 15 : g \in 0 .. 30
      OBVIOUS
    <3> QED BY <2>3, <3>1 DEF CrossesApps, SequenceGapMinutes
  <2>5. KeyOf(s, <<i, i + 1>>) = key
    BY <2>1 DEF KeyOf, LinkKey, Linked
  <2>6. <<i, i + 1>> \in Transitions(s)
    BY <2>2, <2>4 DEF Transitions
  <2> QED BY <2>3, <2>5, <2>6 DEF Occurrences
<1>4. ASSUME NEW p \in found PROVE \E i \in uses : p = <<i, i + 1>>
  <2>1. p \in Transitions(s) /\ KeyOf(s, p) = key
    BY DEF Occurrences
  <2>2. PICK i \in 1 .. Len(s) - 1 : p = <<i, i + 1>>
    BY <2>1 DEF Transitions
  <2>3. i \in DOMAIN s
    BY <1>1
  <2>4. s[i].app = l.first[1] /\ s[i].action = l.first[2]
    BY <2>1, <2>2 DEF KeyOf, LinkKey
  <2> QED BY <2>2, <2>3, <2>4 DEF Uses
<1> HIDE DEF uses, key, found
<1>5. IsFiniteSet(uses) /\ Cardinality(uses) \in Nat
  <2>1. uses \in SUBSET (1 .. Len(s)) /\ Len(s) \in Nat
    BY <1>1, <1>2
  <2> QED BY <2>1, PlacesAreFinite
<1>6. IsFiniteSet(found) /\ Cardinality(found) = Cardinality(uses)
  <2> DEFINE f == [i \in uses |-> <<i, i + 1>>]
  <2>1. f \in [uses -> found] /\ \A i \in uses : f[i] = <<i, i + 1>>
    BY <1>3
  <2> HIDE DEF f
  <2>2. f \in Bijection(uses, found)
    <3>1. \A i, j \in uses : f[i] = f[j] => i = j
      BY <2>1
    <3>2. \A p \in found : \E i \in uses : f[i] = p
      BY <1>4, <2>1
    <3> QED BY <2>1, <3>1, <3>2 DEF Bijection, Injection, IsInjective, Surjection
  <2>3. ExistsBijection(uses, found)
    BY <2>2 DEF ExistsBijection
  <2> QED BY <1>5, <2>3, FS_Bijection
<1>7. ASSUME NEW p \in found PROVE Gap(s, p) \in l.gap[1] .. l.gap[2]
  <2>1. PICK i \in uses : p = <<i, i + 1>>
    BY <1>4
  <2>2. Gap(s, p) = s[i + 1].time - s[i].time
    BY <2>1 DEF Gap
  <2> QED BY <1>3, <2>2
<1> QED BY <1>3, <1>5, <1>6, <1>7 DEF uses, found, key

\* The gap that is described is one of those that were found.
LEMMA DescribedGapIsFound ==
  ASSUME NEW s, NEW found, IsFiniteSet(found), Cardinality(found) >= 1,
         NEW low \in 1 .. 30, NEW high \in 1 .. 30, \A p \in found : Gap(s, p) \in low .. high
  PROVE  DescribeGap(s, found) \in low .. high
<1> DEFINE n       == Cardinality(found)
           upto(g) == Cardinality({p \in found : Gap(s, p) <= g})
           gaps    == {Gap(s, p) : p \in found}
           many    == {g \in gaps : upto(g) > n \div 2}
<1>1. n \in Nat /\ n >= 1 /\ found # {}
  BY FS_CardinalityType, FS_EmptySet
<1>2. gaps \in SUBSET Int /\ gaps # {} /\ \A g \in gaps : g \in low .. high
  BY <1>1
<1>3. IsFiniteSet(gaps)
  <2>1. low .. high \in SUBSET (1 .. 30) /\ 30 \in Nat
    OBVIOUS
  <2>2. gaps \in SUBSET (1 .. 30)
    BY <1>2, <2>1
  <2> HIDE DEF gaps
  <2> QED BY <2>1, <2>2, PlacesAreFinite
<1>4. \A p \in found : Gap(s, p) \in gaps
  OBVIOUS
<1>5. DescribeGap(s, found) = IF Min(many) < 1 THEN 1 ELSE Min(many)
  BY DEF DescribeGap
<1> HIDE DEF gaps, n
<1>6. Max(gaps) \in gaps /\ \A g \in gaps : Max(gaps) >= g
  BY <1>2, <1>3, MaxOfFinite
<1>7. upto(Max(gaps)) = n
  <2>1. \A p \in found : Gap(s, p) \in Int /\ Max(gaps) \in Int /\ Gap(s, p) <= Max(gaps)
    BY <1>2, <1>4, <1>6
  <2>2. {p \in found : Gap(s, p) <= Max(gaps)} = found
    BY <2>1
  <2> QED BY <2>2, Zenon DEF n
<1>8. Max(gaps) \in many
  <2>1. n > n \div 2
    BY <1>1
  <2> HIDE DEF upto
  <2> QED BY <1>6, <1>7, <2>1
<1>9. many \in SUBSET gaps /\ many # {}
  BY <1>8
<1> HIDE DEF many, upto
<1>10. many \in SUBSET Int /\ IsFiniteSet(many)
  BY <1>2, <1>3, <1>9, FS_Subset
<1>11. Min(many) \in low .. high
  BY <1>2, <1>9, <1>10, MinOfFinite
<1>12. ~ (Min(many) < 1)
  BY <1>11
<1> QED BY <1>5, <1>11, <1>12

\* The steps of a link are pairs.
HasSteps(l) == l.first = <<l.first[1], l.first[2]>> /\ l.then = <<l.then[1], l.then[2]>>

\* Those of a persona's link are.
LEMMA LinksHaveSteps ==
  ASSUME NEW u \in Users, NEW l \in ToSet(LinksOf(u))
  PROVE  IsLink(l) /\ HasSteps(l)
<1> DEFINE c    == CompanyOf(u)
           ours == {i \in DOMAIN c.cross_app : c.cross_app[i].persona = u[2]}
<1>1. c \in Companies
  BY CompanyOfUser
<1>2. LinksOf(u) = AtPlaces(c.cross_app, ours) /\ ours \in SUBSET (DOMAIN c.cross_app)
  BY DEF LinksOf
<1>3. c.cross_app \in Seq(ToSet(c.cross_app)) /\ \A m \in ToSet(c.cross_app) : IsLink(m)
  BY <1>1, CompaniesAre DEF AreLinks
<1> HIDE DEF c, ours
<1>4. PICK i \in DOMAIN c.cross_app : l = c.cross_app[i]
  <2>1. PICK i \in ours : l = c.cross_app[i]
    BY <1>2, <1>3, AtPlacesIs
  <2> QED BY <1>2, <2>1
<1>5. IsLink(l)
  BY <1>3, <1>4 DEF ToSet
<1>6. CASE c = SapShop
  <2>1. c.cross_app = SapLinks /\ DOMAIN SapLinks = 1 .. 4
    BY <1>6 DEF SapShop, SapLinks
  <2>2. \A k \in 1 .. 4 : HasSteps(SapLinks[k])
    BY DEF SapLinks, CrossAppLink, HasSteps
  <2> QED BY <1>4, <1>5, <2>1, <2>2
<1>7. CASE c = SalesforceShop
  <2>1. c.cross_app = SalesforceLinks /\ DOMAIN SalesforceLinks = 1 .. 4
    BY <1>7 DEF SalesforceShop, SalesforceLinks
  <2>2. \A k \in 1 .. 4 : HasSteps(SalesforceLinks[k])
    BY DEF SalesforceLinks, CrossAppLink, HasSteps
  <2> QED BY <1>4, <1>5, <2>1, <2>2
<1>8. CASE c = OracleShop
  <2>1. c.cross_app = OracleLinks /\ DOMAIN OracleLinks = 1 .. 4
    BY <1>8 DEF OracleShop, OracleLinks
  <2>2. \A k \in 1 .. 4 : HasSteps(OracleLinks[k])
    BY DEF OracleLinks, CrossAppLink, HasSteps
  <2> QED BY <1>4, <1>5, <2>1, <2>2
<1>9. CASE c = AcmeCorp
  <2>1. c.cross_app = <<AcmeLeaveToCapacity>>
    BY <1>9 DEF AcmeCorp
  <2>2. HasSteps(AcmeLeaveToCapacity)
    BY DEF AcmeLeaveToCapacity, CrossAppLink, HasSteps
  <2> QED BY <1>4, <1>5, <2>1, <2>2
<1> QED BY <1>1, <1>5, <1>6, <1>7, <1>8, <1>9 DEF Companies, Shops

\* A link that was expanded on several days has been used as often.
LEMMA FiredAreUses ==
  ASSUME NEW l, NEW S, NEW s, NEW Record, LinkedHistory(l, S, s, Record),
         ToSet(s) = ToSet(events), Cardinality(Fired(l)) >= 2
  PROVE  Cardinality(Uses(s, l.first[1], l.first[2])) >= 2
<1> DEFINE uses == Uses(s, l.first[1], l.first[2])
           f    == [i \in uses |-> s[i].corr]
           T    == {f[i] : i \in uses}
<1>1. IsFiniteSet(uses) /\ Cardinality(uses) \in Nat
  BY OccurrencesAreUses
<1>2. Fired(l) \in SUBSET T
  <2> SUFFICES ASSUME NEW e \in ToSet(events), e.corr # <<>> PROVE e.corr \in T
    BY DEF Fired
  <2>1. PICK m \in DOMAIN s : s[m] = e
    BY DEF ToSet
  <2>2. PICK j, k \in DOMAIN s : Linked(l, s[j], s[k]) /\ (m = j \/ m = k)
    BY <2>1 DEF LinkedHistory, AroundLink, IsUseOf
  <2>3. s[m].corr = s[j].corr /\ j \in uses
    BY <2>2 DEF Linked, Uses
  <2>4. f[j] = s[j].corr
    BY <2>3
  <2> QED BY <2>1, <2>3, <2>4
<1> HIDE DEF uses
<1>3. f \in Surjection(uses, T)
  <2>1. f \in [uses -> T]
    OBVIOUS
  <2> HIDE DEF f
  <2> QED BY <2>1 DEF Surjection
<1> HIDE DEF f, T
<1>4. IsFiniteSet(T) /\ Cardinality(T) <= Cardinality(uses)
  BY <1>1, <1>3, FS_Surjection
<1>5. Cardinality(Fired(l)) <= Cardinality(T) /\ IsFiniteSet(Fired(l))
  BY <1>2, <1>4, FS_Subset
<1>6. Cardinality(T) \in Nat /\ Cardinality(Fired(l)) \in Nat
  BY <1>4, <1>5, FS_CardinalityType
<1>7. Cardinality(uses) >= 2
  BY <1>1, <1>4, <1>5, <1>6
<1> QED BY <1>7 DEF uses

\* A set in which there are two different elements at most.
LEMMA AtMostTwo ==
  ASSUME NEW T, NEW x, NEW y, T \in SUBSET {x, y}
  PROVE  Cardinality(T) < 3
<1>1. IsFiniteSet({x}) /\ Cardinality({x}) = 1
  BY FS_Singleton
<1>2. {x} \union {y} = {x, y}
  OBVIOUS
<1>3. IsFiniteSet({x} \union {y}) /\ Cardinality({x} \union {y}) <= 2
  <2>1. Cardinality({x} \union {y}) = IF y \in {x} THEN Cardinality({x}) ELSE Cardinality({x}) + 1
    BY <1>1, FS_AddElement
  <2>2. IsFiniteSet({x} \union {y})
    BY <1>1, FS_AddElement
  <2> QED BY <1>1, <2>1, <2>2
<1>4. IsFiniteSet({x, y}) /\ Cardinality({x, y}) <= 2
  BY <1>2, <1>3
<1> DEFINE B == {x, y}
<1> HIDE DEF B
<1>5. IsFiniteSet(T) /\ Cardinality(T) <= Cardinality(B) /\ IsFiniteSet(B) /\ Cardinality(B) <= 2
  <2>1. IsFiniteSet(B) /\ Cardinality(B) <= 2 /\ T \in SUBSET B
    BY <1>4 DEF B
  <2> QED BY <2>1, FS_Subset
<1>6. Cardinality(T) \in Nat /\ Cardinality(B) \in Nat
  BY <1>5, FS_CardinalityType
<1> QED BY <1>5, <1>6

\* A link that is used twice is among the sequences of the profile text.
LEMMA LinkIsStrong ==
  ASSUME NEW history, NEW l, NEW S, NEW Record, LinkedHistory(l, S, Ordered(history), Record),
         HasSteps(l), Cardinality(Uses(Ordered(history), l.first[1], l.first[2])) >= 2
  PROVE  \E s \in StrongSequences(Sequences(history)) :
           /\ <<s.trigger_app, s.trigger_action>> = l.first
           /\ <<s.follow_app, s.follow_action>> = l.then
           /\ s.confidence = 100
           /\ s.typical_gap \in l.gap[1] .. l.gap[2]
<1> DEFINE ordered == Ordered(history)
           key     == LinkKey(l)
           t       == Sequence(ordered, key)
           uses    == Uses(ordered, l.first[1], l.first[2])
           found   == Occurrences(ordered, key)
           rivals  == {r \in Sequences(history) \ {t} : r.confidence >= t.confidence}
<1>1. /\ IsFiniteSet(uses) /\ IsFiniteSet(found) /\ Cardinality(uses) \in Nat
      /\ Cardinality(found) = Cardinality(uses)
      /\ \A p \in found : Gap(ordered, p) \in l.gap[1] .. l.gap[2]
      /\ \A i \in uses : <<i, i + 1>> \in found
  BY OccurrencesAreUses
<1>2. Cardinality(uses) >= 2 /\ Cardinality(found) >= 2 /\ Cardinality(found) >= 1
  BY <1>1
<1>3. /\ key[1] = l.first[1] /\ key[2] = l.first[2] /\ key[3] = l.then[1] /\ key[4] = l.then[2]
  BY DEF LinkKey
<1>4. /\ t.trigger_app = l.first[1] /\ t.trigger_action = l.first[2]
      /\ t.follow_app = l.then[1] /\ t.follow_action = l.then[2]
      /\ t.typical_gap = DescribeGap(ordered, found)
      /\ t.confidence = Confidence(Cardinality(found), Cardinality(uses))
  BY <1>3 DEF Sequence
<1>5. t.confidence = 100
  <2> HIDE DEF found, uses
  <2> QED BY <1>1, <1>2, <1>4 DEF Confidence
<1>6. t.typical_gap \in l.gap[1] .. l.gap[2]
  <2>1. l.gap[1] \in 1 .. 30 /\ l.gap[2] \in 1 .. 30
    <3>1. \A g \in 3 .. 15 : g \in 1 .. 30
      OBVIOUS
    <3> QED BY <3>1 DEF LinkedHistory, IsLink
  <2> HIDE DEF found, uses, ordered
  <2> QED BY <1>1, <1>2, <1>4, <2>1, DescribedGapIsFound
<1>7. t \in Sequences(history)
  <2>1. PICK p \in found : TRUE
    <3> HIDE DEF found
    <3> QED BY <1>2, FS_EmptySet
  <2>2. p \in Transitions(ordered) /\ KeyOf(ordered, p) = key
    BY DEF Occurrences
  <2>3. Recurs(Cardinality(found))
    BY <1>2 DEF Recurs, MinSequenceOccurrences
  <2>4. key \in Keys(ordered)
    BY <2>2, <2>3 DEF Keys
  <2> QED BY <2>4 DEF Sequences
<1>8. Cardinality(rivals) < 3
  <2>1. PICK x, y : \A p \in Transitions(ordered) :
                      KeyOf(ordered, p) \in {key, LeadKey(x, l), LeadKey(y, l)}
    BY TransitionsAre
  <2>2. ASSUME NEW r \in rivals
        PROVE  r \in {Sequence(ordered, LeadKey(x, l)), Sequence(ordered, LeadKey(y, l))}
    <3>1. r # t /\ r \in Sequences(history)
      OBVIOUS
    <3>2. PICK k \in Keys(ordered) : r = Sequence(ordered, k)
      BY <3>1 DEF Sequences
    <3>3. k = key \/ k = LeadKey(x, l) \/ k = LeadKey(y, l)
      BY <2>1 DEF Keys
    <3> QED BY <3>1, <3>2, <3>3
  <2> HIDE DEF rivals
  <2> QED BY <2>2, AtMostTwo
<1>9. t \in StrongSequences(Sequences(history))
  <2> HIDE DEF t, rivals
  <2>1. t.confidence >= 30
    BY <1>5
  <2>2. Cardinality(rivals) < MaxSequences
    BY <1>8 DEF MaxSequences
  <2> QED BY <1>7, <2>1, <2>2, Zenon DEF StrongSequences, rivals
<1> QED BY <1>4, <1>5, <1>6, <1>9 DEF HasSteps

\* Each link of a persona is in the profile text, whatever the window and however
\* the random times, gaps and probabilities fall, once it was expanded on two
\* days: no routine of the persona comes between its two steps, has its first
\* step, or makes more than two other sequences with all of their trigger's
\* confidence (_emit_cross_app, _detect_sequences, _build_sequence,
\* _strong_sequences).
THEOREM GeneratedLinksSurface ==
  HistorySpec => []LinksSurface
<1>1. HistoryInv => LinksSurface
  <2> SUFFICES ASSUME HistoryInv, Complete, NEW l \in ToSet(LinksOf(user)), NEW tie \in BOOLEAN,
                      NEW history, history = HistorySince(Start * Day, tie),
                      Cardinality(Fired(l)) >= 2
               PROVE  \E s \in StrongSequences(Sequences(history)) :
                        /\ <<s.trigger_app, s.trigger_action>> = l.first
                        /\ <<s.follow_app, s.follow_action>> = l.then
                        /\ s.confidence = 100
                        /\ s.typical_gap \in l.gap[1] .. l.gap[2]
    BY DEF LinksSurface, ProfileHistories
  <2> DEFINE Record  == ToSet(events)
             ordered == Ordered(history)
             S       == ToSet(RoutinesOf(user))
  <2>1. user \in Users
    BY DEF HistoryInv, ProgressIsMade
  <2>2. history \in TimedHistories(Record) /\ ToSet(history) = ToSet(events) /\ PickedFrom(history, events)
    <3>1. Start * Day \in Int
      BY WindowAssumption DEF Day
    <3> QED BY <3>1, HistoriesAreTimed, ProfilesAreComplete
  <2>3. /\ ordered \in TimedHistories(Record) /\ ToSet(ordered) = ToSet(events)
        /\ PickedFrom(ordered, history)
        /\ \A i, j \in DOMAIN ordered : i < j => ordered[i].time <= ordered[j].time
    BY <2>2, OrderedIsSorted
  <2> HIDE DEF Record, ordered
  <2>4. PickedFrom(ordered, events)
    BY <2>2, <2>3, PickedTwice
  <2>5. AroundLink(l, S, ordered)
    BY <2>3, <2>4, EventsAroundLink
  <2>6. IsLink(l) /\ \A r \in S : IsRoutine(r)
    BY <2>1, JobsAre, LinksHaveSteps
  <2>7. LinkStandsOut(l, S) /\ HasSteps(l)
    BY <2>1, LinksStandOut, LinksHaveSteps
  <2> HIDE DEF S
  <2>8. LinkedHistory(l, S, ordered, Record)
    BY <2>3, <2>5, <2>6, <2>7 DEF LinkedHistory
  <2>9. Cardinality(Uses(ordered, l.first[1], l.first[2])) >= 2
    BY <2>3, <2>8, FiredAreUses
  <2> QED BY <2>7, <2>8, <2>9, LinkIsStrong DEF ordered
<1> QED BY <1>1, HistoryIsGenerated, PTL
=============================================================================
