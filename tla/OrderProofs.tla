----------------------------- MODULE OrderProofs -----------------------------
(***************************************************************************)
(* Facts about recency orders and about sums of counts, for the theorems   *)
(* on the replay cache and on the rate limiter, and the induction          *)
(* principles they rest on.                                                *)
(***************************************************************************)
EXTENDS LruOrder, Functions, FiniteSets, FiniteSetsExt, FiniteSetTheorems, WellFoundedInduction, TLAPS

\* A set of numbers that is not empty has a least one.
LEMMA LeastNumber ==
    ASSUME NEW S, S \subseteq Nat, S # {}
    PROVE  \E i \in S : \A j \in S : i <= j
<1> DEFINE R == {ss \in Nat \X Nat : ss[1] < ss[2]}
<1>1. IsWellFoundedOn(R, Nat)
  BY NatLessThanWellFounded DEF OpToRel
<1>2. PICK i \in S : \A j \in S : ~(<<j, i>> \in R)
  <2> HIDE DEF R
  <2> QED
    BY <1>1, WFMin
<1>3. ASSUME NEW j \in S PROVE i <= j
  <2>1. i \in Nat /\ j \in Nat
    OBVIOUS
  <2>2. j < i => <<j, i>> \in R
    BY <2>1
  <2> HIDE DEF R
  <2>3. ~(j < i)
    BY <1>2, <2>2
  <2> QED
    BY <2>1, <2>3
<1> QED
  BY <1>3

\* Induction up to n, for a property given as the set of the numbers that have it.
LEMMA Induction ==
    ASSUME NEW n \in Nat, NEW S,
           0 \in S,
           \A i \in Nat : i < n /\ i \in S => i + 1 \in S
    PROVE  \A i \in 0..n : i \in S
<1> DEFINE bad == {i \in 0..n : i \notin S}
<1> SUFFICES ASSUME bad # {} PROVE FALSE
  OBVIOUS
<1>1. PICK i \in bad : \A j \in bad : i <= j
  <2>1. bad \subseteq Nat
    OBVIOUS
  <2> HIDE DEF bad
  <2> QED
    BY <2>1, LeastNumber
<1>2. i # 0 /\ i - 1 \in Nat /\ i - 1 < n /\ (i - 1) + 1 = i
  OBVIOUS
<1>3. i - 1 \in S
  BY <1>1, <1>2
<1> QED
  BY <1>2, <1>3

-----------------------------------------------------------------------------
\* The sequence lists each member of the set once.
Lists(s, S) ==
    /\ s \in Seq(S)
    /\ Range(s) = S
    /\ \A i, j \in DOMAIN s : s[i] = s[j] => i = j

\* An order is as long as the set it lists is large.
LEMMA ListsLen ==
    ASSUME NEW S, NEW s, Lists(s, S)
    PROVE  IsFiniteSet(S) /\ Cardinality(S) = Len(s) /\ Len(s) \in Nat
<1>1. Len(s) \in Nat /\ s \in [1..Len(s) -> S] /\ DOMAIN s = 1..Len(s)
  BY DEF Lists
<1>2. s \in Bijection(1..Len(s), S)
  <2>1. s \in Injection(1..Len(s), S)
    BY <1>1 DEF Lists, Injection, IsInjective
  <2>2. s \in Surjection(1..Len(s), S)
    BY <1>1 DEF Lists, Range, Surjection
  <2> QED
    BY <2>1, <2>2 DEF Bijection
<1>3. IsFiniteSet(1..Len(s)) /\ Cardinality(1..Len(s)) = Len(s)
  BY <1>1, FS_Interval
<1> QED
  BY <1>1, <1>2, <1>3, FS_Bijection DEF ExistsBijection

\* A new cache is empty.
LEMMA ListsEmpty == Lists(<<>>, {})
  BY DEF Lists, Range

\* A new key goes to the end.
LEMMA ListsAppend ==
    ASSUME NEW S, NEW s, Lists(s, S), NEW x, x \notin S
    PROVE  Lists(Append(s, x), S \cup {x})
<1> DEFINE t == Append(s, x)
           n == Len(s)
<1>1. n \in Nat /\ DOMAIN s = 1..n /\ s \in Seq(S \cup {x})
  BY DEF Lists
<1>2. /\ t \in Seq(S \cup {x}) /\ DOMAIN t = 1..(n + 1)
      /\ t[n + 1] = x /\ \A i \in 1..n : t[i] = s[i]
  BY <1>1
<1>3. \A i \in 1..n : s[i] \in S
  BY <1>1 DEF Lists, Range
<1>4. \A y \in S : \E i \in 1..n : s[i] = y
  BY <1>1 DEF Lists, Range
<1> HIDE DEF t, n
<1>5. Range(t) = S \cup {x}
  BY <1>1, <1>2, <1>3, <1>4 DEF Range
<1>6. ASSUME NEW i \in DOMAIN t, NEW j \in DOMAIN t, t[i] = t[j] PROVE i = j
  BY <1>1, <1>2, <1>3, <1>6 DEF Lists
<1> QED
  BY <1>2, <1>5, <1>6 DEF Lists, t

\* The least recently used key is dropped.
LEMMA ListsTail ==
    ASSUME NEW S, NEW s, Lists(s, S), Len(s) > 0
    PROVE  Head(s) \in S /\ Lists(Tail(s), S \ {Head(s)})
<1> DEFINE t == Tail(s)
           n == Len(s)
<1>1. n \in Nat \ {0} /\ DOMAIN s = 1..n /\ Head(s) = s[1]
  BY DEF Lists
<1>2. DOMAIN t = 1..(n - 1) /\ \A i \in 1..(n - 1) : t[i] = s[i + 1]
  BY <1>1 DEF Lists
<1>3. t \in Seq(S) /\ Len(t) = n - 1
  BY <1>1 DEF Lists
<1>4. \A i \in 1..n : s[i] \in S
  BY <1>1 DEF Lists, Range
<1>5. \A y \in S : \E i \in 1..n : s[i] = y
  BY <1>1 DEF Lists, Range
<1>6. \A i, j \in 1..n : s[i] = s[j] => i = j
  BY <1>1 DEF Lists
<1> HIDE DEF t, n
<1>7. \A i \in 1..(n - 1) : t[i] \in S \ {s[1]}
  BY <1>1, <1>2, <1>4, <1>6
<1>8. \A y \in S \ {s[1]} : \E i \in 1..(n - 1) : t[i] = y
  <2> SUFFICES ASSUME NEW y \in S \ {s[1]} PROVE \E i \in 1..(n - 1) : t[i] = y
    OBVIOUS
  <2>1. PICK i \in 1..n : s[i] = y
    BY <1>5
  <2>2. i - 1 \in 1..(n - 1) /\ t[i - 1] = y
    BY <1>1, <1>2, <2>1
  <2> QED
    BY <2>2
<1>9. t \in Seq(S \ {s[1]})
  BY <1>1, <1>3, <1>7
<1>10. Range(t) = S \ {s[1]}
  BY <1>2, <1>7, <1>8 DEF Range
<1>11. \A i, j \in DOMAIN t : t[i] = t[j] => i = j
  BY <1>1, <1>2, <1>6
<1> QED
  BY <1>1, <1>4, <1>9, <1>10, <1>11 DEF Lists, t

\* What is left of an order when its first keys are dropped.
LEMMA ListsSuffix ==
    ASSUME NEW S, NEW s, Lists(s, S), NEW m \in 0..Len(s)
    PROVE  /\ Lists(SubSeq(s, 1 + m, Len(s)), Range(SubSeq(s, 1 + m, Len(s))))
           /\ Range(SubSeq(s, 1 + m, Len(s))) \subseteq S
           /\ Len(SubSeq(s, 1 + m, Len(s))) = Len(s) - m
<1> DEFINE t == SubSeq(s, 1 + m, Len(s))
           n == Len(s)
<1>1. n \in Nat /\ DOMAIN s = 1..n
  BY DEF Lists
<1>2. t \in Seq(S) /\ Len(t) = n - m /\ \A i \in 1..(n - m) : t[i] = s[i + m]
  BY <1>1 DEF Lists
<1>3. \A i, j \in 1..n : s[i] = s[j] => i = j
  BY <1>1 DEF Lists
<1> HIDE DEF t, n
<1>4. DOMAIN t = 1..(n - m)
  BY <1>1, <1>2
<1>5. \A i, j \in DOMAIN t : t[i] = t[j] => i = j
  <2> SUFFICES ASSUME NEW i \in 1..(n - m), NEW j \in 1..(n - m), t[i] = t[j] PROVE i = j
    BY <1>4
  <2>1. i + m \in 1..n /\ j + m \in 1..n /\ s[i + m] = s[j + m]
    BY <1>1, <1>2 DEF n
  <2> QED
    BY <1>3, <2>1
<1>6. Range(t) \subseteq S
  BY <1>2, <1>4 DEF Range
<1>7. t \in Seq(Range(t))
  BY <1>2, <1>4 DEF Range
<1> QED
  BY <1>2, <1>5, <1>6, <1>7 DEF Lists, t, n

-----------------------------------------------------------------------------
\* The function that Detach computes: entry i is what is left of the first i keys.
IsRest(s, gone, rest) ==
    rest = [i \in 0..Len(s) |->
               IF i = 0 THEN <<>>
               ELSE IF s[i] \in gone THEN rest[i - 1]
               ELSE Append(rest[i - 1], s[i])]

\* There is such a function.
LEMMA RestExists ==
    ASSUME NEW s, Len(s) \in Nat, NEW gone
    PROVE  \E rest : IsRest(s, gone, rest)
<1> DEFINE Step(i, r) == IF s[i] \in gone THEN r[i - 1] ELSE Append(r[i - 1], s[i])
           good == {m \in 0..Len(s) : \E r : r = [i \in 0..m |-> IF i = 0 THEN <<>> ELSE Step(i, r)]}
<1>1. 0 \in good
  <2> DEFINE r == [i \in 0..0 |-> <<>>]
  <2>1. r = [i \in 0..0 |-> IF i = 0 THEN <<>> ELSE Step(i, r)]
    OBVIOUS
  <2> HIDE DEF r, Step
  <2>2. \E q : q = [i \in 0..0 |-> IF i = 0 THEN <<>> ELSE Step(i, q)]
    BY <2>1
  <2> QED
    BY <2>2
<1>2. ASSUME NEW m \in Nat, m < Len(s), m \in good PROVE m + 1 \in good
  <2>1. PICK r : r = [i \in 0..m |-> IF i = 0 THEN <<>> ELSE Step(i, r)]
    BY <1>2
  <2> DEFINE q == [i \in 0..(m + 1) |-> IF i = m + 1 THEN Step(i, r) ELSE r[i]]
  <2> HIDE DEF Step
  <2>2. \A i \in 0..m : q[i] = r[i]
    OBVIOUS
  <2>3. \A i \in 1..(m + 1) : Step(i, q) = Step(i, r)
    BY <2>2 DEF Step
  <2>4. \A i \in 0..m : r[i] = IF i = 0 THEN <<>> ELSE Step(i, r)
    BY <2>1
  <2>5. \A i \in 0..(m + 1) : q[i] = IF i = 0 THEN <<>> ELSE Step(i, q)
    BY <2>2, <2>3, <2>4
  <2>6. q = [i \in 0..(m + 1) |-> q[i]]
    OBVIOUS
  <2> HIDE DEF q
  <2>7. q = [i \in 0..(m + 1) |-> IF i = 0 THEN <<>> ELSE Step(i, q)]
    BY <2>5, <2>6
  <2> QED
    BY <1>2, <2>7
<1>3. Len(s) \in good
  <2> HIDE DEF good
  <2>1. \A m \in Nat : m < Len(s) /\ m \in good => m + 1 \in good
    BY <1>2
  <2>2. \A m \in 0..Len(s) : m \in good
    BY <1>1, <2>1, Induction
  <2> QED
    BY <2>2
<1> QED
  BY <1>3 DEF IsRest

\* Detach is the last entry of that function.
LEMMA DetachRest ==
    ASSUME NEW s, Len(s) \in Nat, NEW gone
    PROVE  \E rest : IsRest(s, gone, rest) /\ Detach(s, gone) = rest[Len(s)]
<1>1. Detach(s, gone) = (CHOOSE rest : IsRest(s, gone, rest))[Len(s)]
  BY DEF Detach, IsRest
<1> QED
  BY <1>1, RestExists

\* LruCache::pop: what is left is an order of the keys that are not gone.
LEMMA ListsDetach ==
    ASSUME NEW S, NEW s, Lists(s, S), NEW gone
    PROVE  Lists(Detach(s, gone), S \ gone)
<1> DEFINE n == Len(s)
           First(m) == {s[i] : i \in 1..m}
<1>1. n \in Nat /\ DOMAIN s = 1..n
  BY DEF Lists
<1>2. PICK rest : IsRest(s, gone, rest) /\ Detach(s, gone) = rest[n]
  BY <1>1, DetachRest
<1>3. rest[0] = <<>> /\ \A i \in 1..n : rest[i] = IF s[i] \in gone THEN rest[i - 1]
                                                  ELSE Append(rest[i - 1], s[i])
  <2>1. \A i \in 0..n : rest[i] = IF i = 0 THEN <<>>
                                  ELSE IF s[i] \in gone THEN rest[i - 1]
                                  ELSE Append(rest[i - 1], s[i])
    BY <1>2 DEF IsRest
  <2>2. 0 \in 0..n /\ \A i \in 1..n : i \in 0..n /\ i # 0
    BY <1>1
  <2> HIDE DEF n
  <2> QED
    BY <2>1, <2>2
<1>4. \A i, j \in 1..n : s[i] = s[j] => i = j
  BY <1>1 DEF Lists
<1>5. First(n) = S
  BY <1>1 DEF Lists, Range
<1> DEFINE good == {m \in 0..n : Lists(rest[m], First(m) \ gone)}
<1>6. 0 \in good
  <2>1. First(0) \ gone = {}
    OBVIOUS
  <2> HIDE DEF First
  <2>2. Lists(rest[0], First(0) \ gone)
    BY <1>3, <2>1, ListsEmpty
  <2> QED
    BY <1>1, <2>2
<1>7. ASSUME NEW m \in Nat, m < n, m \in good PROVE m + 1 \in good
  <2> DEFINE x == s[m + 1]
  <2>1. m + 1 \in 1..n /\ (m + 1) - 1 = m
    BY <1>1, <1>7
  <2>2. First(m + 1) = First(m) \cup {x}
    OBVIOUS
  <2>3. x \notin First(m)
    BY <1>1, <1>4, <2>1
  <2>4. rest[m + 1] = IF x \in gone THEN rest[m] ELSE Append(rest[m], x)
    BY <1>3, <2>1
  <2>5. Lists(rest[m], First(m) \ gone)
    BY <1>7
  <2> HIDE DEF First, n, x
  <2>6. CASE x \in gone
    <3>1. First(m + 1) \ gone = First(m) \ gone
      BY <2>2, <2>6
    <3> QED
      BY <2>1, <2>4, <2>5, <2>6, <3>1
  <2>7. CASE x \notin gone
    <3>1. First(m + 1) \ gone = (First(m) \ gone) \cup {x}
      BY <2>2, <2>7
    <3>2. Lists(Append(rest[m], x), (First(m) \ gone) \cup {x})
      BY <2>3, <2>5, ListsAppend
    <3>3. Lists(rest[m + 1], First(m + 1) \ gone)
      BY <2>4, <2>7, <3>1, <3>2
    <3> QED
      BY <1>1, <2>1, <3>3
  <2> QED
    BY <2>6, <2>7
<1> HIDE DEF n, First
<1>8. n \in good
  <2> HIDE DEF good
  <2>1. \A m \in Nat : m < n /\ m \in good => m + 1 \in good
    BY <1>7
  <2>2. \A m \in 0..n : m \in good
    BY <1>1, <1>6, <2>1, Induction
  <2> QED
    BY <1>1, <2>2
<1> QED
  BY <1>2, <1>5, <1>8

\* LruCache::get_mut changes the order and not the keys.
LEMMA ListsTouch ==
    ASSUME NEW S, NEW s, Lists(s, S), NEW k \in S
    PROVE  Lists(Touch(s, k), S)
<1>1. Lists(Detach(s, {k}), S \ {k})
  BY ListsDetach
<1>2. (S \ {k}) \cup {k} = S /\ k \notin S \ {k}
  OBVIOUS
<1>3. Lists(Append(Detach(s, {k}), k), (S \ {k}) \cup {k})
  BY <1>1, <1>2, ListsAppend
<1> QED
  BY <1>2, <1>3 DEF Touch

-----------------------------------------------------------------------------
(* Sums of counts. *)

\* The counts of the candidates of a set, added up.
CountSum(c, S) == MapThenSumSet(LAMBDA k : c[k].count, S)

\* The element that a sum takes first.
Pick(s) == CHOOSE x \in s : TRUE

\* The function that MapThenSumSet computes: the sum over every subset.
IsSum(c, S, g) ==
    g = [s \in SUBSET S |-> IF s = {} THEN 0 ELSE c[Pick(s)].count + g[s \ {Pick(s)}]]

\* Of finite sets, one is smallest: induction over finite sets.
LEMMA SmallestSet ==
    ASSUME NEW F, F # {}, \A s \in F : IsFiniteSet(s)
    PROVE  \E s \in F : Cardinality(s) \in Nat /\ \A t \in F : Cardinality(s) <= Cardinality(t)
<1> DEFINE sizes == {Cardinality(s) : s \in F}
<1>1. sizes \subseteq Nat /\ sizes # {}
  BY FS_CardinalityType
<1>2. PICK n \in sizes : \A m \in sizes : n <= m
  <2> HIDE DEF sizes
  <2> QED
    BY <1>1, LeastNumber
<1> QED
  BY <1>1, <1>2

\* Taking an element away leaves a smaller set.
LEMMA PickSmaller ==
    ASSUME NEW s, IsFiniteSet(s), NEW x \in s
    PROVE  /\ IsFiniteSet(s \ {x}) /\ Cardinality(s) \in Nat /\ Cardinality(s \ {x}) \in Nat
           /\ Cardinality(s \ {x}) = Cardinality(s) - 1
BY FS_RemoveElement, FS_CardinalityType

\* Over a finite set there is such a function.
LEMMA SumExists ==
    ASSUME NEW c, NEW S, IsFiniteSet(S)
    PROVE  \E g : IsSum(c, S, g)
<1> DEFINE n == Cardinality(S)
           Upto(m) == {s \in SUBSET S : Cardinality(s) <= m}
           Step(s, r) == IF s = {} THEN 0 ELSE c[Pick(s)].count + r[s \ {Pick(s)}]
           good == {m \in 0..n : \E r : r = [s \in Upto(m) |-> Step(s, r)]}
<1>1. n \in Nat /\ \A s \in SUBSET S : IsFiniteSet(s) /\ Cardinality(s) \in Nat /\ Cardinality(s) <= n
  BY FS_CardinalityType, FS_Subset
<1>2. \A s \in SUBSET S : s # {} => Pick(s) \in s
  BY DEF Pick
<1>3. 0 \in good
  <2> DEFINE r == [s \in Upto(0) |-> 0]
  <2>1. \A s \in Upto(0) : s = {}
    <3> SUFFICES ASSUME NEW s \in Upto(0) PROVE s = {}
      OBVIOUS
    <3>1. IsFiniteSet(s) /\ Cardinality(s) = 0
      BY <1>1
    <3> QED
      BY <3>1, FS_EmptySet
  <2> HIDE DEF Upto
  <2>2. r = [s \in Upto(0) |-> Step(s, r)]
    BY <2>1
  <2> HIDE DEF r, Step
  <2>3. \E q : q = [s \in Upto(0) |-> Step(s, q)]
    BY <2>2
  <2> QED
    BY <1>1, <2>3
<1>4. ASSUME NEW m \in Nat, m < n, m \in good PROVE m + 1 \in good
  <2>1. PICK r : r = [s \in Upto(m) |-> Step(s, r)]
    BY <1>4
  <2> DEFINE q == [s \in Upto(m + 1) |-> IF s \in Upto(m) THEN r[s] ELSE Step(s, r)]
  <2>2. Upto(m) \subseteq Upto(m + 1)
    BY <1>1
  <2>3. \A s \in Upto(m + 1) : s # {} => s \ {Pick(s)} \in Upto(m)
    <3> SUFFICES ASSUME NEW s \in Upto(m + 1), s # {} PROVE s \ {Pick(s)} \in Upto(m)
      OBVIOUS
    <3>1. Pick(s) \in s /\ s \in SUBSET S /\ IsFiniteSet(s) /\ Cardinality(s) <= m + 1
      BY <1>1, <1>2
    <3>2. Cardinality(s \ {Pick(s)}) = Cardinality(s) - 1 /\ Cardinality(s) \in Nat
      BY <3>1, PickSmaller
    <3> QED
      BY <3>1, <3>2
  <2> HIDE DEF Upto
  <2>4. \A s \in Upto(m) : q[s] = r[s]
    BY <2>2
  <2>5. \A s \in Upto(m + 1) : Step(s, q) = Step(s, r)
    <3> HIDE DEF q
    <3> QED
      BY <2>3, <2>4
  <2> HIDE DEF Step
  <2>6. \A s \in Upto(m) : r[s] = Step(s, r)
    BY <2>1
  <2>7. \A s \in Upto(m + 1) : q[s] = Step(s, q)
    BY <2>4, <2>5, <2>6
  <2>8. q = [s \in Upto(m + 1) |-> q[s]]
    OBVIOUS
  <2> HIDE DEF q
  <2>9. q = [s \in Upto(m + 1) |-> Step(s, q)]
    BY <2>7, <2>8
  <2> QED
    BY <1>1, <1>4, <2>9
<1>5. n \in good
  <2> HIDE DEF good, n
  <2>1. \A m \in Nat : m < n /\ m \in good => m + 1 \in good
    BY <1>4
  <2>2. \A m \in 0..n : m \in good
    BY <1>1, <1>3, <2>1, Induction
  <2> QED
    BY <1>1, <2>2
<1>6. Upto(n) = SUBSET S
  BY <1>1
<1> HIDE DEF Upto, n
<1> QED
  BY <1>5, <1>6 DEF IsSum

\* MapThenSumSet is the last value of that function.
LEMMA SumIsSum ==
    ASSUME NEW c, NEW S, IsFiniteSet(S)
    PROVE  \E g : IsSum(c, S, g) /\ CountSum(c, S) = g[S]
<1>1. CountSum(c, S) = (CHOOSE g : IsSum(c, S, g))[S]
  BY DEF CountSum, MapThenSumSet, MapThenFoldSet, IsSum, Pick
<1> QED
  BY <1>1, SumExists

\* One step of a sum.
LEMMA SumStep ==
    ASSUME NEW c, NEW S, NEW g, IsSum(c, S, g)
    PROVE  \A s \in SUBSET S : s # {} =>
               Pick(s) \in s /\ g[s] = c[Pick(s)].count + g[s \ {Pick(s)}]
<1>1. \A t \in SUBSET S : g[t] = IF t = {} THEN 0 ELSE c[Pick(t)].count + g[t \ {Pick(t)}]
  BY DEF IsSum
<1>2. \A s \in SUBSET S : s # {} => Pick(s) \in s
  BY DEF Pick
<1> QED
  BY <1>1, <1>2

\* Nothing adds up to 0.
LEMMA SumBase ==
    ASSUME NEW c, NEW S, NEW g, IsSum(c, S, g)
    PROVE  g[{}] = 0
<1>1. \A t \in SUBSET S : g[t] = IF t = {} THEN 0 ELSE c[Pick(t)].count + g[t \ {Pick(t)}]
  BY DEF IsSum
<1>2. {} \in SUBSET S
  OBVIOUS
<1> QED
  BY <1>1, <1>2

\* Two sums over the same counts agree.
LEMMA SumsAgree ==
    ASSUME NEW S, IsFiniteSet(S), NEW c, NEW g, IsSum(c, S, g),
           NEW T \in SUBSET S, NEW d, NEW h, IsSum(d, T, h),
           \A k \in T : c[k].count = d[k].count
    PROVE  \A s \in SUBSET T : g[s] = h[s]
<1> DEFINE bad == {s \in SUBSET T : g[s] # h[s]}
<1> SUFFICES ASSUME bad # {} PROVE FALSE
  OBVIOUS
<1>1. \A s \in SUBSET T : IsFiniteSet(s) /\ s \in SUBSET S
  BY FS_Subset
<1>2. PICK s \in bad : Cardinality(s) \in Nat /\ \A t \in bad : Cardinality(s) <= Cardinality(t)
  <2>1. \A s \in bad : IsFiniteSet(s)
    BY <1>1
  <2> HIDE DEF bad
  <2> QED
    BY <2>1, SmallestSet
<1>3. s \in SUBSET T /\ s \in SUBSET S /\ g[s] # h[s]
  BY <1>1
<1>4. s # {}
  BY <1>3, SumBase
<1> DEFINE x == Pick(s)
<1>5. x \in s /\ g[s] = c[x].count + g[s \ {x}] /\ h[s] = d[x].count + h[s \ {x}]
  <2> HIDE DEF bad
  <2>1. \A t \in SUBSET S : t # {} => Pick(t) \in t /\ g[t] = c[Pick(t)].count + g[t \ {Pick(t)}]
    BY SumStep
  <2>2. \A t \in SUBSET T : t # {} => Pick(t) \in t /\ h[t] = d[Pick(t)].count + h[t \ {Pick(t)}]
    BY SumStep
  <2> QED
    BY <1>3, <1>4, <2>1, <2>2
<1>6. Cardinality(s \ {x}) = Cardinality(s) - 1
  BY <1>1, <1>3, <1>5, PickSmaller
<1> HIDE DEF x
<1>7. s \ {x} \in SUBSET T /\ s \ {x} \notin bad
  <2> HIDE DEF bad
  <2> QED
    BY <1>2, <1>3, <1>6
<1>8. g[s \ {x}] = h[s \ {x}] /\ c[x].count = d[x].count
  BY <1>3, <1>5, <1>7
<1> QED
  BY <1>3, <1>5, <1>8

\* The counts are numbers.
Counts(c, S) == IsFiniteSet(S) /\ \A k \in S : c[k].count \in Nat

\* The sum is a number.
LEMMA SumNat ==
    ASSUME NEW S, NEW c, Counts(c, S), NEW g, IsSum(c, S, g)
    PROVE  \A s \in SUBSET S : g[s] \in Nat
<1> DEFINE bad == {s \in SUBSET S : g[s] \notin Nat}
<1> SUFFICES ASSUME bad # {} PROVE FALSE
  OBVIOUS
<1>1. \A s \in SUBSET S : IsFiniteSet(s)
  BY FS_Subset DEF Counts
<1>2. PICK s \in bad : Cardinality(s) \in Nat /\ \A t \in bad : Cardinality(s) <= Cardinality(t)
  <2>1. \A s \in bad : IsFiniteSet(s)
    BY <1>1
  <2> HIDE DEF bad
  <2> QED
    BY <2>1, SmallestSet
<1>3. s \in SUBSET S /\ g[s] \notin Nat
  OBVIOUS
<1>4. s # {}
  BY <1>3, SumBase
<1> DEFINE x == Pick(s)
<1>5. x \in s /\ g[s] = c[x].count + g[s \ {x}]
  <2> HIDE DEF bad
  <2>1. \A t \in SUBSET S : t # {} => Pick(t) \in t /\ g[t] = c[Pick(t)].count + g[t \ {Pick(t)}]
    BY SumStep
  <2> QED
    BY <1>3, <1>4, <2>1
<1>6. Cardinality(s \ {x}) = Cardinality(s) - 1
  BY <1>1, <1>3, <1>5, PickSmaller
<1> HIDE DEF x
<1>7. s \ {x} \in SUBSET S /\ s \ {x} \notin bad
  <2> HIDE DEF bad
  <2> QED
    BY <1>2, <1>3, <1>6
<1>8. g[s \ {x}] \in Nat /\ c[x].count \in Nat
  BY <1>3, <1>5, <1>7 DEF Counts
<1> QED
  BY <1>3, <1>5, <1>8

\* Any element may be taken first.
LEMMA SumAnyFirst ==
    ASSUME NEW S, NEW c, Counts(c, S), NEW g, IsSum(c, S, g)
    PROVE  \A s \in SUBSET S : \A k \in s : g[s] = c[k].count + g[s \ {k}]
<1> DEFINE bad == {s \in SUBSET S : \E k \in s : g[s] # c[k].count + g[s \ {k}]}
<1> SUFFICES ASSUME bad # {} PROVE FALSE
  OBVIOUS
<1>1. \A s \in SUBSET S : IsFiniteSet(s) /\ g[s] \in Nat
  BY FS_Subset, SumNat DEF Counts
<1>2. PICK s \in bad : Cardinality(s) \in Nat /\ \A t \in bad : Cardinality(s) <= Cardinality(t)
  <2>1. \A s \in bad : IsFiniteSet(s)
    BY <1>1
  <2> HIDE DEF bad
  <2> QED
    BY <2>1, SmallestSet
<1>3. s \in SUBSET S /\ \E k \in s : g[s] # c[k].count + g[s \ {k}]
  OBVIOUS
<1>4. PICK k \in s : g[s] # c[k].count + g[s \ {k}]
  BY <1>3
<1> DEFINE x == Pick(s)
<1>5. x \in s /\ g[s] = c[x].count + g[s \ {x}]
  <2> HIDE DEF bad
  <2>1. \A t \in SUBSET S : t # {} => Pick(t) \in t /\ g[t] = c[Pick(t)].count + g[t \ {Pick(t)}]
    BY SumStep
  <2> QED
    BY <1>3, <1>4, <2>1
<1> HIDE DEF x
<1>6. x # k
  BY <1>4, <1>5
<1>7. \A y \in s : s \ {y} \in SUBSET S /\ s \ {y} \notin bad
  <2> SUFFICES ASSUME NEW y \in s PROVE s \ {y} \in SUBSET S /\ s \ {y} \notin bad
    OBVIOUS
  <2>1. Cardinality(s \ {y}) = Cardinality(s) - 1
    BY <1>1, <1>3, PickSmaller
  <2> HIDE DEF bad
  <2> QED
    BY <1>2, <1>3, <2>1
<1>8. g[s \ {x}] = c[k].count + g[(s \ {x}) \ {k}]
  BY <1>5, <1>6, <1>7
<1>9. g[s \ {k}] = c[x].count + g[(s \ {k}) \ {x}]
  BY <1>4, <1>5, <1>6, <1>7
<1>10. (s \ {x}) \ {k} = (s \ {k}) \ {x} /\ (s \ {k}) \ {x} \in SUBSET S
  BY <1>3
<1>11. c[k].count \in Nat /\ c[x].count \in Nat /\ g[(s \ {k}) \ {x}] \in Nat
  BY <1>1, <1>3, <1>4, <1>5, <1>10 DEF Counts
<1> DEFINE a == c[k].count
           b == c[x].count
           z == g[(s \ {k}) \ {x}]
<1>12. g[s \ {x}] = a + z
  BY <1>8, <1>10
<1>13. g[s \ {k}] = b + z /\ g[s] = b + g[s \ {x}] /\ g[s] # a + g[s \ {k}]
  BY <1>4, <1>5, <1>9
<1>14. a \in Nat /\ b \in Nat /\ z \in Nat
  BY <1>11
<1> HIDE DEF a, b, z, bad
<1> QED
  BY <1>12, <1>13, <1>14

\* A sum is a number; it is that of its parts; it depends on the counts alone.
LEMMA CountSumFacts ==
    ASSUME NEW S, NEW c, Counts(c, S)
    PROVE  /\ CountSum(c, S) \in Nat
           /\ \A k \in S : CountSum(c, S) = c[k].count + CountSum(c, S \ {k})
           /\ S = {} => CountSum(c, S) = 0
<1>1. PICK g : IsSum(c, S, g) /\ CountSum(c, S) = g[S]
  BY SumIsSum DEF Counts
<1>2. CountSum(c, S) \in Nat
  BY <1>1, SumNat
<1>3. ASSUME NEW k \in S PROVE CountSum(c, S) = c[k].count + CountSum(c, S \ {k})
  <2>1. IsFiniteSet(S \ {k})
    BY FS_RemoveElement DEF Counts
  <2>2. PICK h : IsSum(c, S \ {k}, h) /\ CountSum(c, S \ {k}) = h[S \ {k}]
    BY <2>1, SumIsSum
  <2>3. g[S \ {k}] = h[S \ {k}]
    BY <1>1, <2>2, SumsAgree DEF Counts
  <2>4. g[S] = c[k].count + g[S \ {k}]
    BY <1>1, SumAnyFirst
  <2> QED
    BY <1>1, <2>2, <2>3, <2>4
<1>4. S = {} => CountSum(c, S) = 0
  BY <1>1, SumBase
<1> QED
  BY <1>2, <1>3, <1>4

\* The sum depends on nothing but the counts.
LEMMA CountSumSame ==
    ASSUME NEW S, IsFiniteSet(S), NEW c, NEW d, \A k \in S : c[k].count = d[k].count
    PROVE  CountSum(c, S) = CountSum(d, S)
<1>1. PICK g : IsSum(c, S, g) /\ CountSum(c, S) = g[S]
  BY SumIsSum
<1>2. PICK h : IsSum(d, S, h) /\ CountSum(d, S) = h[S]
  BY SumIsSum
<1>3. g[S] = h[S]
  BY <1>1, <1>2, SumsAgree
<1> QED
  BY <1>1, <1>2, <1>3

\* Leaving candidates out does not add to the sum.
LEMMA CountSumSubset ==
    ASSUME NEW S, NEW c, Counts(c, S), NEW T \in SUBSET S
    PROVE  CountSum(c, T) <= CountSum(c, S)
<1> DEFINE bad == {s \in SUBSET S : T \subseteq s /\ ~(CountSum(c, T) <= CountSum(c, s))}
<1> SUFFICES ASSUME bad # {} PROVE FALSE
  OBVIOUS
<1>1. \A s \in SUBSET S : Counts(c, s) /\ IsFiniteSet(s)
  BY FS_Subset DEF Counts
<1>2. PICK s \in bad : Cardinality(s) \in Nat /\ \A t \in bad : Cardinality(s) <= Cardinality(t)
  <2>1. \A s \in bad : IsFiniteSet(s)
    BY <1>1
  <2> HIDE DEF bad
  <2> QED
    BY <2>1, SmallestSet
<1>3. s \in SUBSET S /\ T \subseteq s /\ ~(CountSum(c, T) <= CountSum(c, s))
  OBVIOUS
<1>4. CountSum(c, T) \in Nat
  BY <1>1, CountSumFacts
<1>5. PICK x \in s : x \notin T
  BY <1>3, <1>4
<1>6. Cardinality(s \ {x}) = Cardinality(s) - 1
  BY <1>1, <1>3, PickSmaller
<1>7. s \ {x} \in SUBSET S /\ T \subseteq s \ {x} /\ s \ {x} \notin bad
  <2> HIDE DEF bad
  <2> QED
    BY <1>2, <1>3, <1>5, <1>6
<1>8. CountSum(c, T) <= CountSum(c, s \ {x})
  BY <1>7
<1>9. /\ CountSum(c, s) = c[x].count + CountSum(c, s \ {x})
      /\ c[x].count \in Nat /\ CountSum(c, s \ {x}) \in Nat
  BY <1>1, <1>3, <1>7, CountSumFacts DEF Counts
<1> QED
  BY <1>3, <1>4, <1>8, <1>9
=============================================================================
