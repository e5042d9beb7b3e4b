-------------------------- MODULE EventLists_proofs --------------------------
(***************************************************************************)
(* What vListInsert, uxListRemove and a wake-up do to an event list of any *)
(* length: who is on it afterwards, each once, and in which order.         *)
(***************************************************************************)
EXTENDS EventLists, WellFoundedInduction, SequenceTheorems, FiniteSetTheorems, TLAPS

\* From the first on, no priority is higher than the one before.
Ordered(list, rank) == \A i, j \in DOMAIN list : i <= j => rank[list[i]] >= rank[list[j]]

\* A set of numbers that is not empty has a least one.
LEMMA LeastOne == \A T \in SUBSET Nat : T # {} => \E x \in T : \A y \in T : x <= y
<1> SUFFICES ASSUME NEW T \in SUBSET Nat, T # {} PROVE \E x \in T : \A y \in T : x <= y
  OBVIOUS
<1> DEFINE R == OpToRel(<, Nat)
<1>1. \A x, y \in Nat : <<x, y>> \in R <=> x < y
  BY DEF OpToRel
<1>2. IsWellFoundedOn(R, Nat)
  BY NatLessThanWellFounded
<1> HIDE DEF R
<1>3. \E x \in T : \A y \in T : ~ (<<y, x>> \in R)
  BY <1>2, WFMin
<1>4. PICK x \in T : \A y \in T : ~ (<<y, x>> \in R)
  BY <1>3
<1>5. ASSUME NEW y \in T PROVE x <= y
  <2>1. x \in Nat /\ y \in Nat
    OBVIOUS
  <2>2. ~ (y < x)
    BY <1>1, <1>4, <2>1
  <2> QED
    BY <2>1, <2>2
<1> QED
  BY <1>5

\* The place that vListInsert finds
LEMMA PlaceFound ==
  ASSUME NEW S, NEW list \in Seq(S), NEW t \in S, NEW rank, \A s \in S : rank[s] \in Nat
  PROVE  /\ PlaceFor(list, t, rank) \in 1 .. Len(list) + 1
         /\ \A i \in 1 .. Len(list) : i < PlaceFor(list, t, rank) => rank[list[i]] >= rank[t]
         /\ PlaceFor(list, t, rank) <= Len(list) =>
              rank[list[PlaceFor(list, t, rank)]] < rank[t]
<1> DEFINE L == LowerIn(list, t, rank)
<1>1. /\ Len(list) \in Nat /\ DOMAIN list = 1 .. Len(list)
      /\ \A i \in 1 .. Len(list) : rank[list[i]] \in Nat
      /\ rank[t] \in Nat
  OBVIOUS
<1>2. L = {i \in 1 .. Len(list) : rank[list[i]] < rank[t]}
  BY <1>1 DEF LowerIn
<1>3. CASE L = {}
  <2>1. PlaceFor(list, t, rank) = Len(list) + 1
    BY <1>3 DEF PlaceFor
  <2>2. \A i \in 1 .. Len(list) : rank[list[i]] >= rank[t]
    BY <1>1, <1>2, <1>3
  <2> QED
    BY <1>1, <2>1, <2>2
<1>4. CASE L # {}
  <2>1. L \in SUBSET Nat
    BY <1>2
  <2>2. \E x \in L : \A y \in L : x <= y
    BY <1>4, <2>1, LeastOne
  <2> HIDE DEF L
  <2>3. Min(L) \in L /\ \A y \in L : Min(L) <= y
    BY <2>2 DEF Min
  <2>4. PlaceFor(list, t, rank) = Min(L)
    BY <1>4 DEF PlaceFor, L
  <2>5. PICK p \in L : p = PlaceFor(list, t, rank) /\ \A y \in L : p <= y
    BY <2>3, <2>4
  <2>6. p \in 1 .. Len(list) /\ rank[list[p]] < rank[t]
    BY <1>2
  <2>7. ASSUME NEW i \in 1 .. Len(list), i < p PROVE rank[list[i]] >= rank[t]
    <3>1. i \notin L
      BY <2>5, <2>6, <2>7
    <3> QED
      BY <1>1, <1>2, <3>1
  <2> QED
    BY <1>1, <2>5, <2>6, <2>7
<1> QED
  BY <1>3, <1>4

\* What is where in two sequences, one after the other
LEMMA Joined ==
  ASSUME NEW S, NEW x \in Seq(S), NEW y \in Seq(S), NEW m \in Nat, NEW n \in Nat,
         Len(x) = m, Len(y) = n
  PROVE  /\ x \o y \in Seq(S) /\ Len(x \o y) = m + n
         /\ \A i \in 1 .. m : (x \o y)[i] = x[i]
         /\ \A i \in 1 .. n : (x \o y)[m + i] = y[i]
<1>1. /\ x \o y \in Seq(S) /\ Len(x \o y) = Len(x) + Len(y)
      /\ \A i \in 1 .. Len(x) + Len(y) :
           (x \o y)[i] = IF i <= Len(x) THEN x[i] ELSE y[i - Len(x)]
  BY ConcatProperties
<1>2. ASSUME NEW i \in 1 .. m PROVE (x \o y)[i] = x[i]
  BY <1>1
<1>3. ASSUME NEW i \in 1 .. n PROVE (x \o y)[m + i] = y[i]
  <2>1. m + i \in 1 .. Len(x) + Len(y) /\ ~ (m + i <= Len(x)) /\ (m + i) - Len(x) = i
    OBVIOUS
  <2> QED
    BY <1>1, <2>1
<1> QED
  BY <1>1, <1>2, <1>3

\* What is where after an insertion
LEMMA InsertPlaces ==
  ASSUME NEW S, NEW list \in Seq(S), NEW t \in S, NEW p \in 1 .. Len(list) + 1
  PROVE  /\ InsertAt(list, p, t) \in Seq(S) /\ Len(InsertAt(list, p, t)) = Len(list) + 1
         /\ \A i \in 1 .. p - 1 : InsertAt(list, p, t)[i] = list[i]
         /\ InsertAt(list, p, t)[p] = t
         /\ \A i \in p .. Len(list) : InsertAt(list, p, t)[i + 1] = list[i]
<1>0. Len(list) \in Nat /\ p - 1 \in Nat /\ Len(list) - (p - 1) \in Nat
  OBVIOUS
<1>m. PICK m \in Nat : m = p - 1
  BY <1>0
<1>n. PICK n \in Nat : n = Len(list) - (p - 1)
  BY <1>0
<1>1. m = p - 1 /\ n = Len(list) - m /\ p = m + 1 /\ Len(list) = m + n
  BY <1>0, <1>m, <1>n
<1>2. PICK a \in Seq(S) : a = SubSeq(list, 1, p - 1) /\ Len(a) = m /\ \A i \in 1 .. m : a[i] = list[i]
  <2>1. \A i \in 1 .. p - 1 : list[i] \in S
    OBVIOUS
  <2>2. /\ SubSeq(list, 1, p - 1) \in Seq(S)
        /\ Len(SubSeq(list, 1, p - 1)) = IF 1 <= p - 1 THEN (p - 1) - 1 + 1 ELSE 0
        /\ \A i \in 1 .. (p - 1) - 1 + 1 : SubSeq(list, 1, p - 1)[i] = list[1 + i - 1]
    BY <1>0, <2>1, SubSeqProperties
  <2>3. Len(SubSeq(list, 1, p - 1)) = m
    <3>1. PICK l \in Nat : /\ l = Len(SubSeq(list, 1, p - 1))
                           /\ l = IF 1 <= p - 1 THEN (p - 1) - 1 + 1 ELSE 0
      BY <2>2
    <3>2. l = m
      BY <1>1, <3>1
    <3> QED
      BY <3>1, <3>2
  <2>4. ASSUME NEW i \in 1 .. m PROVE SubSeq(list, 1, p - 1)[i] = list[i]
    <3>1. i \in 1 .. (p - 1) - 1 + 1 /\ 1 + i - 1 = i
      BY <1>1
    <3> QED
      BY <2>2, <3>1
  <2> QED
    BY <2>2, <2>3, <2>4
<1>3. PICK c \in Seq(S) : /\ c = SubSeq(list, p, Len(list)) /\ Len(c) = n
                          /\ \A i \in 1 .. n : c[i] = list[m + i]
  <2>1. \A i \in p .. Len(list) : list[i] \in S
    OBVIOUS
  <2>2. /\ SubSeq(list, p, Len(list)) \in Seq(S)
        /\ Len(SubSeq(list, p, Len(list))) = IF p <= Len(list) THEN Len(list) - p + 1 ELSE 0
        /\ \A i \in 1 .. Len(list) - p + 1 : SubSeq(list, p, Len(list))[i] = list[p + i - 1]
    BY <2>1, SubSeqProperties
  <2>3. Len(SubSeq(list, p, Len(list))) = n
    BY <1>1, <2>2
  <2>4. ASSUME NEW i \in 1 .. n PROVE SubSeq(list, p, Len(list))[i] = list[m + i]
    <3>1. i \in 1 .. Len(list) - p + 1 /\ p + i - 1 = m + i
      BY <1>1
    <3> QED
      BY <2>2, <3>1
  <2> QED
    BY <2>2, <2>3, <2>4
<1>4. PICK b \in Seq(S) : b = <<t>> /\ Len(b) = 1 /\ b[1] = t
  <2>1. <<t>> \in Seq(S) /\ Len(<<t>>) = 1 /\ <<t>>[1] = t
    OBVIOUS
  <2> QED
    BY <2>1
<1>5. PICK d \in Seq(S) : /\ d = a \o b /\ Len(d) = m + 1
                          /\ \A i \in 1 .. m : d[i] = a[i]
                          /\ \A i \in 1 .. 1 : d[m + i] = b[i]
  <2>1. 1 \in Nat
    OBVIOUS
  <2>2. /\ a \o b \in Seq(S) /\ Len(a \o b) = m + 1
        /\ \A i \in 1 .. m : (a \o b)[i] = a[i]
        /\ \A i \in 1 .. 1 : (a \o b)[m + i] = b[i]
    BY <1>2, <1>4, <2>1, Joined
  <2> QED
    BY <2>2
<1>6. PICK e \in Seq(S) : /\ e = d \o c /\ Len(e) = (m + 1) + n
                          /\ \A i \in 1 .. m + 1 : e[i] = d[i]
                          /\ \A i \in 1 .. n : e[(m + 1) + i] = c[i]
  <2>1. PICK k \in Nat : k = m + 1
    OBVIOUS
  <2>2. Len(d) = k /\ Len(c) = n
    BY <1>3, <1>5, <2>1
  <2>3. /\ d \o c \in Seq(S) /\ Len(d \o c) = k + n
        /\ \A i \in 1 .. k : (d \o c)[i] = d[i]
        /\ \A i \in 1 .. n : (d \o c)[k + i] = c[i]
    <3>1. /\ d \o c \in Seq(S) /\ Len(d \o c) = Len(d) + Len(c)
          /\ \A i \in 1 .. Len(d) + Len(c) :
               (d \o c)[i] = IF i <= Len(d) THEN d[i] ELSE c[i - Len(d)]
      BY ConcatProperties
    <3>2. PICK q \in Seq(S) : q = d \o c
      BY <3>1
    <3>3. /\ Len(q) = k + n
          /\ \A i \in 1 .. k + n : q[i] = IF i <= k THEN d[i] ELSE c[i - k]
      BY <2>2, <3>1, <3>2
    <3>4. ASSUME NEW i \in 1 .. k PROVE q[i] = d[i]
      BY <3>3
    <3>5. ASSUME NEW i \in 1 .. n PROVE q[k + i] = c[i]
      <4>1. k + i \in 1 .. k + n /\ ~ (k + i <= k) /\ (k + i) - k = i
        OBVIOUS
      <4> QED
        BY <3>3, <4>1
    <3> QED
      BY <3>2, <3>3, <3>4, <3>5
  <2> QED
    BY <2>1, <2>3
<1>7. InsertAt(list, p, t) = e
  BY <1>2, <1>3, <1>4, <1>5, <1>6 DEF InsertAt
<1>8. Len(e) = Len(list) + 1
  BY <1>1, <1>6
<1>9. ASSUME NEW i \in 1 .. p - 1 PROVE e[i] = list[i]
  BY <1>1, <1>2, <1>5, <1>6
<1>10. e[p] = t
  <2>1. d[m + 1] = t
    BY <1>4, <1>5
  <2>2. m + 1 \in 1 .. m + 1
    OBVIOUS
  <2> QED
    BY <1>1, <1>6, <2>1, <2>2
<1>11. ASSUME NEW i \in p .. Len(list) PROVE e[i + 1] = list[i]
  <2>1. i - m \in 1 .. n /\ (m + 1) + (i - m) = i + 1 /\ m + (i - m) = i
    BY <1>1
  <2>2. e[(m + 1) + (i - m)] = c[i - m] /\ c[i - m] = list[m + (i - m)]
    BY <1>3, <1>6, <2>1
  <2> QED
    BY <2>1, <2>2
<1> QED
  BY <1>7, <1>8, <1>9, <1>10, <1>11

(* vListInsert adds its task to the others and keeps the order.            *)
LEMMA InsertEffect ==
  ASSUME NEW S, NEW list \in Seq(S), NEW t \in S, NEW rank, \A s \in S : rank[s] \in Nat,
         t \notin ToSet(list), IsInjective(list)
  PROVE  /\ Inserted(list, t, rank) \in Seq(S) /\ IsInjective(Inserted(list, t, rank))
         /\ ToSet(Inserted(list, t, rank)) = ToSet(list) \cup {t}
         /\ Ordered(list, rank) => Ordered(Inserted(list, t, rank), rank)
<1>1. PICK p \in 1 .. Len(list) + 1 : p = PlaceFor(list, t, rank)
  BY PlaceFound
<1>2. /\ \A i \in 1 .. Len(list) : i < p => rank[list[i]] >= rank[t]
      /\ p <= Len(list) => rank[list[p]] < rank[t]
  BY <1>1, PlaceFound
<1>3. PICK new \in Seq(S) :
        /\ new = InsertAt(list, p, t) /\ Len(new) = Len(list) + 1
        /\ \A i \in 1 .. p - 1 : new[i] = list[i]
        /\ new[p] = t
        /\ \A i \in p .. Len(list) : new[i + 1] = list[i]
  BY InsertPlaces
<1>0. new = Inserted(list, t, rank)
  BY <1>1, <1>3 DEF Inserted
<1>4. /\ Len(list) \in Nat /\ DOMAIN list = 1 .. Len(list) /\ DOMAIN new = 1 .. Len(list) + 1
      /\ \A i \in 1 .. Len(list) : list[i] \in S /\ rank[list[i]] \in Nat /\ list[i] # t
      /\ rank[t] \in Nat
  BY <1>3 DEF ToSet
<1>10. ASSUME NEW i \in 1 .. Len(list) + 1
       PROVE  /\ i < p => i \in 1 .. Len(list) /\ new[i] = list[i]
              /\ i = p => new[i] = t
              /\ i > p => i - 1 \in 1 .. Len(list) /\ new[i] = list[i - 1]
  <2>1. CASE i < p
    <3>1. i \in 1 .. p - 1
      BY <2>1
    <3> QED
      BY <1>3, <2>1, <3>1
  <2>2. CASE i = p
    BY <1>3, <2>2
  <2>3. CASE i > p
    <3>1. PICK k \in p .. Len(list) : k = i - 1 /\ k + 1 = i
      BY <1>4, <2>3
    <3>2. new[k + 1] = list[k]
      BY <1>3
    <3> QED
      BY <1>4, <2>3, <3>1, <3>2
  <2> QED
    BY <2>1, <2>2, <2>3
<1>5. IsInjective(new)
  <2> SUFFICES ASSUME NEW i \in 1 .. Len(list) + 1, NEW j \in 1 .. Len(list) + 1, new[i] = new[j]
               PROVE  i = j
    BY <1>4 DEF IsInjective
  <2>1. \A k, l \in 1 .. Len(list) : list[k] = list[l] => k = l
    BY <1>4 DEF IsInjective
  <2>2. /\ i < p => i \in 1 .. Len(list)
        /\ i > p => i - 1 \in 1 .. Len(list)
        /\ j < p => j \in 1 .. Len(list)
        /\ j > p => j - 1 \in 1 .. Len(list)
    BY <1>10
  <2>3. CASE i = p \/ j = p
    BY <1>10, <1>4, <2>2, <2>3
  <2>4. CASE i < p /\ j < p
    BY <1>10, <2>1, <2>2, <2>4
  <2>5. CASE i > p /\ j > p
    <3>1. new[i] = list[i - 1] /\ new[j] = list[j - 1]
      BY <1>10, <2>5
    <3>2. i - 1 \in 1 .. Len(list) /\ j - 1 \in 1 .. Len(list)
      BY <2>2, <2>5
    <3>3. i - 1 = j - 1
      BY <2>1, <3>1, <3>2
    <3> QED
      BY <3>3
  <2>6. CASE i < p /\ j > p
    BY <1>10, <1>4, <2>1, <2>2, <2>6
  <2>7. CASE i > p /\ j < p
    BY <1>10, <1>4, <2>1, <2>2, <2>7
  <2> QED
    BY <2>3, <2>4, <2>5, <2>6, <2>7
<1>6. ToSet(new) = ToSet(list) \cup {t}
  <2>1. ASSUME NEW i \in 1 .. Len(list) + 1 PROVE new[i] \in ToSet(list) \cup {t}
    <3>1. CASE i < p
      BY <1>10, <1>4, <3>1 DEF ToSet
    <3>2. CASE i = p
      BY <1>10, <3>2
    <3>3. CASE i > p
      <4>1. i - 1 \in 1 .. Len(list) /\ new[i] = list[i - 1]
        BY <1>10, <1>4, <3>3
      <4> QED
        BY <1>4, <4>1 DEF ToSet
    <3> QED
      BY <3>1, <3>2, <3>3
  <2>2. ASSUME NEW i \in 1 .. Len(list) PROVE list[i] \in ToSet(new)
    <3>1. CASE i < p
      <4>1. i \in 1 .. Len(list) + 1 /\ new[i] = list[i]
        BY <1>3, <1>4, <3>1
      <4> QED
        BY <1>4, <4>1 DEF ToSet
    <3>2. CASE i >= p
      <4>1. i + 1 \in 1 .. Len(list) + 1 /\ ~ (i + 1 < p) /\ i + 1 # p /\ (i + 1) - 1 = i
        BY <1>4, <3>2
      <4>2. new[i + 1] = list[i]
        BY <1>3, <4>1
      <4> QED
        BY <1>4, <4>1, <4>2 DEF ToSet
    <3> QED
      BY <3>1, <3>2
  <2>3. t \in ToSet(new)
    BY <1>3, <1>4 DEF ToSet
  <2>4. ToSet(new) = {new[i] : i \in 1 .. Len(list) + 1} /\ ToSet(list) = {list[i] : i \in 1 .. Len(list)}
    BY <1>4 DEF ToSet
  <2> QED
    BY <2>1, <2>2, <2>3, <2>4
<1>7. ASSUME Ordered(list, rank) PROVE Ordered(new, rank)
  <2> SUFFICES ASSUME NEW i \in 1 .. Len(list) + 1, NEW j \in 1 .. Len(list) + 1, i <= j
               PROVE  rank[new[i]] >= rank[new[j]]
    BY <1>4 DEF Ordered
  <2>1. \A k, l \in 1 .. Len(list) : k <= l => rank[list[k]] >= rank[list[l]]
    BY <1>4, <1>7 DEF Ordered
  <2>2. /\ i < p => i \in 1 .. Len(list)
        /\ i > p => i - 1 \in 1 .. Len(list)
        /\ j < p => j \in 1 .. Len(list)
        /\ j > p => j - 1 \in 1 .. Len(list)
    BY <1>10
  <2>3. CASE i = p /\ j = p
    BY <1>10, <1>4, <2>3
  <2>4. CASE j < p
    <3>1. i < p /\ i \in 1 .. Len(list) /\ j \in 1 .. Len(list)
      BY <2>2, <2>4
    <3>2. new[i] = list[i] /\ new[j] = list[j]
      BY <1>10, <2>4, <3>1
    <3> QED
      BY <2>1, <3>1, <3>2
  <2>5. CASE i > p
    <3>1. i - 1 \in 1 .. Len(list) /\ j - 1 \in 1 .. Len(list) /\ i - 1 <= j - 1
      BY <2>2, <2>5
    <3>2. rank[list[i - 1]] >= rank[list[j - 1]]
      BY <2>1, <3>1
    <3>3. new[i] = list[i - 1] /\ new[j] = list[j - 1]
      BY <1>10, <2>5
    <3> QED
      BY <3>2, <3>3
  <2>6. CASE i < p /\ j = p
    BY <1>2, <1>10, <2>2, <2>6
  <2>7. CASE i <= p /\ j > p
    <3>1. p \in 1 .. Len(list) /\ j - 1 \in 1 .. Len(list) /\ p <= j - 1 /\ new[j] = list[j - 1]
      BY <1>10, <1>4, <2>7
    <3>2. rank[list[p]] >= rank[list[j - 1]] /\ rank[list[p]] < rank[t]
      <4>1. p <= Len(list)
        BY <1>4, <3>1
      <4>2. rank[list[p]] < rank[t]
        BY <1>2, <4>1
      <4> QED
        BY <2>1, <3>1, <4>2
    <3>3. CASE i = p
      BY <1>10, <1>4, <3>1, <3>2, <3>3
    <3>4. CASE i < p
      <4>1. rank[list[i]] >= rank[t] /\ new[i] = list[i]
        BY <1>2, <1>10, <2>2, <3>4
      <4> QED
        BY <1>4, <2>2, <3>1, <3>2, <3>4, <4>1
    <3> QED
      BY <2>7, <3>3, <3>4
  <2> QED
    BY <2>3, <2>4, <2>5, <2>6, <2>7
<1> QED
  BY <1>0, <1>5, <1>6, <1>7

\* A list of which only some are left, in the order they had
LEMMA Thinned ==
  ASSUME NEW S, NEW list \in Seq(S), NEW new \in Seq(S), IsInjective(list),
         NEW from \in [1 .. Len(new) -> 1 .. Len(list)],
         \A i, j \in 1 .. Len(new) : i < j => from[i] < from[j],
         \A i \in 1 .. Len(new) : new[i] = list[from[i]]
  PROVE  /\ IsInjective(new)
         /\ \A rank : Ordered(list, rank) => Ordered(new, rank)
<1>1. /\ DOMAIN new = 1 .. Len(new) /\ DOMAIN list = 1 .. Len(list)
      /\ Len(new) \in Nat /\ Len(list) \in Nat
      /\ \A i \in 1 .. Len(new) : from[i] \in 1 .. Len(list)
  OBVIOUS
<1>2. ASSUME NEW i \in 1 .. Len(new), NEW j \in 1 .. Len(new), i <= j PROVE from[i] <= from[j]
  <2>1. CASE i = j
    BY <1>1, <2>1
  <2>2. CASE i < j
    BY <1>1, <2>2
  <2> QED
    BY <1>2, <2>1, <2>2
<1>3. ASSUME NEW i \in 1 .. Len(new), NEW j \in 1 .. Len(new), new[i] = new[j] PROVE i = j
  <2>1. list[from[i]] = list[from[j]]
    BY <1>3
  <2>2. from[i] = from[j]
    BY <1>1, <2>1 DEF IsInjective
  <2>3. ~ (i < j) /\ ~ (j < i)
    <3>1. from[i] \in Nat /\ from[j] \in Nat
      BY <1>1
    <3> QED
      BY <2>2, <3>1
  <2> QED
    BY <2>3
<1>4. ASSUME NEW rank, Ordered(list, rank), NEW i \in 1 .. Len(new), NEW j \in 1 .. Len(new), i <= j
      PROVE  rank[new[i]] >= rank[new[j]]
  <2>1. rank[list[from[i]]] >= rank[list[from[j]]]
    BY <1>1, <1>2, <1>4 DEF Ordered
  <2> QED
    BY <2>1
<1> QED
  BY <1>1, <1>3, <1>4 DEF IsInjective, Ordered

\* What is where after a removal
LEMMA RemovePlaces ==
  ASSUME NEW S, NEW list \in Seq(S), NEW p \in 1 .. Len(list)
  PROVE  /\ RemoveAt(list, p) \in Seq(S) /\ Len(RemoveAt(list, p)) = Len(list) - 1
         /\ \A i \in 1 .. Len(list) - 1 :
              RemoveAt(list, p)[i] = IF i < p THEN list[i] ELSE list[i + 1]
<1>0. Len(list) \in Nat /\ p - 1 \in Nat /\ Len(list) - p \in Nat
  OBVIOUS
<1>m. PICK m \in Nat : m = p - 1
  BY <1>0
<1>n. PICK n \in Nat : n = Len(list) - p
  BY <1>0
<1>1. p = m + 1 /\ Len(list) = (m + 1) + n
  BY <1>0, <1>m, <1>n
<1>2. PICK a \in Seq(S) : /\ a = SubSeq(list, 1, p - 1) /\ Len(a) = m
                          /\ \A i \in 1 .. m : a[i] = list[i]
  <2>1. \A i \in 1 .. p - 1 : list[i] \in S
    OBVIOUS
  <2>2. /\ SubSeq(list, 1, p - 1) \in Seq(S)
        /\ Len(SubSeq(list, 1, p - 1)) = IF 1 <= p - 1 THEN (p - 1) - 1 + 1 ELSE 0
        /\ \A i \in 1 .. (p - 1) - 1 + 1 : SubSeq(list, 1, p - 1)[i] = list[1 + i - 1]
    BY <1>0, <2>1, SubSeqProperties
  <2>3. Len(SubSeq(list, 1, p - 1)) = m
    <3>1. PICK l \in Nat : /\ l = Len(SubSeq(list, 1, p - 1))
                           /\ l = IF 1 <= p - 1 THEN (p - 1) - 1 + 1 ELSE 0
      BY <2>2
    <3>2. l = m
      BY <1>1, <3>1
    <3> QED
      BY <3>1, <3>2
  <2>4. ASSUME NEW i \in 1 .. m PROVE SubSeq(list, 1, p - 1)[i] = list[i]
    <3>1. i \in 1 .. (p - 1) - 1 + 1 /\ 1 + i - 1 = i
      BY <1>1
    <3> QED
      BY <2>2, <3>1
  <2> QED
    BY <2>2, <2>3, <2>4
<1>3. PICK c \in Seq(S) : /\ c = SubSeq(list, p + 1, Len(list)) /\ Len(c) = n
                          /\ \A i \in 1 .. n : c[i] = list[p + i]
  <2>0. PICK k \in Nat : k = p + 1
    OBVIOUS
  <2>1. \A i \in k .. Len(list) : list[i] \in S
    BY <2>0
  <2>2. /\ SubSeq(list, k, Len(list)) \in Seq(S)
        /\ Len(SubSeq(list, k, Len(list))) = IF k <= Len(list) THEN Len(list) - k + 1 ELSE 0
        /\ \A i \in 1 .. Len(list) - k + 1 : SubSeq(list, k, Len(list))[i] = list[k + i - 1]
    BY <1>0, <2>1, SubSeqProperties
  <2>3. Len(SubSeq(list, k, Len(list))) = n
    BY <1>0, <1>1, <2>0, <2>2
  <2>4. ASSUME NEW i \in 1 .. n PROVE SubSeq(list, k, Len(list))[i] = list[p + i]
    <3>1. i \in 1 .. Len(list) - k + 1 /\ k + i - 1 = p + i
      BY <1>0, <1>1, <2>0
    <3> QED
      BY <2>2, <3>1
  <2> QED
    BY <2>0, <2>2, <2>3, <2>4
<1>4. PICK e \in Seq(S) : /\ e = a \o c /\ Len(e) = m + n
                          /\ \A i \in 1 .. m + n : e[i] = IF i <= m THEN a[i] ELSE c[i - m]
  <2>1. /\ a \o c \in Seq(S) /\ Len(a \o c) = Len(a) + Len(c)
        /\ \A i \in 1 .. Len(a) + Len(c) : (a \o c)[i] = IF i <= Len(a) THEN a[i] ELSE c[i - Len(a)]
    BY ConcatProperties
  <2> QED
    BY <1>2, <1>3, <2>1, ZenonT(30)
<1>5. RemoveAt(list, p) = e
  BY <1>2, <1>3, <1>4 DEF RemoveAt
<1>6. ASSUME NEW i \in 1 .. m + n PROVE e[i] = IF i < p THEN list[i] ELSE list[i + 1]
  <2>1. CASE i <= m
    <3>1. i \in 1 .. m /\ i < p
      BY <1>1, <2>1
    <3> QED
      BY <1>2, <1>4, <2>1, <3>1
  <2>2. CASE ~ (i <= m)
    <3>1. PICK j \in 1 .. n : j = i - m /\ p + j = i + 1 /\ ~ (i < p)
      BY <1>1, <2>2
    <3>2. e[i] = c[j] /\ c[j] = list[p + j]
      BY <1>3, <1>4, <2>2, <3>1
    <3> QED
      BY <3>1, <3>2
  <2> QED
    BY <2>1, <2>2
<1>7. Len(list) - 1 = m + n
  BY <1>1
<1> QED
  BY <1>4, <1>5, <1>6, <1>7

(* uxListRemove takes out the task, if it is there, and nobody else.       *)
LEMMA RemoveEffect ==
  ASSUME NEW S, NEW list \in Seq(S), NEW t, IsInjective(list)
  PROVE  /\ Removed(list, t) \in Seq(S) /\ IsInjective(Removed(list, t))
         /\ ToSet(Removed(list, t)) = ToSet(list) \ {t}
         /\ \A rank : Ordered(list, rank) => Ordered(Removed(list, t), rank)
<1>1. CASE t \notin ToSet(list)
  BY <1>1 DEF Removed
<1>2. CASE t \in ToSet(list)
  <2>0. DOMAIN list = 1 .. Len(list) /\ Len(list) \in Nat
    OBVIOUS
  <2>1. \E i \in DOMAIN list : list[i] = t
    BY <1>2 DEF ToSet
  <2>2. PICK p \in 1 .. Len(list) :
          p = (CHOOSE i \in DOMAIN list : list[i] = t) /\ list[p] = t
    BY <2>0, <2>1
  <2>3. PICK new \in Seq(S) :
          /\ new = RemoveAt(list, p) /\ Len(new) = Len(list) - 1
          /\ \A i \in 1 .. Len(list) - 1 : new[i] = IF i < p THEN list[i] ELSE list[i + 1]
    BY RemovePlaces
  <2>4. Removed(list, t) = new
    BY <1>2, <2>2, <2>3 DEF Removed
  <2>n. PICK n \in Nat : n = Len(new)
    OBVIOUS
  <2>5. Len(list) = n + 1 /\ Len(list) - 1 = n
    BY <2>0, <2>3, <2>n
  <2>6. PICK from \in [1 .. n -> 1 .. n + 1] :
          \A i \in 1 .. n : from[i] = IF i < p THEN i ELSE i + 1
    <3> DEFINE g == [i \in 1 .. n |-> IF i < p THEN i ELSE i + 1]
    <3>1. \A i \in 1 .. n : (IF i < p THEN i ELSE i + 1) \in 1 .. n + 1
      OBVIOUS
    <3>2. g \in [1 .. n -> 1 .. n + 1] /\ \A i \in 1 .. n : g[i] = IF i < p THEN i ELSE i + 1
      BY <3>1
    <3> HIDE DEF g
    <3> QED
      BY <3>2
  <2>7. ASSUME NEW i \in 1 .. n PROVE new[i] = list[from[i]]
    <3>1. CASE i < p
      BY <2>3, <2>5, <2>6, <3>1
    <3>2. CASE ~ (i < p)
      BY <2>3, <2>5, <2>6, <3>2
    <3> QED
      BY <3>1, <3>2
  <2>8. ASSUME NEW i \in 1 .. n, NEW j \in 1 .. n, i < j PROVE from[i] < from[j]
    <3>1. p \in Nat /\ i \in Nat /\ j \in Nat
      OBVIOUS
    <3>2. /\ from[i] = (IF i < p THEN i ELSE i + 1)
          /\ from[j] = (IF j < p THEN j ELSE j + 1)
      BY <2>6
    <3> QED
      BY <2>8, <3>1, <3>2
  <2>9. IsInjective(new) /\ \A rank : Ordered(list, rank) => Ordered(new, rank)
    <3>1. from \in [1 .. Len(new) -> 1 .. Len(list)]
      BY <2>5, <2>n
    <3>2. \A i, j \in 1 .. Len(new) : i < j => from[i] < from[j]
      BY <2>8, <2>n
    <3>3. \A i \in 1 .. Len(new) : new[i] = list[from[i]]
      BY <2>7, <2>n
    <3> QED
      BY <3>1, <3>2, <3>3, Thinned
  <2>10. DOMAIN new = 1 .. n /\ DOMAIN list = 1 .. n + 1
    BY <2>0, <2>5, <2>n
  <2>11. ASSUME NEW i \in 1 .. n PROVE new[i] \in ToSet(list) /\ new[i] # t
    <3>0. p \in Nat /\ from[i] = IF i < p THEN i ELSE i + 1
      BY <2>6
    <3>1. from[i] \in 1 .. n + 1 /\ from[i] # p
      BY <3>0
    <3>2. list[from[i]] # list[p]
      BY <2>10, <2>2, <2>5, <3>1 DEF IsInjective
    <3> QED
      BY <2>2, <2>7, <2>10, <3>1, <3>2 DEF ToSet
  <2>12. ASSUME NEW k \in 1 .. n + 1, k # p PROVE list[k] \in ToSet(new)
    <3>1. CASE k < p
      <4>1. k \in 1 .. n /\ from[k] = k
        BY <2>2, <2>5, <2>6, <3>1
      <4>2. new[k] = list[k]
        BY <2>7, <4>1
      <4> QED
        BY <2>10, <4>1, <4>2 DEF ToSet
    <3>2. CASE k > p
      <4>0. k \in Nat /\ p \in Nat /\ p >= 1
        BY <2>2
      <4>1. PICK j \in 1 .. n : j = k - 1 /\ ~ (j < p) /\ j + 1 = k
        BY <3>2, <4>0
      <4>2. from[j] = k
        BY <2>6, <4>1
      <4>3. new[j] = list[k]
        BY <2>7, <4>2
      <4> QED
        BY <2>10, <4>3 DEF ToSet
    <3> QED
      BY <2>2, <2>12, <3>1, <3>2
  <2>13. ToSet(new) = ToSet(list) \ {t}
    <3>1. ToSet(new) = {new[i] : i \in 1 .. n} /\ ToSet(list) = {list[i] : i \in 1 .. n + 1}
      BY <2>10 DEF ToSet
    <3> QED
      BY <2>2, <2>11, <2>12, <3>1
  <2> QED
    BY <2>4, <2>9, <2>13
<1> QED
  BY <1>1, <1>2

\* The first of a list is taken off it
LEMMA TailEffect ==
  ASSUME NEW S, NEW list \in Seq(S), list # <<>>, IsInjective(list)
  PROVE  /\ Head(list) \in S /\ Head(list) \in ToSet(list)
         /\ Tail(list) \in Seq(S) /\ IsInjective(Tail(list))
         /\ ToSet(Tail(list)) = ToSet(list) \ {Head(list)}
         /\ \A rank : Ordered(list, rank) =>
              /\ Ordered(Tail(list), rank)
              /\ \A u \in ToSet(list) : rank[Head(list)] >= rank[u]
<1>1. PICK n \in Nat : Len(list) = n + 1
  <2>1. Len(list) - 1 \in Nat /\ Len(list) = (Len(list) - 1) + 1
    OBVIOUS
  <2> QED
    BY <2>1
<1>2. PICK new \in Seq(S) : /\ new = Tail(list) /\ Len(new) = n
                            /\ \A i \in 1 .. n : new[i] = list[i + 1]
  <2>1. /\ Tail(list) \in Seq(S) /\ Len(Tail(list)) = Len(list) - 1
        /\ \A i \in 1 .. Len(list) - 1 : Tail(list)[i] = list[i + 1]
    OBVIOUS
  <2>2. Len(list) - 1 = n
    BY <1>1
  <2> QED
    BY <2>1, <2>2
<1>3. /\ DOMAIN new = 1 .. n /\ DOMAIN list = 1 .. n + 1
      /\ 1 \in 1 .. n + 1 /\ Head(list) = list[1] /\ \A i \in 1 .. n + 1 : list[i] \in S
  BY <1>1, <1>2
<1>4. PICK from \in [1 .. n -> 1 .. n + 1] : \A i \in 1 .. n : from[i] = i + 1
  <2> DEFINE g == [i \in 1 .. n |-> i + 1]
  <2>1. g \in [1 .. n -> 1 .. n + 1] /\ \A i \in 1 .. n : g[i] = i + 1
    OBVIOUS
  <2> HIDE DEF g
  <2> QED
    BY <2>1
<1>5. IsInjective(new) /\ \A rank : Ordered(list, rank) => Ordered(new, rank)
  <2>1. from \in [1 .. Len(new) -> 1 .. Len(list)]
    BY <1>1, <1>2
  <2>2. \A i, j \in 1 .. Len(new) : i < j => from[i] < from[j]
    BY <1>2, <1>4
  <2>3. \A i \in 1 .. Len(new) : new[i] = list[from[i]]
    BY <1>2, <1>4
  <2> QED
    BY <2>1, <2>2, <2>3, Thinned
<1>6. ASSUME NEW i \in 1 .. n PROVE new[i] \in ToSet(list) /\ new[i] # list[1]
  <2>1. i + 1 \in 1 .. n + 1 /\ i + 1 # 1
    OBVIOUS
  <2>2. list[i + 1] # list[1]
    BY <1>3, <2>1 DEF IsInjective
  <2> QED
    BY <1>2, <1>3, <2>1, <2>2 DEF ToSet
<1>7. ASSUME NEW k \in 1 .. n + 1, k # 1 PROVE list[k] \in ToSet(new)
  <2>1. PICK j \in 1 .. n : j + 1 = k
    BY <1>7
  <2> QED
    BY <1>2, <1>3, <2>1 DEF ToSet
<1>8. ToSet(new) = ToSet(list) \ {list[1]} /\ list[1] \in ToSet(list)
  <2>1. ToSet(new) = {new[i] : i \in 1 .. n} /\ ToSet(list) = {list[i] : i \in 1 .. n + 1}
    BY <1>3 DEF ToSet
  <2> QED
    BY <1>3, <1>6, <1>7, <2>1
<1>9. ASSUME NEW rank, Ordered(list, rank), NEW u \in ToSet(list) PROVE rank[list[1]] >= rank[u]
  <2>1. PICK i \in 1 .. n + 1 : list[i] = u
    BY <1>3 DEF ToSet
  <2>2. 1 <= i
    OBVIOUS
  <2> QED
    BY <1>3, <1>9, <2>1, <2>2 DEF Ordered
<1> QED
  BY <1>2, <1>3, <1>5, <1>8, <1>9

\* A list of which the first n are taken off
LEMMA CutEffect ==
  ASSUME NEW S, NEW list \in Seq(S), IsInjective(list), NEW n \in 0 .. Len(list)
  PROVE  LET off == ToSet(SubSeq(list, 1, n))
             new == SubSeq(list, n + 1, Len(list))
         IN  /\ new \in Seq(S) /\ IsInjective(new) /\ Len(new) = Len(list) - n
             /\ off \subseteq ToSet(list) /\ ToSet(new) = ToSet(list) \ off
             /\ IsFiniteSet(off) /\ Cardinality(off) = n
             /\ \A rank : Ordered(list, rank) => Ordered(new, rank)
<1>0. Len(list) \in Nat /\ n \in Nat /\ Len(list) - n \in Nat
  OBVIOUS
<1>m. PICK m \in Nat : m = Len(list) - n
  BY <1>0
<1>1. Len(list) = n + m
  BY <1>0, <1>m
<1>2. PICK a \in Seq(S) : /\ a = SubSeq(list, 1, n) /\ Len(a) = n
                          /\ \A i \in 1 .. n : a[i] = list[i]
  <2>1. \A i \in 1 .. n : list[i] \in S
    BY <1>0
  <2>2. /\ SubSeq(list, 1, n) \in Seq(S)
        /\ Len(SubSeq(list, 1, n)) = IF 1 <= n THEN n - 1 + 1 ELSE 0
        /\ \A i \in 1 .. n - 1 + 1 : SubSeq(list, 1, n)[i] = list[1 + i - 1]
    BY <1>0, <2>1, SubSeqProperties
  <2>3. Len(SubSeq(list, 1, n)) = n
    BY <1>0, <2>2, SMTT(30)
  <2>4. ASSUME NEW i \in 1 .. n PROVE SubSeq(list, 1, n)[i] = list[i]
    <3>1. i \in 1 .. n - 1 + 1 /\ 1 + i - 1 = i
      BY <1>0
    <3> QED
      BY <2>2, <3>1
  <2> QED
    BY <2>2, <2>3, <2>4
<1>3. PICK c \in Seq(S) : /\ c = SubSeq(list, n + 1, Len(list)) /\ Len(c) = m
                          /\ \A i \in 1 .. m : c[i] = list[n + i]
  <2>0. PICK k \in Nat : k = n + 1
    BY <1>0
  <2>1. \A i \in k .. Len(list) : list[i] \in S
    BY <1>0, <2>0
  <2>2. /\ SubSeq(list, k, Len(list)) \in Seq(S)
        /\ Len(SubSeq(list, k, Len(list))) = IF k <= Len(list) THEN Len(list) - k + 1 ELSE 0
        /\ \A i \in 1 .. Len(list) - k + 1 : SubSeq(list, k, Len(list))[i] = list[k + i - 1]
    BY <1>0, <2>1, SubSeqProperties
  <2>3. Len(SubSeq(list, k, Len(list))) = m
    BY <1>0, <1>1, <2>0, <2>2, SMTT(30)
  <2>4. ASSUME NEW i \in 1 .. m PROVE SubSeq(list, k, Len(list))[i] = list[n + i]
    <3>1. i \in 1 .. Len(list) - k + 1 /\ k + i - 1 = n + i
      BY <1>0, <1>1, <2>0
    <3> QED
      BY <2>2, <3>1
  <2> QED
    BY <2>0, <2>2, <2>3, <2>4
<1>4. /\ DOMAIN list = 1 .. n + m /\ DOMAIN a = 1 .. n /\ DOMAIN c = 1 .. m
      /\ \A i, j \in 1 .. n + m : list[i] = list[j] => i = j
  <2>1. DOMAIN list = 1 .. n + m /\ DOMAIN a = 1 .. n /\ DOMAIN c = 1 .. m
    <3>1. \A x \in Seq(S) : DOMAIN x = 1 .. Len(x)
      OBVIOUS
    <3>2. DOMAIN list = 1 .. Len(list) /\ DOMAIN a = 1 .. Len(a) /\ DOMAIN c = 1 .. Len(c)
      BY <3>1
    <3> QED
      BY <1>1, <1>2, <1>3, <3>2, Zenon
  <2> QED
    BY <2>1 DEF IsInjective
<1>5. /\ ToSet(list) = {list[i] : i \in 1 .. n + m}
      /\ ToSet(a) = {a[i] : i \in 1 .. n} /\ ToSet(c) = {c[i] : i \in 1 .. m}
  BY <1>4 DEF ToSet
<1>6. PICK from \in [1 .. m -> 1 .. n + m] : \A i \in 1 .. m : from[i] = n + i
  <2> DEFINE g == [i \in 1 .. m |-> n + i]
  <2>1. \A i \in 1 .. m : n + i \in 1 .. n + m
    BY <1>0
  <2>2. g \in [1 .. m -> 1 .. n + m] /\ \A i \in 1 .. m : g[i] = n + i
    BY <2>1
  <2> HIDE DEF g
  <2> QED
    BY <2>2
<1>7. IsInjective(c) /\ \A rank : Ordered(list, rank) => Ordered(c, rank)
  <2>1. from \in [1 .. Len(c) -> 1 .. Len(list)]
    BY <1>1, <1>3
  <2>2. \A i, j \in 1 .. Len(c) : i < j => from[i] < from[j]
    BY <1>0, <1>3, <1>6
  <2>3. \A i \in 1 .. Len(c) : c[i] = list[from[i]]
    BY <1>3, <1>6
  <2> QED
    BY <2>1, <2>2, <2>3, Thinned
<1>8. ASSUME NEW i \in 1 .. m PROVE c[i] \in ToSet(list) /\ c[i] \notin ToSet(a)
  <2>1. n + i \in 1 .. n + m
    BY <1>0
  <2>2. ASSUME NEW j \in 1 .. n PROVE a[j] # c[i]
    <3>1. j \in 1 .. n + m /\ j # n + i
      BY <1>0
    <3> QED
      BY <1>2, <1>3, <1>4, <2>1, <3>1
  <2> QED
    BY <1>3, <1>5, <2>1, <2>2
<1>9. ASSUME NEW k \in 1 .. n + m PROVE list[k] \in ToSet(a) \/ list[k] \in ToSet(c)
  <2>1. CASE k <= n
    BY <1>0, <1>2, <1>5, <2>1
  <2>2. CASE ~ (k <= n)
    <3>1. PICK j \in 1 .. m : n + j = k
      <4>1. k - n \in 1 .. m /\ n + (k - n) = k
        BY <1>0, <2>2
      <4> QED
        BY <4>1
    <3> QED
      BY <1>3, <1>5, <3>1
  <2> QED
    BY <2>1, <2>2
<1>10. ToSet(a) \subseteq ToSet(list)
  <2>1. \A j \in 1 .. n : j \in 1 .. n + m
    BY <1>0
  <2> QED
    BY <1>2, <1>5, <2>1
<1>11. ToSet(c) = ToSet(list) \ ToSet(a)
  BY <1>5, <1>8, <1>9
<1>12. IsFiniteSet(ToSet(a)) /\ Cardinality(ToSet(a)) = n
  <2>1. IsFiniteSet(1 .. n) /\ Cardinality(1 .. n) = n
    BY <1>0, FS_Interval
  <2>2. ExistsBijection(1 .. n, ToSet(a))
    <3>1. a \in Bijection(1 .. n, ToSet(a))
      <4>1. a \in [1 .. n -> ToSet(a)]
        <5>1. a = [i \in 1 .. n |-> a[i]]
          BY <1>2
        <5>2. \A i \in 1 .. n : a[i] \in ToSet(a)
          BY <1>5
        <5> QED
          BY <5>1, <5>2
      <4>2. \A i, j \in 1 .. n : a[i] = a[j] => i = j
        <5>1. \A i \in 1 .. n : i \in 1 .. n + m
          BY <1>0
        <5> QED
          BY <1>2, <1>4, <5>1
      <4>3. \A s \in ToSet(a) : \E i \in 1 .. n : a[i] = s
        BY <1>5
      <4> QED
        BY <4>1, <4>2, <4>3 DEF Bijection, Injection, Surjection, IsInjective
    <3> QED
      BY <3>1 DEF ExistsBijection
  <2> QED
    BY <2>1, <2>2, FS_Bijection
<1> QED
  BY <1>1, <1>2, <1>3, <1>7, <1>10, <1>11, <1>12
=============================================================================
