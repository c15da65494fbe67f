--------------------------- MODULE OrderBookProofs ---------------------------
(***************************************************************************)
(* The structures of the order book, for every capacity, radix, set of       *)
(* orders and generation limit: after any history of adding, removing and    *)
(* reducing orders the links spell the queues, no slot is lost or used       *)
(* twice, and the bitmaps mark the levels in use.                            *)
(***************************************************************************)
EXTENDS OrderBook, BitmapProofs, SequenceTheorems, FiniteSetTheorems, WellFoundedInduction

-----------------------------------------------------------------------------
(* Lists of slots. *)

\* list without its k-th element.
Without(list, k) == [i \in 1..Len(list)-1 |-> IF i < k THEN list[i] ELSE list[i + 1]]

\* A list linked both ways.
Linked(list, head, tail, nx, pv) ==
  /\ head = IF list = << >> THEN Null ELSE list[1]
  /\ tail = IF list = << >> THEN Null ELSE list[Len(list)]
  /\ \A i \in 1..Len(list) : nx[list[i]] = IF i = Len(list) THEN Null ELSE list[i + 1]
  /\ \A i \in 1..Len(list) : pv[list[i]] = IF i = 1 THEN Null ELSE list[i - 1]

\* Reading a list backwards through `pv` is reading prev of each element.
LEMMA LinkedBothWays ==
  ASSUME NEW list \in Seq(Slots), NEW head, NEW tail, NEW nx, NEW pv
  PROVE  Linked(list, head, tail, nx, pv)
         <=> LinkedFrom(head, list, nx) /\ LinkedFrom(tail, Reverse(list), pv)
<1> DEFINE n == Len(list)
           back == Reverse(list)
<1>1. n \in Nat /\ DOMAIN list = 1..n
  BY LenProperties
<1>2. back = [i \in 1..n |-> list[(n - i) + 1]]
  BY DEF Reverse
<1>3. back \in Seq(Slots)
  <2>1. \A i \in 1..n : list[(n - i) + 1] \in Slots
    BY <1>1, ElementOfSeq
  <2> HIDE DEF n
  <2> QED
    BY <1>1, <1>2, <2>1, SeqDef
<1>4. Len(back) = n /\ (back = << >> <=> list = << >>)
  <2>1. DOMAIN back = 1..n
    BY <1>2
  <2>2. Len(back) = n
    BY <1>1, <1>3, <2>1, LenProperties
  <2> QED
    BY <1>3, <2>2, EmptySeq
<1>5. list # << >> => n >= 1
  BY <1>1, EmptySeq
<1> HIDE DEF n, back
<1>6. list # << >> => back[1] = list[n]
  BY <1>1, <1>2, <1>5
<1>7. (\A i \in 1..n : pv[list[i]] = IF i = 1 THEN Null ELSE list[i - 1])
      <=> (\A i \in 1..n : pv[back[i]] = IF i = n THEN Null ELSE back[i + 1])
  <2>1. ASSUME \A i \in 1..n : pv[list[i]] = IF i = 1 THEN Null ELSE list[i - 1], NEW i \in 1..n
        PROVE  pv[back[i]] = IF i = n THEN Null ELSE back[i + 1]
    <3>1. (n - i) + 1 \in 1..n /\ back[i] = list[(n - i) + 1]
      BY <1>1, <1>2
    <3>2. (n - i) + 1 = 1 <=> i = n
      BY <1>1
    <3>3. i # n => back[i + 1] = list[((n - i) + 1) - 1]
      <4>1. i # n => i + 1 \in 1..n /\ (n - (i + 1)) + 1 = ((n - i) + 1) - 1
        BY <1>1
      <4> QED
        BY <1>2, <4>1
    <3> QED
      BY <2>1, <3>1, <3>2, <3>3
  <2>2. ASSUME \A i \in 1..n : pv[back[i]] = IF i = n THEN Null ELSE back[i + 1], NEW i \in 1..n
        PROVE  pv[list[i]] = IF i = 1 THEN Null ELSE list[i - 1]
    <3> DEFINE j == (n - i) + 1
    <3>1. j \in 1..n /\ back[j] = list[i]
      <4>1. j \in 1..n /\ (n - j) + 1 = i
        BY <1>1
      <4> QED
        BY <1>2, <4>1
    <3>2. i = 1 <=> j = n
      BY <1>1
    <3>3. i # 1 => back[j + 1] = list[i - 1]
      <4>1. i # 1 => j + 1 \in 1..n /\ (n - (j + 1)) + 1 = i - 1
        BY <1>1
      <4> QED
        BY <1>2, <4>1
    <3> HIDE DEF j
    <3> QED
      BY <2>2, <3>1, <3>2, <3>3
  <2> QED
    BY <2>1, <2>2
<1>8. LinkedFrom(tail, back, pv)
      <=> /\ tail = IF list = << >> THEN Null ELSE list[n]
          /\ \A i \in 1..n : pv[list[i]] = IF i = 1 THEN Null ELSE list[i - 1]
  <2>1. LinkedFrom(tail, back, pv)
        <=> /\ tail = IF list = << >> THEN Null ELSE list[n]
            /\ \A i \in 1..n : pv[back[i]] = IF i = n THEN Null ELSE back[i + 1]
    BY <1>4, <1>6 DEF LinkedFrom
  <2> QED
    BY <1>7, <2>1
<1>9. LinkedFrom(head, list, nx)
      <=> /\ head = IF list = << >> THEN Null ELSE list[1]
          /\ \A i \in 1..n : nx[list[i]] = IF i = n THEN Null ELSE list[i + 1]
  BY DEF LinkedFrom, n
<1>10. Linked(list, head, tail, nx, pv)
       <=> /\ head = IF list = << >> THEN Null ELSE list[1]
           /\ tail = IF list = << >> THEN Null ELSE list[n]
           /\ \A i \in 1..n : nx[list[i]] = IF i = n THEN Null ELSE list[i + 1]
           /\ \A i \in 1..n : pv[list[i]] = IF i = 1 THEN Null ELSE list[i - 1]
  BY DEF Linked, n
<1> QED
  BY <1>8, <1>9, <1>10 DEF back

\* Removing the only occurrence of an element is removing its position.
LEMMA RemoveFirstIsWithout ==
  ASSUME NEW list \in Seq(Slots), IsInjective(list), NEW k \in 1..Len(list)
  PROVE  RemoveFirst(list, list[k]) = Without(list, k)
<1> DEFINE n == Len(list)
           I == {i \in 1..n : list[i] = list[k]}
<1>1. n \in Nat /\ DOMAIN list = 1..n /\ \A i \in 1..n : list[i] \in Slots
  BY LenProperties, ElementOfSeq
<1>2. I = {k}
  BY <1>1 DEF IsInjective
<1>3. SelectInSeq(list, LAMBDA v : v = list[k]) = k
  <2>1. SelectInSeq(list, LAMBDA v : v = list[k]) = IF I # {} THEN Min(I) ELSE 0
    BY DEF SelectInSeq
  <2>2. Min({k}) = k
    <3>1. k \in {k} /\ \A y \in {k} : k <= y
      BY <1>1
    <3> QED
      BY <3>1 DEF Min
  <2> QED
    BY <1>2, <2>1, <2>2
<1>4. RemoveFirst(list, list[k]) = SubSeq(list, 1, k - 1) \o SubSeq(list, k + 1, n)
  BY <1>3 DEF RemoveFirst, RemoveAt
<1> DEFINE s1 == SubSeq(list, 1, k - 1)
           s2 == SubSeq(list, k + 1, n)
<1> HIDE DEF n
<1>5. /\ s1 \in Seq(Slots) /\ Len(s1) = k - 1
      /\ \A i \in 1..k-1 : s1[i] = list[i]
  <2>1. 1 \in Int /\ k - 1 \in Int /\ \A i \in 1..k-1 : list[i] \in Slots
    BY <1>1 DEF n
  <2>2. /\ s1 \in Seq(Slots)
        /\ Len(s1) = IF 1 <= k - 1 THEN (k - 1) - 1 + 1 ELSE 0
        /\ \A i \in 1..(k - 1) - 1 + 1 : s1[i] = list[1 + i - 1]
    BY <2>1, SubSeqProperties
  <2> HIDE DEF s1
  <2>3. \A i \in 1..k-1 : 1 + i - 1 = i
    OBVIOUS
  <2> QED
    BY <1>1, <2>1, <2>2, <2>3 DEF n
<1>6. /\ s2 \in Seq(Slots) /\ Len(s2) = n - k
      /\ \A i \in 1..n-k : s2[i] = list[k + i]
  <2>1. k + 1 \in Int /\ n \in Int /\ \A i \in k+1..n : list[i] \in Slots
    BY <1>1 DEF n
  <2>2. /\ s2 \in Seq(Slots)
        /\ Len(s2) = IF k + 1 <= n THEN n - (k + 1) + 1 ELSE 0
        /\ \A i \in 1..n - (k + 1) + 1 : s2[i] = list[(k + 1) + i - 1]
    BY <2>1, SubSeqProperties
  <2> HIDE DEF s2
  <2>3. n \in Nat /\ k \in 1..n
    BY <1>1 DEF n
  <2>4. n - (k + 1) + 1 = n - k /\ \A i \in 1..n-k : (k + 1) + i - 1 = k + i
    BY <2>3
  <2>5. Len(s2) = n - k
    BY <2>2, <2>3
  <2>6. \A i \in 1..n-k : s2[i] = list[k + i]
    BY <2>2, <2>4
  <2> QED
    BY <2>2, <2>5, <2>6
<1> HIDE DEF s1, s2
<1>7. /\ s1 \o s2 \in Seq(Slots) /\ Len(s1 \o s2) = (k - 1) + (n - k)
      /\ \A i \in 1..(k - 1) + (n - k) :
           (s1 \o s2)[i] = IF i <= k - 1 THEN s1[i] ELSE s2[i - (k - 1)]
  <2>1. /\ s1 \o s2 \in Seq(Slots) /\ Len(s1 \o s2) = Len(s1) + Len(s2)
        /\ \A i \in 1..Len(s1) + Len(s2) :
             (s1 \o s2)[i] = IF i <= Len(s1) THEN s1[i] ELSE s2[i - Len(s1)]
    BY <1>5, <1>6, ConcatProperties
  <2> QED
    BY <1>5, <1>6, <2>1
<1>8. (k - 1) + (n - k) = n - 1 /\ n - 1 \in Nat
  BY <1>1 DEF n
<1>9. ASSUME NEW i \in 1..n-1
      PROVE  (s1 \o s2)[i] = IF i < k THEN list[i] ELSE list[i + 1]
  <2>1. CASE i < k
    <3>1. i \in 1..k-1
      BY <1>1, <2>1 DEF n
    <3> QED
      BY <1>5, <1>7, <1>8, <2>1, <3>1
  <2>2. CASE ~(i < k)
    <3>1. i - (k - 1) \in 1..n-k /\ k + (i - (k - 1)) = i + 1 /\ ~(i <= k - 1)
      BY <1>1, <2>2 DEF n
    <3> QED
      BY <1>6, <1>7, <1>8, <2>2, <3>1
  <2> QED
    BY <2>1, <2>2
<1>10. s1 \o s2 = [i \in 1..n-1 |-> IF i < k THEN list[i] ELSE list[i + 1]]
  BY <1>7, <1>8, <1>9, LenProperties
<1> QED
  BY <1>4, <1>10 DEF s1, s2, Without, n

\* What ToSet and IsInjective say of a list of slots.
LEMMA ListFacts ==
  ASSUME NEW list \in Seq(Slots)
  PROVE  /\ Len(list) \in Nat
         /\ \A i \in 1..Len(list) : list[i] \in Slots /\ list[i] \in ToSet(list)
         /\ \A s \in ToSet(list) : \E i \in 1..Len(list) : s = list[i]
         /\ ToSet(list) \in SUBSET Slots
         /\ IsInjective(list) <=> \A i, j \in 1..Len(list) : list[i] = list[j] => i = j
         /\ list = << >> <=> Len(list) = 0
<1>1. Len(list) \in Nat /\ DOMAIN list = 1..Len(list)
  BY LenProperties
<1>2. \A i \in 1..Len(list) : list[i] \in Slots
  BY ElementOfSeq
<1>3. list = << >> <=> Len(list) = 0
  BY <1>1, EmptySeq
<1> QED
  BY <1>1, <1>2, <1>3 DEF ToSet, IsInjective

\* A list keeps its links if the fields of its slots keep their values.
LEMMA LinkedSame ==
  ASSUME NEW list \in Seq(Slots), NEW head, NEW tail, NEW nx, NEW pv, NEW nx2, NEW pv2,
         Linked(list, head, tail, nx, pv),
         \A s \in ToSet(list) : nx2[s] = nx[s] /\ pv2[s] = pv[s]
  PROVE  Linked(list, head, tail, nx2, pv2)
BY ListFacts DEF Linked

\* Appending a slot.
LEMMA AppendList ==
  ASSUME NEW list \in Seq(Slots), IsInjective(list), NEW idx \in Slots, idx \notin ToSet(list)
  PROVE  /\ Append(list, idx) \in Seq(Slots)
         /\ Len(Append(list, idx)) = Len(list) + 1
         /\ \A i \in 1..Len(list) : Append(list, idx)[i] = list[i]
         /\ Append(list, idx)[Len(list) + 1] = idx
         /\ IsInjective(Append(list, idx))
         /\ ToSet(Append(list, idx)) = ToSet(list) \cup {idx}
<1> DEFINE new == Append(list, idx)
           n   == Len(list)
<1>1. n \in Nat /\ \A i \in 1..n : list[i] \in Slots /\ list[i] \in ToSet(list)
  BY ListFacts
<1>2. /\ new \in Seq(Slots) /\ Len(new) = n + 1
      /\ \A i \in 1..n : new[i] = list[i]
      /\ new[n + 1] = idx
  BY <1>1, AppendProperties
<1>3. \A i \in 1..n+1 : i \in 1..n \/ i = n + 1
  BY <1>1
<1>4. \A i, j \in 1..n : list[i] = list[j] => i = j
  BY ListFacts
<1> HIDE DEF new, n
<1>5. \A i, j \in 1..n+1 : new[i] = new[j] => i = j
  BY <1>1, <1>2, <1>3, <1>4
<1>6. IsInjective(new)
  BY <1>2, <1>5, ListFacts
<1>7. ToSet(new) = ToSet(list) \cup {idx}
  <2>1. ASSUME NEW s \in ToSet(new) PROVE s \in ToSet(list) \cup {idx}
    <3>1. PICK i \in 1..n+1 : s = new[i]
      BY <1>2, ListFacts
    <3> QED
      BY <1>1, <1>2, <1>3, <3>1
  <2>2. ASSUME NEW s \in ToSet(list) PROVE s \in ToSet(new)
    <3>1. PICK i \in 1..n : s = list[i]
      BY ListFacts DEF n
    <3>2. i \in 1..n+1 /\ s = new[i]
      BY <1>1, <1>2, <3>1
    <3> QED
      BY <1>2, <3>2, ListFacts
  <2>3. idx \in ToSet(new)
    <3>1. n + 1 \in 1..n+1
      BY <1>1
    <3> QED
      BY <1>2, <3>1, ListFacts
  <2> QED
    BY <2>1, <2>2, <2>3
<1> QED
  BY <1>2, <1>6, <1>7 DEF new, n

LEMMA AppendLinked ==
  ASSUME NEW list \in Seq(Slots), IsInjective(list), NEW idx \in Slots, idx \notin ToSet(list),
         NEW head, NEW tail, NEW nx, NEW pv, NEW nx2, NEW pv2,
         Linked(list, head, tail, nx, pv),
         nx2[idx] = Null, pv2[idx] = tail,
         list # << >> => nx2[tail] = idx,
         \A s \in ToSet(list) : (s # tail => nx2[s] = nx[s]) /\ pv2[s] = pv[s]
  PROVE  Linked(Append(list, idx), IF list = << >> THEN idx ELSE head, idx, nx2, pv2)
<1> DEFINE new == Append(list, idx)
           n   == Len(list)
<1>1. n \in Nat /\ (list = << >> <=> n = 0)
      /\ \A i \in 1..n : list[i] \in ToSet(list)
  BY ListFacts
<1>2. \A i, j \in 1..n : list[i] = list[j] => i = j
  BY ListFacts
<1>3. /\ new \in Seq(Slots) /\ Len(new) = n + 1
      /\ \A i \in 1..n : new[i] = list[i]
      /\ new[n + 1] = idx
  BY AppendList
<1>4. \A i \in 1..n+1 : i \in 1..n \/ i = n + 1
  BY <1>1
<1>5. /\ head = IF list = << >> THEN Null ELSE list[1]
      /\ tail = IF list = << >> THEN Null ELSE list[n]
      /\ \A i \in 1..n : nx[list[i]] = IF i = n THEN Null ELSE list[i + 1]
      /\ \A i \in 1..n : pv[list[i]] = IF i = 1 THEN Null ELSE list[i - 1]
  BY DEF Linked
<1> HIDE DEF new, n
<1>6. ASSUME NEW i \in 1..n+1 PROVE nx2[new[i]] = IF i = n + 1 THEN Null ELSE new[i + 1]
  <2>1. CASE i = n + 1
    BY <1>3, <2>1
  <2>2. CASE i = n /\ i \in 1..n
    <3>1. list # << >> /\ list[i] = tail /\ i # n + 1
      BY <1>1, <1>5, <2>2
    <3>2. new[i] = tail /\ new[i + 1] = idx
      BY <1>3, <2>2, <3>1
    <3>3. nx2[tail] = idx
      BY <3>1
    <3> QED
      BY <3>1, <3>2, <3>3
  <2>3. CASE i # n /\ i \in 1..n
    <3>1. i + 1 \in 1..n /\ i # n + 1 /\ n \in 1..n
      BY <1>1, <2>3
    <3>2. list # << >> /\ tail = list[n]
      BY <1>1, <1>5, <3>1
    <3>3. list[i] # tail /\ list[i] \in ToSet(list)
      BY <1>1, <1>2, <2>3, <3>1, <3>2
    <3>4. nx2[list[i]] = list[i + 1]
      BY <1>5, <2>3, <3>3
    <3> QED
      BY <1>3, <2>3, <3>1, <3>4
  <2> QED
    BY <1>4, <2>1, <2>2, <2>3
<1>7. ASSUME NEW i \in 1..n+1 PROVE pv2[new[i]] = IF i = 1 THEN Null ELSE new[i - 1]
  <2>1. CASE i = n + 1
    <3>1. CASE n = 0
      BY <1>1, <1>3, <1>5, <2>1, <3>1
    <3>2. CASE n # 0
      <4>1. n \in 1..n /\ i - 1 = n /\ i # 1
        BY <1>1, <2>1, <3>2
      <4> QED
        BY <1>1, <1>3, <1>5, <2>1, <3>2, <4>1
    <3> QED
      BY <3>1, <3>2
  <2>2. CASE i \in 1..n
    <3>1. i # 1 => i - 1 \in 1..n
      BY <1>1, <2>2
    <3> QED
      BY SMTT(30), <1>1, <1>3, <1>5, <2>2, <3>1
  <2> QED
    BY <1>4, <2>1, <2>2
<1>8. new # << >>
  BY <1>1, <1>3, ListFacts
<1>9. new[1] = IF list = << >> THEN idx ELSE head
  BY <1>1, <1>3, <1>5
<1> QED
  BY <1>3, <1>6, <1>7, <1>8, <1>9 DEF Linked, new

\* Taking a slot out of any place of a list.
LEMMA WithoutList ==
  ASSUME NEW list \in Seq(Slots), IsInjective(list), NEW k \in 1..Len(list)
  PROVE  /\ Without(list, k) \in Seq(Slots)
         /\ Len(Without(list, k)) = Len(list) - 1
         /\ \A i \in 1..Len(list)-1 : Without(list, k)[i] = IF i < k THEN list[i] ELSE list[i + 1]
         /\ IsInjective(Without(list, k))
         /\ ToSet(Without(list, k)) = ToSet(list) \ {list[k]}
<1> DEFINE new == Without(list, k)
           n   == Len(list)
<1>1. n \in Nat \ {0} /\ n - 1 \in Nat /\ \A i \in 1..n : list[i] \in Slots
  BY ListFacts
<1>2. \A i, j \in 1..n : list[i] = list[j] => i = j
  BY ListFacts
<1> HIDE DEF n
<1>3. new = [i \in 1..n-1 |-> IF i < k THEN list[i] ELSE list[i + 1]]
  BY DEF Without, n
<1>4. \A i \in 1..n-1 : i \in 1..n /\ i + 1 \in 1..n
  BY <1>1
<1>5. new \in [1..n-1 -> Slots]
  BY <1>1, <1>3, <1>4
<1>6. new \in Seq(Slots)
  BY <1>1, <1>5, SeqDef
<1>7. Len(new) = n - 1
  <2>1. DOMAIN new = 1..n-1
    BY <1>3
  <2>2. DOMAIN new = 1..Len(new) /\ Len(new) \in Nat
    BY <1>6, LenProperties
  <2> HIDE DEF new
  <2> QED
    BY <1>1, <2>1, <2>2
<1>8. \A i \in 1..n-1 : new[i] = IF i < k THEN list[i] ELSE list[i + 1]
  BY <1>3
<1> HIDE DEF new
<1>9. ASSUME NEW i \in 1..n-1, NEW j \in 1..n-1, new[i] = new[j] PROVE i = j
  <2>1. (IF i < k THEN i ELSE i + 1) = (IF j < k THEN j ELSE j + 1)
    BY <1>2, <1>4, <1>8, <1>9
  <2> QED
    BY <1>1, <2>1 DEF n
<1>10. IsInjective(new)
  BY <1>6, <1>7, <1>9, ListFacts
<1>11. ToSet(new) = ToSet(list) \ {list[k]}
  <2>1. ASSUME NEW s \in ToSet(new) PROVE s \in ToSet(list) \ {list[k]}
    <3>1. PICK i \in 1..n-1 : s = new[i]
      BY <1>6, <1>7, ListFacts
    <3>2. PICK j \in 1..n : s = list[j] /\ j # k
      <4>1. CASE i < k
        BY <1>4, <1>8, <3>1, <4>1
      <4>2. CASE ~(i < k)
        <5>1. i + 1 \in 1..n /\ i + 1 # k
          BY <1>1, <1>4, <4>2 DEF n
        <5> QED
          BY <1>8, <3>1, <4>2, <5>1
      <4> QED
        BY <4>1, <4>2
    <3>3. s \in ToSet(list)
      BY <3>2, ListFacts DEF n
    <3> QED
      BY <1>2, <3>2, <3>3 DEF n
  <2>2. ASSUME NEW s \in ToSet(list), s # list[k] PROVE s \in ToSet(new)
    <3>1. PICK j \in 1..n : s = list[j]
      BY ListFacts DEF n
    <3>2. \E i \in 1..n-1 : new[i] = s
      <4>1. CASE j < k
        <5>1. j \in 1..n-1
          BY <1>1, <4>1 DEF n
        <5> QED
          BY <1>8, <3>1, <4>1, <5>1
      <4>2. CASE j > k
        <5>1. j - 1 \in 1..n-1 /\ ~(j - 1 < k) /\ (j - 1) + 1 = j
          BY <1>1, <4>2 DEF n
        <5> QED
          BY <1>8, <3>1, <5>1
      <4> QED
        BY <1>1, <2>2, <3>1, <4>1, <4>2 DEF n
    <3> QED
      BY <1>6, <1>7, <3>2, ListFacts
  <2> QED
    BY <2>1, <2>2
<1> QED
  BY <1>6, <1>7, <1>8, <1>10, <1>11 DEF new, n

LEMMA WithoutLinked ==
  ASSUME NEW list \in Seq(Slots), IsInjective(list), NEW k \in 1..Len(list),
         NEW head, NEW tail, NEW nx, NEW pv, NEW nx2, NEW pv2,
         Linked(list, head, tail, nx, pv),
         \A i \in 1..Len(list) :
           /\ i # k => nx2[list[i]] = IF i = k - 1 THEN nx[list[k]] ELSE nx[list[i]]
           /\ i # k => pv2[list[i]] = IF i = k + 1 THEN pv[list[k]] ELSE pv[list[i]]
  PROVE  Linked(Without(list, k),
                IF head = list[k] THEN nx[list[k]] ELSE head,
                IF tail = list[k] THEN pv[list[k]] ELSE tail, nx2, pv2)
<1> DEFINE new == Without(list, k)
           n   == Len(list)
<1>1. n \in Nat \ {0} /\ n - 1 \in Nat /\ list # << >>
  BY ListFacts
<1>2. \A i, j \in 1..n : list[i] = list[j] => i = j
  BY ListFacts
<1>3. /\ new \in Seq(Slots) /\ Len(new) = n - 1
      /\ \A i \in 1..n-1 : new[i] = IF i < k THEN list[i] ELSE list[i + 1]
  BY WithoutList
<1>4. /\ head = list[1] /\ tail = list[n]
      /\ \A i \in 1..n : nx[list[i]] = IF i = n THEN Null ELSE list[i + 1]
      /\ \A i \in 1..n : pv[list[i]] = IF i = 1 THEN Null ELSE list[i - 1]
  BY <1>1 DEF Linked
<1>5. new = << >> <=> n = 1
  BY <1>1, <1>3, ListFacts
<1>6. \A i \in 1..n :
        /\ i # k => nx2[list[i]] = IF i = k - 1 THEN nx[list[k]] ELSE nx[list[i]]
        /\ i # k => pv2[list[i]] = IF i = k + 1 THEN pv[list[k]] ELSE pv[list[i]]
  OBVIOUS
<1>7. k \in 1..n
  OBVIOUS
<1> HIDE DEF new, n
<1>8. ASSUME NEW i \in 1..n-1 PROVE nx2[new[i]] = IF i = n - 1 THEN Null ELSE new[i + 1]
  <2>1. CASE i < k - 1
    <3>1. /\ i \in 1..n /\ i < k /\ i # k /\ i # k - 1 /\ i # n /\ i # n - 1
          /\ i + 1 \in 1..n-1 /\ i + 1 < k
      BY <1>1, <1>7, <2>1
    <3> QED
      BY <1>3, <1>4, <1>6, <3>1
  <2>2. CASE i = k - 1
    <3>1. /\ i \in 1..n /\ i < k /\ i # k /\ (i = n - 1 <=> k = n)
          /\ i # n - 1 => i + 1 \in 1..n-1 /\ ~(i + 1 < k) /\ (i + 1) + 1 = k + 1
      BY <1>1, <1>7, <2>2
    <3>2. nx2[new[i]] = nx[list[k]]
      BY <1>3, <1>6, <2>2, <3>1
    <3> QED
      BY <1>3, <1>4, <1>7, <3>1, <3>2
  <2>3. CASE i >= k
    <3>1. /\ i + 1 \in 1..n /\ ~(i < k) /\ i + 1 # k /\ i + 1 # k - 1 /\ (i = n - 1 <=> i + 1 = n)
          /\ i # n - 1 => i + 1 \in 1..n-1 /\ ~(i + 1 < k)
      BY <1>1, <1>7, <2>3
    <3>2. nx2[new[i]] = nx[list[i + 1]]
      BY <1>3, <1>6, <3>1
    <3>3. nx[list[i + 1]] = IF i = n - 1 THEN Null ELSE list[(i + 1) + 1]
      BY <1>4, <3>1
    <3>4. i # n - 1 => new[i + 1] = list[(i + 1) + 1]
      BY <1>3, <3>1
    <3> QED
      BY <3>2, <3>3, <3>4
  <2> QED
    BY <1>1, <1>7, <2>1, <2>2, <2>3
<1>9. ASSUME NEW i \in 1..n-1 PROVE pv2[new[i]] = IF i = 1 THEN Null ELSE new[i - 1]
  <2>1. CASE i < k
    <3>1. /\ i \in 1..n /\ i # k /\ i # k + 1
          /\ i # 1 => i - 1 \in 1..n-1 /\ i - 1 < k
      BY <1>1, <1>7, <2>1
    <3>2. pv2[new[i]] = pv[list[i]]
      BY <1>3, <1>6, <2>1, <3>1
    <3> QED
      BY <1>3, <1>4, <3>1, <3>2
  <2>2. CASE i = k
    <3>1. /\ i + 1 \in 1..n /\ ~(i < k) /\ i + 1 # k /\ i + 1 = k + 1
          /\ i # 1 => i - 1 \in 1..n-1 /\ i - 1 < k
      BY <1>1, <1>7, <2>2
    <3>2. pv2[new[i]] = pv[list[k]]
      BY <1>3, <1>6, <3>1
    <3> QED
      BY <1>3, <1>4, <1>7, <2>2, <3>1, <3>2
  <2>3. CASE i > k
    <3>1. /\ i + 1 \in 1..n /\ ~(i < k) /\ i + 1 # k /\ i + 1 # k + 1 /\ i + 1 # 1 /\ i # 1
          /\ i - 1 \in 1..n-1 /\ ~(i - 1 < k) /\ (i - 1) + 1 = i /\ (i + 1) - 1 = i
      BY <1>1, <1>7, <2>3
    <3>2. pv2[new[i]] = pv[list[i + 1]]
      BY <1>3, <1>6, <3>1
    <3> QED
      BY <1>3, <1>4, <3>1, <3>2
  <2> QED
    BY <1>1, <1>7, <2>1, <2>2, <2>3
<1>10. (IF head = list[k] THEN nx[list[k]] ELSE head) = IF new = << >> THEN Null ELSE new[1]
  <2>1. 1 \in 1..n /\ (head = list[k] <=> k = 1)
    BY <1>1, <1>2, <1>4, <1>7
  <2>2. n # 1 => 1 \in 1..n-1 /\ (k = 1 <=> ~(1 < k)) /\ 1 + 1 = 2
    BY <1>1, <1>7
  <2>3. n = 1 => k = 1
    BY <1>1, <1>7
  <2> QED
    BY <1>3, <1>4, <1>5, <1>7, <2>1, <2>2, <2>3
<1>11. (IF tail = list[k] THEN pv[list[k]] ELSE tail) = IF new = << >> THEN Null ELSE new[n - 1]
  <2>1. n \in 1..n /\ (tail = list[k] <=> k = n)
    BY <1>1, <1>2, <1>4, <1>7
  <2>2. n # 1 => n - 1 \in 1..n-1 /\ (k = n <=> n - 1 < k) /\ (n - 1) + 1 = n
    BY <1>1, <1>7
  <2>3. n = 1 => k = 1
    BY <1>1, <1>7
  <2> QED
    BY <1>1, <1>3, <1>4, <1>5, <1>7, <2>1, <2>2, <2>3
<1> QED
  BY <1>3, <1>8, <1>9, <1>10, <1>11 DEF Linked, new

\* Popping a stack of slots.
LEMMA PopList ==
  ASSUME NEW list \in Seq(Slots), IsInjective(list), list # << >>, NEW head, NEW nx, NEW nx2,
         LinkedFrom(head, list, nx),
         \A s \in ToSet(list) : s # head => nx2[s] = nx[s]
  PROVE  /\ head = list[1] /\ head \in Slots /\ head \in ToSet(list)
         /\ Tail(list) \in Seq(Slots)
         /\ Len(Tail(list)) = Len(list) - 1
         /\ IsInjective(Tail(list))
         /\ ToSet(Tail(list)) = ToSet(list) \ {head}
         /\ LinkedFrom(nx[head], Tail(list), nx2)
<1> DEFINE new == Tail(list)
           n   == Len(list)
<1>1. /\ n \in Nat \ {0} /\ n - 1 \in Nat
      /\ \A i \in 1..n : list[i] \in Slots /\ list[i] \in ToSet(list)
  BY ListFacts
<1>2. \A i, j \in 1..n : list[i] = list[j] => i = j
  BY ListFacts
<1>3. /\ new \in Seq(Slots) /\ Len(new) = n - 1
      /\ \A i \in 1..n-1 : new[i] = list[i + 1]
  <2>1. /\ new \in Seq(Slots) /\ Len(new) = n - 1
        /\ \A i \in 1..Len(new) : new[i] = list[i + 1]
    BY HeadTailProperties
  <2> QED
    BY <2>1
<1>4. head = list[1] /\ \A i \in 1..n : nx[list[i]] = IF i = n THEN Null ELSE list[i + 1]
  BY DEF LinkedFrom
<1> HIDE DEF new, n
<1>5. 1 \in 1..n /\ \A i \in 1..n-1 : i + 1 \in 1..n /\ i + 1 # 1
  BY <1>1
<1>6. IsInjective(new)
  <2>1. ASSUME NEW i \in 1..n-1, NEW j \in 1..n-1, new[i] = new[j] PROVE i = j
    <3>1. i + 1 = j + 1
      BY <1>2, <1>3, <1>5, <2>1
    <3> QED
      BY <1>1, <3>1
  <2> QED
    BY <1>3, <2>1, ListFacts
<1>7. ToSet(new) = ToSet(list) \ {head}
  <2>1. ASSUME NEW s \in ToSet(new) PROVE s \in ToSet(list) \ {head}
    <3>1. PICK i \in 1..n-1 : s = new[i]
      BY <1>3, ListFacts
    <3> QED
      BY <1>1, <1>2, <1>3, <1>4, <1>5, <3>1
  <2>2. ASSUME NEW s \in ToSet(list), s # head PROVE s \in ToSet(new)
    <3>1. PICK j \in 1..n : s = list[j]
      BY ListFacts DEF n
    <3>2. j - 1 \in 1..n-1 /\ (j - 1) + 1 = j
      BY <1>1, <1>4, <2>2, <3>1
    <3>3. s = new[j - 1]
      BY <1>3, <3>1, <3>2
    <3> QED
      BY <1>3, <3>2, <3>3, ListFacts
  <2> QED
    BY <2>1, <2>2
<1>8. LinkedFrom(nx[head], new, nx2)
  <2>1. nx[head] = IF new = << >> THEN Null ELSE new[1]
    <3>1. CASE n = 1
      <4>1. new = << >>
        BY <1>3, <3>1, ListFacts
      <4> QED
        BY <1>4, <1>5, <3>1, <4>1
    <3>2. CASE n # 1
      <4>1. new # << >> /\ 1 \in 1..n-1
        BY <1>1, <1>3, <3>2, ListFacts
      <4> QED
        BY <1>3, <1>4, <1>5, <3>2, <4>1
    <3> QED
      BY <3>1, <3>2
  <2>2. ASSUME NEW i \in 1..n-1 PROVE nx2[new[i]] = IF i = n - 1 THEN Null ELSE new[i + 1]
    <3>1. i + 1 \in 1..n /\ new[i] = list[i + 1] /\ list[i + 1] # head /\ list[i + 1] \in ToSet(list)
      BY <1>1, <1>2, <1>3, <1>4, <1>5
    <3>2. nx2[new[i]] = nx[list[i + 1]]
      BY <3>1
    <3>3. (i = n - 1 <=> i + 1 = n) /\ (i # n - 1 => i + 1 \in 1..n-1)
      BY <1>1
    <3> QED
      BY <1>3, <1>4, <3>1, <3>2, <3>3
  <2> QED
    BY <1>3, <2>1, <2>2 DEF LinkedFrom
<1> QED
  BY <1>1, <1>3, <1>4, <1>5, <1>6, <1>7, <1>8 DEF new, n

\* Pushing a slot on the stack.
LEMMA PushList ==
  ASSUME NEW list \in Seq(Slots), IsInjective(list), NEW idx \in Slots, idx \notin ToSet(list),
         NEW head, NEW nx, NEW nx2,
         LinkedFrom(head, list, nx),
         nx2[idx] = head, \A s \in ToSet(list) : nx2[s] = nx[s]
  PROVE  /\ <<idx>> \o list \in Seq(Slots)
         /\ Len(<<idx>> \o list) = Len(list) + 1
         /\ IsInjective(<<idx>> \o list)
         /\ ToSet(<<idx>> \o list) = ToSet(list) \cup {idx}
         /\ LinkedFrom(idx, <<idx>> \o list, nx2)
<1> DEFINE new == <<idx>> \o list
           n   == Len(list)
<1>1. n \in Nat /\ \A i \in 1..n : list[i] \in Slots /\ list[i] \in ToSet(list)
  BY ListFacts
<1>2. \A i, j \in 1..n : list[i] = list[j] => i = j
  BY ListFacts
<1>3. /\ new \in Seq(Slots) /\ Len(new) = n + 1
      /\ new[1] = idx
      /\ \A i \in 1..n : new[i + 1] = list[i]
  <2> DEFINE one == <<idx>>
  <2>1. one \in Seq(Slots) /\ Len(one) = 1 /\ one[1] = idx
    OBVIOUS
  <2>2. /\ new \in Seq(Slots) /\ Len(new) = Len(one) + Len(list)
        /\ \A i \in 1..Len(one) + Len(list) :
             new[i] = IF i <= Len(one) THEN one[i] ELSE list[i - Len(one)]
    BY <2>1, ConcatProperties
  <2> HIDE DEF new, one
  <2>3. Len(new) = n + 1 /\ \A i \in 1..n+1 : new[i] = IF i <= 1 THEN one[i] ELSE list[i - 1]
    <3>1. Len(one) + Len(list) = n + 1
      BY <1>1, <2>1
    <3> QED
      BY <2>1, <2>2, <3>1
  <2>4. 1 \in 1..n+1 /\ \A i \in 1..n : i + 1 \in 1..n+1 /\ ~(i + 1 <= 1) /\ (i + 1) - 1 = i
    BY <1>1
  <2> QED
    BY <2>1, <2>2, <2>3, <2>4
<1>4. /\ head = IF n = 0 THEN Null ELSE list[1]
      /\ \A i \in 1..n : nx[list[i]] = IF i = n THEN Null ELSE list[i + 1]
  BY ListFacts DEF LinkedFrom
<1> HIDE DEF new, n
<1>5. \A i \in 1..n+1 : i = 1 \/ (i - 1 \in 1..n /\ new[i] = list[i - 1])
  <2>1. \A i \in 1..n+1 : i = 1 \/ (i - 1 \in 1..n /\ (i - 1) + 1 = i)
    BY <1>1
  <2> QED
    BY <1>3, <2>1
<1>6. IsInjective(new)
  <2>1. ASSUME NEW i \in 1..n+1, NEW j \in 1..n+1, new[i] = new[j] PROVE i = j
    <3>1. CASE i = 1
      BY <1>1, <1>3, <1>5, <2>1, <3>1
    <3>2. CASE j = 1
      BY SMTT(30), <1>1, <1>3, <1>5, <2>1, <3>2
    <3>3. CASE i # 1 /\ j # 1
      <4>1. i - 1 = j - 1
        BY <1>2, <1>5, <2>1, <3>3
      <4> QED
        BY <1>1, <4>1
    <3> QED
      BY <3>1, <3>2, <3>3
  <2> QED
    BY <1>3, <2>1, ListFacts
<1>7. ToSet(new) = ToSet(list) \cup {idx}
  <2>1. ASSUME NEW s \in ToSet(new) PROVE s \in ToSet(list) \cup {idx}
    <3>1. PICK i \in 1..n+1 : s = new[i]
      BY <1>3, ListFacts
    <3> QED
      BY <1>1, <1>3, <1>5, <3>1
  <2>2. ASSUME NEW s \in ToSet(list) PROVE s \in ToSet(new)
    <3>1. PICK j \in 1..n : s = list[j]
      BY ListFacts DEF n
    <3>2. j + 1 \in 1..n+1 /\ s = new[j + 1]
      BY <1>1, <1>3, <3>1
    <3> QED
      BY <1>3, <3>2, ListFacts
  <2>3. idx \in ToSet(new)
    <3>1. 1 \in 1..n+1
      BY <1>1
    <3> QED
      BY <1>3, <3>1, ListFacts
  <2> QED
    BY <2>1, <2>2, <2>3
<1>8. LinkedFrom(idx, new, nx2)
  <2>1. new # << >>
    BY <1>1, <1>3, ListFacts
  <2>2. ASSUME NEW i \in 1..n+1 PROVE nx2[new[i]] = IF i = n + 1 THEN Null ELSE new[i + 1]
    <3>1. CASE i = 1
      <4>1. CASE n = 0
        BY <1>3, <1>4, <3>1, <4>1
      <4>2. CASE n # 0
        <5>1. 1 \in 1..n /\ i # n + 1
          BY <1>1, <3>1, <4>2
        <5> QED
          BY <1>3, <1>4, <3>1, <4>2, <5>1
      <4> QED
        BY <4>1, <4>2
    <3>2. CASE i # 1
      <4>1. i - 1 \in 1..n /\ new[i] = list[i - 1]
        BY <1>5, <3>2
      <4>2. nx2[new[i]] = nx[list[i - 1]]
        BY <1>1, <4>1
      <4>3. (i - 1 = n <=> i = n + 1) /\ (i # n + 1 => i \in 1..n) /\ (i - 1) + 1 = i
        BY <1>1
      <4> QED
        BY <1>3, <1>4, <4>1, <4>2, <4>3
    <3> QED
      BY <3>1, <3>2
  <2> QED
    BY <1>3, <2>1, <2>2 DEF LinkedFrom
<1> QED
  BY <1>3, <1>6, <1>7, <1>8 DEF new, n

\* There are no more different slots than Capacity.
LEMMA ListFits ==
  ASSUME NEW list \in Seq(Slots), IsInjective(list)
  PROVE  Len(list) <= Capacity
<1> DEFINE n == Len(list)
<1>1. n \in Nat /\ list \in [1..n -> Slots] /\ Capacity \in Nat
  BY LenProperties, OrderBookAssumption
<1> HIDE DEF n
<1>2. IsFiniteSet(Slots) /\ Cardinality(Slots) = Capacity
  <2>1. /\ IsFiniteSet(0..Capacity-1)
        /\ Cardinality(0..Capacity-1) = IF 0 > Capacity - 1 THEN 0 ELSE (Capacity - 1) - 0 + 1
    BY <1>1, FS_Interval
  <2> QED
    BY <1>1, <2>1, OrderBookAssumption DEF Slots
<1>3. IsFiniteSet(1..n) /\ Cardinality(1..n) = n
  <2>1. IsFiniteSet(1..n) /\ Cardinality(1..n) = IF 1 > n THEN 0 ELSE n - 1 + 1
    BY <1>1, FS_Interval
  <2> QED
    BY <1>1, <2>1
<1>4. CASE n > Capacity
  <2>1. \E i, j \in 1..n : i # j /\ list[i] = list[j]
    BY <1>1, <1>2, <1>3, <1>4, FS_PigeonHole
  <2> QED
    BY <2>1, ListFacts DEF n
<1> QED
  BY <1>1, <1>4 DEF n


-----------------------------------------------------------------------------
(* The inductive invariant. *)

\* A level and its queue, with the links of both directions in one formula.
LevelSpells(level, q, nx, pv) ==
  /\ level = Null <=> q = << >>
  /\ level # Null => level.orderCount = Len(q) /\ Linked(q, level.head, level.tail, nx, pv)

LevelsLinked ==
  \A side \in Sides, t \in Ticks : LevelSpells(levels[side][t], queue[side][t], next, prev)

IInv == TypeOK /\ LevelsLinked /\ SlotsAccounted /\ LevelsAgree

LEMMA IntervalEnd ==
  ASSUME NEW m \in Nat, NEW n \in Nat, 1..m = 1..n PROVE m = n
<1>1. m >= 1 => m \in 1..n
  OBVIOUS
<1>2. n >= 1 => n \in 1..m
  OBVIOUS
<1> QED
  BY <1>1, <1>2

\* A slot is no Null, and neither is an order or a level.
LEMMA NullApart ==
  /\ \A s \in Slots : s # Null
  /\ \A ord \in Orders : ord # Null /\ ord.leaves \in Nat \ {0} /\ ord.filled \in Nat
  /\ \A level \in PriceLevel : level # Null
  /\ Capacity \in Nat \ {0} /\ UsedTicks \in SUBSET Ticks
<1>1. Slots \in SUBSET Int
  BY OrderBookAssumption DEF Slots
<1> QED
  BY <1>1, OrderBookAssumption, BitmapOpsAssumption

\* What the free list and the queues say of each other.
LEMMA QueueFacts ==
  ASSUME TypeOK, SlotsAccounted
  PROVE  /\ \A side \in Sides, t \in Ticks :
              /\ queue[side][t] \in Seq(Slots) /\ IsInjective(queue[side][t])
              /\ \A s \in ToSet(queue[side][t]) :
                   /\ s \in Slots /\ order[s] # Null /\ s \notin ToSet(freeList)
                   /\ \A side2 \in Sides, t2 \in Ticks :
                        s \in ToSet(queue[side2][t2]) => side = side2 /\ t = t2
         /\ freeList \in Seq(Slots) /\ IsInjective(freeList)
         /\ ToSet(freeList) \in SUBSET Slots
<1>1. /\ \A side \in Sides, t \in Ticks : queue[side][t] \in Seq(Slots)
      /\ freeList \in Seq(Slots)
  BY DEF TypeOK
<1>2. \A side \in Sides, t \in Ticks : ToSet(queue[side][t]) \in SUBSET Slots
  BY <1>1, ListFacts
<1>3. ToSet(freeList) \in SUBSET Slots
  BY <1>1, ListFacts
<1> QED
  BY <1>1, <1>2, <1>3 DEF SlotsAccounted

\* The free list of Arena::new holds every slot.
LEMMA InitIInv == Init => IInv
<1> SUFFICES ASSUME Init PROVE IInv
  OBVIOUS
<1>1. Capacity \in Nat \ {0} /\ GenLimit \in Nat \ {0} /\ Null \notin Int
  BY OrderBookAssumption, BitmapOpsAssumption
<1>2. /\ freeList \in Seq(Slots) /\ Len(freeList) = Capacity
      /\ \A i \in 1..Capacity : freeList[i] = i - 1
  <2>1. freeList = [i \in 1..Capacity |-> i - 1]
    BY DEF Init
  <2>2. freeList \in [1..Capacity -> Slots]
    BY <1>1, <2>1 DEF Slots
  <2>3. freeList \in Seq(Slots)
    BY <1>1, <2>2, SeqDef
  <2>4. DOMAIN freeList = 1..Len(freeList) /\ Len(freeList) \in Nat
    BY <2>3, LenProperties
  <2>5. DOMAIN freeList = 1..Capacity
    BY <2>1
  <2>6. Len(freeList) = Capacity
    BY <1>1, <2>4, <2>5, IntervalEnd
  <2> QED
    BY <2>1, <2>3, <2>6
<1>3. TypeOK
  <2>1. freeHead \in Slots /\ orderCount \in 0..Capacity /\ generation \in [Slots -> 0..GenLimit-1]
    BY <1>1 DEF Init, Slots
  <2>2. queue \in [Sides -> [Ticks -> Seq(Slots)]]
    BY EmptySeq DEF Init
  <2>3. bitmap \in [Sides -> Bitmap]
    BY NewBitmapMarks DEF Init
  <2>4. /\ order \in [Slots -> Orders \cup {Null}]
        /\ prev \in [Slots -> Slots \cup {Null}] /\ next \in [Slots -> Slots \cup {Null}]
        /\ nextFree \in [Slots -> Slots \cup {Null}]
        /\ levels \in [Sides -> [Ticks -> PriceLevel \cup {Null}]]
    BY DEF Init
  <2> QED
    BY <1>2, <2>1, <2>2, <2>3, <2>4 DEF TypeOK
<1>4. LevelsLinked
  BY DEF Init, LevelsLinked, LevelSpells
<1>5. SlotsAccounted
  <2>1. LinkedFrom(freeHead, freeList, nextFree)
    <3>1. freeList # << >> /\ freeHead = freeList[1]
      <4>1. freeList # << >>
        BY <1>1, <1>2, ListFacts
      <4>2. 1 \in 1..Capacity /\ 1 - 1 = 0
        BY <1>1
      <4>3. freeHead = 0
        BY DEF Init
      <4> QED
        BY <1>2, <4>1, <4>2, <4>3
    <3>2. ASSUME NEW i \in 1..Capacity
          PROVE  nextFree[freeList[i]] = IF i = Capacity THEN Null ELSE freeList[i + 1]
      <4>1. i - 1 \in Slots /\ (i - 1) + 1 = i /\ (i \in Slots <=> i # Capacity)
        BY <1>1 DEF Slots
      <4>2. i # Capacity => i + 1 \in 1..Capacity /\ (i + 1) - 1 = i
        BY <1>1
      <4>3. nextFree[i - 1] = IF (i - 1) + 1 \in Slots THEN (i - 1) + 1 ELSE Null
        BY <4>1 DEF Init
      <4>4. freeList[i] = i - 1 /\ (i # Capacity => freeList[i + 1] = (i + 1) - 1)
        BY <1>2, <4>2
      <4>5. nextFree[i - 1] = IF i = Capacity THEN Null ELSE i
        BY <4>1, <4>3
      <4> QED
        BY <4>2, <4>4, <4>5
    <3> QED
      BY <1>2, <3>1, <3>2 DEF LinkedFrom
  <2>2. IsInjective(freeList)
    <3>1. \A i, j \in 1..Len(freeList) : freeList[i] = freeList[j] => i = j
      BY <1>1, <1>2
    <3> QED
      BY <1>2, <3>1, ListFacts
  <2>3. ToSet(freeList) = Slots
    <3>1. \A s \in Slots : s + 1 \in 1..Capacity /\ (s + 1) - 1 = s
      BY <1>1 DEF Slots
    <3>2. \A s \in Slots : s + 1 \in 1..Capacity /\ s = freeList[s + 1]
      BY <1>2, <3>1
    <3>3. \A s \in Slots : s \in ToSet(freeList)
      BY <1>2, <3>2, ListFacts
    <3>4. ToSet(freeList) \in SUBSET Slots
      BY <1>2, ListFacts
    <3> QED
      BY <3>3, <3>4
  <2>4. \A side \in Sides, t \in Ticks : queue[side][t] = << >>
    BY DEF Init
  <2>5. << >> \in Seq(Slots) /\ IsInjective(<< >>) /\ ToSet(<< >>) = {}
    BY DEF IsInjective, ToSet
  <2>6. \A s \in Slots : order[s] = Null /\ prev[s] = Null /\ next[s] = Null
    BY DEF Init
  <2>7. orderCount = Capacity - Len(freeList)
    BY <1>1, <1>2 DEF Init
  <2> QED
    BY <2>1, <2>2, <2>3, <2>4, <2>5, <2>6, <2>7 DEF SlotsAccounted
<1>6. LevelsAgree
  <2>1. \A side \in Sides : TicksInUse(side) = {} /\ bitmap[side] = NewBitmap
    BY DEF Init, TicksInUse
  <2> QED
    BY <2>1, NewBitmapMarks DEF LevelsAgree
<1> QED
  BY <1>3, <1>4, <1>5, <1>6 DEF IInv

\* Adding pops the free list and links the popped slot behind its level's tail.
LEMMA AddIInv ==
  ASSUME IInv, NEW side0 \in Sides, NEW tick0 \in UsedTicks, NEW ord \in Orders,
         AddOrder(side0, tick0, ord)
  PROVE  IInv'
<1> DEFINE idx   == freeHead
           q     == queue[side0][tick0]
           level == IF levels[side0][tick0] = Null THEN NewLevel ELSE levels[side0][tick0]
<1>1. TypeOK /\ LevelsLinked /\ SlotsAccounted /\ LevelsAgree
  BY DEF IInv
<1>2. tick0 \in Ticks
  BY NullApart
<1>3. /\ freeList # << >> /\ idx \in Slots /\ idx \in ToSet(freeList)
      /\ freeList' \in Seq(Slots) /\ Len(freeList') = Len(freeList) - 1
      /\ IsInjective(freeList') /\ ToSet(freeList') = ToSet(freeList) \ {idx}
      /\ LinkedFrom(freeHead, freeList, nextFree)' /\ freeHead' \in Slots \cup {Null}
  <2>1. freeList \in Seq(Slots) /\ IsInjective(freeList) /\ ToSet(freeList) \in SUBSET Slots
    BY <1>1, QueueFacts
  <2>2. LinkedFrom(freeHead, freeList, nextFree) /\ freeHead # Null
    BY <1>1 DEF SlotsAccounted, AddOrder, ArenaFull
  <2>3. freeList # << >>
    BY <2>2 DEF LinkedFrom
  <2>4. /\ nextFree' = [nextFree EXCEPT ![idx] = Null] /\ freeHead' = nextFree[idx]
        /\ freeList' = Tail(freeList)
    BY DEF AddOrder, PopFree
  <2>5. \A s \in ToSet(freeList) : s # idx => nextFree'[s] = nextFree[s]
    BY <2>1, <2>4 DEF TypeOK
  <2>6. /\ idx \in Slots /\ idx \in ToSet(freeList)
        /\ Tail(freeList) \in Seq(Slots) /\ Len(Tail(freeList)) = Len(freeList) - 1
        /\ IsInjective(Tail(freeList)) /\ ToSet(Tail(freeList)) = ToSet(freeList) \ {idx}
        /\ LinkedFrom(nextFree[idx], Tail(freeList), nextFree')
    BY <2>1, <2>2, <2>3, <2>5, PopList
  <2>7. freeHead' \in Slots \cup {Null}
    BY <1>1, <2>4, <2>6 DEF TypeOK
  <2>8. LinkedFrom(freeHead, freeList, nextFree)' <=> LinkedFrom(freeHead', freeList', nextFree')
    BY DEF LinkedFrom
  <2> QED
    BY <2>3, <2>4, <2>6, <2>7, <2>8
<1>4. /\ order[idx] = Null /\ order'[idx] = ord /\ ord # Null
      /\ \A s \in Slots : s # idx => order'[s] = order[s]
      /\ order' \in [Slots -> Orders \cup {Null}]
  BY <1>1, <1>3, NullApart DEF SlotsAccounted, AddOrder, TypeOK
<1>5. \A side \in Sides, t \in Ticks : idx \notin ToSet(queue[side][t])
  BY <1>1, <1>3, QueueFacts
<1>6. q \in Seq(Slots) /\ IsInjective(q)
  BY <1>1, <1>2, QueueFacts
<1>7. /\ level \in PriceLevel /\ level.orderCount = Len(q)
      /\ Linked(q, level.head, level.tail, next, prev)
      /\ level.head = Null <=> q = << >>
      /\ level.tail \in Slots => q # << >> /\ level.tail \in ToSet(q)
      /\ q # << >> => level.tail \in ToSet(q)
  <2>1. LevelSpells(levels[side0][tick0], q, next, prev)
    BY <1>1, <1>2 DEF LevelsLinked
  <2>2. level \in PriceLevel
    BY <1>1, <1>2 DEF TypeOK, NewLevel, PriceLevel
  <2>3. level.orderCount = Len(q) /\ Linked(q, level.head, level.tail, next, prev)
    <3>1. CASE levels[side0][tick0] = Null
      <4>1. q = << >> /\ level = NewLevel
        BY <2>1, <3>1 DEF LevelSpells
      <4> QED
        BY <4>1 DEF NewLevel, Linked
    <3>2. CASE levels[side0][tick0] # Null
      BY <2>1, <3>2 DEF LevelSpells
    <3> QED
      BY <3>1, <3>2
  <2> HIDE DEF level, q
  <2>4. /\ level.head = IF q = << >> THEN Null ELSE q[1]
        /\ level.tail = IF q = << >> THEN Null ELSE q[Len(q)]
    BY <2>3 DEF Linked
  <2>5. q # << >> => /\ q[1] \in Slots /\ q[Len(q)] \in Slots /\ q[Len(q)] \in ToSet(q)
    <3>1. q # << >> => 1 \in 1..Len(q) /\ Len(q) \in 1..Len(q)
      BY <1>6, ListFacts
    <3> QED
      BY <1>6, <3>1, ListFacts
  <2> QED
    BY <2>2, <2>3, <2>4, <2>5, NullApart
<1> HIDE DEF level, q
<1>8. /\ prev' = [prev EXCEPT ![idx] = level.tail]
      /\ next' = [Relinked(next, level.tail, idx) EXCEPT ![idx] = Null]
      /\ levels' = [levels EXCEPT ![side0][tick0] = LevelWith(level, idx, ord.leaves)]
      /\ bitmap' = [bitmap EXCEPT ![side0] = SetBit(@, tick0)]
      /\ queue' = [queue EXCEPT ![side0][tick0] = Append(@, idx)]
      /\ orderCount' = orderCount + 1 /\ generation' = generation
      /\ nextFree' = [nextFree EXCEPT ![idx] = Null]
  BY DEF AddOrder, LinkAtTail, PopFree, level
<1>9. /\ prev' \in [Slots -> Slots \cup {Null}] /\ next' \in [Slots -> Slots \cup {Null}]
      /\ next'[idx] = Null /\ prev'[idx] = level.tail
      /\ q # << >> => next'[level.tail] = idx
      /\ \A s \in Slots : /\ s # idx /\ s \notin ToSet(q) => next'[s] = next[s]
                          /\ s # idx /\ s # level.tail => next'[s] = next[s]
                          /\ s # idx => prev'[s] = prev[s]
  <2>1. level.tail \in Slots \cup {Null} /\ level.tail # idx
    BY <1>2, <1>3, <1>5, <1>7, NullApart DEF PriceLevel, q
  <2>2. q # << >> => Occupied(level.tail) /\ level.tail \in Slots
    BY <1>1, <1>2, <1>7, QueueFacts, NullApart DEF Occupied, q
  <2>3. q = << >> => level.tail = Null
    BY <1>7 DEF Linked
  <2>4. /\ next \in [Slots -> Slots \cup {Null}] /\ prev \in [Slots -> Slots \cup {Null}]
    BY <1>1 DEF TypeOK
  <2>5. CASE q = << >>
    <3>1. next' = [next EXCEPT ![idx] = Null]
      BY <1>8, <2>3, <2>5 DEF Relinked, Occupied
    <3> QED
      BY <1>3, <1>8, <2>1, <2>4, <2>5, <3>1
  <2>6. CASE q # << >>
    <3>1. next' = [[next EXCEPT ![level.tail] = idx] EXCEPT ![idx] = Null]
      BY <1>8, <2>2, <2>6 DEF Relinked
    <3>2. level.tail \in ToSet(q)
      BY <1>7, <2>6
    <3> QED
      BY <1>3, <1>8, <2>1, <2>2, <2>4, <2>6, <3>1, <3>2
  <2> QED
    BY <2>5, <2>6
<1>10. \A side \in Sides, t \in Ticks :
         IF side = side0 /\ t = tick0
         THEN /\ queue'[side][t] = Append(q, idx)
              /\ levels'[side][t] = LevelWith(level, idx, ord.leaves)
         ELSE queue'[side][t] = queue[side][t] /\ levels'[side][t] = levels[side][t]
  BY <1>1, <1>2, <1>8 DEF TypeOK, q
<1>11. /\ Append(q, idx) \in Seq(Slots) /\ Len(Append(q, idx)) = Len(q) + 1
       /\ IsInjective(Append(q, idx)) /\ ToSet(Append(q, idx)) = ToSet(q) \cup {idx}
       /\ Append(q, idx) # << >>
  <2>1. idx \notin ToSet(q)
    BY <1>2, <1>5 DEF q
  <2>2. /\ Append(q, idx) \in Seq(Slots) /\ Len(Append(q, idx)) = Len(q) + 1
        /\ IsInjective(Append(q, idx)) /\ ToSet(Append(q, idx)) = ToSet(q) \cup {idx}
    BY <1>3, <1>6, <2>1, AppendList
  <2>3. Len(q) \in Nat
    BY <1>6, ListFacts
  <2>4. Append(q, idx) # << >>
    BY <2>2, <2>3, ListFacts
  <2> QED
    BY <2>2, <2>4
<1>12. LevelWith(level, idx, ord.leaves) \in PriceLevel
  <2>1. level.orderCount + 1 \in Nat /\ level.totalQty + ord.leaves \in Nat
    BY <1>7, NullApart DEF PriceLevel
  <2> QED
    BY <1>3, <1>7, <2>1 DEF PriceLevel, LevelWith
<1>13. TypeOK'
  <2>1. orderCount' \in 0..Capacity
    <3>1. orderCount' = Capacity - Len(freeList')
      BY <1>1, <1>3, <1>8, NullApart, ListFacts, LenProperties DEF SlotsAccounted, TypeOK
    <3>2. Len(freeList') <= Capacity /\ Len(freeList') \in Nat
      BY <1>3, ListFits, LenProperties
    <3> QED
      BY <3>1, <3>2, NullApart
  <2>2. levels' \in [Sides -> [Ticks -> PriceLevel \cup {Null}]]
    BY <1>1, <1>8, <1>12 DEF TypeOK
  <2>3. queue' \in [Sides -> [Ticks -> Seq(Slots)]]
    BY <1>1, <1>8, <1>11 DEF TypeOK, q
  <2>4. bitmap' \in [Sides -> Bitmap]
    <3>1. SetBit(bitmap[side0], tick0) \in Bitmap
      <4>1. /\ bitmap[side0] \in Bitmap /\ TicksInUse(side0) \in SUBSET Ticks
            /\ MarksExactly(bitmap[side0], TicksInUse(side0))
        BY <1>1 DEF TypeOK, LevelsAgree, TicksInUse
      <4> QED
        BY <1>2, <4>1, SetBitMarks
    <3> QED
      BY <1>1, <1>8, <3>1 DEF TypeOK
  <2>5. nextFree' \in [Slots -> Slots \cup {Null}] /\ generation' \in [Slots -> 0..GenLimit-1]
    BY <1>1, <1>8 DEF TypeOK
  <2> QED
    BY <1>3, <1>4, <1>9, <2>1, <2>2, <2>3, <2>4, <2>5 DEF TypeOK
<1>14. LevelsLinked'
  <2> SUFFICES ASSUME NEW side \in Sides, NEW t \in Ticks
               PROVE  LevelSpells(levels'[side][t], queue'[side][t], next', prev')
    BY DEF LevelsLinked, LevelSpells, Linked
  <2>1. CASE side = side0 /\ t = tick0
    <3> DEFINE new == LevelWith(level, idx, ord.leaves)
    <3>1. new # Null
      BY <1>12, NullApart
    <3>2. new.orderCount = Len(Append(q, idx))
      BY <1>7, <1>11 DEF LevelWith
    <3>3. /\ new.head = (IF q = << >> THEN idx ELSE level.head)
          /\ new.tail = idx
      BY <1>7 DEF LevelWith
    <3>4. \A s \in ToSet(q) : (s # level.tail => next'[s] = next[s]) /\ prev'[s] = prev[s]
      <4>1. \A s \in ToSet(q) : s \in Slots /\ s # idx
        BY <1>1, <1>2, <1>5, QueueFacts DEF q
      <4> QED
        BY <1>9, <4>1
    <3>5. idx \notin ToSet(q)
      BY <1>2, <1>5 DEF q
    <3>6. Linked(Append(q, idx), IF q = << >> THEN idx ELSE level.head, idx, next', prev')
      <4> DEFINE h == level.head
                 tl == level.tail
                 nx2 == next'
                 pv2 == prev'
      <4>1. /\ Linked(q, h, tl, next, prev)
            /\ nx2[idx] = Null /\ pv2[idx] = tl
            /\ q # << >> => nx2[tl] = idx
            /\ \A s \in ToSet(q) : (s # tl => nx2[s] = next[s]) /\ pv2[s] = prev[s]
        BY <1>7, <1>9, <3>4
      <4> HIDE DEF h, tl, nx2, pv2
      <4>2. Linked(Append(q, idx), IF q = << >> THEN idx ELSE h, idx, nx2, pv2)
        BY <1>3, <1>6, <3>5, <4>1, AppendLinked
      <4> QED
        BY <4>2 DEF h, nx2, pv2
    <3> HIDE DEF new
    <3>7. levels'[side][t] = new /\ queue'[side][t] = Append(q, idx)
      BY <1>10, <2>1 DEF new
    <3>8. Linked(Append(q, idx), new.head, new.tail, next', prev')
      BY <3>3, <3>6
    <3> QED
      BY <1>11, <3>1, <3>2, <3>7, <3>8 DEF LevelSpells
  <2>2. CASE ~(side = side0 /\ t = tick0)
    <3>1. LevelSpells(levels[side][t], queue[side][t], next, prev)
      BY <1>1 DEF LevelsLinked
    <3>2. \A s \in ToSet(queue[side][t]) : next'[s] = next[s] /\ prev'[s] = prev[s]
      <4>1. ASSUME NEW s \in ToSet(queue[side][t])
            PROVE  s \in Slots /\ s # idx /\ s \notin ToSet(q)
        <5>1. s \in Slots /\ (s \in ToSet(queue[side0][tick0]) => side = side0 /\ t = tick0)
          BY <1>1, <1>2, QueueFacts
        <5> QED
          BY <1>5, <2>2, <5>1 DEF q
      <4> QED
        BY <1>9, <4>1
    <3>3. queue[side][t] \in Seq(Slots)
      BY <1>1, QueueFacts
    <3>4. levels'[side][t] = levels[side][t] /\ queue'[side][t] = queue[side][t]
      BY <1>10, <2>2
    <3>5. levels[side][t] # Null =>
            Linked(queue[side][t], levels[side][t].head, levels[side][t].tail, next', prev')
      BY <3>1, <3>2, <3>3, LinkedSame DEF LevelSpells
    <3> QED
      BY <3>1, <3>4, <3>5 DEF LevelSpells
  <2> QED
    BY <2>1, <2>2
<1>15. SlotsAccounted'
  <2>1. \A side \in Sides, t \in Ticks :
          /\ IsInjective(queue'[side][t])
          /\ ToSet(queue[side][t]) \in SUBSET ToSet(queue'[side][t])
          /\ \A s \in ToSet(queue'[side][t]) :
               \/ s = idx /\ side = side0 /\ t = tick0
               \/ s # idx /\ s \in ToSet(queue[side][t])
    <3> SUFFICES ASSUME NEW side \in Sides, NEW t \in Ticks
                 PROVE  /\ IsInjective(queue'[side][t])
                        /\ ToSet(queue[side][t]) \in SUBSET ToSet(queue'[side][t])
                        /\ \A s \in ToSet(queue'[side][t]) :
                             \/ s = idx /\ side = side0 /\ t = tick0
                             \/ s # idx /\ s \in ToSet(queue[side][t])
      OBVIOUS
    <3>1. CASE side = side0 /\ t = tick0
      <4>1. queue'[side][t] = Append(q, idx) /\ queue[side][t] = q
        BY <1>10, <3>1 DEF q
      <4> QED
        BY <1>2, <1>5, <1>11, <3>1, <4>1
    <3>2. CASE ~(side = side0 /\ t = tick0)
      <4>1. queue'[side][t] = queue[side][t] /\ IsInjective(queue[side][t])
        BY <1>1, <1>10, <3>2, QueueFacts
      <4> QED
        BY <1>5, <4>1
    <3> QED
      BY <3>1, <3>2
  <2>2. idx \in ToSet(queue'[side0][tick0])
    BY <1>2, <1>10, <1>11
  <2>3. ASSUME NEW s \in Slots
        PROVE  /\ order'[s] = Null <=> s \in ToSet(freeList')
               /\ order'[s] = Null => prev'[s] = Null /\ next'[s] = Null
               /\ order'[s] # Null => \E side \in Sides, t \in Ticks : s \in ToSet(queue'[side][t])
    <3>1. CASE s = idx
      BY <1>2, <1>3, <1>4, <2>2, <3>1
    <3>2. CASE s # idx
      <4>1. order'[s] = order[s] /\ (s \in ToSet(freeList') <=> s \in ToSet(freeList))
        BY <1>3, <1>4, <3>2
      <4>2. order[s] = Null => s \notin ToSet(q)
        BY <1>1, <1>2, QueueFacts DEF q
      <4>3. order[s] = Null => next'[s] = next[s] /\ prev'[s] = prev[s]
        BY <1>9, <3>2, <4>2
      <4> QED
        BY <1>1, <2>1, <4>1, <4>3 DEF SlotsAccounted
    <3> QED
      BY <3>1, <3>2
  <2>4. ASSUME NEW s \in Slots, NEW side1 \in Sides, NEW side2 \in Sides, NEW t1 \in Ticks,
               NEW t2 \in Ticks, s \in ToSet(queue'[side1][t1]), s \in ToSet(queue'[side2][t2])
        PROVE  order'[s] # Null /\ side1 = side2 /\ t1 = t2
    <3>1. CASE s = idx
      BY <1>4, <2>1, <2>4, <3>1
    <3>2. CASE s # idx
      <4>1. s \in ToSet(queue[side1][t1]) /\ s \in ToSet(queue[side2][t2])
        BY <2>1, <2>4, <3>2
      <4>2. order[s] # Null /\ side1 = side2 /\ t1 = t2
        BY <1>1, <4>1 DEF SlotsAccounted
      <4> QED
        BY <1>4, <3>2, <4>2
    <3> QED
      BY <3>1, <3>2
  <2>5. orderCount' = Capacity - Len(freeList')
    BY <1>1, <1>3, <1>8, NullApart, LenProperties, QueueFacts DEF SlotsAccounted
  <2>6. /\ LinkedFrom(freeHead, freeList, nextFree)' /\ IsInjective(freeList')
    BY <1>3
  <2> QED
    BY <2>1, <2>3, <2>4, <2>5, <2>6 DEF SlotsAccounted
<1>16. LevelsAgree'
  <2> SUFFICES ASSUME NEW side \in Sides PROVE MarksExactly(bitmap'[side], TicksInUse(side)')
    BY DEF LevelsAgree
  <2>1. /\ bitmap[side] \in Bitmap /\ TicksInUse(side) \in SUBSET Ticks
        /\ MarksExactly(bitmap[side], TicksInUse(side))
    BY <1>1 DEF TypeOK, LevelsAgree, TicksInUse
  <2>2. CASE side = side0
    <3>1. TicksInUse(side)' = TicksInUse(side) \cup {tick0}
      BY <1>2, <1>10, <1>12, <2>2, NullApart DEF TicksInUse
    <3>2. bitmap'[side] = SetBit(bitmap[side], tick0)
      BY <1>1, <1>8, <2>2 DEF TypeOK
    <3> QED
      BY <1>2, <2>1, <3>1, <3>2, SetBitMarks
  <2>3. CASE side # side0
    <3>1. TicksInUse(side)' = TicksInUse(side)
      BY <1>10, <2>3 DEF TicksInUse
    <3>2. bitmap'[side] = bitmap[side]
      BY <1>1, <1>8, <2>3 DEF TypeOK
    <3> QED
      BY <2>1, <3>1, <3>2
  <2> QED
    BY <2>2, <2>3
<1> QED
  BY <1>13, <1>14, <1>15, <1>16 DEF IInv

\* Removing takes a slot out of any place of its level and puts it in front of
\* the free list; the level goes with its last order, and its bit with it.
LEMMA RemoveIInv ==
  ASSUME IInv, NEW side0 \in Sides, NEW tick0 \in UsedTicks,
         NEW idx \in ToSet(queue[side0][tick0]), RemoveOrder(side0, tick0, idx)
  PROVE  IInv'
<1> DEFINE q     == queue[side0][tick0]
           level == levels[side0][tick0]
           rest  == LevelWithout(level, idx)
<1>1. TypeOK /\ LevelsLinked /\ SlotsAccounted /\ LevelsAgree
  BY DEF IInv
<1>2. tick0 \in Ticks
  BY NullApart
<1>3. q \in Seq(Slots) /\ IsInjective(q) /\ idx \in Slots /\ order[idx] # Null /\ idx \in ToSet(q)
      /\ idx \notin ToSet(freeList)
  BY <1>1, <1>2, QueueFacts
<1>4. PICK k \in 1..Len(q) : idx = q[k]
  BY <1>3, ListFacts
<1>5. /\ level \in PriceLevel /\ level # Null /\ level.orderCount = Len(q)
      /\ Linked(q, level.head, level.tail, next, prev)
  <2>1. LevelSpells(level, q, next, prev)
    BY <1>1, <1>2 DEF LevelsLinked
  <2>2. level # Null
    BY DEF RemoveOrder
  <2> QED
    BY <1>1, <1>2, <2>1, <2>2 DEF LevelSpells, TypeOK
<1> DEFINE new == Without(q, k)
<1>6. /\ new = RemoveFirst(q, idx) /\ new \in Seq(Slots) /\ Len(new) = Len(q) - 1
      /\ IsInjective(new) /\ ToSet(new) = ToSet(q) \ {idx}
      /\ Len(q) \in Nat \ {0} /\ (new = << >> <=> Len(q) = 1)
  <2> HIDE DEF q
  <2>1. /\ new \in Seq(Slots) /\ Len(new) = Len(q) - 1
        /\ IsInjective(new) /\ ToSet(new) = ToSet(q) \ {idx}
    BY <1>3, <1>4, WithoutList
  <2>2. new = RemoveFirst(q, idx)
    BY <1>3, <1>4, RemoveFirstIsWithout
  <2>3. Len(q) \in Nat \ {0}
    BY <1>3, <1>4, ListFacts
  <2> HIDE DEF new
  <2>4. new = << >> <=> Len(q) = 1
    BY <2>1, <2>3, ListFacts
  <2> QED
    BY <2>1, <2>2, <2>3, <2>4
<1> HIDE DEF new
<1> DEFINE last == Len(q) = 1
<1>7. /\ levels' = [levels EXCEPT ![side0][tick0] = IF last THEN Null ELSE rest]
      /\ bitmap' = IF last THEN [bitmap EXCEPT ![side0] = ClearBit(@, tick0)] ELSE bitmap
      /\ queue' = [queue EXCEPT ![side0][tick0] = new]
      /\ next' = [Relinked(next, prev[idx], next[idx]) EXCEPT ![idx] = Null]
      /\ prev' = [Relinked(prev, next[idx], prev[idx]) EXCEPT ![idx] = Null]
      /\ order' = [order EXCEPT ![idx] = Null]
      /\ generation' = [generation EXCEPT ![idx] = (@ + 1) % GenLimit]
      /\ nextFree' = [nextFree EXCEPT ![idx] = freeHead] /\ freeHead' = idx
      /\ orderCount' = orderCount - 1
      /\ freeList' = <<idx>> \o freeList
  <2>1. rest.orderCount = 0 <=> last
    <3>1. rest.orderCount = level.orderCount - 1
      BY DEF LevelWithout
    <3> HIDE DEF q, level, rest
    <3> QED
      BY <1>5, <1>6, <3>1
  <2> QED
    BY <1>6, <2>1 DEF RemoveOrder, Unlink, PushFree, BitmapWithout
<1> HIDE DEF last
<1>8. /\ freeList' \in Seq(Slots) /\ Len(freeList') = Len(freeList) + 1
      /\ IsInjective(freeList') /\ ToSet(freeList') = ToSet(freeList) \cup {idx}
      /\ LinkedFrom(freeHead, freeList, nextFree)'
  <2>1. freeList \in Seq(Slots) /\ IsInjective(freeList) /\ ToSet(freeList) \in SUBSET Slots
    BY <1>1, QueueFacts
  <2>2. LinkedFrom(freeHead, freeList, nextFree)
    BY <1>1 DEF SlotsAccounted
  <2> DEFINE nx2 == nextFree'
  <2>3. nx2[idx] = freeHead /\ \A s \in ToSet(freeList) : nx2[s] = nextFree[s]
    BY <1>1, <1>3, <1>7, <2>1 DEF TypeOK
  <2> HIDE DEF nx2, q
  <2>4. /\ <<idx>> \o freeList \in Seq(Slots) /\ Len(<<idx>> \o freeList) = Len(freeList) + 1
        /\ IsInjective(<<idx>> \o freeList)
        /\ ToSet(<<idx>> \o freeList) = ToSet(freeList) \cup {idx}
        /\ LinkedFrom(idx, <<idx>> \o freeList, nx2)
    BY <1>3, <2>1, <2>2, <2>3, PushList
  <2>5. LinkedFrom(freeHead, freeList, nextFree)' <=> LinkedFrom(freeHead', freeList', nextFree')
    BY DEF LinkedFrom
  <2> QED
    BY <1>7, <2>4, <2>5 DEF nx2
<1>9. /\ order'[idx] = Null
      /\ \A s \in Slots : s # idx => order'[s] = order[s]
      /\ order' \in [Slots -> Orders \cup {Null}]
  BY <1>1, <1>3, <1>7 DEF TypeOK
\* The neighbours of the slot, by their places in the queue.
<1>10. /\ prev[idx] = IF k = 1 THEN Null ELSE q[k - 1]
       /\ next[idx] = IF k = Len(q) THEN Null ELSE q[k + 1]
       /\ prev[idx] # Null => prev[idx] \in ToSet(q) /\ prev[idx] # idx /\ Occupied(prev[idx])
       /\ next[idx] # Null => next[idx] \in ToSet(q) /\ next[idx] # idx /\ Occupied(next[idx])
  <2>1. /\ prev[idx] = IF k = 1 THEN Null ELSE q[k - 1]
        /\ next[idx] = IF k = Len(q) THEN Null ELSE q[k + 1]
    BY <1>4, <1>5 DEF Linked
  <2>2. /\ k # 1 => k - 1 \in 1..Len(q) /\ k - 1 # k
        /\ k # Len(q) => k + 1 \in 1..Len(q) /\ k + 1 # k
    BY <1>6
  <2>3. \A i \in 1..Len(q) : /\ q[i] \in ToSet(q) /\ q[i] \in Slots
                             /\ i # k => q[i] # idx
    BY <1>3, <1>4, ListFacts
  <2>4. \A s \in ToSet(q) : s \in Slots /\ order[s] # Null
    BY <1>1, <1>2, QueueFacts
  <2> HIDE DEF q
  <2> QED
    BY <2>1, <2>2, <2>3, <2>4, NullApart DEF Occupied
<1>11. /\ prev' \in [Slots -> Slots \cup {Null}] /\ next' \in [Slots -> Slots \cup {Null}]
       /\ next'[idx] = Null /\ prev'[idx] = Null
       /\ \A s \in Slots : s # idx =>
            /\ next'[s] = IF s = prev[idx] THEN next[idx] ELSE next[s]
            /\ prev'[s] = IF s = next[idx] THEN prev[idx] ELSE prev[s]
  <2>1. /\ next \in [Slots -> Slots \cup {Null}] /\ prev \in [Slots -> Slots \cup {Null}]
        /\ prev[idx] \in Slots \cup {Null} /\ next[idx] \in Slots \cup {Null}
    BY <1>1, <1>3 DEF TypeOK
  <2>2. /\ next' \in [Slots -> Slots \cup {Null}] /\ next'[idx] = Null
        /\ \A s \in Slots : s # idx =>
             next'[s] = IF s = prev[idx] THEN next[idx] ELSE next[s]
    <3>1. CASE prev[idx] = Null
      <4>1. next' = [next EXCEPT ![idx] = Null]
        BY <1>7, <3>1 DEF Relinked, Occupied
      <4> QED
        BY <1>3, <2>1, <3>1, <4>1, NullApart
    <3>2. CASE prev[idx] # Null
      <4>1. next' = [[next EXCEPT ![prev[idx]] = next[idx]] EXCEPT ![idx] = Null]
        BY <1>7, <1>10, <3>2 DEF Relinked
      <4> QED
        BY <1>3, <1>10, <2>1, <3>2, <4>1
    <3> QED
      BY <3>1, <3>2
  <2>3. /\ prev' \in [Slots -> Slots \cup {Null}] /\ prev'[idx] = Null
        /\ \A s \in Slots : s # idx =>
             prev'[s] = IF s = next[idx] THEN prev[idx] ELSE prev[s]
    <3>1. CASE next[idx] = Null
      <4>1. prev' = [prev EXCEPT ![idx] = Null]
        BY <1>7, <3>1 DEF Relinked, Occupied
      <4> QED
        BY <1>3, <2>1, <3>1, <4>1, NullApart
    <3>2. CASE next[idx] # Null
      <4>1. prev' = [[prev EXCEPT ![next[idx]] = prev[idx]] EXCEPT ![idx] = Null]
        BY <1>7, <1>10, <3>2 DEF Relinked
      <4> QED
        BY <1>3, <1>10, <2>1, <3>2, <4>1
    <3> QED
      BY <3>1, <3>2
  <2> QED
    BY <2>2, <2>3
<1>12. \A side \in Sides, t \in Ticks :
         IF side = side0 /\ t = tick0
         THEN /\ queue'[side][t] = new
              /\ levels'[side][t] = IF last THEN Null ELSE rest
         ELSE queue'[side][t] = queue[side][t] /\ levels'[side][t] = levels[side][t]
  BY <1>1, <1>2, <1>7 DEF TypeOK
<1>13. ~last => rest \in PriceLevel
  <2>1. /\ next[idx] \in Slots \cup {Null} /\ prev[idx] \in Slots \cup {Null}
        /\ order[idx] \in Orders
    BY <1>1, <1>3 DEF TypeOK
  <2>2. /\ level.head \in Slots \cup {Null} /\ level.tail \in Slots \cup {Null}
        /\ level.totalQty \in Nat
    BY <1>5 DEF PriceLevel
  <2>3. level.orderCount - 1 \in Nat
    <3> HIDE DEF q, level
    <3> QED
      BY <1>5, <1>6
  <2>4. Monus(level.totalQty, order[idx].leaves) \in Nat
    BY <2>1, <2>2, NullApart DEF Monus
  <2> QED
    BY <2>1, <2>2, <2>3, <2>4 DEF PriceLevel, LevelWithout
<1>14. TypeOK'
  <2>1. orderCount' \in 0..Capacity
    <3>1. orderCount' = Capacity - Len(freeList')
      BY <1>1, <1>7, <1>8, NullApart, LenProperties, QueueFacts DEF SlotsAccounted
    <3>2. Len(freeList') <= Capacity /\ Len(freeList') \in Nat
      BY <1>8, ListFits, LenProperties
    <3> QED
      BY <3>1, <3>2, NullApart
  <2>2. levels' \in [Sides -> [Ticks -> PriceLevel \cup {Null}]]
    BY <1>1, <1>7, <1>13 DEF TypeOK
  <2>3. queue' \in [Sides -> [Ticks -> Seq(Slots)]]
    BY <1>1, <1>6, <1>7 DEF TypeOK
  <2>4. bitmap' \in [Sides -> Bitmap]
    <3>1. ClearBit(bitmap[side0], tick0) \in Bitmap
      <4>1. /\ bitmap[side0] \in Bitmap /\ TicksInUse(side0) \in SUBSET Ticks
            /\ MarksExactly(bitmap[side0], TicksInUse(side0))
        BY <1>1 DEF TypeOK, LevelsAgree, TicksInUse
      <4> QED
        BY <1>2, <4>1, ClearBitMarks
    <3> QED
      BY <1>1, <1>7, <3>1 DEF TypeOK
  <2>5. nextFree' \in [Slots -> Slots \cup {Null}] /\ freeHead' \in Slots \cup {Null}
    BY <1>1, <1>3, <1>7 DEF TypeOK
  <2>6. generation' \in [Slots -> 0..GenLimit-1]
    <3>1. \A g \in 0..GenLimit-1 : (g + 1) % GenLimit \in 0..GenLimit-1
      <4>1. GenLimit \in Nat \ {0} /\ \A g \in 0..GenLimit-1 : g + 1 \in Nat
        BY OrderBookAssumption
      <4> QED
        BY <4>1, SlotRange
    <3> QED
      BY <1>1, <1>3, <1>7, <3>1 DEF TypeOK
  <2> QED
    BY <1>8, <1>9, <1>11, <2>1, <2>2, <2>3, <2>4, <2>5, <2>6 DEF TypeOK
<1>15. LevelsLinked'
  <2> SUFFICES ASSUME NEW side \in Sides, NEW t \in Ticks
               PROVE  LevelSpells(levels'[side][t], queue'[side][t], next', prev')
    BY DEF LevelsLinked, LevelSpells, Linked
  <2>1. CASE side = side0 /\ t = tick0
    <3>1. ASSUME NEW i \in 1..Len(q), i # k
          PROVE  /\ next'[q[i]] = IF i = k - 1 THEN next[q[k]] ELSE next[q[i]]
                 /\ prev'[q[i]] = IF i = k + 1 THEN prev[q[k]] ELSE prev[q[i]]
      <4>1. q[i] \in Slots /\ q[i] # idx /\ \A j \in 1..Len(q) : q[i] = q[j] => i = j
        BY <1>3, <1>4, <3>1, ListFacts
      <4>2. (q[i] = prev[idx] <=> i = k - 1) /\ (q[i] = next[idx] <=> i = k + 1)
        <5>1. q[i] # Null
          BY <4>1, NullApart
        <5>2. (k # 1 => k - 1 \in 1..Len(q)) /\ (k # Len(q) => k + 1 \in 1..Len(q))
          BY <1>6
        <5>3. (k = 1 => i # k - 1) /\ (k = Len(q) => i # k + 1)
          BY <1>6
        <5> HIDE DEF q
        <5> QED
          BY <1>10, <4>1, <5>1, <5>2, <5>3
      <4> HIDE DEF q
      <4> QED
        BY <1>4, <1>11, <4>1, <4>2
    <3>2. Linked(new, rest.head, rest.tail, next', prev')
      <4> DEFINE h == level.head
                 tl == level.tail
                 nx2 == next'
                 pv2 == prev'
      <4>1. /\ rest.head = (IF h = q[k] THEN next[q[k]] ELSE h)
            /\ rest.tail = (IF tl = q[k] THEN prev[q[k]] ELSE tl)
        BY <1>4 DEF LevelWithout
      <4>2. \A i \in 1..Len(q) :
              /\ i # k => nx2[q[i]] = IF i = k - 1 THEN next[q[k]] ELSE next[q[i]]
              /\ i # k => pv2[q[i]] = IF i = k + 1 THEN prev[q[k]] ELSE prev[q[i]]
        BY <3>1
      <4>3. Linked(q, h, tl, next, prev)
        BY <1>5
      <4> HIDE DEF h, tl, nx2, pv2, q
      <4>4. Linked(Without(q, k), IF h = q[k] THEN next[q[k]] ELSE h,
                   IF tl = q[k] THEN prev[q[k]] ELSE tl, nx2, pv2)
        BY <1>3, <4>2, <4>3, WithoutLinked
      <4> HIDE DEF rest
      <4> QED
        BY <4>1, <4>4 DEF nx2, pv2, new
    <3>3. rest.orderCount = Len(new)
      <4>1. rest.orderCount = level.orderCount - 1
        BY DEF LevelWithout
      <4> HIDE DEF q, level, rest
      <4> QED
        BY <1>5, <1>6, <4>1
    <3>4. /\ queue'[side][t] = new
          /\ levels'[side][t] = IF last THEN Null ELSE rest
      BY <1>12, <2>1
    <3>5. new = << >> <=> last
      BY <1>6 DEF last
    <3>6. ~last => rest # Null
      BY <1>13, NullApart
    <3> HIDE DEF q, level, rest
    <3> QED
      BY <3>2, <3>3, <3>4, <3>5, <3>6 DEF LevelSpells
  <2>2. CASE ~(side = side0 /\ t = tick0)
    <3>1. LevelSpells(levels[side][t], queue[side][t], next, prev)
      BY <1>1 DEF LevelsLinked
    <3>2. \A s \in ToSet(queue[side][t]) : next'[s] = next[s] /\ prev'[s] = prev[s]
      <4>1. ASSUME NEW s \in ToSet(queue[side][t])
            PROVE  s \in Slots /\ s # Null /\ s # idx /\ s \notin ToSet(q)
        <5>1. s \in Slots /\ (s \in ToSet(queue[side0][tick0]) => side = side0 /\ t = tick0)
          BY <1>1, <1>2, QueueFacts
        <5> QED
          BY <1>3, <2>2, <5>1, NullApart
      <4> QED
        BY <1>10, <1>11, <4>1
    <3>3. queue[side][t] \in Seq(Slots)
      BY <1>1, QueueFacts
    <3>4. levels'[side][t] = levels[side][t] /\ queue'[side][t] = queue[side][t]
      BY <1>12, <2>2
    <3>5. levels[side][t] # Null =>
            Linked(queue[side][t], levels[side][t].head, levels[side][t].tail, next', prev')
      BY <3>1, <3>2, <3>3, LinkedSame DEF LevelSpells
    <3> QED
      BY <3>1, <3>4, <3>5 DEF LevelSpells
  <2> QED
    BY <2>1, <2>2
<1>16. SlotsAccounted'
  <2>1. ASSUME NEW side \in Sides, NEW t \in Ticks
        PROVE  /\ IsInjective(queue'[side][t])
               /\ ToSet(queue'[side][t]) = ToSet(queue[side][t]) \ {idx}
    <3>1. CASE side = side0 /\ t = tick0
      BY <1>6, <1>12, <3>1
    <3>2. CASE ~(side = side0 /\ t = tick0)
      <4>1. queue'[side][t] = queue[side][t] /\ IsInjective(queue[side][t])
        BY <1>1, <1>12, <3>2, QueueFacts
      <4>2. idx \notin ToSet(queue[side][t])
        BY <1>1, <1>2, <1>3, <3>2, QueueFacts
      <4> QED
        BY <4>1, <4>2
    <3> QED
      BY <3>1, <3>2
  <2>2. ASSUME NEW s \in Slots
        PROVE  /\ order'[s] = Null <=> s \in ToSet(freeList')
               /\ order'[s] = Null => prev'[s] = Null /\ next'[s] = Null
               /\ order'[s] # Null => \E side \in Sides, t \in Ticks : s \in ToSet(queue'[side][t])
    <3>1. CASE s = idx
      BY <1>8, <1>9, <1>11, <3>1
    <3>2. CASE s # idx
      <4>1. order'[s] = order[s] /\ (s \in ToSet(freeList') <=> s \in ToSet(freeList))
        BY <1>8, <1>9, <3>2
      <4>2. order[s] = Null => next'[s] = next[s] /\ prev'[s] = prev[s]
        <5>1. order[s] = Null => s # prev[idx] /\ s # next[idx]
          BY <1>10, NullApart DEF Occupied
        <5> QED
          BY <1>11, <3>2, <5>1
      <4>3. /\ order[s] = Null <=> s \in ToSet(freeList)
            /\ order[s] = Null => prev[s] = Null /\ next[s] = Null
            /\ order[s] # Null => \E side \in Sides, t \in Ticks : s \in ToSet(queue[side][t])
        BY <1>1 DEF SlotsAccounted
      <4>4. order[s] # Null => \E side \in Sides, t \in Ticks : s \in ToSet(queue'[side][t])
        BY <2>1, <3>2, <4>3
      <4> QED
        BY <4>1, <4>2, <4>3, <4>4
    <3> QED
      BY <3>1, <3>2
  <2>3. ASSUME NEW s \in Slots, NEW side1 \in Sides, NEW side2 \in Sides, NEW t1 \in Ticks,
               NEW t2 \in Ticks, s \in ToSet(queue'[side1][t1]), s \in ToSet(queue'[side2][t2])
        PROVE  order'[s] # Null /\ side1 = side2 /\ t1 = t2
    <3>1. s # idx /\ s \in ToSet(queue[side1][t1]) /\ s \in ToSet(queue[side2][t2])
      BY <2>1, <2>3
    <3>2. order[s] # Null /\ side1 = side2 /\ t1 = t2
      BY <1>1, <3>1 DEF SlotsAccounted
    <3> QED
      BY <1>9, <3>1, <3>2
  <2>4. orderCount' = Capacity - Len(freeList')
    BY <1>1, <1>7, <1>8, NullApart, LenProperties, QueueFacts DEF SlotsAccounted
  <2>5. LinkedFrom(freeHead, freeList, nextFree)' /\ IsInjective(freeList')
    BY <1>8
  <2> QED
    BY <2>1, <2>2, <2>3, <2>4, <2>5 DEF SlotsAccounted
<1>17. LevelsAgree'
  <2> SUFFICES ASSUME NEW side \in Sides PROVE MarksExactly(bitmap'[side], TicksInUse(side)')
    BY DEF LevelsAgree
  <2>1. /\ bitmap[side] \in Bitmap /\ TicksInUse(side) \in SUBSET Ticks
        /\ MarksExactly(bitmap[side], TicksInUse(side))
    BY <1>1 DEF TypeOK, LevelsAgree, TicksInUse
  <2>2. CASE side = side0 /\ last
    <3>1. TicksInUse(side)' = TicksInUse(side) \ {tick0}
      BY <1>2, <1>12, <2>2 DEF TicksInUse
    <3>2. bitmap'[side] = ClearBit(bitmap[side], tick0)
      BY <1>1, <1>7, <2>2 DEF TypeOK
    <3> QED
      BY <1>2, <2>1, <3>1, <3>2, ClearBitMarks
  <2>3. CASE ~(side = side0 /\ last)
    <3>1. \A t \in Ticks : levels'[side][t] # Null <=> levels[side][t] # Null
      BY <1>5, <1>12, <1>13, <2>3, NullApart
    <3>2. TicksInUse(side)' = TicksInUse(side)
      BY <3>1 DEF TicksInUse
    <3>3. bitmap'[side] = bitmap[side]
      BY <1>1, <1>7, <2>3 DEF TypeOK
    <3> QED
      BY <2>1, <3>2, <3>3
  <2> QED
    BY <2>2, <2>3
<1> QED
  BY <1>14, <1>15, <1>16, <1>17 DEF IInv

\* Reducing changes an order and its level's total; the lists stay as they are.
LEMMA ReduceIInv ==
  ASSUME IInv, NEW side0 \in Sides, NEW tick0 \in UsedTicks,
         NEW idx \in ToSet(queue[side0][tick0]), NEW qty \in 1..order[idx].leaves-1,
         ReduceOrder(side0, tick0, idx, qty)
  PROVE  IInv'
<1> DEFINE level == levels[side0][tick0]
<1>1. TypeOK /\ LevelsLinked /\ SlotsAccounted /\ LevelsAgree
  BY DEF IInv
<1>2. tick0 \in Ticks
  BY NullApart
<1>3. idx \in Slots /\ order[idx] \in Orders
  <2>1. idx \in Slots /\ order[idx] # Null
    BY <1>1, <1>2, QueueFacts
  <2> QED
    BY <1>1, <2>1 DEF TypeOK
<1>4. Reduced(order[idx], qty) \in Orders
  BY <1>3, OrderBookAssumption
<1>5. /\ order' = [order EXCEPT ![idx] = Reduced(order[idx], qty)]
      /\ levels' = IF level = Null THEN levels
                   ELSE [levels EXCEPT ![side0][tick0] = LevelReduced(level, qty)]
      /\ UNCHANGED <<generation, prev, next, nextFree, freeHead, orderCount, bitmap, queue, freeList>>
  BY DEF ReduceOrder
<1>6. /\ order' \in [Slots -> Orders \cup {Null}]
      /\ \A s \in Slots : order'[s] = Null <=> order[s] = Null
  BY <1>1, <1>3, <1>4, <1>5, NullApart DEF TypeOK
<1>7. level # Null => /\ LevelReduced(level, qty) \in PriceLevel
                      /\ LevelReduced(level, qty).head = level.head
                      /\ LevelReduced(level, qty).tail = level.tail
                      /\ LevelReduced(level, qty).orderCount = level.orderCount
  <2>1. level # Null => level \in PriceLevel
    BY <1>1, <1>2 DEF TypeOK
  <2>2. qty \in Nat
    BY <1>3, NullApart
  <2>3. level # Null => Monus(level.totalQty, qty) \in Nat
    BY <2>1, <2>2 DEF PriceLevel, Monus
  <2> HIDE DEF level
  <2> QED
    BY <2>1, <2>3 DEF LevelReduced, PriceLevel
<1>8. \A side \in Sides, t \in Ticks :
        /\ levels'[side][t] = Null <=> levels[side][t] = Null
        /\ levels[side][t] # Null =>
             /\ levels'[side][t].head = levels[side][t].head
             /\ levels'[side][t].tail = levels[side][t].tail
             /\ levels'[side][t].orderCount = levels[side][t].orderCount
  <2>1. \A side \in Sides, t \in Ticks :
          levels'[side][t] = IF side = side0 /\ t = tick0 /\ level # Null
                             THEN LevelReduced(level, qty) ELSE levels[side][t]
    BY <1>1, <1>2, <1>5 DEF TypeOK
  <2>2. level # Null => LevelReduced(level, qty) # Null
    BY <1>7, NullApart
  <2> QED
    BY <1>7, <2>1, <2>2
<1>9. TypeOK'
  <2>1. levels' \in [Sides -> [Ticks -> PriceLevel \cup {Null}]]
    BY <1>1, <1>5, <1>7 DEF TypeOK
  <2> QED
    BY <1>1, <1>5, <1>6, <2>1 DEF TypeOK
<1>10. LevelsLinked'
  <2> SUFFICES ASSUME NEW side \in Sides, NEW t \in Ticks
               PROVE  LevelSpells(levels'[side][t], queue[side][t], next, prev)
    BY <1>5 DEF LevelsLinked, LevelSpells, Linked
  <2>1. LevelSpells(levels[side][t], queue[side][t], next, prev)
    BY <1>1 DEF LevelsLinked
  <2> QED
    BY <1>8, <2>1 DEF LevelSpells
<1>11. SlotsAccounted'
  BY <1>1, <1>5, <1>6 DEF SlotsAccounted, LinkedFrom
<1>12. LevelsAgree'
  <2>1. \A side \in Sides : TicksInUse(side)' = TicksInUse(side)
    BY <1>8 DEF TicksInUse
  <2> QED
    BY <1>1, <1>5, <2>1 DEF LevelsAgree
<1> QED
  BY <1>9, <1>10, <1>11, <1>12 DEF IInv

\* No operation of the book, from any state that the invariant describes,
\* leaves it.
LEMMA NextIInv == IInv /\ [Next]_vars => IInv'
<1> SUFFICES ASSUME IInv, [Next]_vars PROVE IInv'
  OBVIOUS
<1>1. CASE UNCHANGED vars
  BY <1>1 DEF vars, IInv, TypeOK, LevelsLinked, LevelSpells, Linked, SlotsAccounted, LinkedFrom,
              LevelsAgree, TicksInUse
<1>2. ASSUME NEW side \in Sides, NEW tick \in UsedTicks, NEW ord \in Orders,
             AddOrder(side, tick, ord)
      PROVE  IInv'
  BY <1>2, AddIInv
<1>3. ASSUME NEW side \in Sides, NEW tick \in UsedTicks, NEW idx \in ToSet(queue[side][tick]),
             RemoveOrder(side, tick, idx)
      PROVE  IInv'
  BY <1>3, RemoveIInv
<1>4. ASSUME NEW side \in Sides, NEW tick \in UsedTicks, NEW idx \in ToSet(queue[side][tick]),
             NEW qty \in 1..order[idx].leaves-1, ReduceOrder(side, tick, idx, qty)
      PROVE  IInv'
  BY <1>4, ReduceIInv
<1> QED
  BY <1>1, <1>2, <1>3, <1>4 DEF Next

LEMMA SpecIInv == Spec => []IInv
BY InitIInv, NextIInv, PTL DEF Spec

-----------------------------------------------------------------------------
(* What a user of the book may rely on, without lists and links.            *)

LEMMA BestFound == IInv => BestLevelsFound
<1> SUFFICES ASSUME IInv, NEW side \in Sides
             PROVE  /\ IsLeast(BestAsk(bitmap[side]), TicksInUse(side))
                    /\ IsGreatest(BestBid(bitmap[side]), TicksInUse(side))
  BY DEF BestLevelsFound
<1>1. /\ bitmap[side] \in Bitmap /\ TicksInUse(side) \in SUBSET Ticks
      /\ MarksExactly(bitmap[side], TicksInUse(side))
  BY DEF IInv, TypeOK, LevelsAgree, TicksInUse
<1> QED
  BY <1>1, BestAskLeast, BestBidGreatest

\* The slots of the queues are the occupied ones, each in one place of one
\* queue; a level is there while its queue is not empty, and its head is the
\* first of it; the head of the free list is free.
LEMMA Shape ==
  ASSUME IInv
  PROVE  /\ order \in [Slots -> Orders \cup {Null}]
         /\ generation \in [Slots -> 0..GenLimit-1]
         /\ freeHead \in Slots \cup {Null}
         /\ freeHead # Null => order[freeHead] = Null
         /\ queue \in [Sides -> [Ticks -> Seq(Slots)]]
         /\ levels \in [Sides -> [Ticks -> PriceLevel \cup {Null}]]
         /\ \A side \in Sides, t \in Ticks :
              /\ Len(queue[side][t]) \in Nat
              /\ levels[side][t] = Null <=> Len(queue[side][t]) = 0
              /\ levels[side][t] # Null => levels[side][t].head = queue[side][t][1]
              /\ \A i \in 1..Len(queue[side][t]) :
                   /\ queue[side][t][i] \in Slots
                   /\ order[queue[side][t][i]] # Null
                   /\ \A side2 \in Sides, t2 \in Ticks : \A j \in 1..Len(queue[side2][t2]) :
                        queue[side][t][i] = queue[side2][t2][j] => side = side2 /\ t = t2 /\ i = j
         /\ \A s \in Slots : order[s] # Null =>
              \E side \in Sides, t \in Ticks : \E i \in 1..Len(queue[side][t]) : queue[side][t][i] = s
<1>1. TypeOK /\ LevelsLinked /\ SlotsAccounted
  BY DEF IInv
<1>2. /\ order \in [Slots -> Orders \cup {Null}] /\ generation \in [Slots -> 0..GenLimit-1]
      /\ freeHead \in Slots \cup {Null} /\ freeList \in Seq(Slots)
      /\ queue \in [Sides -> [Ticks -> Seq(Slots)]]
      /\ levels \in [Sides -> [Ticks -> PriceLevel \cup {Null}]]
  BY <1>1 DEF TypeOK
<1>3. freeHead # Null => order[freeHead] = Null
  <2>1. freeHead # Null => freeList # << >> /\ freeHead = freeList[1]
    BY <1>1 DEF SlotsAccounted, LinkedFrom
  <2>2. freeList # << >> => freeList[1] \in ToSet(freeList) /\ freeList[1] \in Slots
    BY <1>2, ListFacts
  <2> QED
    BY <1>1, <2>1, <2>2 DEF SlotsAccounted
<1>4. ASSUME NEW side \in Sides, NEW t \in Ticks
      PROVE  /\ Len(queue[side][t]) \in Nat
             /\ levels[side][t] = Null <=> Len(queue[side][t]) = 0
             /\ levels[side][t] # Null => levels[side][t].head = queue[side][t][1]
             /\ \A i \in 1..Len(queue[side][t]) :
                  /\ queue[side][t][i] \in Slots
                  /\ order[queue[side][t][i]] # Null
                  /\ \A side2 \in Sides, t2 \in Ticks : \A j \in 1..Len(queue[side2][t2]) :
                       queue[side][t][i] = queue[side2][t2][j] => side = side2 /\ t = t2 /\ i = j
  <2> DEFINE q == queue[side][t]
  <2>1. q \in Seq(Slots) /\ IsInjective(q)
    BY <1>1, QueueFacts
  <2>2. /\ Len(q) \in Nat /\ (q = << >> <=> Len(q) = 0)
        /\ \A i \in 1..Len(q) : q[i] \in Slots /\ q[i] \in ToSet(q)
        /\ \A i, j \in 1..Len(q) : q[i] = q[j] => i = j
    BY <2>1, ListFacts
  <2>3. LevelSpells(levels[side][t], q, next, prev)
    BY <1>1 DEF LevelsLinked
  <2>4. /\ levels[side][t] = Null <=> Len(q) = 0
        /\ levels[side][t] # Null => levels[side][t].head = q[1]
    BY <2>2, <2>3 DEF LevelSpells, Linked
  <2>5. ASSUME NEW i \in 1..Len(q)
        PROVE  /\ order[q[i]] # Null
               /\ \A side2 \in Sides, t2 \in Ticks : \A j \in 1..Len(queue[side2][t2]) :
                    q[i] = queue[side2][t2][j] => side = side2 /\ t = t2 /\ i = j
    <3>1. /\ order[q[i]] # Null
          /\ \A side2 \in Sides, t2 \in Ticks :
               q[i] \in ToSet(queue[side2][t2]) => side = side2 /\ t = t2
      BY <1>1, <2>2, QueueFacts
    <3>2. \A side2 \in Sides, t2 \in Ticks : \A j \in 1..Len(queue[side2][t2]) :
            queue[side2][t2][j] \in ToSet(queue[side2][t2])
      BY <1>2, ListFacts
    <3> QED
      BY <2>2, <3>1, <3>2
  <2> QED
    BY <2>2, <2>4, <2>5
<1>5. ASSUME NEW s \in Slots, order[s] # Null
      PROVE  \E side \in Sides, t \in Ticks : \E i \in 1..Len(queue[side][t]) : queue[side][t][i] = s
  <2>1. PICK side \in Sides, t \in Ticks : s \in ToSet(queue[side][t])
    BY <1>1, <1>5 DEF SlotsAccounted
  <2>2. queue[side][t] \in Seq(Slots)
    BY <1>2
  <2> QED
    BY <2>1, <2>2, ListFacts
<1> QED
  BY <1>2, <1>3, <1>4, <1>5

\* The arena is full when no slot is free.
LEMMA FullMeans == IInv => (ArenaFull <=> \A s \in Slots : order[s] # Null)
<1> SUFFICES ASSUME IInv PROVE ArenaFull <=> \A s \in Slots : order[s] # Null
  OBVIOUS
<1>1. /\ freeList \in Seq(Slots)
      /\ freeHead = IF freeList = << >> THEN Null ELSE freeList[1]
      /\ \A s \in Slots : order[s] = Null <=> s \in ToSet(freeList)
  BY DEF IInv, TypeOK, SlotsAccounted, LinkedFrom
<1>2. CASE freeList = << >>
  <2>1. ToSet(freeList) = {}
    BY <1>2 DEF ToSet
  <2> QED
    BY <1>1, <1>2, <2>1 DEF ArenaFull
<1>3. CASE freeList # << >>
  <2>1. freeList[1] \in ToSet(freeList) /\ freeList[1] \in Slots
    BY <1>1, <1>3, ListFacts
  <2> QED
    BY <1>1, <1>3, <2>1, NullApart DEF ArenaFull
<1> QED
  BY <1>2, <1>3

LEMMA AddEffect ==
  ASSUME IInv, NEW side0 \in Sides, NEW tick0 \in UsedTicks, NEW ord \in Orders,
         AddOrder(side0, tick0, ord)
  PROVE  /\ IInv'
         /\ freeHead \in Slots
         /\ order' = [order EXCEPT ![freeHead] = ord]
         /\ generation' = generation
         /\ queue' = [queue EXCEPT ![side0][tick0] = Append(@, freeHead)]
<1>1. IInv'
  BY AddIInv
<1> QED
  BY <1>1, Shape DEF AddOrder, ArenaFull

LEMMA RemoveEffect ==
  ASSUME IInv, NEW side0 \in Sides, NEW tick0 \in UsedTicks,
         NEW k \in 1..Len(queue[side0][tick0]),
         RemoveOrder(side0, tick0, queue[side0][tick0][k])
  PROVE  /\ IInv'
         /\ order' = [order EXCEPT ![queue[side0][tick0][k]] = Null]
         /\ generation' = [generation EXCEPT ![queue[side0][tick0][k]] = (@ + 1) % GenLimit]
         /\ freeHead' = queue[side0][tick0][k]
         /\ queue' = [queue EXCEPT ![side0][tick0] = Without(@, k)]
<1> DEFINE q == queue[side0][tick0]
<1>1. TypeOK /\ SlotsAccounted /\ tick0 \in Ticks
  BY NullApart DEF IInv
<1>2. q \in Seq(Slots) /\ IsInjective(q)
  BY <1>1, QueueFacts
<1>3. q[k] \in ToSet(q)
  BY <1>2, ListFacts
<1>4. RemoveFirst(q, q[k]) = Without(q, k)
  BY <1>2, RemoveFirstIsWithout
<1>5. IInv'
  BY <1>3, RemoveIInv
<1> QED
  BY <1>4, <1>5 DEF RemoveOrder, PushFree

LEMMA ReduceEffect ==
  ASSUME IInv, NEW side0 \in Sides, NEW tick0 \in UsedTicks,
         NEW k \in 1..Len(queue[side0][tick0]),
         NEW qty \in 1..order[queue[side0][tick0][k]].leaves-1,
         ReduceOrder(side0, tick0, queue[side0][tick0][k], qty)
  PROVE  /\ IInv'
         /\ order' = [order EXCEPT ![queue[side0][tick0][k]] = Reduced(@, qty)]
         /\ UNCHANGED <<generation, queue, freeHead>>
<1> DEFINE q == queue[side0][tick0]
<1>1. TypeOK /\ SlotsAccounted /\ tick0 \in Ticks
  BY NullApart DEF IInv
<1>2. q \in Seq(Slots)
  BY <1>1, QueueFacts
<1>3. q[k] \in ToSet(q)
  BY <1>2, ListFacts
<1>4. IInv'
  BY <1>3, ReduceIInv
<1> QED
  BY <1>4 DEF ReduceOrder

-----------------------------------------------------------------------------
(* Sums.  MapThenSumSet recurs over the elements of a set in the order in     *)
(* which CHOOSE gives them.  Every induction here is by the least            *)
(* counterexample: of the sizes of sets for which a claim fails.             *)

LEMMA LeastNat ==
  ASSUME NEW S, S \subseteq Nat, S # {}
  PROVE  \E m \in S : \A n \in S : m <= n
<1> DEFINE Less == {ss \in Nat \X Nat : ss[1] < ss[2]}
<1>1. IsWellFoundedOn(Less, Nat)
  BY NatLessThanWellFounded, Zenon DEF OpToRel
<1>2. \A m, n \in Nat : m < n => <<m, n>> \in Less
  OBVIOUS
<1> HIDE DEF Less
<1>3. PICK m \in S : \A n \in S : <<n, m>> \notin Less
  BY <1>1, WFMin, Zenon
<1>4. ASSUME NEW n \in S PROVE m <= n
  <2>1. m \in Nat /\ n \in Nat /\ <<n, m>> \notin Less
    BY <1>3
  <2>2. ~(n < m)
    BY <2>1, <1>2
  <2> QED
    BY <2>1, <2>2
<1> QED
  BY <1>4

\* A sum of what the orders of slots have left, for every subset of them.
Sums(ords, slots, sum) ==
  /\ sum \in [SUBSET slots -> Nat]
  /\ sum[{}] = 0
  /\ \A part \in SUBSET slots : \A x \in slots \ part :
       sum[part \cup {x}] = sum[part] + ords[x].leaves

LEMMA SumExists ==
  ASSUME NEW ords, NEW slots, IsFiniteSet(slots), \A x \in slots : ords[x].leaves \in Nat
  PROVE  \E sum : Sums(ords, slots, sum)
<1> DEFINE Bad == {n \in Nat : \E S \in SUBSET slots : Cardinality(S) = n /\ ~\E sum : Sums(ords, S, sum)}
<1> SUFFICES ASSUME Bad # {} PROVE FALSE
  BY FS_CardinalityType
<1>1. PICK n \in Bad : \A m \in Bad : n <= m
  <2> Bad \subseteq Nat
    OBVIOUS
  <2> QED
    BY LeastNat
<1>2. PICK S \in SUBSET slots : Cardinality(S) = n /\ ~\E sum : Sums(ords, S, sum)
  BY <1>1
<1>3. S # {}
  <2> DEFINE zero == [part \in SUBSET {} |-> 0]
  <2>1. zero \in [SUBSET {} -> Nat] /\ zero[{}] = 0
    OBVIOUS
  <2>2. Sums(ords, {}, zero)
    BY <2>1 DEF Sums
  <2> QED
    BY <1>2, <2>2
<1>4. PICK y : y \in S
  BY <1>3
<1> DEFINE rest == S \ {y}
<1>5. rest \in SUBSET slots /\ Cardinality(rest) = n - 1 /\ n - 1 \in Nat
  <2>1. IsFiniteSet(S) /\ n \in Nat
    BY <1>1, FS_Subset
  <2>2. IsFiniteSet(rest) /\ Cardinality(rest) = n - 1
    BY <2>1, <1>2, <1>4, FS_RemoveElement
  <2> QED
    BY <2>2, FS_CardinalityType
<1>6. PICK less : Sums(ords, rest, less)
  <2>1. n - 1 \notin Bad
    <3>1. n \in Nat
      BY <1>1
    <3> QED
      BY <1>1, <3>1
  <2> QED
    BY <1>5, <2>1
<1>7. /\ less \in [SUBSET rest -> Nat] /\ less[{}] = 0
      /\ \A part \in SUBSET rest : \A x \in rest \ part :
           less[part \cup {x}] = less[part] + ords[x].leaves
  BY <1>6 DEF Sums
<1> DEFINE mine == [part \in SUBSET S |-> IF y \in part THEN ords[y].leaves ELSE 0]
           sum  == [part \in SUBSET S |-> less[part \ {y}] + mine[part]]
<1>8. \A part \in SUBSET S : /\ mine[part] = (IF y \in part THEN ords[y].leaves ELSE 0)
                              /\ mine[part] \in Nat
  BY <1>4
<1> HIDE DEF mine
<1>9. \A part \in SUBSET S : part \ {y} \in SUBSET rest /\ less[part \ {y}] \in Nat
  BY <1>7
<1>10. sum \in [SUBSET S -> Nat] /\ \A part \in SUBSET S : sum[part] = less[part \ {y}] + mine[part]
  <2>1. ASSUME NEW part \in SUBSET S PROVE less[part \ {y}] + mine[part] \in Nat
    <3>1. less[part \ {y}] \in Nat /\ mine[part] \in Nat
      BY <1>8, <1>9
    <3> QED
      BY <3>1
  <2> QED
    BY <2>1
<1> HIDE DEF sum
<1>11. sum[{}] = 0
  <2>1. {} \in SUBSET S /\ {} \ {y} = {} /\ mine[{}] = 0
    BY <1>8
  <2> QED
    BY <2>1, <1>7, <1>10
<1>12. ASSUME NEW part \in SUBSET S, NEW x \in S \ part
       PROVE  sum[part \cup {x}] = sum[part] + ords[x].leaves
  <2>1. part \cup {x} \in SUBSET S
    OBVIOUS
  <2>2. /\ sum[part \cup {x}] = less[(part \cup {x}) \ {y}] + mine[part \cup {x}]
        /\ sum[part] = less[part \ {y}] + mine[part]
    BY <1>10, <2>1
  <2>3. CASE x = y
    <3>1. (part \cup {x}) \ {y} = part \ {y}
      BY <2>3
    <3>2. mine[part \cup {x}] = ords[y].leaves /\ mine[part] = 0
      BY <1>8, <2>1, <2>3
    <3>3. less[part \ {y}] \in Nat /\ ords[y].leaves \in Nat
      BY <1>4, <1>9
    <3>4. /\ sum[part \cup {x}] = less[part \ {y}] + ords[y].leaves
          /\ sum[part] = less[part \ {y}] + 0
      BY <2>2, <3>1, <3>2
    <3> QED
      BY <2>3, <3>3, <3>4
  <2>4. CASE x # y
    <3>1. /\ (part \cup {x}) \ {y} = (part \ {y}) \cup {x}
          /\ x \in rest \ (part \ {y}) /\ part \ {y} \in SUBSET rest
      BY <2>4
    <3>2. less[(part \ {y}) \cup {x}] = less[part \ {y}] + ords[x].leaves
      BY <3>1, <1>7
    <3>3. mine[part \cup {x}] = mine[part]
      BY <1>8, <2>1, <2>4
    <3>4. less[part \ {y}] \in Nat /\ mine[part] \in Nat /\ ords[x].leaves \in Nat
      BY <1>8, <1>9
    <3>5. sum[part \cup {x}] = (less[part \ {y}] + ords[x].leaves) + mine[part]
      BY <2>2, <3>1, <3>2, <3>3
    <3> QED
      BY <2>2, <3>4, <3>5
  <2> QED
    BY <2>3, <2>4
<1>13. Sums(ords, S, sum)
  BY <1>10, <1>11, <1>12 DEF Sums
<1> QED
  BY <1>2, <1>13

\* MapThenSumSet adds up what it chooses first and the rest.
Iter(ords, slots, it) ==
  it = [s \in SUBSET slots |->
          IF s = {} THEN 0
          ELSE LET x == CHOOSE x \in s : TRUE IN ords[x].leaves + it[s \ {x}]]

LEMMA LeavesOfIter ==
  ASSUME NEW ords, NEW slots
  PROVE  LeavesOf(ords, slots) = (CHOOSE it : Iter(ords, slots, it))[slots]
BY Zenon DEF LeavesOf, MapThenSumSet, MapThenFoldSet, Iter

LEMMA SumsIter ==
  ASSUME NEW ords, NEW slots, \A x \in slots : ords[x].leaves \in Nat,
         NEW sum, Sums(ords, slots, sum)
  PROVE  Iter(ords, slots, sum)
<1> DEFINE Body(s) == IF s = {} THEN 0 ELSE LET x == CHOOSE x \in s : TRUE IN ords[x].leaves + sum[s \ {x}]
<1>1. sum \in [SUBSET slots -> Nat]
  BY DEF Sums
<1>2. ASSUME NEW s \in SUBSET slots PROVE sum[s] = Body(s)
  <2>1. CASE s = {}
    BY <2>1 DEF Sums
  <2>2. CASE s # {}
    <3> DEFINE x == CHOOSE x \in s : TRUE
    <3>1. x \in s
      BY <2>2
    <3>4. Body(s) = ords[x].leaves + sum[s \ {x}]
      BY <2>2
    <3> HIDE DEF x, Body
    <3>2. s \ {x} \in SUBSET slots /\ x \in slots \ (s \ {x}) /\ (s \ {x}) \cup {x} = s
      BY <3>1
    <3>3. sum[s] = sum[s \ {x}] + ords[x].leaves
      BY <3>2 DEF Sums
    <3>5. sum[s \ {x}] \in Nat /\ ords[x].leaves \in Nat
      BY <1>1, <3>2
    <3> QED
      BY <3>3, <3>4, <3>5
  <2> QED
    BY <2>1, <2>2
<1>3. sum = [s \in SUBSET slots |-> Body(s)]
  <2> HIDE DEF Body
  <2> QED
    BY <1>1, <1>2
<1> QED
  BY <1>3, Zenon DEF Iter

LEMMA IterOnce ==
  ASSUME NEW ords, NEW slots, IsFiniteSet(slots), NEW it1, NEW it2,
         Iter(ords, slots, it1), Iter(ords, slots, it2)
  PROVE  it1[slots] = it2[slots]
<1>1. \A s \in SUBSET slots :
        /\ s = {} => it1[s] = 0 /\ it2[s] = 0
        /\ s # {} => \E x \in s : /\ it1[s] = ords[x].leaves + it1[s \ {x}]
                                  /\ it2[s] = ords[x].leaves + it2[s \ {x}]
  <2> TAKE s \in SUBSET slots
  <2> DEFINE x == CHOOSE x \in s : TRUE
  <2>1. /\ it1[s] = IF s = {} THEN 0 ELSE ords[x].leaves + it1[s \ {x}]
        /\ it2[s] = IF s = {} THEN 0 ELSE ords[x].leaves + it2[s \ {x}]
    BY Zenon DEF Iter
  <2>2. s # {} => x \in s
    OBVIOUS
  <2> HIDE DEF x
  <2> QED
    BY <2>1, <2>2
<1> DEFINE Bad == {n \in Nat : \E s \in SUBSET slots : Cardinality(s) = n /\ it1[s] # it2[s]}
<1> SUFFICES ASSUME Bad # {} PROVE FALSE
  BY FS_CardinalityType
<1>2. PICK n \in Bad : \A m \in Bad : n <= m
  <2> Bad \subseteq Nat
    OBVIOUS
  <2> QED
    BY LeastNat
<1>3. PICK s \in SUBSET slots : Cardinality(s) = n /\ it1[s] # it2[s]
  BY <1>2
<1>4. PICK x \in s : /\ it1[s] = ords[x].leaves + it1[s \ {x}]
                     /\ it2[s] = ords[x].leaves + it2[s \ {x}]
  BY <1>1, <1>3
<1>5. it1[s \ {x}] # it2[s \ {x}]
  BY <1>3, <1>4
<1>6. Cardinality(s \ {x}) = n - 1 /\ n - 1 \in Nat
  <2>1. IsFiniteSet(s) /\ n \in Nat
    BY <1>2, FS_Subset
  <2>2. IsFiniteSet(s \ {x}) /\ Cardinality(s \ {x}) = n - 1
    BY <2>1, <1>3, FS_RemoveElement
  <2> QED
    BY <2>2, FS_CardinalityType
<1>7. n - 1 \in Bad
  BY <1>5, <1>6
<1> QED
  <2>1. n \in Nat /\ n <= n - 1
    BY <1>2, <1>7
  <2> QED
    BY <2>1

LEMMA LeavesOfSums ==
  ASSUME NEW ords, NEW slots, IsFiniteSet(slots), \A x \in slots : ords[x].leaves \in Nat,
         NEW sum, Sums(ords, slots, sum), NEW part \in SUBSET slots
  PROVE  LeavesOf(ords, part) = sum[part] /\ sum[part] \in Nat
<1> DEFINE own == [s \in SUBSET part |-> sum[s]]
<1>1. SUBSET part \subseteq SUBSET slots /\ part \in SUBSET part /\ {} \in SUBSET part
  OBVIOUS
<1>2. sum \in [SUBSET slots -> Nat]
  BY DEF Sums
<1>3. Sums(ords, part, own)
  <2>1. own \in [SUBSET part -> Nat]
    BY <1>1, <1>2
  <2>2. own[{}] = 0
    BY <1>1 DEF Sums
  <2>3. ASSUME NEW s \in SUBSET part, NEW x \in part \ s
        PROVE  own[s \cup {x}] = own[s] + ords[x].leaves
    <3>1. s \cup {x} \in SUBSET part /\ s \in SUBSET slots /\ x \in slots \ s
      OBVIOUS
    <3>2. sum[s \cup {x}] = sum[s] + ords[x].leaves
      BY <3>1 DEF Sums
    <3> QED
      BY <3>1, <3>2
  <2> HIDE DEF own
  <2> QED
    BY <2>1, <2>2, <2>3 DEF Sums
<1>4. own[part] = sum[part]
  BY <1>1
<1> HIDE DEF own
<1>5. Iter(ords, part, own)
  BY <1>3, SumsIter
<1>6. Iter(ords, part, CHOOSE it : Iter(ords, part, it))
  BY <1>5, Zenon
<1> DEFINE chosen == CHOOSE it : Iter(ords, part, it)
<1>7. LeavesOf(ords, part) = chosen[part]
  BY LeavesOfIter
<1>8. Iter(ords, part, chosen)
  BY <1>6
<1> HIDE DEF chosen
<1>9. IsFiniteSet(part)
  BY FS_Subset
<1> QED
  BY <1>2, <1>4, <1>5, <1>7, <1>8, <1>9, IterOnce

LEMMA LeavesOfFacts ==
  ASSUME NEW ords, NEW slots, IsFiniteSet(slots), \A x \in slots : ords[x].leaves \in Nat
  PROVE  /\ LeavesOf(ords, {}) = 0
         /\ \A part \in SUBSET slots : LeavesOf(ords, part) \in Nat
         /\ \A part \in SUBSET slots : \A x \in slots \ part :
              LeavesOf(ords, part \cup {x}) = LeavesOf(ords, part) + ords[x].leaves
<1>1. PICK sum : Sums(ords, slots, sum)
  BY SumExists
<1>2. \A part \in SUBSET slots : LeavesOf(ords, part) = sum[part] /\ sum[part] \in Nat
  BY <1>1, LeavesOfSums
<1>3. LeavesOf(ords, {}) = 0
  BY <1>1, <1>2 DEF Sums
<1>4. ASSUME NEW part \in SUBSET slots, NEW x \in slots \ part
      PROVE  LeavesOf(ords, part \cup {x}) = LeavesOf(ords, part) + ords[x].leaves
  <2>1. sum[part \cup {x}] = sum[part] + ords[x].leaves
    BY <1>1 DEF Sums
  <2>2. part \cup {x} \in SUBSET slots
    OBVIOUS
  <2> QED
    BY <1>2, <2>1, <2>2
<1> QED
  BY <1>2, <1>3, <1>4

LEMMA LeavesOfSame ==
  ASSUME NEW ords1, NEW ords2, NEW slots, IsFiniteSet(slots),
         \A x \in slots : ords1[x].leaves \in Nat /\ ords1[x].leaves = ords2[x].leaves
  PROVE  LeavesOf(ords1, slots) = LeavesOf(ords2, slots)
<1>1. PICK sum : Sums(ords1, slots, sum)
  BY SumExists
<1>2. Sums(ords2, slots, sum)
  BY <1>1 DEF Sums
<1> QED
  BY <1>1, <1>2, LeavesOfSums

-----------------------------------------------------------------------------
(* The totals of the levels.                                                *)

LEMMA QueueLeaves ==
  ASSUME IInv, NEW side \in Sides, NEW t \in Ticks
  PROVE  /\ IsFiniteSet(ToSet(queue[side][t])) /\ ToSet(queue[side][t]) \in SUBSET Slots
         /\ \A s \in ToSet(queue[side][t]) : order[s] \in Orders /\ order[s].leaves \in Nat \ {0}
         /\ levels[side][t] = Null => ToSet(queue[side][t]) = {}
<1>1. queue[side][t] \in Seq(Slots)
  BY DEF IInv, TypeOK
<1>2. ToSet(queue[side][t]) \in SUBSET Slots
  BY <1>1, ListFacts
<1>3. IsFiniteSet(Slots)
  BY FS_Interval, OrderBookAssumption DEF Slots
<1>4. \A s \in ToSet(queue[side][t]) : order[s] \in Orders
  BY <1>2, QueueFacts DEF IInv, TypeOK
<1>5. levels[side][t] = Null => queue[side][t] = << >>
  BY DEF IInv, LevelsLinked, LevelSpells
<1>6. ToSet(<< >>) = {}
  BY DEF ToSet
<1> QED
  BY <1>2, <1>3, <1>4, <1>5, <1>6, FS_Subset, NullApart

\* One slot's part of a total.
LEMMA LeavesWithout ==
  ASSUME NEW ords, NEW slots, IsFiniteSet(slots), \A x \in slots : ords[x].leaves \in Nat,
         NEW s \in slots
  PROVE  /\ LeavesOf(ords, slots) = LeavesOf(ords, slots \ {s}) + ords[s].leaves
         /\ LeavesOf(ords, slots \ {s}) \in Nat
<1> DEFINE rest == slots \ {s}
<1>1. rest \in SUBSET slots /\ s \in slots \ rest /\ rest \cup {s} = slots
  OBVIOUS
<1> HIDE DEF rest
<1>2. /\ LeavesOf(ords, rest) \in Nat
      /\ LeavesOf(ords, rest \cup {s}) = LeavesOf(ords, rest) + ords[s].leaves
  BY <1>1, LeavesOfFacts
<1> QED
  BY <1>1, <1>2 DEF rest

\* A level that no slot of the step is in.
TotalRight(side, t) ==
  levels[side][t] # Null => levels[side][t].totalQty = LeavesOf(order, ToSet(queue[side][t]))

LEMMA OtherTotals ==
  ASSUME IInv, NEW side \in Sides, NEW t \in Ticks, TotalRight(side, t),
         levels'[side][t] = levels[side][t], queue'[side][t] = queue[side][t],
         \A s \in ToSet(queue[side][t]) : order'[s] = order[s]
  PROVE  TotalRight(side, t)'
<1> DEFINE S == ToSet(queue[side][t])
<1>1. IsFiniteSet(S) /\ \A s \in S : order[s].leaves \in Nat /\ order[s].leaves = order'[s].leaves
  BY QueueLeaves
<1>2. LeavesOf(order, S) = LeavesOf(order', S)
  <2> HIDE DEF S
  <2> QED
    BY <1>1, LeavesOfSame
<1> QED
  BY <1>2 DEF TotalRight

LEMMA AddTotals ==
  ASSUME IInv, LevelTotals, NEW side0 \in Sides, NEW tick0 \in UsedTicks, NEW ord \in Orders,
         AddOrder(side0, tick0, ord)
  PROVE  LevelTotals'
<1> DEFINE S == ToSet(queue[side0][tick0])
           level == levels[side0][tick0]
<1>1. tick0 \in Ticks /\ ord.leaves \in Nat /\ ord # Null
  BY NullApart
<1>2. /\ freeHead \in Slots /\ order[freeHead] = Null
      /\ order' = [order EXCEPT ![freeHead] = ord]
      /\ queue' = [queue EXCEPT ![side0][tick0] = Append(@, freeHead)]
      /\ order \in [Slots -> Orders \cup {Null}] /\ queue \in [Sides -> [Ticks -> Seq(Slots)]]
      /\ levels \in [Sides -> [Ticks -> PriceLevel \cup {Null}]]
  BY AddEffect, Shape, NullApart
<1>3. \A side \in Sides, t \in Ticks : freeHead \notin ToSet(queue[side][t])
  BY <1>2, QueueFacts DEF IInv
<1>4. /\ levels'[side0][tick0].totalQty = (IF level = Null THEN 0 ELSE level.totalQty) + ord.leaves
      /\ \A side \in Sides, t \in Ticks :
           side # side0 \/ t # tick0 => levels'[side][t] = levels[side][t]
  <2> DEFINE base == IF level = Null THEN NewLevel ELSE level
             new  == LevelWith(base, freeHead, ord.leaves)
  <2>1. levels' = [levels EXCEPT ![side0][tick0] = new]
    BY DEF AddOrder
  <2>2. new.totalQty = base.totalQty + ord.leaves
    BY DEF LevelWith
  <2>3. base.totalQty = IF level = Null THEN 0 ELSE level.totalQty
    BY DEF NewLevel
  <2> HIDE DEF new
  <2>4. /\ levels'[side0][tick0] = new
        /\ \A side \in Sides, t \in Ticks :
             side # side0 \/ t # tick0 => levels'[side][t] = levels[side][t]
    BY <1>1, <1>2, <2>1
  <2> QED
    BY <2>2, <2>3, <2>4
<1>5. ToSet(queue'[side0][tick0]) = S \cup {freeHead}
  <2> DEFINE q == queue[side0][tick0]
  <2>1. q \in Seq(Slots) /\ IsInjective(q)
    BY <1>1, QueueFacts DEF IInv
  <2>2. queue'[side0][tick0] = Append(q, freeHead)
    BY <1>1, <1>2
  <2>3. freeHead \notin ToSet(q)
    BY <1>1, <1>3
  <2> HIDE DEF q
  <2>4. ToSet(Append(q, freeHead)) = ToSet(q) \cup {freeHead}
    BY <1>2, <2>1, <2>3, AppendList
  <2> QED
    BY <2>2, <2>4 DEF q
<1>6. LeavesOf(order', S \cup {freeHead}) = LeavesOf(order, S) + ord.leaves
  <2>1. /\ IsFiniteSet(S) /\ S \in SUBSET Slots
        /\ \A s \in S : order[s].leaves \in Nat
    BY <1>1, QueueLeaves
  <2>2. freeHead \notin S
    BY <1>1, <1>3
  <2> HIDE DEF S
  <2>3. order'[freeHead] = ord /\ \A s \in S : order'[s] = order[s]
    BY <1>2, <2>1, <2>2
  <2>4. IsFiniteSet(S \cup {freeHead}) /\ \A s \in S \cup {freeHead} : order'[s].leaves \in Nat
    BY <1>1, <2>1, <2>3, FS_AddElement
  <2>5. LeavesOf(order', S \cup {freeHead}) = LeavesOf(order', S) + ord.leaves
    <3>1. S \in SUBSET (S \cup {freeHead}) /\ freeHead \in (S \cup {freeHead}) \ S
      BY <2>2
    <3> QED
      BY <2>3, <2>4, <3>1, LeavesOfFacts
  <2>6. LeavesOf(order, S) = LeavesOf(order', S)
    BY <2>1, <2>3, LeavesOfSame
  <2> QED
    BY <2>5, <2>6
<1>7. LeavesOf(order, S) = IF level = Null THEN 0 ELSE level.totalQty
  <2>1. IsFiniteSet(S) /\ (\A s \in S : order[s].leaves \in Nat) /\ (level = Null => S = {})
    BY <1>1, QueueLeaves
  <2>2. level # Null => level.totalQty = LeavesOf(order, S)
    BY <1>1 DEF LevelTotals
  <2> HIDE DEF S, level
  <2>3. LeavesOf(order, {}) = 0
    BY <2>1, LeavesOfFacts
  <2> QED
    BY <2>1, <2>2, <2>3
<1>8. TotalRight(side0, tick0)'
  <2> HIDE DEF S, level
  <2> QED
    BY <1>4, <1>5, <1>6, <1>7 DEF TotalRight
<1>9. ASSUME NEW side \in Sides, NEW t \in Ticks, side # side0 \/ t # tick0
      PROVE  TotalRight(side, t)'
  <2>1. levels'[side][t] = levels[side][t] /\ queue'[side][t] = queue[side][t]
    BY <1>1, <1>2, <1>4, <1>9
  <2>2. \A s \in ToSet(queue[side][t]) : order'[s] = order[s]
    <3>1. freeHead \notin ToSet(queue[side][t]) /\ ToSet(queue[side][t]) \in SUBSET Slots
      BY <1>3, QueueLeaves
    <3> QED
      BY <1>2, <3>1
  <2>3. TotalRight(side, t)
    BY DEF LevelTotals, TotalRight
  <2> QED
    BY <2>1, <2>2, <2>3, OtherTotals
<1> QED
  BY <1>8, <1>9 DEF LevelTotals, TotalRight

LEMMA RemoveTotals ==
  ASSUME IInv, LevelTotals, NEW side0 \in Sides, NEW tick0 \in UsedTicks,
         NEW idx \in ToSet(queue[side0][tick0]), RemoveOrder(side0, tick0, idx)
  PROVE  LevelTotals'
<1> DEFINE q     == queue[side0][tick0]
           S     == ToSet(q)
           level == levels[side0][tick0]
           rest  == LevelWithout(level, idx)
<1>1. tick0 \in Ticks
  BY NullApart
<1>2. /\ order \in [Slots -> Orders \cup {Null}] /\ queue \in [Sides -> [Ticks -> Seq(Slots)]]
      /\ levels \in [Sides -> [Ticks -> PriceLevel \cup {Null}]]
  BY Shape
<1>3. /\ IsFiniteSet(S) /\ S \in SUBSET Slots /\ idx \in S
      /\ \A s \in S : order[s].leaves \in Nat
  BY <1>1, QueueLeaves
<1>4. /\ level # Null /\ level.totalQty = LeavesOf(order, S)
      /\ levels' = [levels EXCEPT ![side0][tick0] = IF rest.orderCount = 0 THEN Null ELSE rest]
      /\ order' = [order EXCEPT ![idx] = Null]
      /\ queue' = [queue EXCEPT ![side0][tick0] = RemoveFirst(q, idx)]
  BY <1>1 DEF LevelTotals, RemoveOrder
<1>5. ToSet(RemoveFirst(q, idx)) = S \ {idx}
  <2>1. q \in Seq(Slots) /\ IsInjective(q)
    BY <1>1, QueueFacts DEF IInv
  <2> HIDE DEF q
  <2>2. PICK k \in 1..Len(q) : idx = q[k]
    BY <1>3, <2>1, ListFacts
  <2>3. RemoveFirst(q, idx) = Without(q, k)
    BY <2>1, <2>2, RemoveFirstIsWithout
  <2> QED
    BY <2>1, <2>2, <2>3, WithoutList
<1>6. rest.totalQty = LeavesOf(order, S \ {idx})
  <2>1. rest.totalQty = Monus(level.totalQty, order[idx].leaves)
    BY DEF LevelWithout
  <2> HIDE DEF S, level, rest
  <2>2. /\ level.totalQty = LeavesOf(order, S \ {idx}) + order[idx].leaves
        /\ LeavesOf(order, S \ {idx}) \in Nat /\ order[idx].leaves \in Nat
    BY <1>3, <1>4, LeavesWithout
  <2> QED
    BY <2>1, <2>2 DEF Monus
<1>7. LeavesOf(order, S \ {idx}) = LeavesOf(order', S \ {idx})
  <2> HIDE DEF S
  <2>1. IsFiniteSet(S \ {idx})
    BY <1>3, FS_RemoveElement
  <2>2. \A s \in S \ {idx} : order[s].leaves \in Nat /\ order[s].leaves = order'[s].leaves
    BY <1>2, <1>3, <1>4
  <2> QED
    BY <2>1, <2>2, LeavesOfSame
<1> HIDE DEF rest
<1>8. TotalRight(side0, tick0)'
  <2>1. levels'[side0][tick0] = IF rest.orderCount = 0 THEN Null ELSE rest
    BY <1>1, <1>2, <1>4
  <2>2. queue'[side0][tick0] = RemoveFirst(q, idx)
    BY <1>1, <1>2, <1>4
  <2> HIDE DEF S, q, level
  <2> QED
    BY <1>5, <1>6, <1>7, <2>1, <2>2 DEF TotalRight
<1>9. ASSUME NEW side \in Sides, NEW t \in Ticks, side # side0 \/ t # tick0
      PROVE  TotalRight(side, t)'
  <2>1. levels'[side][t] = levels[side][t] /\ queue'[side][t] = queue[side][t]
    BY <1>1, <1>2, <1>4, <1>9
  <2>2. \A s \in ToSet(queue[side][t]) : order'[s] = order[s]
    <3>1. idx \notin ToSet(queue[side][t]) /\ ToSet(queue[side][t]) \in SUBSET Slots
      BY <1>1, <1>3, <1>9, QueueLeaves, QueueFacts DEF IInv
    <3> QED
      BY <1>2, <1>4, <3>1
  <2>3. TotalRight(side, t)
    BY DEF LevelTotals, TotalRight
  <2> QED
    BY <2>1, <2>2, <2>3, OtherTotals
<1> QED
  BY <1>8, <1>9 DEF LevelTotals, TotalRight

LEMMA ReducedLeaves ==
  ASSUME NEW ord \in Orders, NEW qty
  PROVE  Reduced(ord, qty).leaves = ord.leaves - qty
<1>1. {"leaves", "filled"} \subseteq DOMAIN ord
  BY OrderBookAssumption
<1> DEFINE less == [ord EXCEPT !.leaves = ord.leaves - qty]
<1>2. DOMAIN less = DOMAIN ord /\ less.leaves = ord.leaves - qty
  BY <1>1
<1>3. Reduced(ord, qty) = [less EXCEPT !.filled = ord.filled + qty]
  BY <1>1 DEF Reduced
<1> HIDE DEF less
<1> QED
  BY <1>2, <1>3

LEMMA ReduceTotals ==
  ASSUME IInv, LevelTotals, NEW side0 \in Sides, NEW tick0 \in UsedTicks,
         NEW idx \in ToSet(queue[side0][tick0]), NEW qty \in 1..order[idx].leaves-1,
         ReduceOrder(side0, tick0, idx, qty)
  PROVE  LevelTotals'
<1> DEFINE S     == ToSet(queue[side0][tick0])
           level == levels[side0][tick0]
<1>1. tick0 \in Ticks
  BY NullApart
<1>2. /\ order \in [Slots -> Orders \cup {Null}] /\ queue \in [Sides -> [Ticks -> Seq(Slots)]]
      /\ levels \in [Sides -> [Ticks -> PriceLevel \cup {Null}]]
  BY Shape
<1>3. /\ IsFiniteSet(S) /\ S \in SUBSET Slots /\ idx \in S
      /\ \A s \in S : order[s] \in Orders /\ order[s].leaves \in Nat
      /\ level # Null
  BY <1>1, QueueLeaves
<1>4. /\ level.totalQty = LeavesOf(order, S) /\ UNCHANGED queue
      /\ levels' = [levels EXCEPT ![side0][tick0] = LevelReduced(level, qty)]
      /\ order' = [order EXCEPT ![idx] = Reduced(order[idx], qty)]
  BY <1>1, <1>3 DEF LevelTotals, ReduceOrder
<1>5. /\ order[idx].leaves \in Nat /\ qty \in Nat /\ qty <= order[idx].leaves
      /\ order'[idx].leaves = order[idx].leaves - qty
  <2> DEFINE ord == order[idx]
  <2>1. ord.leaves \in Nat /\ qty \in Nat /\ qty <= ord.leaves
    BY <1>3
  <2>2. Reduced(ord, qty) \in Orders /\ order'[idx] = Reduced(ord, qty)
    BY <1>2, <1>3, <1>4, OrderBookAssumption
  <2>3. Reduced(ord, qty).leaves = ord.leaves - qty
    BY <1>3, ReducedLeaves
  <2> QED
    BY <2>1, <2>2, <2>3
<1>6. LevelReduced(level, qty).totalQty = Monus(level.totalQty, qty)
  <2>1. level \in PriceLevel
    BY <1>1, <1>2, <1>3
  <2> HIDE DEF level
  <2> QED
    BY <2>1 DEF LevelReduced, PriceLevel
<1>7. LeavesOf(order', S) = Monus(level.totalQty, qty)
  <2> HIDE DEF S, level
  <2>1. /\ level.totalQty = LeavesOf(order, S \ {idx}) + order[idx].leaves
        /\ LeavesOf(order, S \ {idx}) \in Nat
    BY <1>3, <1>4, LeavesWithout
  <2>2. \A s \in S \ {idx} : order'[s] = order[s]
    BY <1>2, <1>3, <1>4
  <2>3. LeavesOf(order, S \ {idx}) = LeavesOf(order', S \ {idx})
    <3>1. IsFiniteSet(S \ {idx})
      BY <1>3, FS_RemoveElement
    <3> QED
      BY <1>3, <2>2, <3>1, LeavesOfSame
  <2>4. \A s \in S : order'[s].leaves \in Nat
    BY <1>3, <1>5, <2>2
  <2>5. LeavesOf(order', S) = LeavesOf(order', S \ {idx}) + order'[idx].leaves
    BY <1>3, <2>4, LeavesWithout
  <2> QED
    BY <1>5, <2>1, <2>3, <2>5 DEF Monus
<1>8. TotalRight(side0, tick0)'
  <2>1. levels'[side0][tick0] = LevelReduced(level, qty) /\ ToSet(queue'[side0][tick0]) = S
    BY <1>1, <1>2, <1>4
  <2> HIDE DEF S, level
  <2> QED
    BY <1>6, <1>7, <2>1 DEF TotalRight
<1>9. ASSUME NEW side \in Sides, NEW t \in Ticks, side # side0 \/ t # tick0
      PROVE  TotalRight(side, t)'
  <2>1. levels'[side][t] = levels[side][t] /\ queue'[side][t] = queue[side][t]
    BY <1>1, <1>2, <1>4, <1>9
  <2>2. \A s \in ToSet(queue[side][t]) : order'[s] = order[s]
    <3>1. idx \notin ToSet(queue[side][t]) /\ ToSet(queue[side][t]) \in SUBSET Slots
      BY <1>1, <1>3, <1>9, QueueLeaves, QueueFacts DEF IInv
    <3> QED
      BY <1>2, <1>4, <3>1
  <2>3. TotalRight(side, t)
    BY DEF LevelTotals, TotalRight
  <2> QED
    BY <2>1, <2>2, <2>3, OtherTotals
<1> QED
  BY <1>8, <1>9 DEF LevelTotals, TotalRight

LEMMA StepTotals == IInv /\ LevelTotals /\ [Next]_vars => LevelTotals'
<1> SUFFICES ASSUME IInv, LevelTotals, [Next]_vars PROVE LevelTotals'
  OBVIOUS
<1>1. CASE UNCHANGED vars
  BY <1>1 DEF vars, LevelTotals
<1>2. ASSUME NEW side \in Sides, NEW tick \in UsedTicks, NEW ord \in Orders,
             AddOrder(side, tick, ord)
      PROVE  LevelTotals'
  BY <1>2, AddTotals
<1>3. ASSUME NEW side \in Sides, NEW tick \in UsedTicks, NEW idx \in ToSet(queue[side][tick]),
             RemoveOrder(side, tick, idx)
      PROVE  LevelTotals'
  BY <1>3, RemoveTotals
<1>4. ASSUME NEW side \in Sides, NEW tick \in UsedTicks, NEW idx \in ToSet(queue[side][tick]),
             NEW qty \in 1..order[idx].leaves-1, ReduceOrder(side, tick, idx, qty)
      PROVE  LevelTotals'
  BY <1>4, ReduceTotals
<1> QED
  BY <1>1, <1>2, <1>3, <1>4 DEF Next

-----------------------------------------------------------------------------
(* The theorems. *)

\* The slots, levels, bitmaps and counters keep their types: no operation
\* stores a link outside the arena, and the arena's count of orders never
\* leaves 0..Capacity (arena.rs counts it without a check).
THEOREM SpecTypeOK == Spec => []TypeOK
<1>1. IInv => TypeOK
  BY DEF IInv
<1> QED
  BY <1>1, SpecIInv, PTL

\* The lists through the slots (arena.rs: alloc_order, free_order) spell the
\* orders of each level in the order of their arrival, both ways, whichever
\* orders left from the front, the middle or the back.
THEOREM SpecLevelsAreQueues == Spec => []LevelsAreQueues
<1>1. ASSUME IInv PROVE LevelsAreQueues
  <2> SUFFICES ASSUME NEW side \in Sides, NEW t \in Ticks
               PROVE  LET q == queue[side][t]
                          level == levels[side][t]
                      IN IF q = << >> THEN level = Null
                         ELSE /\ level # Null
                              /\ level.orderCount = Len(q)
                              /\ LinkedFrom(level.head, q, next)
                              /\ LinkedFrom(level.tail, Reverse(q), prev)
    BY DEF LevelsAreQueues
  <2> DEFINE q == queue[side][t]
             level == levels[side][t]
  <2>1. q \in Seq(Slots)
    BY <1>1 DEF IInv, TypeOK
  <2>2. LevelSpells(level, q, next, prev)
    BY <1>1 DEF IInv, LevelsLinked
  <2> DEFINE h == level.head
             tl == level.tail
  <2>3. Linked(q, h, tl, next, prev)
        => LinkedFrom(h, q, next) /\ LinkedFrom(tl, Reverse(q), prev)
    <3> HIDE DEF q, h, tl
    <3> QED
      BY <2>1, LinkedBothWays
  <2> QED
    BY <2>2, <2>3 DEF LevelSpells
<1> QED
  BY <1>1, SpecIInv, PTL

\* One arena serves both sides and all levels: every slot is on the free list
\* once, or in one queue once, and the count of orders agrees.
THEOREM SpecSlotsAccounted == Spec => []SlotsAccounted
<1>1. IInv => SlotsAccounted
  BY DEF IInv
<1> QED
  BY <1>1, SpecIInv, PTL

\* The three bitmap levels of a side (bitmap.rs) mark the ticks whose level
\* has orders, and no others.
THEOREM SpecLevelsAgree == Spec => []LevelsAgree
<1>1. IInv => LevelsAgree
  BY DEF IInv
<1> QED
  BY <1>1, SpecIInv, PTL

\* best_ask and best_bid, which look at the bitmap alone, give the best level
\* that has orders.
THEOREM SpecBestLevelsFound == Spec => []BestLevelsFound
BY BestFound, SpecIInv, PTL

\* total_qty, which add_order raises and free_order, match_aggressor and
\* process_modify lower with saturating_sub, stays the sum of what the
\* level's orders have left; so no saturating_sub ever saturates.
THEOREM SpecLevelTotals == Spec => []LevelTotals
<1>1. Init => LevelTotals
  BY DEF Init, LevelTotals
<1> QED
  BY <1>1, StepTotals, SpecIInv, PTL DEF Spec

=============================================================================
