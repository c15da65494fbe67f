---------------------------- MODULE BitmapProofs ----------------------------
(***************************************************************************)
(* The bitmap of a half book, for every radix: setting and clearing a bit    *)
(* keep the three levels exact, and on exact levels the scans of best_ask    *)
(* and best_bid answer the least and the greatest tick.                      *)
(***************************************************************************)
EXTENDS BitmapOps, WellFoundedInduction, TLAPS

-----------------------------------------------------------------------------
(* Two-digit numbers. *)

\* A number determines its digits.
LEMMA DigitsUnique ==
  ASSUME NEW C \in Nat \ {0}, NEW p \in Int, NEW q \in Int,
         NEW r \in 0..C-1, NEW s \in 0..C-1, (p * C) + r = (q * C) + s
  PROVE  p = q /\ r = s
<1>1. (q - p) * C = r - s /\ (p - q) * C = s - r
  OBVIOUS
<1>2. CASE q - p >= 1
  <2>1. (q - p) * C >= C
    BY <1>2
  <2> QED
    BY <1>1, <2>1
<1>3. CASE p - q >= 1
  <2>1. (p - q) * C >= C
    BY <1>3
  <2> QED
    BY <1>1, <2>1
<1>4. CASE p = q
  BY <1>4
<1> QED
  BY <1>2, <1>3, <1>4

\* Numbers compare by their first digit, then by their second.
LEMMA DigitsOrdered ==
  ASSUME NEW C \in Nat \ {0}, NEW p \in Int, NEW q \in Int,
         NEW r \in 0..C-1, NEW s \in 0..C-1, p < q \/ (p = q /\ r <= s)
  PROVE  (p * C) + r <= (q * C) + s
<1>1. CASE p < q
  <2>1. (q - p) * C >= C
    BY <1>1
  <2>2. (q - p) * C = (q * C) - (p * C)
    OBVIOUS
  <2> QED
    BY <2>1, <2>2
<1>2. CASE p = q /\ r <= s
  BY <1>2
<1> QED
  BY <1>1, <1>2

\* A first digit below D and a second below C make a number below D * C.
LEMMA DigitsBounded ==
  ASSUME NEW C \in Nat \ {0}, NEW D \in Nat \ {0}, NEW p \in 0..D-1, NEW r \in 0..C-1
  PROVE  (p * C) + r \in 0..(D * C)-1
<1>1. (p * C) + r <= ((D - 1) * C) + (C - 1)
  BY DigitsOrdered
<1>2. ((D - 1) * C) + (C - 1) = (D * C) - 1
  OBVIOUS
<1>3. (p * C) + r \in Nat /\ D * C \in Nat
  OBVIOUS
<1> QED
  BY <1>1, <1>2, <1>3

\* Quotients and remainders.
LEMMA SlotRange ==
  ASSUME NEW C \in Nat \ {0}, NEW n \in Nat
  PROVE  n % C \in 0..C-1 /\ (n < C => n % C = n)
OBVIOUS

LEMMA DivMod ==
  ASSUME NEW C \in Nat \ {0}, NEW n \in Nat
  PROVE  /\ n = C * (n \div C) + (n % C)
         /\ n \div C \in Int
         /\ n % C \in Int
OBVIOUS

\* The quotient of a number below D * C is below D.
LEMMA QuotientBounded ==
  ASSUME NEW C \in Nat \ {0}, NEW D \in Nat \ {0}, NEW n \in 0..(D * C)-1
  PROVE  n \div C \in 0..D-1
<1> DEFINE p == n \div C
<1>1. n \in Nat
  OBVIOUS
<1>2. n = C * p + (n % C) /\ p \in Int
  BY <1>1, DivMod
<1>3. n % C \in 0..C-1
  BY <1>1, SlotRange
<1> HIDE DEF p
<1>4. CASE p < 0
  <2>1. (0 - p) * C >= C
    BY <1>4, <1>2
  <2> QED
    BY <2>1, <1>2, <1>3, <1>1
<1>5. CASE p >= D
  <2>1. p * C >= D * C
    BY <1>5, <1>2
  <2> QED
    BY <2>1, <1>2, <1>3
<1> QED
  BY <1>2, <1>4, <1>5 DEF p

-----------------------------------------------------------------------------
(* The digits of a tick and of a word. *)

\* A pair of bits is a word, and no other pair is the same word.
LEMMA WordOfBits ==
  ASSUME NEW a \in Bits, NEW b \in Bits
  PROVE  /\ (a * Radix) + b \in Words
         /\ \A c, d \in Bits : (c * Radix) + d = (a * Radix) + b => c = a /\ d = b
<1>1. (a * Radix) + b \in Words
  BY BitmapOpsAssumption, DigitsBounded DEF Bits, Words
<1>2. ASSUME NEW c \in Bits, NEW d \in Bits, (c * Radix) + d = (a * Radix) + b
      PROVE  c = a /\ d = b
  BY <1>2, BitmapOpsAssumption, DigitsUnique DEF Bits
<1> QED
  BY <1>1, <1>2

\* A word and a bit of it are a tick, and no other pair is the same tick.
LEMMA TickOfBit ==
  ASSUME NEW w \in Words, NEW b \in Bits
  PROVE  /\ (w * Radix) + b \in Ticks
         /\ \A v \in Words, c \in Bits : (v * Radix) + c = (w * Radix) + b => v = w /\ c = b
<1>1. (w * Radix) + b \in Ticks
  <2>1. Radix * Radix \in Nat \ {0}
    BY BitmapOpsAssumption
  <2>2. (w * Radix) + b \in 0..((Radix * Radix) * Radix)-1
    BY <2>1, BitmapOpsAssumption, DigitsBounded DEF Bits, Words
  <2> QED
    BY <2>2 DEF Ticks
<1>2. ASSUME NEW v \in Words, NEW c \in Bits, (v * Radix) + c = (w * Radix) + b
      PROVE  v = w /\ c = b
  BY <1>2, BitmapOpsAssumption, DigitsUnique DEF Bits, Words
<1> QED
  BY <1>1, <1>2

\* What the shifts and masks of set_bit and clear_bit take from a tick.
LEMMA TickDigits ==
  ASSUME NEW n \in Ticks
  PROVE  /\ L0Bit(n) \in Bits /\ L1Bit(n) \in Bits /\ L2Bit(n) \in Bits
         /\ WordOf(n) \in Words
         /\ WordOf(n) = (L0Bit(n) * Radix) + L1Bit(n)
         /\ n = (WordOf(n) * Radix) + L2Bit(n)
<1> DEFINE w == n \div Radix
<1>1. w \in Words
  <2>1. Radix * Radix \in Nat \ {0}
    BY BitmapOpsAssumption
  <2>2. n \in 0..((Radix * Radix) * Radix)-1
    BY DEF Ticks
  <2>3. n \div Radix \in 0..(Radix * Radix)-1
    BY <2>1, <2>2, BitmapOpsAssumption, QuotientBounded
  <2> QED
    BY <2>3 DEF Words
<1>2. L2Bit(n) \in Bits /\ n = Radix * w + L2Bit(n)
  <2>1. n \in Nat
    BY BitmapOpsAssumption DEF Ticks
  <2> QED
    BY <2>1, BitmapOpsAssumption, DivMod, SlotRange DEF Bits, L2Bit
<1>3. L0Bit(n) \in Bits
  BY <1>1, BitmapOpsAssumption, QuotientBounded DEF L0Bit, Words, Bits
<1>4. L1Bit(n) \in Bits /\ w = Radix * L0Bit(n) + L1Bit(n)
  <2>1. w \in Nat
    BY <1>1, BitmapOpsAssumption DEF Words
  <2> QED
    BY <2>1, BitmapOpsAssumption, DivMod, SlotRange DEF Bits, L1Bit, L0Bit
<1> HIDE DEF w
<1>5. w = WordOf(n)
  BY <1>3, <1>4, BitmapOpsAssumption DEF WordOf, Bits
<1> QED
  BY <1>1, <1>2, <1>3, <1>4, <1>5, BitmapOpsAssumption DEF WordOf, Words, Bits

-----------------------------------------------------------------------------
(* Setting and clearing a bit. *)

LEMMA NewBitmapMarks ==
  NewBitmap \in Bitmap /\ MarksExactly(NewBitmap, {})
<1>1. \A a, b \in Bits : (a * Radix) + b \in Words
  BY WordOfBits
<1> QED
  BY <1>1 DEF NewBitmap, Bitmap, MarksExactly

\* set_bit adds its tick to the set that the bitmap marks, whatever that was:
\* the three levels agree again, also when the tick was in it.
THEOREM SetBitMarks ==
  ASSUME NEW bm \in Bitmap, NEW ticks \in SUBSET Ticks, NEW n \in Ticks,
         MarksExactly(bm, ticks)
  PROVE  SetBit(bm, n) \in Bitmap /\ MarksExactly(SetBit(bm, n), ticks \cup {n})
<1> DEFINE w  == WordOf(n)
           i0 == L0Bit(n)
           i1 == L1Bit(n)
           i2 == L2Bit(n)
           new == SetBit(bm, n)
<1>1. /\ i0 \in Bits /\ i1 \in Bits /\ i2 \in Bits /\ w \in Words
      /\ w = (i0 * Radix) + i1 /\ n = (w * Radix) + i2
  BY TickDigits
<1>2. /\ \A a, b \in Bits : (a * Radix) + b \in Words
      /\ \A a, b \in Bits : (a * Radix) + b = w => a = i0 /\ b = i1
  BY <1>1, WordOfBits
<1>3. \A v \in Words, c \in Bits : (v * Radix) + c = n => v = w /\ c = i2
  BY <1>1, TickOfBit
<1>4. bm.l0 \in SUBSET Bits /\ bm.l1 \in [Bits -> SUBSET Bits] /\ bm.l2 \in [Words -> SUBSET Bits]
  BY DEF Bitmap
<1>5. /\ new.l2 = [bm.l2 EXCEPT ![w] = @ \cup {i2}]
      /\ new.l1 = [bm.l1 EXCEPT ![i0] = @ \cup {i1}]
      /\ new.l0 = bm.l0 \cup {i0}
      /\ new \in Bitmap
  BY <1>1, <1>4 DEF SetBit, Bitmap
<1> HIDE DEF w, i0, i1, i2, new
<1>6. \A v \in Words : new.l2[v] = {b \in Bits : (v * Radix) + b \in ticks \cup {n}}
  <2>1. TAKE v \in Words
  <2>2. bm.l2[v] = {b \in Bits : (v * Radix) + b \in ticks}
    BY DEF MarksExactly
  <2>3. CASE v = w
    <3>1. new.l2[v] = bm.l2[v] \cup {i2}
      BY <1>4, <1>5, <2>3
    <3>2. \A b \in Bits : (v * Radix) + b = n <=> b = i2
      BY <1>1, <1>3, <2>3
    <3> QED
      BY <1>1, <2>2, <3>1, <3>2
  <2>4. CASE v # w
    <3>1. new.l2[v] = bm.l2[v]
      BY <1>4, <1>5, <2>4
    <3>2. \A b \in Bits : (v * Radix) + b # n
      BY <1>3, <2>4
    <3> QED
      BY <2>2, <3>1, <3>2
  <2> QED
    BY <2>3, <2>4
<1>7. \A a \in Bits : new.l1[a] = {b \in Bits : new.l2[(a * Radix) + b] # {}}
  <2>1. TAKE a \in Bits
  <2>2. bm.l1[a] = {b \in Bits : bm.l2[(a * Radix) + b] # {}}
    BY DEF MarksExactly
  <2>3. \A b \in Bits : (a * Radix) + b # w => new.l2[(a * Radix) + b] = bm.l2[(a * Radix) + b]
    BY <1>2, <1>4, <1>5
  <2>4. new.l2[w] # {}
    BY <1>1, <1>4, <1>5
  <2>5. CASE a = i0
    <3>1. new.l1[a] = bm.l1[a] \cup {i1}
      BY <1>4, <1>5, <2>5
    <3>2. \A b \in Bits : (a * Radix) + b = w <=> b = i1
      BY <1>1, <1>2, <2>5
    <3> QED
      BY <1>1, <2>2, <2>3, <2>4, <3>1, <3>2
  <2>6. CASE a # i0
    <3>1. new.l1[a] = bm.l1[a]
      BY <1>4, <1>5, <2>6
    <3>2. \A b \in Bits : (a * Radix) + b # w
      BY <1>2, <2>6
    <3> QED
      BY <2>2, <2>3, <3>1, <3>2
  <2> QED
    BY <2>5, <2>6
<1>8. new.l0 = {a \in Bits : new.l1[a] # {}}
  <2>1. bm.l0 = {a \in Bits : bm.l1[a] # {}}
    BY DEF MarksExactly
  <2>2. \A a \in Bits : a # i0 => new.l1[a] = bm.l1[a]
    BY <1>4, <1>5
  <2>3. new.l1[i0] # {}
    BY <1>1, <1>4, <1>5
  <2> QED
    BY <1>1, <1>5, <2>1, <2>2, <2>3
<1> QED
  BY <1>5, <1>6, <1>7, <1>8 DEF MarksExactly, new

\* clear_bit takes its tick out of the set: it clears the bit of a level if
\* and only if nothing is left below it.
THEOREM ClearBitMarks ==
  ASSUME NEW bm \in Bitmap, NEW ticks \in SUBSET Ticks, NEW n \in Ticks,
         MarksExactly(bm, ticks)
  PROVE  ClearBit(bm, n) \in Bitmap /\ MarksExactly(ClearBit(bm, n), ticks \ {n})
<1> DEFINE w  == WordOf(n)
           i0 == L0Bit(n)
           i1 == L1Bit(n)
           i2 == L2Bit(n)
           new == ClearBit(bm, n)
<1>1. /\ i0 \in Bits /\ i1 \in Bits /\ i2 \in Bits /\ w \in Words
      /\ w = (i0 * Radix) + i1 /\ n = (w * Radix) + i2
  BY TickDigits
<1>2. /\ \A a, b \in Bits : (a * Radix) + b \in Words
      /\ \A a, b \in Bits : (a * Radix) + b = w => a = i0 /\ b = i1
  BY <1>1, WordOfBits
<1>3. \A v \in Words, c \in Bits : (v * Radix) + c = n => v = w /\ c = i2
  BY <1>1, TickOfBit
<1>4. bm.l0 \in SUBSET Bits /\ bm.l1 \in [Bits -> SUBSET Bits] /\ bm.l2 \in [Words -> SUBSET Bits]
  BY DEF Bitmap
<1>5. /\ new.l2 = [bm.l2 EXCEPT ![w] = @ \ {i2}]
      /\ new.l1 = IF new.l2[w] = {} THEN [bm.l1 EXCEPT ![i0] = @ \ {i1}] ELSE bm.l1
      /\ new.l0 = IF new.l1[i0] = {} THEN bm.l0 \ {i0} ELSE bm.l0
  BY DEF ClearBit
<1> HIDE DEF w, i0, i1, i2
<1>6. new \in Bitmap
  <2>1. new = [l2 |-> new.l2, l1 |-> new.l1, l0 |-> new.l0]
    BY DEF ClearBit
  <2>2. new.l2 \in [Words -> SUBSET Bits] /\ new.l1 \in [Bits -> SUBSET Bits]
    BY <1>1, <1>4, <1>5
  <2>3. new.l0 \in SUBSET Bits
    BY <1>4, <1>5
  <2> HIDE DEF new
  <2> QED
    BY <2>1, <2>2, <2>3 DEF Bitmap
<1> HIDE DEF new
<1>7. \A v \in Words : new.l2[v] = {b \in Bits : (v * Radix) + b \in ticks \ {n}}
  <2>1. TAKE v \in Words
  <2>2. bm.l2[v] = {b \in Bits : (v * Radix) + b \in ticks}
    BY DEF MarksExactly
  <2>3. CASE v = w
    <3>1. new.l2[v] = bm.l2[v] \ {i2}
      BY <1>4, <1>5, <2>3
    <3>2. \A b \in Bits : (v * Radix) + b = n <=> b = i2
      BY <1>1, <1>3, <2>3
    <3> QED
      BY <1>1, <2>2, <3>1, <3>2
  <2>4. CASE v # w
    <3>1. new.l2[v] = bm.l2[v]
      BY <1>4, <1>5, <2>4
    <3>2. \A b \in Bits : (v * Radix) + b # n
      BY <1>3, <2>4
    <3> QED
      BY <2>2, <3>1, <3>2
  <2> QED
    BY <2>3, <2>4
<1>8. \A a \in Bits : new.l1[a] = {b \in Bits : new.l2[(a * Radix) + b] # {}}
  <2>1. TAKE a \in Bits
  <2>2. bm.l1[a] = {b \in Bits : bm.l2[(a * Radix) + b] # {}}
    BY DEF MarksExactly
  <2>3. \A b \in Bits : (a * Radix) + b # w => new.l2[(a * Radix) + b] = bm.l2[(a * Radix) + b]
    BY <1>2, <1>4, <1>5
  <2>4. CASE a = i0
    <3>1. \A b \in Bits : (a * Radix) + b = w <=> b = i1
      BY <1>1, <1>2, <2>4
    <3>2. CASE new.l2[w] = {}
      <4>1. new.l1[a] = bm.l1[a] \ {i1}
        BY <1>4, <1>5, <2>4, <3>2
      <4> QED
        BY <1>1, <2>2, <2>3, <3>1, <3>2, <4>1
    <3>3. CASE new.l2[w] # {}
      <4>1. new.l1[a] = bm.l1[a]
        BY <1>5, <3>3
      <4>2. bm.l2[w] # {}
        BY <1>1, <1>4, <1>5, <3>3
      <4> QED
        BY <1>1, <2>2, <2>3, <3>1, <3>3, <4>1, <4>2
    <3> QED
      BY <3>2, <3>3
  <2>5. CASE a # i0
    <3>1. new.l1[a] = bm.l1[a]
      BY <1>4, <1>5, <2>5
    <3>2. \A b \in Bits : (a * Radix) + b # w
      BY <1>2, <2>5
    <3> QED
      BY <2>2, <2>3, <3>1, <3>2
  <2> QED
    BY <2>4, <2>5
<1>9. new.l0 = {a \in Bits : new.l1[a] # {}}
  <2>1. bm.l0 = {a \in Bits : bm.l1[a] # {}}
    BY DEF MarksExactly
  <2>2. \A a \in Bits : a # i0 => new.l1[a] = bm.l1[a]
    BY <1>4, <1>5
  <2>3. new.l1[i0] \subseteq bm.l1[i0]
    BY <1>1, <1>4, <1>5
  <2>4. CASE new.l1[i0] = {}
    BY <1>1, <1>5, <2>1, <2>2, <2>4
  <2>5. CASE new.l1[i0] # {}
    BY <1>1, <1>5, <2>1, <2>2, <2>3, <2>5
  <2> QED
    BY <2>4, <2>5
<1> QED
  BY <1>6, <1>7, <1>8, <1>9 DEF MarksExactly, new

-----------------------------------------------------------------------------
(* The scans. *)

\* The set of the numbers of S has a least one.
LEMMA LeastNatural ==
  ASSUME NEW S \in SUBSET Nat, S # {}
  PROVE  \E m \in S : \A k \in S : m <= k
<1> DEFINE Less == OpToRel(<, Nat)
<1>1. IsWellFoundedOn(Less, Nat)
  BY NatLessThanWellFounded
<1>2. \A x, y \in Nat : x < y => <<x, y>> \in Less
  BY DEF OpToRel
<1> HIDE DEF Less
<1>3. PICK m \in S : \A k \in S : <<k, m>> \notin Less
  BY <1>1, WFMin
<1>4. ASSUME NEW k \in S PROVE m <= k
  <2>1. k \in Nat /\ m \in Nat
    OBVIOUS
  <2>2. ~(k < m)
    BY <1>2, <1>3, <2>1
  <2> QED
    BY <2>1, <2>2
<1> QED
  BY <1>4

\* trailing_zeros of a word that is not empty is its least bit.
LEMMA LowestBit ==
  ASSUME NEW word \in SUBSET Bits, word # {}
  PROVE  Lowest(word) \in word /\ \A b \in word : Lowest(word) <= b
<1>1. word \in SUBSET Nat
  BY BitmapOpsAssumption DEF Bits
<1>2. \E m \in word : \A k \in word : m <= k
  BY <1>1, LeastNatural
<1> QED
  BY <1>2 DEF Lowest

\* 63 - leading_zeros of a word that is not empty is its greatest bit.
LEMMA HighestBit ==
  ASSUME NEW word \in SUBSET Bits, word # {}
  PROVE  Highest(word) \in word /\ \A b \in word : Highest(word) >= b
<1> DEFINE mirror == {Radix - b : b \in word}
<1>1. Radix \in Int /\ \A b \in word : b \in Int /\ Radix - b \in Nat
  BY BitmapOpsAssumption DEF Bits
<1>2. mirror \in SUBSET Nat /\ mirror # {}
  BY <1>1
<1>3. PICK m \in mirror : \A k \in mirror : m <= k
  BY <1>2, LeastNatural
<1>4. PICK b \in word : m = Radix - b
  BY <1>3
<1>5. ASSUME NEW c \in word PROVE b >= c
  <2>1. Radix - c \in mirror
    OBVIOUS
  <2>2. m <= Radix - c
    BY <1>3, <2>1
  <2> QED
    BY <1>1, <1>4, <2>2
<1>6. \E b1 \in word : \A c \in word : b1 >= c
  BY <1>5
<1> QED
  BY <1>6 DEF Highest

\* A tick of the set is marked on all three levels.
LEMMA MarkedTick ==
  ASSUME NEW bm \in Bitmap, NEW ticks \in SUBSET Ticks, MarksExactly(bm, ticks), NEW u \in ticks
  PROVE  /\ L0Bit(u) \in bm.l0
         /\ L1Bit(u) \in bm.l1[L0Bit(u)]
         /\ L2Bit(u) \in bm.l2[(L0Bit(u) * Radix) + L1Bit(u)]
<1>1. /\ L0Bit(u) \in Bits /\ L1Bit(u) \in Bits /\ L2Bit(u) \in Bits /\ WordOf(u) \in Words
      /\ WordOf(u) = (L0Bit(u) * Radix) + L1Bit(u) /\ u = (WordOf(u) * Radix) + L2Bit(u)
  BY TickDigits
<1>2. L2Bit(u) \in bm.l2[WordOf(u)]
  BY <1>1 DEF MarksExactly
<1>3. L1Bit(u) \in bm.l1[L0Bit(u)]
  BY <1>1, <1>2 DEF MarksExactly
<1>4. L0Bit(u) \in bm.l0
  BY <1>1, <1>3 DEF MarksExactly
<1> QED
  BY <1>1, <1>2, <1>3, <1>4

\* A side whose level-0 word is empty has no tick, and only such a side.
LEMMA EmptyBitmap ==
  ASSUME NEW bm \in Bitmap, NEW ticks \in SUBSET Ticks, MarksExactly(bm, ticks)
  PROVE  bm.l0 = {} => ticks = {}
BY MarkedTick

\* Three bits, each taken from the word that the ones before it name, are a
\* tick of the set.
LEMMA MarkedPath ==
  ASSUME NEW bm \in Bitmap, NEW ticks \in SUBSET Ticks, MarksExactly(bm, ticks),
         NEW i0 \in bm.l0, NEW i1 \in bm.l1[i0], NEW i2 \in bm.l2[(i0 * Radix) + i1]
  PROVE  /\ i0 \in Bits /\ i1 \in Bits /\ i2 \in Bits
         /\ (i0 * Radix) + i1 \in Words
         /\ Join(i0, i1, i2) \in ticks
<1>1. i0 \in Bits /\ i1 \in Bits
  BY DEF Bitmap
<1>2. (i0 * Radix) + i1 \in Words
  BY <1>1, WordOfBits
<1>3. i2 \in Bits /\ (((i0 * Radix) + i1) * Radix) + i2 \in ticks
  BY <1>2 DEF MarksExactly
<1> QED
  BY <1>1, <1>2, <1>3 DEF Join

\* The words that a bit of the level above names are not empty.
LEMMA NoEmptyWord ==
  ASSUME NEW bm \in Bitmap, NEW ticks \in SUBSET Ticks, MarksExactly(bm, ticks)
  PROVE  /\ \A i0 \in bm.l0 : bm.l1[i0] # {}
         /\ \A i0 \in bm.l0 : \A i1 \in bm.l1[i0] : bm.l2[(i0 * Radix) + i1] # {}
BY DEF MarksExactly, Bitmap

\* Ticks compare by their three digits.
LEMMA TicksOrdered ==
  ASSUME NEW i0 \in Bits, NEW i1 \in Bits, NEW i2 \in Bits,
         NEW j0 \in Bits, NEW j1 \in Bits, NEW j2 \in Bits,
         \/ i0 < j0
         \/ i0 = j0 /\ i1 < j1
         \/ i0 = j0 /\ i1 = j1 /\ i2 <= j2
  PROVE  Join(i0, i1, i2) <= Join(j0, j1, j2)
<1> DEFINE p == (i0 * Radix) + i1
           q == (j0 * Radix) + j1
<1>1. Radix \in Nat \ {0} /\ p \in Int /\ q \in Int
  BY BitmapOpsAssumption DEF Bits
<1>2. i1 \in 0..Radix-1 /\ j1 \in 0..Radix-1 /\ i2 \in 0..Radix-1 /\ j2 \in 0..Radix-1
  BY DEF Bits
<1>3. i0 \in Int /\ j0 \in Int
  BY BitmapOpsAssumption DEF Bits
<1>4. p < q \/ (p = q /\ i2 <= j2)
  <2>1. CASE i0 < j0 \/ (i0 = j0 /\ i1 < j1)
    <3>1. p <= q
      BY <1>1, <1>2, <1>3, <2>1, DigitsOrdered
    <3>2. p # q
      BY <1>1, <1>2, <1>3, <2>1, DigitsUnique
    <3> QED
      BY <1>1, <3>1, <3>2
  <2>2. CASE i0 = j0 /\ i1 = j1 /\ i2 <= j2
    BY <2>2
  <2> QED
    BY <2>1, <2>2
<1> HIDE DEF p, q
<1>5. (p * Radix) + i2 <= (q * Radix) + j2
  BY <1>1, <1>2, <1>4, DigitsOrdered
<1> QED
  BY <1>5 DEF Join, p, q

\* best_ask, which reads three words and no price level, answers the least
\* tick in use, and None exactly when there is none.
THEOREM BestAskLeast ==
  ASSUME NEW bm \in Bitmap, NEW ticks \in SUBSET Ticks, MarksExactly(bm, ticks)
  PROVE  IsLeast(BestAsk(bm), ticks)
<1>1. CASE bm.l0 = {}
  BY <1>1, EmptyBitmap DEF BestAsk, IsLeast
<1>2. CASE bm.l0 # {}
  <2> DEFINE i0 == Lowest(bm.l0)
             i1 == Lowest(bm.l1[i0])
             i2 == Lowest(bm.l2[(i0 * Radix) + i1])
  <2>1. i0 \in bm.l0 /\ \A b \in bm.l0 : i0 <= b
    BY <1>2, LowestBit DEF Bitmap
  <2>2. bm.l1[i0] # {} /\ bm.l1[i0] \in SUBSET Bits
    BY <2>1, NoEmptyWord DEF Bitmap
  <2>3. i1 \in bm.l1[i0] /\ \A b \in bm.l1[i0] : i1 <= b
    BY <2>2, LowestBit
  <2>4. bm.l2[(i0 * Radix) + i1] # {}
    BY <2>1, <2>3, NoEmptyWord
  <2>5. bm.l2[(i0 * Radix) + i1] \in SUBSET Bits
    BY <2>1, <2>3, WordOfBits DEF Bitmap
  <2>6. i2 \in bm.l2[(i0 * Radix) + i1] /\ \A b \in bm.l2[(i0 * Radix) + i1] : i2 <= b
    BY <2>4, <2>5, LowestBit
  <2>7. BestAsk(bm) = Join(i0, i1, i2)
    BY <1>2 DEF BestAsk
  <2> HIDE DEF i0, i1, i2
  <2>8. i0 \in Bits /\ i1 \in Bits /\ i2 \in Bits /\ Join(i0, i1, i2) \in ticks
    BY <2>1, <2>3, <2>6, MarkedPath
  <2>9. ASSUME NEW u \in ticks PROVE Join(i0, i1, i2) <= u
    <3>1. /\ L0Bit(u) \in bm.l0 /\ L1Bit(u) \in bm.l1[L0Bit(u)]
          /\ L2Bit(u) \in bm.l2[(L0Bit(u) * Radix) + L1Bit(u)]
      BY MarkedTick
    <3>2. /\ L0Bit(u) \in Bits /\ L1Bit(u) \in Bits /\ L2Bit(u) \in Bits
          /\ u = Join(L0Bit(u), L1Bit(u), L2Bit(u))
      BY TickDigits DEF Join
    <3>3. \/ i0 < L0Bit(u)
          \/ i0 = L0Bit(u) /\ i1 < L1Bit(u)
          \/ i0 = L0Bit(u) /\ i1 = L1Bit(u) /\ i2 <= L2Bit(u)
      <4>1. /\ i0 \in Int /\ i1 \in Int /\ i2 \in Int
            /\ L0Bit(u) \in Int /\ L1Bit(u) \in Int /\ L2Bit(u) \in Int
        BY <2>8, <3>2, BitmapOpsAssumption DEF Bits
      <4>2. i0 <= L0Bit(u)
        BY <2>1, <3>1
      <4>3. i0 = L0Bit(u) => i1 <= L1Bit(u)
        BY <2>3, <3>1
      <4>4. i0 = L0Bit(u) /\ i1 = L1Bit(u) => i2 <= L2Bit(u)
        BY <2>6, <3>1
      <4> QED
        BY <4>1, <4>2, <4>3, <4>4
    <3>4. Join(i0, i1, i2) <= Join(L0Bit(u), L1Bit(u), L2Bit(u))
      BY <2>8, <3>2, <3>3, TicksOrdered
    <3> QED
      BY <3>2, <3>4
  <2> QED
    BY <2>7, <2>8, <2>9 DEF IsLeast
<1> QED
  BY <1>1, <1>2

\* best_bid answers the greatest tick in use, and None exactly when there is
\* none.
THEOREM BestBidGreatest ==
  ASSUME NEW bm \in Bitmap, NEW ticks \in SUBSET Ticks, MarksExactly(bm, ticks)
  PROVE  IsGreatest(BestBid(bm), ticks)
<1>1. CASE bm.l0 = {}
  BY <1>1, EmptyBitmap DEF BestBid, IsGreatest
<1>2. CASE bm.l0 # {}
  <2> DEFINE i0 == Highest(bm.l0)
             i1 == Highest(bm.l1[i0])
             i2 == Highest(bm.l2[(i0 * Radix) + i1])
  <2>1. i0 \in bm.l0 /\ \A b \in bm.l0 : i0 >= b
    BY <1>2, HighestBit DEF Bitmap
  <2>2. bm.l1[i0] # {} /\ bm.l1[i0] \in SUBSET Bits
    BY <2>1, NoEmptyWord DEF Bitmap
  <2>3. i1 \in bm.l1[i0] /\ \A b \in bm.l1[i0] : i1 >= b
    BY <2>2, HighestBit
  <2>4. bm.l2[(i0 * Radix) + i1] # {}
    BY <2>1, <2>3, NoEmptyWord
  <2>5. bm.l2[(i0 * Radix) + i1] \in SUBSET Bits
    BY <2>1, <2>3, WordOfBits DEF Bitmap
  <2>6. i2 \in bm.l2[(i0 * Radix) + i1] /\ \A b \in bm.l2[(i0 * Radix) + i1] : i2 >= b
    BY <2>4, <2>5, HighestBit
  <2>7. BestBid(bm) = Join(i0, i1, i2)
    BY <1>2 DEF BestBid
  <2> HIDE DEF i0, i1, i2
  <2>8. i0 \in Bits /\ i1 \in Bits /\ i2 \in Bits /\ Join(i0, i1, i2) \in ticks
    BY <2>1, <2>3, <2>6, MarkedPath
  <2>9. ASSUME NEW u \in ticks PROVE Join(i0, i1, i2) >= u
    <3>1. /\ L0Bit(u) \in bm.l0 /\ L1Bit(u) \in bm.l1[L0Bit(u)]
          /\ L2Bit(u) \in bm.l2[(L0Bit(u) * Radix) + L1Bit(u)]
      BY MarkedTick
    <3>2. /\ L0Bit(u) \in Bits /\ L1Bit(u) \in Bits /\ L2Bit(u) \in Bits
          /\ u = Join(L0Bit(u), L1Bit(u), L2Bit(u))
      BY TickDigits DEF Join
    <3>3. \/ i0 > L0Bit(u)
          \/ i0 = L0Bit(u) /\ i1 > L1Bit(u)
          \/ i0 = L0Bit(u) /\ i1 = L1Bit(u) /\ i2 >= L2Bit(u)
      <4>1. /\ i0 \in Int /\ i1 \in Int /\ i2 \in Int
            /\ L0Bit(u) \in Int /\ L1Bit(u) \in Int /\ L2Bit(u) \in Int
        BY <2>8, <3>2, BitmapOpsAssumption DEF Bits
      <4>2. i0 >= L0Bit(u)
        BY <2>1, <3>1
      <4>3. i0 = L0Bit(u) => i1 >= L1Bit(u)
        BY <2>3, <3>1
      <4>4. i0 = L0Bit(u) /\ i1 = L1Bit(u) => i2 >= L2Bit(u)
        BY <2>6, <3>1
      <4> QED
        BY <4>1, <4>2, <4>3, <4>4
    <3>4. Join(L0Bit(u), L1Bit(u), L2Bit(u)) <= Join(i0, i1, i2)
      BY <2>8, <3>2, <3>3, TicksOrdered, BitmapOpsAssumption DEF Bits
    <3>5. Join(i0, i1, i2) \in Int
      BY <2>8, BitmapOpsAssumption DEF Join, Bits
    <3>6. u \in Int
      BY BitmapOpsAssumption DEF Ticks
    <3> QED
      BY <3>2, <3>4, <3>5, <3>6
  <2> QED
    BY <2>7, <2>8, <2>9 DEF IsGreatest
<1> QED
  BY <1>1, <1>2

=============================================================================
