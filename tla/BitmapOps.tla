------------------------------ MODULE BitmapOps ------------------------------
(***************************************************************************)
(* The three-level bitmap of a half book (blp/bitmap.rs) as operators: a    *)
(* word is the set of its one bits.  l0 is one word, l1 has a word per bit   *)
(* of l0, l2 a word per bit of l1; a bit says that the word below it is not  *)
(* empty.  Radix is 64 in the code: bits per word.                           *)
(***************************************************************************)
EXTENDS Integers

CONSTANTS
  Radix,  \* bits per word and words per level-1 entry: 64
  Null    \* Option::None

ASSUME BitmapOpsAssumption ==
  /\ Radix \in Nat \ {0}
  /\ Null \notin Int

Bits  == 0..Radix-1
Words == 0..Radix*Radix-1
Ticks == 0..Radix*Radix*Radix-1

Bitmap == [l0: SUBSET Bits, l1: [Bits -> SUBSET Bits], l2: [Words -> SUBSET Bits]]

\* n >> 12, (n >> 6) & 63 and n & 63, and the index l0_bit * 64 + l1_bit.
L0Bit(n) == (n \div Radix) \div Radix
L1Bit(n) == (n \div Radix) % Radix
L2Bit(n) == n % Radix
WordOf(n) == (L0Bit(n) * Radix) + L1Bit(n)

NewBitmap == [l0 |-> {}, l1 |-> [b \in Bits |-> {}], l2 |-> [w \in Words |-> {}]]

SetBit(bm, n) ==
  [l2 |-> [bm.l2 EXCEPT ![WordOf(n)] = @ \cup {L2Bit(n)}],
   l1 |-> [bm.l1 EXCEPT ![L0Bit(n)] = @ \cup {L1Bit(n)}],
   l0 |-> bm.l0 \cup {L0Bit(n)}]

\* Mutant of ClearBit: the level-0 bit goes with the level-2 word.
ClearBitDropsL0(bm, n) ==
  LET l2 == [bm.l2 EXCEPT ![WordOf(n)] = @ \ {L2Bit(n)}]
      gone == l2[WordOf(n)] = {}
  IN [l2 |-> l2,
      l1 |-> IF gone THEN [bm.l1 EXCEPT ![L0Bit(n)] = @ \ {L1Bit(n)}] ELSE bm.l1,
      l0 |-> IF gone THEN bm.l0 \ {L0Bit(n)} ELSE bm.l0]

\* clear_bit: a level's bit is cleared only if the word below became empty.
ClearBit(bm, n) ==
  LET l2 == [bm.l2 EXCEPT ![WordOf(n)] = @ \ {L2Bit(n)}]
      l1 == IF l2[WordOf(n)] = {} THEN [bm.l1 EXCEPT ![L0Bit(n)] = @ \ {L1Bit(n)}] ELSE bm.l1
  IN [l2 |-> l2,
      l1 |-> l1,
      l0 |-> IF l1[L0Bit(n)] = {} THEN bm.l0 \ {L0Bit(n)} ELSE bm.l0]

\* trailing_zeros and 63 - leading_zeros of a word; of an empty word they are
\* 64 and -1, which no index uses as long as the levels agree.
Lowest(word)  == IF word = {} THEN Radix ELSE CHOOSE b \in word : \A c \in word : b <= c
Highest(word) == IF word = {} THEN -1    ELSE CHOOSE b \in word : \A c \in word : b >= c

\* (i0 << 12) | (i1 << 6) | i2
Join(i0, i1, i2) == (((i0 * Radix) + i1) * Radix) + i2

BestAsk(bm) ==
  IF bm.l0 = {} THEN Null
  ELSE LET i0 == Lowest(bm.l0)
           i1 == Lowest(bm.l1[i0])
       IN Join(i0, i1, Lowest(bm.l2[(i0 * Radix) + i1]))

BestBid(bm) ==
  IF bm.l0 = {} THEN Null
  ELSE LET i0 == Highest(bm.l0)
           i1 == Highest(bm.l1[i0])
       IN Join(i0, i1, Highest(bm.l2[(i0 * Radix) + i1]))

-----------------------------------------------------------------------------
\* What the three levels have to be for a set of ticks: the reference
\* definition, from the top of each word down.
MarksExactly(bm, ticks) ==
  /\ \A w \in Words : bm.l2[w] = {b \in Bits : (w * Radix) + b \in ticks}
  /\ \A a \in Bits  : bm.l1[a] = {b \in Bits : bm.l2[(a * Radix) + b] # {}}
  /\ bm.l0 = {a \in Bits : bm.l1[a] # {}}

\* best_ask and best_bid answer the least and the greatest tick of a set.
IsLeast(t, ticks) ==
  IF ticks = {} THEN t = Null ELSE t \in ticks /\ \A u \in ticks : t <= u
IsGreatest(t, ticks) ==
  IF ticks = {} THEN t = Null ELSE t \in ticks /\ \A u \in ticks : t >= u

=============================================================================
