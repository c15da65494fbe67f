--------------------------- MODULE WireFormatProofs ---------------------------
(***************************************************************************)
(* What the unmarshaller makes of the bytes of a message, for every base,    *)
(* word width, slot length and set of messages: exactly the messages of the  *)
(* format become commands, and those the commands that were encoded.         *)
(***************************************************************************)
EXTENDS WireFormat, SequenceTheorems, WellFoundedInduction, TLAPS

-----------------------------------------------------------------------------
(* Recursion over an interval.                                               *)

\* Induction, for the set of the numbers that have the property.
LEMMA Induction ==
  ASSUME NEW N \in Nat, NEW has, 0 \in has, \A n \in 1..N : n - 1 \in has => n \in has
  PROVE  \A n \in 0..N : n \in has
<1> DEFINE Less == {mn \in Nat \X Nat : mn[1] < mn[2]}
           lacks == {n \in 0..N : n \notin has}
<1>1. IsWellFoundedOn(Less, Nat)
  BY NatLessThanWellFounded, Zenon DEF OpToRel
<1>2. \A m, n \in Nat : m < n => <<m, n>> \in Less
  OBVIOUS
<1>3. lacks \subseteq Nat
  OBVIOUS
<1> HIDE DEF Less
<1> SUFFICES ASSUME lacks # {} PROVE FALSE
  OBVIOUS
<1>4. PICK m \in lacks : \A n \in lacks : <<n, m>> \notin Less
  <2> HIDE DEF lacks
  <2> QED
    BY <1>1, <1>3, WFMin, Zenon
<1>5. m \in 1..N /\ m - 1 \in Nat /\ m \in Nat /\ m - 1 < m
  BY <1>4
<1>6. m - 1 \in lacks
  BY <1>4, <1>5
<1> QED
  BY <1>2, <1>4, <1>5, <1>6

\* A recursive function with values in S.
Recurs(f, N, S, first, step) ==
  f \in [0..N -> S] /\ f[0] = first /\ \A n \in 1..N : f[n] = step[n][f[n - 1]]

\* There is one.
LEMMA Recursion ==
  ASSUME NEW N \in Nat, NEW S, NEW first \in S, NEW step \in [1..N -> [S -> S]]
  PROVE  \E f : Recurs(f, N, S, first, step)
<1> DEFINE Upto(m, f) == Recurs(f, m, S, first, step)
           has == {m \in 0..N : \E f : Upto(m, f)}
<1> USE DEF Recurs
<1>1. 0 \in has
  <2> DEFINE f == [n \in 0..0 |-> first]
  <2>1. Upto(0, f)
    OBVIOUS
  <2> HIDE DEF f, Upto
  <2> QED
    BY <2>1
<1>2. ASSUME NEW m \in 1..N, m - 1 \in has PROVE m \in has
  <2>1. PICK f : Upto(m - 1, f)
    BY <1>2
  <2> DEFINE g == [n \in 0..m |-> IF n = m THEN step[m][f[m - 1]] ELSE f[n]]
  <2>2. m - 1 \in 0..m-1 /\ f[m - 1] \in S /\ step[m][f[m - 1]] \in S
    BY <2>1
  <2>3. g \in [0..m -> S] /\ g[0] = first
    BY <2>1, <2>2
  <2>4. ASSUME NEW n \in 1..m PROVE g[n] = step[n][g[n - 1]]
    <3>1. n - 1 \in 0..m-1 /\ g[n - 1] = f[n - 1]
      OBVIOUS
    <3>2. n # m => n \in 1..m-1 /\ g[n] = f[n]
      OBVIOUS
    <3>3. n = m => g[n] = step[n][f[n - 1]]
      OBVIOUS
    <3> HIDE DEF g
    <3> QED
      BY <2>1, <3>1, <3>2, <3>3
  <2>5. Upto(m, g)
    BY <2>3, <2>4
  <2> HIDE DEF g, Upto
  <2> QED
    BY <2>5
<1> HIDE DEF has
<1>3. \A n \in 0..N : n \in has
  BY <1>1, <1>2, Induction
<1>4. N \in has
  BY <1>3
<1> QED
  BY <1>4 DEF has

-----------------------------------------------------------------------------
(* Words and their bytes.                                                    *)

\* A power is a positive number, one more of the base each.
LEMMA Powers ==
  /\ Power \in [0..Width -> Nat \ {0}]
  /\ Power[0] = 1
  /\ \A n \in 1..Width : Power[n] = Base * Power[n - 1]
<1> DEFINE Is(f) == f = [n \in 0..Width |-> IF n = 0 THEN 1 ELSE Base * f[n - 1]]
           step == [n \in 1..Width |-> [x \in Nat \ {0} |-> Base * x]]
<1>0. Width \in Nat /\ Base \in Nat \ {0}
  BY WireFormatAssumption
<1>1. step \in [1..Width -> [Nat \ {0} -> Nat \ {0}]]
  <2>1. \A x \in Nat \ {0} : Base * x \in Nat \ {0}
    BY <1>0
  <2> QED
    BY <2>1
<1>2. PICK f \in [0..Width -> Nat \ {0}] :
        f[0] = 1 /\ \A n \in 1..Width : f[n] = step[n][f[n - 1]]
  <2> DEFINE S == Nat \ {0}
  <2>1. 1 \in S /\ step \in [1..Width -> [S -> S]] /\ Width \in Nat
    BY <1>0, <1>1
  <2> HIDE DEF step, S
  <2>2. \E f : Recurs(f, Width, S, 1, step)
    BY <2>1, Recursion
  <2> QED
    BY <2>2 DEF Recurs, S
<1>3. ASSUME NEW n \in 1..Width PROVE f[n] = Base * f[n - 1]
  <2>1. n - 1 \in 0..Width
    BY <1>0
  <2>2. f[n - 1] \in Nat \ {0} /\ f[n] = step[n][f[n - 1]]
    BY <1>2, <2>1
  <2> QED
    BY <2>2
<1>4. Is(f)
  BY <1>2, <1>3
<1>5. Is(Power)
  <2>1. Power = CHOOSE g : Is(g)
    BY DEF Power
  <2> QED
    BY <1>4, <2>1
<1>6. Power[0] = 1 /\ \A n \in 1..Width : Power[n] = Base * Power[n - 1]
  BY <1>0, <1>5
<1> DEFINE has == {n \in 0..Width : Power[n] \in Nat \ {0}}
<1>7. 0 \in has /\ \A n \in 1..Width : n - 1 \in has => n \in has
  <2>1. ASSUME NEW n \in 1..Width, n - 1 \in has PROVE n \in has
    <3>1. Power[n] = Base * Power[n - 1] /\ Power[n - 1] \in Nat \ {0}
      BY <1>6, <2>1
    <3>2. Power[n] \in Nat \ {0}
      BY <1>0, <3>1
    <3> QED
      BY <3>2
  <2> QED
    BY <1>0, <1>6, <2>1
<1>8. \A n \in 0..Width : n \in has
  <2> HIDE DEF has
  <2> QED
    BY <1>0, <1>7, Induction
<1> QED
  BY <1>5, <1>6, <1>8

\* What from_le_bytes computes: the worth of ever more bytes from the end.
LEMMA FromLeIs ==
  ASSUME NEW bytes \in [1..Width -> Byte]
  PROVE  \E v \in [0..Width -> Nat] :
           /\ v[0] = 0
           /\ \A n \in 1..Width : v[n] = bytes[Width + 1 - n] + Base * v[n - 1]
           /\ FromLe(bytes) = v[Width]
<1> DEFINE Is(f) == f = [n \in 0..Width |-> IF n = 0 THEN 0
                                           ELSE bytes[Width + 1 - n] + Base * f[n - 1]]
           step == [n \in 1..Width |-> [x \in Nat |-> bytes[Width + 1 - n] + Base * x]]
           value == CHOOSE f : Is(f)
<1>0. Width \in Nat /\ Base \in Nat \ {0}
  BY WireFormatAssumption
<1>1. \A n \in 1..Width : bytes[Width + 1 - n] \in Nat
  BY <1>0 DEF Byte
<1>2. step \in [1..Width -> [Nat -> Nat]]
  <2>1. \A n \in 1..Width : \A x \in Nat : bytes[Width + 1 - n] + Base * x \in Nat
    BY <1>0, <1>1
  <2> QED
    BY <2>1
<1>3. PICK f \in [0..Width -> Nat] : f[0] = 0 /\ \A n \in 1..Width : f[n] = step[n][f[n - 1]]
  <2> HIDE DEF step
  <2>1. \E f : Recurs(f, Width, Nat, 0, step)
    BY <1>0, <1>2, Recursion
  <2> QED
    BY <2>1 DEF Recurs
<1>4. ASSUME NEW n \in 1..Width PROVE f[n] = bytes[Width + 1 - n] + Base * f[n - 1]
  <2>1. n - 1 \in 0..Width
    BY <1>0
  <2>2. f[n - 1] \in Nat /\ f[n] = step[n][f[n - 1]]
    BY <1>3, <2>1
  <2> QED
    BY <2>2
<1>5. Is(f)
  BY <1>3, <1>4
<1>6. Is(value)
  BY <1>5
<1>7. FromLe(bytes) = value[Width]
  BY DEF FromLe
<1> HIDE DEF value
<1>8. /\ value[0] = 0
      /\ \A n \in 1..Width : value[n] = bytes[Width + 1 - n] + Base * value[n - 1]
  BY <1>0, <1>6
<1> DEFINE has == {n \in 0..Width : value[n] \in Nat}
<1>9. 0 \in has /\ \A n \in 1..Width : n - 1 \in has => n \in has
  <2>1. ASSUME NEW n \in 1..Width, n - 1 \in has PROVE n \in has
    <3>1. /\ value[n] = bytes[Width + 1 - n] + Base * value[n - 1]
          /\ value[n - 1] \in Nat /\ bytes[Width + 1 - n] \in Nat
      BY <1>1, <1>8, <2>1
    <3>2. value[n] \in Nat
      <4>1. \A x, b \in Nat : b + Base * x \in Nat
        BY <1>0
      <4> QED
        BY <3>1, <4>1
    <3> QED
      BY <3>2
  <2> QED
    BY <1>0, <1>8, <2>1
<1>10. \A n \in 0..Width : n \in has
  <2> HIDE DEF has
  <2> QED
    BY <1>0, <1>9, Induction
<1>11. value \in [0..Width -> Nat]
  BY <1>6, <1>10
<1> QED
  BY <1>7, <1>8, <1>11

\* What to_le_bytes computes: what is left of the word after ever more bytes.
LEMMA ToLeIs ==
  ASSUME NEW word \in Nat
  PROVE  \E rest \in [0..Width -> Nat] :
           /\ rest[0] = word
           /\ \A n \in 1..Width : rest[n] = rest[n - 1] \div Base
           /\ ToLe(word) = [i \in 1..Width |-> rest[i - 1] % Base]
<1> DEFINE Is(f) == f = [n \in 0..Width |-> IF n = 0 THEN word ELSE f[n - 1] \div Base]
           step == [n \in 1..Width |-> [x \in Nat |-> x \div Base]]
           rest == CHOOSE f : Is(f)
<1>0. Width \in Nat /\ Base \in Nat \ {0}
  BY WireFormatAssumption
<1>1. \A x \in Nat : x \div Base \in Nat
  BY <1>0
<1>2. step \in [1..Width -> [Nat -> Nat]]
  BY <1>1
<1>3. PICK f \in [0..Width -> Nat] : f[0] = word /\ \A n \in 1..Width : f[n] = step[n][f[n - 1]]
  <2> HIDE DEF step
  <2>1. \E f : Recurs(f, Width, Nat, word, step)
    BY <1>0, <1>2, Recursion
  <2> QED
    BY <2>1 DEF Recurs
<1>4. ASSUME NEW n \in 1..Width PROVE f[n] = f[n - 1] \div Base
  <2>1. n - 1 \in 0..Width
    BY <1>0
  <2>2. f[n - 1] \in Nat /\ f[n] = step[n][f[n - 1]]
    BY <1>3, <2>1
  <2> QED
    BY <2>2
<1>5. Is(f)
  BY <1>3, <1>4
<1>6. Is(rest)
  BY <1>5
<1>7. ToLe(word) = [i \in 1..Width |-> rest[i - 1] % Base]
  BY DEF ToLe
<1> HIDE DEF rest
<1>8. rest[0] = word /\ \A n \in 1..Width : rest[n] = rest[n - 1] \div Base
  BY <1>0, <1>6
<1> DEFINE has == {n \in 0..Width : rest[n] \in Nat}
<1>9. 0 \in has /\ \A n \in 1..Width : n - 1 \in has => n \in has
  <2>1. ASSUME NEW n \in 1..Width, n - 1 \in has PROVE n \in has
    <3>1. rest[n] = rest[n - 1] \div Base /\ rest[n - 1] \in Nat
      BY <1>8, <2>1
    <3>2. rest[n] \in Nat
      BY <1>1, <3>1
    <3> QED
      BY <3>2
  <2> QED
    BY <1>0, <1>8, <2>1
<1>10. \A n \in 0..Width : n \in has
  <2> HIDE DEF has
  <2> QED
    BY <1>0, <1>9, Induction
<1>11. rest \in [0..Width -> Nat]
  BY <1>6, <1>10
<1> QED
  BY <1>7, <1>8, <1>11

LEMMA OneMoreDigit ==
  ASSUME NEW C \in Nat \ {0}, NEW digit \in 0..C-1, NEW x \in Nat, NEW y \in Nat, x <= y - 1
  PROVE  digit + C * x <= C * y - 1
<1>1. y - x >= 1 /\ C * (y - x) = C * y - C * x
  OBVIOUS
<1>2. C * (y - x) >= C
  BY <1>1
<1>3. C * y \in Int /\ C * x \in Int
  OBVIOUS
<1> QED
  BY <1>1, <1>2, <1>3

\* So many bytes make a word, and the bytes of that word are those bytes.
LEMMA WordOfBytes ==
  ASSUME NEW bytes \in [1..Width -> Byte]
  PROVE  FromLe(bytes) \in Word /\ ToLe(FromLe(bytes)) = bytes
<1>0. Width \in Nat /\ Base \in Nat \ {0}
  BY WireFormatAssumption
<1>1. PICK v \in [0..Width -> Nat] :
        /\ v[0] = 0
        /\ \A n \in 1..Width : v[n] = bytes[Width + 1 - n] + Base * v[n - 1]
        /\ FromLe(bytes) = v[Width]
  BY FromLeIs
<1>2. PICK rest \in [0..Width -> Nat] :
        /\ rest[0] = v[Width]
        /\ \A n \in 1..Width : rest[n] = rest[n - 1] \div Base
        /\ ToLe(v[Width]) = [i \in 1..Width |-> rest[i - 1] % Base]
  <2>1. v[Width] \in Nat
    BY <1>0, <1>1
  <2> QED
    BY <2>1, ToLeIs
<1>3. ASSUME NEW n \in 1..Width
      PROVE  /\ n - 1 \in 0..Width /\ n \in 0..Width /\ v[n - 1] \in Nat
             /\ bytes[Width + 1 - n] \in 0..Base-1
             /\ v[n] = bytes[Width + 1 - n] + Base * v[n - 1]
  BY <1>0, <1>1 DEF Byte
\* v[n] is below the n-th power.
<1> DEFINE below == {n \in 0..Width : v[n] <= Power[n] - 1}
<1>4. 0 \in below
  BY <1>0, <1>1, Powers
<1>5. ASSUME NEW n \in 1..Width, n - 1 \in below PROVE n \in below
  <2>1. /\ v[n - 1] <= Power[n - 1] - 1 /\ Power[n] = Base * Power[n - 1]
        /\ Power[n - 1] \in Nat
    BY <1>3, <1>5, Powers
  <2>2. bytes[Width + 1 - n] + Base * v[n - 1] <= Base * Power[n - 1] - 1
    BY <1>0, <1>3, <2>1, OneMoreDigit
  <2>3. v[n] <= Power[n] - 1
    BY <1>3, <2>1, <2>2
  <2> QED
    BY <1>3, <2>3
<1>6. FromLe(bytes) \in Word
  <2>1. \A n \in 0..Width : n \in below
    <3> HIDE DEF below
    <3> QED
      BY <1>0, <1>4, <1>5, Induction
  <2>2. v[Width] \in Nat /\ v[Width] <= Power[Width] - 1 /\ Power[Width] \in Nat
    BY <1>0, <1>1, <2>1, Powers
  <2> QED
    BY <1>1, <2>2 DEF Word
\* What is left after n bytes is the worth of the others.
<1> DEFINE left == {n \in 0..Width : rest[n] = v[Width - n]}
<1>7. ASSUME NEW b \in 0..Base-1, NEW x \in Nat
      PROVE  (b + Base * x) \div Base = x /\ (b + Base * x) % Base = b
  BY <1>0
<1>8. ASSUME NEW n \in 1..Width, n - 1 \in left
      PROVE  rest[n] = v[Width - n] /\ rest[n - 1] % Base = bytes[n]
  <2> DEFINE m == Width - (n - 1)
  <2>1. m \in 1..Width /\ m - 1 = Width - n /\ Width + 1 - m = n
    BY <1>0
  <2>2. rest[n - 1] = v[m] /\ rest[n] = rest[n - 1] \div Base
    BY <1>2, <1>8
  <2> HIDE DEF m
  <2>3. v[m] = bytes[n] + Base * v[m - 1] /\ bytes[n] \in 0..Base-1 /\ v[m - 1] \in Nat
    BY <1>3, <2>1
  <2> QED
    BY <1>7, <2>1, <2>2, <2>3
<1>9. \A n \in 0..Width : n \in left
  <2>1. 0 \in left
    BY <1>0, <1>2
  <2>2. \A n \in 1..Width : n - 1 \in left => n \in left
    BY <1>0, <1>8
  <2> HIDE DEF left
  <2> QED
    BY <1>0, <2>1, <2>2, Induction
<1>10. \A n \in 1..Width : rest[n - 1] % Base = bytes[n]
  <2>1. \A n \in 1..Width : n - 1 \in left
    <3> HIDE DEF left
    <3> QED
      BY <1>3, <1>9
  <2> QED
    BY <1>8, <2>1
<1> QED
  BY <1>1, <1>2, <1>6, <1>10

-----------------------------------------------------------------------------
(* The readers.                                                              *)

\* What stands at the places after off is what the form allows there.
Fits(buf, off, form) ==
  off + Len(form) <= Len(buf) /\ \A i \in 1..Len(form) : buf[off + i] \in form[i]

LEMMA Sizes ==
  /\ Width \in Nat /\ Width >= 1 /\ Base \in Nat /\ Base > 3
  /\ MaxLen \in Nat /\ MaxLen >= 5 * Width + 5
  /\ \A b \in Byte : b \in Nat /\ b < Base
  /\ {0, 1, 2, 3} \subseteq Byte
BY WireFormatAssumption DEF Byte

LEMMA ReadBytesMeans ==
  ASSUME NEW buf \in Seq(Byte), NEW off \in Nat, NEW n \in Nat
  PROVE  LET r == ReadBytes(buf, off, n)
         IN /\ r.ok <=> off + n <= Len(buf)
            /\ r.ok => /\ r.off = off + n /\ r.value = SubSeq(buf, off + 1, off + n)
                       /\ r.value \in [1..n -> Byte]
                       /\ \A i \in 1..n : r.value[i] = buf[off + i]
<1> DEFINE r == ReadBytes(buf, off, n)
           piece == SubSeq(buf, off + 1, off + n)
<1>1. Len(buf) \in Nat
  OBVIOUS
<1>2. CASE off + n > Len(buf)
  BY <1>1, <1>2 DEF ReadBytes, Err
<1>3. CASE ~(off + n > Len(buf))
  <2>1. r.ok /\ r.off = off + n /\ r.value = piece
    BY <1>3 DEF ReadBytes, Ok
  <2>2. \A i \in off+1..off+n : buf[i] \in Byte
    BY <1>1, <1>3, ElementOfSeq
  <2>3. /\ piece \in Seq(Byte) /\ Len(piece) = n
        /\ \A i \in 1..n : piece[i] = buf[off + i]
    <3>1. off + 1 \in Int /\ off + n \in Int /\ (IF off + 1 <= off + n THEN off + n - (off + 1) + 1 ELSE 0) = n
      OBVIOUS
    <3>2. \A i \in 1..n : off + 1 + i - 1 = off + i
      OBVIOUS
    <3>3. piece \in Seq(Byte) /\ Len(piece) = (IF off + 1 <= off + n THEN off + n - (off + 1) + 1 ELSE 0)
      BY <2>2, <3>1, SubSeqProperties
    <3>4. Len(piece) = n
      BY <3>1, <3>3
    <3>5. \A i \in 1..n : piece[i] = buf[off + 1 + i - 1]
      BY <2>2, <3>1, SubSeqProperties
    <3> HIDE DEF piece
    <3> QED
      BY <3>2, <3>3, <3>4, <3>5
  <2>4. piece \in [1..n -> Byte]
    <3> HIDE DEF piece
    <3> QED
      BY <2>3
  <2> HIDE DEF r, piece
  <2>5. off + n <= Len(buf)
    BY <1>1, <1>3
  <2>6. /\ r.ok <=> off + n <= Len(buf)
        /\ r.ok => /\ r.off = off + n /\ r.value = piece
                   /\ r.value \in [1..n -> Byte]
                   /\ \A i \in 1..n : r.value[i] = buf[off + i]
    BY <2>1, <2>3, <2>4, <2>5
  <2> QED
    BY <2>6 DEF r, piece
<1> QED
  BY <1>2, <1>3

LEMMA ReadSymbol8Means ==
  ASSUME NEW buf \in Seq(Byte), NEW off \in Nat
  PROVE  LET r == ReadSymbol8(buf, off)
         IN /\ r.ok <=> off + Width <= Len(buf)
            /\ r.ok => /\ r.off = off + Width /\ r.value \in Symbol
                       /\ r.value = SubSeq(buf, off + 1, r.off)
<1> DEFINE r == ReadBytes(buf, off, Width)
<1>1. /\ r.ok <=> off + Width <= Len(buf)
      /\ r.ok => /\ r.off = off + Width /\ r.value = SubSeq(buf, off + 1, off + Width)
                 /\ r.value \in [1..Width -> Byte]
  <2>1. Width \in Nat
    BY Sizes
  <2> QED
    BY <2>1, ReadBytesMeans
<1>2. r = ReadSymbol8(buf, off)
  BY DEF ReadSymbol8
<1> HIDE DEF r
<1> QED
  BY <1>1, <1>2 DEF Symbol

LEMMA ReadU64Means ==
  ASSUME NEW buf \in Seq(Byte), NEW off \in Nat
  PROVE  LET r == ReadU64(buf, off)
         IN /\ r.ok <=> off + Width <= Len(buf)
            /\ r.ok => /\ r.off = off + Width /\ r.value \in Word
                       /\ ToLe(r.value) = SubSeq(buf, off + 1, r.off)
<1> DEFINE b == ReadBytes(buf, off, Width)
           r == ReadU64(buf, off)
<1>1. /\ b.ok <=> off + Width <= Len(buf)
      /\ b.ok => /\ b.off = off + Width /\ b.value \in [1..Width -> Byte]
                 /\ b.value = SubSeq(buf, off + 1, off + Width)
  <2>1. Width \in Nat
    BY Sizes
  <2> QED
    BY <2>1, ReadBytesMeans
<1>2. r = IF b.ok THEN Ok(FromLe(b.value), b.off) ELSE Err
  BY DEF ReadU64
<1> HIDE DEF b, r
<1>3. CASE b.ok
  <2>1. r.ok /\ r.off = b.off /\ r.value = FromLe(b.value)
    BY <1>2, <1>3 DEF Ok
  <2>2. r.value \in Word /\ ToLe(r.value) = b.value
    BY <1>1, <1>3, <2>1, WordOfBytes
  <2> QED
    BY <1>1, <1>3, <2>1, <2>2 DEF r
<1>4. CASE ~b.ok
  <2>1. ~r.ok
    BY <1>2, <1>4 DEF Err
  <2> QED
    BY <1>1, <1>4, <2>1 DEF r
<1> QED
  BY <1>3, <1>4

LEMMA ReadEnumMeans ==
  ASSUME NEW buf \in Seq(Byte), NEW off \in Nat,
         NEW names \in {Sides, OrderTypes, TimesInForce}
  PROVE  LET r == ReadEnum(buf, off, names)
         IN /\ r.ok <=> off + 1 <= Len(buf) /\ buf[off + 1] \in 0..Len(names)-1
            /\ r.ok => /\ r.off = off + 1 /\ r.value \in ToSet(names)
                       /\ ByteOf(r.value, names) = SubSeq(buf, off + 1, r.off)
<1> DEFINE b == ReadBytes(buf, off, 1)
           r == ReadEnum(buf, off, names)
           code == b.value[1]
<1>1. /\ b.ok <=> off + 1 <= Len(buf)
      /\ b.ok => /\ b.off = off + 1 /\ b.value \in [1..1 -> Byte]
                 /\ b.value = SubSeq(buf, off + 1, off + 1) /\ code = buf[off + 1]
  <2>1. 1 \in Nat /\ 1 \in 1..1
    OBVIOUS
  <2>2. /\ b.ok <=> off + 1 <= Len(buf)
        /\ b.ok => /\ b.off = off + 1 /\ b.value = SubSeq(buf, off + 1, off + 1)
                   /\ b.value \in [1..1 -> Byte]
                   /\ \A i \in 1..1 : b.value[i] = buf[off + i]
    BY <2>1, ReadBytesMeans
  <2> HIDE DEF b
  <2> QED
    BY <2>1, <2>2
<1>2. r = IF b.ok /\ code < Len(names) THEN Ok(names[code + 1], b.off) ELSE Err
  BY DEF ReadEnum
<1>3. /\ Len(names) \in Nat /\ DOMAIN names = 1..Len(names)
      /\ \A i, j \in 1..Len(names) : names[i] = names[j] => i = j
  BY DEF Sides, OrderTypes, TimesInForce
<1>4. b.ok => code \in Nat /\ b.value = <<code>>
  <2> SUFFICES ASSUME b.ok PROVE code \in Nat /\ b.value = <<code>>
    OBVIOUS
  <2>1. b.value \in [1..1 -> Byte]
    BY <1>1
  <2> HIDE DEF b
  <2> QED
    BY <2>1, Sizes
<1> HIDE DEF b, r
<1>5. CASE b.ok /\ code < Len(names)
  <2>1. r.ok /\ r.off = b.off /\ r.value = names[code + 1] /\ code + 1 \in 1..Len(names)
    BY <1>2, <1>3, <1>4, <1>5 DEF Ok
  <2>2. r.value \in ToSet(names)
    BY <1>3, <2>1 DEF ToSet
  <2>3. (CHOOSE i \in DOMAIN names : names[i] = r.value) = code + 1
    BY <1>3, <2>1
  <2>4. ByteOf(r.value, names) = <<code>>
    <3> DEFINE j == CHOOSE i \in DOMAIN names : names[i] = r.value
    <3>1. j = code + 1 /\ code \in Int
      BY <1>4, <1>5, <2>3
    <3>2. ByteOf(r.value, names) = <<j - 1>>
      BY DEF ByteOf
    <3> HIDE DEF code, j
    <3>3. j - 1 = code
      BY <3>1
    <3> QED
      BY <3>2, <3>3
  <2> QED
    BY <1>1, <1>3, <1>4, <1>5, <2>1, <2>2, <2>4 DEF r
<1>6. CASE ~(b.ok /\ code < Len(names))
  <2>1. ~r.ok
    BY <1>2, <1>6 DEF Err
  <2> QED
    BY <1>1, <1>3, <1>4, <1>6, <2>1 DEF r
<1> QED
  BY <1>5, <1>6

\* ReadSymbol8, ReadU64, ReadEnum and ReadOption all read one of some forms:
\* r is what the reader made of the buffer from off on, bytes what its value
\* is encoded as.
Form == Seq(SUBSET Byte)

Reads(r, bytes, buf, off, forms) ==
  /\ r.ok <=> \E form \in forms : Fits(buf, off, form)
  /\ r.ok => /\ r.off \in off..Len(buf)
             /\ bytes = SubSeq(buf, off + 1, r.off)
             /\ \A form \in forms : Fits(buf, off, form) => r.off = off + Len(form)

\* The reader of the rest, passed over when the first one failed.
AndThen(r, rest) == IF r.ok THEN rest ELSE Err

Then(forms, rests) == UNION {{form \o rest : rest \in rests} : form \in forms}

LEMMA AnyForm ==
  ASSUME NEW n \in Nat
  PROVE  AnyBytes(n) \in Form /\ Len(AnyBytes(n)) = n
<1> DEFINE any == AnyBytes(n)
<1>1. any \in [1..n -> SUBSET Byte]
  BY DEF AnyBytes
<1> HIDE DEF any
<1> QED
  BY <1>1 DEF Form, any

LEMMA FitsAny ==
  ASSUME NEW buf \in Seq(Byte), NEW off \in Nat, NEW n \in Nat
  PROVE  Fits(buf, off, AnyBytes(n)) <=> off + n <= Len(buf)
<1> DEFINE any == AnyBytes(n)
<1>1. \A i \in 1..n : any[i] = Byte
  BY DEF AnyBytes
<1>2. Len(any) = n
  BY AnyForm
<1> HIDE DEF any
<1>3. ASSUME off + n <= Len(buf), NEW i \in 1..n PROVE buf[off + i] \in any[i]
  <2>1. off + i \in 1..Len(buf)
    BY <1>3
  <2> QED
    BY <1>1, <2>1, ElementOfSeq
<1> QED
  BY <1>2, <1>3 DEF Fits, any

LEMMA FitsOne ==
  ASSUME NEW buf \in Seq(Byte), NEW off \in Nat, NEW may \in SUBSET Byte
  PROVE  /\ <<may>> \in Form /\ Len(<<may>>) = 1
         /\ Fits(buf, off, <<may>>) <=> off + 1 <= Len(buf) /\ buf[off + 1] \in may
BY DEF Fits, Form

LEMMA FitsConcat ==
  ASSUME NEW buf \in Seq(Byte), NEW off \in Nat, NEW f \in Form, NEW g \in Form
  PROVE  /\ f \o g \in Form /\ Len(f \o g) = Len(f) + Len(g)
         /\ Len(f) \in Nat /\ Len(g) \in Nat
         /\ Fits(buf, off, f \o g) <=> Fits(buf, off, f) /\ Fits(buf, off + Len(f), g)
<1> DEFINE h == f \o g
           m == Len(f)
           n == Len(g)
<1>1. m \in Nat /\ n \in Nat /\ Len(buf) \in Nat
  BY LenProperties DEF Form
<1>2. /\ h \in Form /\ Len(h) = m + n
      /\ \A i \in 1..m+n : h[i] = IF i <= m THEN f[i] ELSE g[i - m]
  BY ConcatProperties DEF Form
<1> HIDE DEF h
<1>3. ASSUME Fits(buf, off, h) PROVE Fits(buf, off, f) /\ Fits(buf, off + m, g)
  <2>1. off + (m + n) <= Len(buf) /\ \A i \in 1..m+n : buf[off + i] \in h[i]
    BY <1>2, <1>3 DEF Fits
  <2> HIDE DEF m, n
  <2>2. \A i \in 1..m : buf[off + i] \in f[i]
    BY <1>1, <1>2, <2>1
  <2>3. ASSUME NEW i \in 1..n PROVE buf[off + m + i] \in g[i]
    <3> DEFINE j == m + i
    <3>1. j \in 1..m+n /\ ~(j <= m) /\ j - m = i /\ off + j = off + m + i
      BY <1>1
    <3> HIDE DEF j
    <3>2. h[j] = g[j - m]
      BY <1>2, <3>1
    <3>3. buf[off + j] \in h[j]
      BY <2>1, <3>1
    <3> QED
      BY <3>1, <3>2, <3>3
  <2>4. off + m <= Len(buf) /\ off + m + n <= Len(buf)
    BY <1>1, <2>1
  <2> QED
    BY <2>2, <2>3, <2>4 DEF Fits, m, n
<1>4. ASSUME Fits(buf, off, f), Fits(buf, off + m, g) PROVE Fits(buf, off, h)
  <2>1. /\ off + m + n <= Len(buf) /\ \A i \in 1..m : buf[off + i] \in f[i]
        /\ \A i \in 1..n : buf[off + m + i] \in g[i]
    BY <1>4 DEF Fits
  <2> HIDE DEF m, n
  <2>2. ASSUME NEW i \in 1..m+n PROVE buf[off + i] \in h[i]
    <3>1. CASE i <= m
      <4>1. i \in 1..m
        BY <1>1, <3>1
      <4> QED
        BY <1>2, <2>1, <3>1, <4>1
    <3>2. CASE ~(i <= m)
      <4>1. i - m \in 1..n /\ off + m + (i - m) = off + i
        BY <1>1, <3>2
      <4> QED
        BY <1>2, <2>1, <3>2, <4>1
    <3> QED
      BY <3>1, <3>2
  <2>3. off + (m + n) <= Len(buf)
    BY <1>1, <2>1
  <2> QED
    BY <1>2, <2>2, <2>3 DEF Fits
<1> QED
  BY <1>1, <1>2, <1>3, <1>4 DEF h

Concatenations(all, forms, rests) ==
  /\ \A f \in forms, g \in rests : f \o g \in all
  /\ \A x \in all : \E f \in forms, g \in rests : x = f \o g

LEMMA InThen ==
  ASSUME NEW forms, NEW rests
  PROVE  Concatenations(Then(forms, rests), forms, rests)
<1>1. ASSUME NEW f \in forms, NEW g \in rests PROVE f \o g \in Then(forms, rests)
  <2> DEFINE some == {f \o rest : rest \in rests}
  <2>1. some \in {{form \o rest : rest \in rests} : form \in forms} /\ f \o g \in some
    BY Zenon
  <2> QED
    BY <2>1, Zenon DEF Then
<1>2. ASSUME NEW x \in Then(forms, rests) PROVE \E f \in forms, g \in rests : x = f \o g
  BY Zenon DEF Then
<1> QED
  BY <1>1, <1>2 DEF Concatenations

WithTwo(first, rests) == {first \o g \o h : g, h \in rests}

HasTwo(all, first, rests) ==
  /\ \A g, h \in rests : first \o g \o h \in all
  /\ \A x \in all : \E g, h \in rests : x = first \o g \o h

LEMMA InWithTwo ==
  ASSUME NEW first, NEW rests
  PROVE  HasTwo(WithTwo(first, rests), first, rests)
<1>1. ASSUME NEW g \in rests, NEW h \in rests PROVE first \o g \o h \in WithTwo(first, rests)
  BY SMTT(30) DEF WithTwo
<1>2. ASSUME NEW x \in WithTwo(first, rests) PROVE \E g, h \in rests : x = first \o g \o h
  BY SMTT(30) DEF WithTwo
<1> QED
  BY <1>1, <1>2 DEF HasTwo

\* One reader behind another reads the forms of the one, then of the other.
LEMMA Chain ==
  ASSUME NEW buf \in Seq(Byte), NEW off \in Nat, NEW r, NEW bytes, NEW forms \in SUBSET Form,
         NEW next, NEW nextBytes, NEW nextForms \in SUBSET Form,
         Reads(r, bytes, buf, off, forms),
         r.ok => Reads(next, nextBytes, buf, r.off, nextForms)
  PROVE  /\ Reads(AndThen(r, next), bytes \o nextBytes, buf, off, Then(forms, nextForms))
         /\ Then(forms, nextForms) \in SUBSET Form
<1> DEFINE both == AndThen(r, next)
<1>0. Len(buf) \in Nat
  BY LenProperties
<1>1. r.ok => r.off \in Nat /\ off <= r.off /\ r.off <= Len(buf)
  BY <1>0 DEF Reads
<1>2. ASSUME NEW f \in forms, NEW g \in nextForms
      PROVE  /\ f \o g \in Form /\ Len(f \o g) = Len(f) + Len(g)
             /\ Len(f) \in Nat /\ Len(g) \in Nat
             /\ Fits(buf, off, f \o g) <=> r.ok /\ Fits(buf, off, f) /\ Fits(buf, r.off, g)
  <2>1. /\ f \o g \in Form /\ Len(f \o g) = Len(f) + Len(g)
        /\ Len(f) \in Nat /\ Len(g) \in Nat
        /\ Fits(buf, off, f \o g) <=> Fits(buf, off, f) /\ Fits(buf, off + Len(f), g)
    BY FitsConcat
  <2>2. Fits(buf, off, f) => r.ok /\ r.off = off + Len(f)
    BY DEF Reads
  <2> QED
    BY <2>1, <2>2
<1> DEFINE all == Then(forms, nextForms)
<1>a. /\ \A f \in forms, g \in nextForms : f \o g \in all
      /\ \A h \in all : \E f \in forms, g \in nextForms : h = f \o g
  <2>1. Concatenations(all, forms, nextForms)
    BY InThen
  <2> QED
    BY <2>1 DEF Concatenations
<1> HIDE DEF all
<1>3. all \in SUBSET Form
  BY <1>2, <1>a
<1>4. both.ok <=> r.ok /\ next.ok
  BY DEF AndThen, Err
<1>5. r.ok => both = next
  BY DEF AndThen
<1> HIDE DEF both
<1>6. ASSUME both.ok PROVE \E form \in all : Fits(buf, off, form)
  <2>1. PICK f \in forms : Fits(buf, off, f)
    BY <1>4, <1>6 DEF Reads
  <2>2. PICK g \in nextForms : Fits(buf, r.off, g)
    BY <1>4, <1>6 DEF Reads
  <2>3. Fits(buf, off, f \o g)
    BY <1>2, <1>4, <1>6, <2>1, <2>2
  <2> QED
    BY <1>a, <2>3
<1>7. ASSUME NEW form \in all, Fits(buf, off, form)
      PROVE  both.ok /\ both.off = off + Len(form)
  <2>1. PICK f \in forms, g \in nextForms : form = f \o g
    BY <1>a
  <2>2. r.ok /\ Fits(buf, off, f) /\ Fits(buf, r.off, g) /\ Len(form) = Len(f) + Len(g)
    BY <1>2, <1>7, <2>1
  <2>3. next.ok /\ next.off = r.off + Len(g) /\ r.off = off + Len(f)
    BY <2>2 DEF Reads
  <2>4. Len(f) \in Nat /\ Len(g) \in Nat
    BY <1>2
  <2> QED
    BY <1>4, <1>5, <2>2, <2>3, <2>4
<1>8. ASSUME both.ok
      PROVE  /\ both.off \in off..Len(buf)
             /\ bytes \o nextBytes = SubSeq(buf, off + 1, both.off)
  <2>1. r.ok /\ next.ok /\ both.off = next.off
    BY <1>4, <1>5, <1>8
  <2>2. /\ r.off \in off..Len(buf) /\ bytes = SubSeq(buf, off + 1, r.off)
        /\ next.off \in r.off..Len(buf) /\ nextBytes = SubSeq(buf, r.off + 1, next.off)
    BY <2>1 DEF Reads
  <2>3. /\ off + 1 \in 1..Len(buf)+1 /\ r.off \in off+1-1..Len(buf)
        /\ next.off \in r.off..Len(buf)
    BY <1>0, <2>2
  <2>4. SubSeq(buf, off + 1, r.off) \o SubSeq(buf, r.off + 1, next.off) = SubSeq(buf, off + 1, next.off)
    <3> DEFINE m == off + 1
               k == r.off
               n == next.off
    <3>1. m \in 1..Len(buf)+1 /\ k \in m-1..Len(buf) /\ n \in k..Len(buf)
      BY <2>3
    <3> HIDE DEF m, k, n
    <3>2. SubSeq(buf, m, k) \o SubSeq(buf, k+1, n) = SubSeq(buf, m, n)
      BY <3>1, ConcatAdjacentSubSeq
    <3> QED
      BY <3>2 DEF m, k, n
  <2>5. next.off \in off..Len(buf)
    BY <1>0, <1>1, <2>1, <2>2
  <2> QED
    BY <2>1, <2>2, <2>4, <2>5
<1>9. Reads(both, bytes \o nextBytes, buf, off, all)
  BY <1>6, <1>7, <1>8 DEF Reads
<1> QED
  BY <1>3, <1>9 DEF both, all

\* What each reader reads, and the values it gives.
LEMMA SymbolReads ==
  ASSUME NEW buf \in Seq(Byte), NEW off \in Nat
  PROVE  LET r == ReadSymbol8(buf, off)
         IN /\ Reads(r, r.value, buf, off, {AnyBytes(Width)})
            /\ {AnyBytes(Width)} \in SUBSET Form
            /\ r.ok => r.value \in Symbol
<1> DEFINE r == ReadSymbol8(buf, off)
           any == AnyBytes(Width)
<1>1. any \in Form /\ Len(any) = Width /\ (Fits(buf, off, any) <=> off + Width <= Len(buf))
  BY Sizes, AnyForm, FitsAny
<1>2. /\ r.ok <=> off + Width <= Len(buf)
      /\ r.ok => /\ r.off = off + Width /\ r.value \in Symbol
                 /\ r.value = SubSeq(buf, off + 1, r.off)
  BY ReadSymbol8Means
<1> HIDE DEF r, any
<1>3. r.ok => r.off \in off..Len(buf)
  BY SMTT(30), <1>2, Sizes, LenProperties
<1> QED
  BY <1>1, <1>2, <1>3 DEF Reads, r, any

LEMMA U64Reads ==
  ASSUME NEW buf \in Seq(Byte), NEW off \in Nat
  PROVE  LET r == ReadU64(buf, off)
         IN /\ Reads(r, ToLe(r.value), buf, off, {AnyBytes(Width)})
            /\ {AnyBytes(Width)} \in SUBSET Form
            /\ r.ok => r.value \in Word
<1> DEFINE r == ReadU64(buf, off)
           any == AnyBytes(Width)
<1>1. any \in Form /\ Len(any) = Width /\ (Fits(buf, off, any) <=> off + Width <= Len(buf))
  BY Sizes, AnyForm, FitsAny
<1>2. /\ r.ok <=> off + Width <= Len(buf)
      /\ r.ok => /\ r.off = off + Width /\ r.value \in Word
                 /\ ToLe(r.value) = SubSeq(buf, off + 1, r.off)
  BY ReadU64Means
<1> HIDE DEF r, any
<1>3. r.ok => r.off \in off..Len(buf)
  BY <1>2, Sizes, LenProperties
<1> QED
  BY <1>1, <1>2, <1>3 DEF Reads, r, any

LEMMA NameCounts == Len(Sides) = 2 /\ Len(OrderTypes) = 2 /\ Len(TimesInForce) = 3
BY DEF Sides, OrderTypes, TimesInForce

LEMMA EnumReads ==
  ASSUME NEW buf \in Seq(Byte), NEW off \in Nat,
         NEW names \in {Sides, OrderTypes, TimesInForce}
  PROVE  LET r == ReadEnum(buf, off, names)
         IN /\ Reads(r, ByteOf(r.value, names), buf, off, {<<0..Len(names)-1>>})
            /\ {<<0..Len(names)-1>>} \in SUBSET Form
            /\ r.ok => r.value \in ToSet(names)
<1> DEFINE r == ReadEnum(buf, off, names)
           codes == 0..Len(names)-1
           form == <<codes>>
<1>1. codes \in SUBSET Byte
  <2> DEFINE n == Len(names)
  <2>1. n = 2 \/ n = 3
    BY NameCounts, Zenon
  <2> HIDE DEF n
  <2>2. 0..n-1 \in SUBSET Byte
    BY <2>1, Sizes DEF Byte
  <2> QED
    BY <2>2 DEF n
<1>2. /\ r.ok <=> off + 1 <= Len(buf) /\ buf[off + 1] \in codes
      /\ r.ok => /\ r.off = off + 1 /\ r.value \in ToSet(names)
                 /\ ByteOf(r.value, names) = SubSeq(buf, off + 1, r.off)
  BY ReadEnumMeans
<1> HIDE DEF r, codes
<1>3. /\ form \in Form /\ Len(form) = 1
      /\ Fits(buf, off, form) <=> off + 1 <= Len(buf) /\ buf[off + 1] \in codes
  BY <1>1, FitsOne
<1> HIDE DEF form
<1>4. r.ok => r.off \in off..Len(buf)
  <2>1. Len(buf) \in Nat
    BY LenProperties
  <2> QED
    BY <1>2, <2>1
<1> QED
  BY <1>2, <1>3, <1>4 DEF Reads, r, form, codes

LEMMA OptionReads ==
  ASSUME NEW buf \in Seq(Byte), NEW off \in Nat
  PROVE  LET r == ReadOption(buf, off)
         IN /\ Reads(r, OptionBytes(r.value), buf, off, OptionForms)
            /\ OptionForms \in SUBSET Form
            /\ r.ok => r.value \in Word \cup {Null}
<1> DEFINE r == ReadOption(buf, off)
           flag == ReadBytes(buf, off, 1)
           u == ReadU64(buf, off + 1)
           any == AnyBytes(Width)
           none == <<{0}>>
           one == <<{1}>>
           some == one \o any
<1>0. Len(buf) \in Nat /\ off + 1 \in Nat
  BY LenProperties
<1>1. /\ flag.ok <=> off + 1 <= Len(buf)
      /\ flag.ok => /\ flag.off = off + 1 /\ flag.value[1] = buf[off + 1]
                    /\ flag.value = SubSeq(buf, off + 1, off + 1)
                    /\ flag.value = <<flag.value[1]>>
  <2>1. /\ flag.ok <=> off + 1 <= Len(buf)
        /\ flag.ok => /\ flag.off = off + 1 /\ flag.value = SubSeq(buf, off + 1, off + 1)
                      /\ flag.value \in [1..1 -> Byte]
                      /\ \A i \in 1..1 : flag.value[i] = buf[off + i]
    BY ReadBytesMeans
  <2> HIDE DEF flag
  <2> QED
    BY <2>1
<1>2. /\ Reads(u, ToLe(u.value), buf, off + 1, {any}) /\ any \in Form
      /\ u.ok => u.value \in Word
  BY <1>0, U64Reads
<1>3. /\ none \in Form /\ Len(none) = 1 /\ one \in Form /\ Len(one) = 1
      /\ Fits(buf, off, none) <=> off + 1 <= Len(buf) /\ buf[off + 1] = 0
      /\ Fits(buf, off, one) <=> off + 1 <= Len(buf) /\ buf[off + 1] = 1
  BY Sizes, FitsOne
<1>4. OptionForms = {none, some}
  BY DEF OptionForms
<1>5. r = CASE flag.ok /\ flag.value[1] = 0 -> Ok(Null, flag.off)
            [] flag.ok /\ flag.value[1] = 1 -> ReadU64(buf, flag.off)
            [] OTHER -> Err
  BY DEF ReadOption
<1> HIDE DEF r, flag, u, any, none, one
<1>6. /\ some \in Form /\ Len(some) = 1 + Len(any) /\ Len(any) \in Nat
      /\ Fits(buf, off, some) <=> Fits(buf, off, one) /\ Fits(buf, off + 1, any)
  <2>1. /\ one \o any \in Form /\ Len(one \o any) = Len(one) + Len(any) /\ Len(any) \in Nat
        /\ Fits(buf, off, one \o any) <=> Fits(buf, off, one) /\ Fits(buf, off + Len(one), any)
    BY <1>2, <1>3, FitsConcat
  <2>2. Len(one) = 1
    BY <1>3
  <2> HIDE DEF some
  <2> QED
    BY <2>1, <2>2 DEF some
<1> HIDE DEF some
<1>7. CASE flag.ok /\ flag.value[1] = 0
  <2>1. r.ok /\ r.value = Null /\ r.off = off + 1
    BY <1>1, <1>5, <1>7 DEF Ok
  <2>2. Fits(buf, off, none) /\ ~Fits(buf, off, some) /\ off + 1 <= Len(buf)
    BY <1>1, <1>3, <1>6, <1>7
  <2>3. OptionBytes(r.value) = <<0>> /\ <<0>> = SubSeq(buf, off + 1, r.off)
    BY <1>1, <1>7, <2>1 DEF OptionBytes
  <2>4. r.ok => r.off \in off..Len(buf) /\ r.off = off + Len(none)
    BY <1>0, <1>3, <2>1, <2>2
  <2> QED
    BY <1>3, <1>4, <1>6, <2>1, <2>2, <2>3, <2>4 DEF Reads, r
<1>8. CASE flag.ok /\ flag.value[1] = 1
  <2>1. r = u
    BY <1>1, <1>5, <1>8 DEF u
  <2>2. Fits(buf, off, one) /\ ~Fits(buf, off, none)
    BY <1>1, <1>3, <1>8
  <2>3. /\ u.ok <=> Fits(buf, off + 1, any)
        /\ u.ok => /\ u.off \in off+1..Len(buf) /\ ToLe(u.value) = SubSeq(buf, off + 1 + 1, u.off)
                   /\ u.off = off + 1 + Len(any)
    BY <1>2 DEF Reads
  <2>4. u.ok => OptionBytes(u.value) = SubSeq(buf, off + 1, u.off)
    <3> SUFFICES ASSUME u.ok PROVE OptionBytes(u.value) = SubSeq(buf, off + 1, u.off)
      OBVIOUS
    <3>1. OptionBytes(u.value) = <<1>> \o ToLe(u.value)
      BY <1>2, WireFormatAssumption DEF OptionBytes
    <3>2. <<1>> = SubSeq(buf, off + 1, off + 1) /\ off + 1 <= Len(buf)
      BY <1>1, <1>8
    <3> DEFINE m == off + 1
               n == u.off
    <3>3. m \in 1..Len(buf)+1 /\ m \in m-1..Len(buf) /\ n \in m..Len(buf)
      BY <1>0, <2>3, <3>2
    <3> HIDE DEF m, n
    <3>4. SubSeq(buf, m, m) \o SubSeq(buf, m + 1, n) = SubSeq(buf, m, n)
      BY <3>3, ConcatAdjacentSubSeq
    <3> QED
      BY <2>3, <3>1, <3>2, <3>4 DEF m, n
  <2>5. u.ok => u.off \in off..Len(buf) /\ u.off = off + Len(some)
    BY <1>0, <1>6, <2>3
  <2> QED
    BY <1>2, <1>3, <1>4, <1>6, <2>1, <2>2, <2>3, <2>4, <2>5 DEF Reads, r
<1>9. CASE ~flag.ok \/ (flag.value[1] # 0 /\ flag.value[1] # 1)
  <2>1. ~r.ok
    BY <1>5, <1>9 DEF Err
  <2>2. ~Fits(buf, off, one) /\ ~Fits(buf, off, none)
    BY <1>1, <1>3, <1>9
  <2> QED
    BY <1>3, <1>4, <1>6, <2>1, <2>2 DEF Reads, r
<1> QED
  BY <1>7, <1>8, <1>9

-----------------------------------------------------------------------------
(* The parser.                                                               *)

LEMMA HasFormFits ==
  ASSUME NEW buf \in Seq(Byte), NEW form \in Form
  PROVE  HasForm(buf, form) <=> Fits(buf, 0, form)
<1>1. Len(form) \in Nat /\ DOMAIN form = 1..Len(form) /\ Len(buf) \in Nat
  BY LenProperties DEF Form
<1>2. 0 + Len(form) <= Len(buf) <=> Len(buf) >= Len(form)
  BY <1>1
<1>3. \A i \in 1..Len(form) : 0 + i = i
  BY <1>1
<1> QED
  BY <1>1, <1>2, <1>3 DEF HasForm, Fits

LEMMA ThenOne ==
  ASSUME NEW f, NEW g
  PROVE  Then({f}, {g}) = {f \o g}
BY DEF Then

LEMMA ThenEach ==
  ASSUME NEW f, NEW rests
  PROVE  Then({f}, rests) = {f \o g : g \in rests}
BY DEF Then

LEMMA EachThen ==
  ASSUME NEW forms, NEW g
  PROVE  Then(forms, {g}) = {f \o g : f \in forms}
BY DEF Then

LEMMA AnyAny ==
  ASSUME NEW m \in Nat, NEW n \in Nat
  PROVE  AnyBytes(m) \o AnyBytes(n) = AnyBytes(m + n)
<1> DEFINE f == AnyBytes(m)
           g == AnyBytes(n)
           h == AnyBytes(m + n)
<1>1. /\ f \in Form /\ Len(f) = m /\ g \in Form /\ Len(g) = n /\ h \in Form /\ Len(h) = m + n
  BY AnyForm
<1>2. /\ \A i \in 1..m : f[i] = Byte
      /\ \A i \in 1..n : g[i] = Byte
      /\ \A i \in 1..m+n : h[i] = Byte
  BY DEF AnyBytes
<1> HIDE DEF f, g, h
<1>3. /\ f \o g \in Form /\ Len(f \o g) = m + n
      /\ \A i \in 1..m+n : (f \o g)[i] = IF i <= m THEN f[i] ELSE g[i - m]
  BY <1>1, ConcatProperties DEF Form
<1>4. ASSUME NEW i \in 1..m+n PROVE (f \o g)[i] = h[i]
  <2>1. CASE i <= m
    <3>1. i \in 1..m
      BY <2>1
    <3> QED
      BY <1>2, <1>3, <2>1, <3>1
  <2>2. CASE ~(i <= m)
    <3>1. i - m \in 1..n
      BY <2>2
    <3> QED
      BY <1>2, <1>3, <2>2, <3>1
  <2> QED
    BY <2>1, <2>2
<1>5. f \o g = h
  BY <1>1, <1>3, <1>4, SeqEqual DEF Form
<1> QED
  BY <1>5 DEF f, g, h

\* Where the parser is: so far it read this, which is encoded as the bytes.
Stage(a, bytes, buf, forms) == Reads(a, bytes, buf, 0, forms) /\ forms \in SUBSET Form

LEMMA StageTag ==
  ASSUME NEW buf \in Seq(Byte), NEW tag \in Byte, Len(buf) >= 1, buf[1] = tag
  PROVE  Stage(Ok(tag, 1), <<tag>>, buf, {<<{tag}>>})
<1> DEFINE form == <<{tag}>>
<1>0. Len(buf) \in Nat
  BY LenProperties
<1>1. /\ form \in Form /\ Len(form) = 1
      /\ Fits(buf, 0, form) <=> 0 + 1 <= Len(buf) /\ buf[0 + 1] \in {tag}
  BY FitsOne
<1>2. SubSeq(buf, 0 + 1, 1) = <<tag>>
  <2> DEFINE s == SubSeq(buf, 1, 1)
  <2>1. \A i \in 1..1 : buf[i] \in Byte
    OBVIOUS
  <2>2. s \in Seq(Byte) /\ Len(s) = 1 /\ s[1] = buf[1]
    BY <2>1, SubSeqProperties
  <2> HIDE DEF s
  <2>3. s = <<tag>>
    BY <2>2
  <2>4. 0 + 1 = 1
    OBVIOUS
  <2> QED
    BY <2>3, <2>4 DEF s
<1> HIDE DEF form
<1>3. /\ Ok(tag, 1).ok /\ Ok(tag, 1).off = 1
  BY DEF Ok
<1>4. 0 + 1 = 1 /\ 1 \in 0..Len(buf) /\ 0 + Len(form) = 1
  BY <1>0, <1>1
<1>5. Fits(buf, 0, form)
  BY <1>0, <1>1, <1>4
<1> QED
  BY <1>1, <1>2, <1>3, <1>4, <1>5 DEF Stage, Reads, form

LEMMA AndThenMeans ==
  ASSUME NEW a, NEW r
  PROVE  LET both == AndThen(a, r)
         IN (both.ok <=> a.ok /\ r.ok) /\ (both.ok => both.off = r.off)
BY DEF AndThen, Err

LEMMA StageSymbol ==
  ASSUME NEW buf \in Seq(Byte), NEW a, NEW bytes, NEW forms, Stage(a, bytes, buf, forms),
         NEW r, a.ok => r = ReadSymbol8(buf, a.off)
  PROVE  /\ Stage(AndThen(a, r), bytes \o r.value, buf, Then(forms, {AnyBytes(Width)}))
         /\ a.ok /\ r.ok => r.value \in Symbol
<1>1. a.ok => a.off \in Nat
  BY LenProperties DEF Stage, Reads
<1>2. a.ok => /\ Reads(r, r.value, buf, a.off, {AnyBytes(Width)})
              /\ r.ok => r.value \in Symbol
  BY <1>1, SymbolReads
<1>3. {AnyBytes(Width)} \in SUBSET Form
  BY Sizes, AnyForm
<1> QED
  BY <1>2, <1>3, Chain DEF Stage

LEMMA StageU64 ==
  ASSUME NEW buf \in Seq(Byte), NEW a, NEW bytes, NEW forms, Stage(a, bytes, buf, forms),
         NEW r, a.ok => r = ReadU64(buf, a.off)
  PROVE  /\ Stage(AndThen(a, r), bytes \o ToLe(r.value), buf, Then(forms, {AnyBytes(Width)}))
         /\ a.ok /\ r.ok => r.value \in Word
<1>1. a.ok => a.off \in Nat
  BY LenProperties DEF Stage, Reads
<1>2. a.ok => /\ Reads(r, ToLe(r.value), buf, a.off, {AnyBytes(Width)})
              /\ r.ok => r.value \in Word
  BY <1>1, U64Reads
<1>3. {AnyBytes(Width)} \in SUBSET Form
  BY Sizes, AnyForm
<1> QED
  BY <1>2, <1>3, Chain DEF Stage

LEMMA StageEnum ==
  ASSUME NEW buf \in Seq(Byte), NEW a, NEW bytes, NEW forms, Stage(a, bytes, buf, forms),
         NEW names \in {Sides, OrderTypes, TimesInForce},
         NEW r, a.ok => r = ReadEnum(buf, a.off, names)
  PROVE  /\ Stage(AndThen(a, r), bytes \o ByteOf(r.value, names), buf,
                  Then(forms, {<<0..Len(names)-1>>}))
         /\ a.ok /\ r.ok => r.value \in ToSet(names)
<1>1. a.ok => a.off \in Nat
  BY LenProperties DEF Stage, Reads
<1>2. a.ok => /\ Reads(r, ByteOf(r.value, names), buf, a.off, {<<0..Len(names)-1>>})
              /\ r.ok => r.value \in ToSet(names)
  BY <1>1, EnumReads
<1>3. {<<0..Len(names)-1>>} \in SUBSET Form
  <2>1. 0 \in Nat
    OBVIOUS
  <2> QED
    BY <2>1, EnumReads
<1> QED
  BY <1>2, <1>3, Chain DEF Stage

LEMMA StageOption ==
  ASSUME NEW buf \in Seq(Byte), NEW a, NEW bytes, NEW forms, Stage(a, bytes, buf, forms),
         NEW r, a.ok => r = ReadOption(buf, a.off)
  PROVE  /\ Stage(AndThen(a, r), bytes \o OptionBytes(r.value), buf, Then(forms, OptionForms))
         /\ a.ok /\ r.ok => r.value \in Word \cup {Null}
<1>1. a.ok => a.off \in Nat
  BY LenProperties DEF Stage, Reads
<1>2. a.ok => /\ Reads(r, OptionBytes(r.value), buf, a.off, OptionForms)
              /\ r.ok => r.value \in Word \cup {Null}
  BY <1>1, OptionReads
<1>3. OptionForms \in SUBSET Form
  <2>1. 0 \in Nat
    OBVIOUS
  <2> QED
    BY <2>1, OptionReads
<1> QED
  BY <1>2, <1>3, Chain DEF Stage

\* The parser turns the forms, and no others, into the command that is encoded
\* as what it read.
Parses(r, buf, forms) ==
  /\ r.ok <=> \E form \in forms : Fits(buf, 0, form)
  /\ r.ok => /\ r.value \in Command
             /\ r.off \in 0..Len(buf) /\ Encode(r.value) = SubSeq(buf, 1, r.off)

CancelForms == {<<{2}>> \o AnyBytes(2 * Width)}
ModifyForms == WithTwo(<<{3}>> \o AnyBytes(2 * Width), OptionForms)
PlaceForms ==
  {<<{1}>> \o AnyBytes(3 * Width) \o <<{0, 1}, {0, 1}>> \o price \o AnyBytes(Width)
     \o <<{0, 1, 2}>> : price \in OptionForms}

\* From the last stage to the result.
LEMMA LastStage ==
  ASSUME NEW buf \in Seq(Byte), NEW a, NEW bytes, NEW forms, Stage(a, bytes, buf, forms),
         NEW r, r.ok <=> a.ok,
         r.ok => r.off = a.off /\ r.value \in Command /\ Encode(r.value) = bytes
  PROVE  Parses(r, buf, forms)
<1>1. a.ok => a.off \in 0..Len(buf) /\ bytes = SubSeq(buf, 1, a.off)
  <2>1. 0 + 1 = 1
    OBVIOUS
  <2> QED
    BY <2>1 DEF Stage, Reads
<1>2. a.ok <=> \E form \in forms : Fits(buf, 0, form)
  BY DEF Stage, Reads
<1> QED
  BY <1>1, <1>2 DEF Parses

\* The client's two ids behind the tag, which every message begins with.
LEMMA Ids ==
  ASSUME NEW tag \in Byte
  PROVE  /\ <<{tag}>> \o AnyBytes(Width) \o AnyBytes(Width) = <<{tag}>> \o AnyBytes(2 * Width)
         /\ <<{tag}>> \in Form
<1> DEFINE one == <<{tag}>>
           any == AnyBytes(Width)
<1>1. one \in Form /\ any \in Form
  BY Sizes, AnyForm DEF Form
<1>2. Width + Width = 2 * Width
  BY Sizes
<1>3. AnyBytes(Width) \o AnyBytes(Width) = AnyBytes(2 * Width)
  BY <1>2, Sizes, AnyAny
<1> HIDE DEF one, any
<1>4. (one \o any) \o any = one \o (any \o any)
  BY <1>1, ConcatAssociative DEF Form
<1> QED
  BY <1>1, <1>3, <1>4 DEF one, any

LEMMA ParseCancelMeans ==
  ASSUME NEW buf \in Seq(Byte), Len(buf) >= 1, buf[1] = 2
  PROVE  Parses(ParseCancel(buf), buf, CancelForms)
<1> DEFINE id == ReadU64(buf, 1)
           oid == ReadU64(buf, id.off)
           a0 == Ok(2, 1)
           a1 == AndThen(a0, id)
           a2 == AndThen(a1, oid)
           c == [kind |-> "Cancel", client_id |-> id.value, client_order_id |-> oid.value]
           r == ParseCancel(buf)
           bytes == <<2>> \o ToLe(id.value) \o ToLe(oid.value)
           f1 == Then({<<{2}>>}, {AnyBytes(Width)})
           f2 == Then(f1, {AnyBytes(Width)})
<1>1. r = IF id.ok /\ oid.ok THEN Ok(c, oid.off) ELSE Err
  BY DEF ParseCancel
<1>2. a0.ok /\ a0.off = 1 /\ Stage(a0, <<2>>, buf, {<<{2}>>})
  BY Sizes, StageTag DEF Ok
<1>3. id = ReadU64(buf, 1) /\ oid = ReadU64(buf, id.off)
  OBVIOUS
<1> HIDE DEF id, oid, a0, a1, a2, c, r, bytes, f1, f2
<1>4. /\ Stage(a1, <<2>> \o ToLe(id.value), buf, f1)
      /\ a1.ok <=> id.ok
      /\ a1.ok => a1.off = id.off /\ id.value \in Word
  <2>1. a0.ok => id = ReadU64(buf, a0.off)
    BY <1>2, <1>3
  <2>2. Stage(a1, <<2>> \o ToLe(id.value), buf, f1) /\ (a0.ok /\ id.ok => id.value \in Word)
    BY <1>2, <2>1, StageU64 DEF a1, f1
  <2> QED
    BY <1>2, <2>2, AndThenMeans DEF a1
<1>5. /\ Stage(a2, bytes, buf, f2)
      /\ a2.ok <=> id.ok /\ oid.ok
      /\ a2.ok => a2.off = oid.off /\ oid.value \in Word
  <2>1. a1.ok => oid = ReadU64(buf, a1.off)
    BY <1>3, <1>4
  <2>2. Stage(a2, bytes, buf, f2) /\ (a1.ok /\ oid.ok => oid.value \in Word)
    BY <1>4, <2>1, StageU64 DEF a2, f2, bytes
  <2> QED
    BY <1>4, <2>2, AndThenMeans DEF a2
<1>6. f2 = CancelForms
  <2>1. f2 = {<<{2}>> \o AnyBytes(Width) \o AnyBytes(Width)}
    BY ThenOne DEF f1, f2
  <2>2. <<{2}>> \o AnyBytes(Width) \o AnyBytes(Width) = <<{2}>> \o AnyBytes(2 * Width)
    BY Sizes, Ids
  <2> QED
    BY <2>1, <2>2 DEF CancelForms
<1>7. id.value \in Word /\ oid.value \in Word => c \in Command /\ Encode(c) = bytes
  BY DEF c, Command, Encode, bytes
<1>8. /\ r.ok <=> a2.ok
      /\ r.ok => r.off = a2.off /\ r.value = c
  BY <1>1, <1>5 DEF Ok, Err
<1> QED
  BY <1>4, <1>5, <1>6, <1>7, <1>8, LastStage DEF r

LEMMA ParseModifyMeans ==
  ASSUME NEW buf \in Seq(Byte), Len(buf) >= 1, buf[1] = 3
  PROVE  Parses(ParseModify(buf), buf, ModifyForms)
<1> DEFINE id == ReadU64(buf, 1)
           oid == ReadU64(buf, id.off)
           price == ReadOption(buf, oid.off)
           qty == ReadOption(buf, price.off)
           a0 == Ok(3, 1)
           a1 == AndThen(a0, id)
           a2 == AndThen(a1, oid)
           a3 == AndThen(a2, price)
           a4 == AndThen(a3, qty)
           c == [kind |-> "Modify", client_id |-> id.value, client_order_id |-> oid.value,
                 new_price |-> price.value, new_qty |-> qty.value]
           r == ParseModify(buf)
           b2 == <<3>> \o ToLe(id.value) \o ToLe(oid.value)
           b4 == b2 \o OptionBytes(price.value) \o OptionBytes(qty.value)
           f1 == Then({<<{3}>>}, {AnyBytes(Width)})
           f2 == Then(f1, {AnyBytes(Width)})
           f3 == Then(f2, OptionForms)
           f4 == Then(f3, OptionForms)
<1>1. r = IF id.ok /\ oid.ok /\ price.ok /\ qty.ok THEN Ok(c, qty.off) ELSE Err
  BY DEF ParseModify
<1>2. a0.ok /\ a0.off = 1 /\ Stage(a0, <<3>>, buf, {<<{3}>>})
  BY Sizes, StageTag DEF Ok
<1>3. /\ id = ReadU64(buf, 1) /\ oid = ReadU64(buf, id.off)
      /\ price = ReadOption(buf, oid.off) /\ qty = ReadOption(buf, price.off)
  OBVIOUS
<1> HIDE DEF id, oid, price, qty, a0, a1, a2, a3, a4, c, r, b2, b4, f1, f2, f3, f4
<1>4. /\ Stage(a1, <<3>> \o ToLe(id.value), buf, f1)
      /\ a1.ok <=> id.ok
      /\ a1.ok => a1.off = id.off /\ id.value \in Word
  <2>1. a0.ok => id = ReadU64(buf, a0.off)
    BY <1>2, <1>3
  <2>2. Stage(a1, <<3>> \o ToLe(id.value), buf, f1) /\ (a0.ok /\ id.ok => id.value \in Word)
    BY <1>2, <2>1, StageU64 DEF a1, f1
  <2> QED
    BY <1>2, <2>2, AndThenMeans DEF a1
<1>5. /\ Stage(a2, b2, buf, f2)
      /\ a2.ok <=> id.ok /\ oid.ok
      /\ a2.ok => a2.off = oid.off /\ oid.value \in Word
  <2>1. a1.ok => oid = ReadU64(buf, a1.off)
    BY <1>3, <1>4
  <2>2. Stage(a2, b2, buf, f2) /\ (a1.ok /\ oid.ok => oid.value \in Word)
    BY <1>4, <2>1, StageU64 DEF a2, f2, b2
  <2> QED
    BY <1>4, <2>2, AndThenMeans DEF a2
<1>6. /\ Stage(a3, b2 \o OptionBytes(price.value), buf, f3)
      /\ a3.ok <=> a2.ok /\ price.ok
      /\ a3.ok => a3.off = price.off /\ price.value \in Word \cup {Null}
  <2>1. a2.ok => price = ReadOption(buf, a2.off)
    BY <1>3, <1>5
  <2>2. /\ Stage(a3, b2 \o OptionBytes(price.value), buf, f3)
        /\ a2.ok /\ price.ok => price.value \in Word \cup {Null}
    BY <1>5, <2>1, StageOption DEF a3, f3
  <2> QED
    BY <2>2, AndThenMeans DEF a3
<1>7. /\ Stage(a4, b4, buf, f4)
      /\ a4.ok <=> a3.ok /\ qty.ok
      /\ a4.ok => a4.off = qty.off /\ qty.value \in Word \cup {Null}
  <2>1. a3.ok => qty = ReadOption(buf, a3.off)
    BY <1>3, <1>6
  <2>2. Stage(a4, b4, buf, f4) /\ (a3.ok /\ qty.ok => qty.value \in Word \cup {Null})
    BY <1>6, <2>1, StageOption DEF a4, f4, b4
  <2> QED
    BY <2>2, AndThenMeans DEF a4
<1>8. f4 = ModifyForms
  <2> DEFINE ids == <<{3}>> \o AnyBytes(2 * Width)
  <2>1. f2 = {ids}
    <3>1. f2 = {<<{3}>> \o AnyBytes(Width) \o AnyBytes(Width)}
      BY ThenOne DEF f1, f2
    <3>2. <<{3}>> \o AnyBytes(Width) \o AnyBytes(Width) = ids
      BY Sizes, Ids
    <3> QED
      BY <3>1, <3>2
  <2> HIDE DEF ids
  <2>2. f3 = {ids \o g : g \in OptionForms}
    BY <2>1, ThenEach DEF f3
  <2> DEFINE all == WithTwo(ids, OptionForms)
  <2>b. HasTwo(all, ids, OptionForms)
    BY InWithTwo
  <2> HIDE DEF all
  <2>a. /\ \A f \in f3, h \in OptionForms : f \o h \in f4
        /\ \A x \in f4 : \E f \in f3, h \in OptionForms : x = f \o h
    <3>1. Concatenations(f4, f3, OptionForms)
      BY InThen DEF f4
    <3> QED
      BY <3>1 DEF Concatenations
  <2>3. ASSUME NEW x \in f4 PROVE x \in all
    <3>1. PICK f \in f3, h \in OptionForms : x = f \o h
      BY <2>a
    <3>2. PICK g \in OptionForms : f = ids \o g
      BY <2>2
    <3>3. ids \o g \o h \in all
      BY <2>b DEF HasTwo
    <3> QED
      BY <3>1, <3>2, <3>3
  <2>4. ASSUME NEW x \in all PROVE x \in f4
    <3>1. PICK g \in OptionForms, h \in OptionForms : x = ids \o g \o h
      BY <2>b DEF HasTwo
    <3>2. ids \o g \in f3
      BY <2>2
    <3> QED
      BY <2>a, <3>1, <3>2
  <2> QED
    <3>1. all = ModifyForms
      BY DEF ids, all, ModifyForms
    <3>2. f4 = all
      BY <2>3, <2>4
    <3> QED
      BY <3>1, <3>2
<1>9. /\ id.value \in Word /\ oid.value \in Word
      /\ price.value \in Word \cup {Null} /\ qty.value \in Word \cup {Null}
      => c \in Command /\ Encode(c) = b4
  BY DEF c, Command, Encode, b2, b4
<1>10. /\ r.ok <=> a4.ok
       /\ r.ok => r.off = a4.off /\ r.value = c
  BY <1>1, <1>5, <1>6, <1>7 DEF Ok, Err
<1> QED
  BY <1>4, <1>5, <1>6, <1>7, <1>8, <1>9, <1>10, LastStage DEF r

LEMMA TwoOnes ==
  ASSUME NEW a, NEW b
  PROVE  <<a>> \o <<b>> = <<a, b>>
<1> DEFINE S == {a, b}
           s == <<a>>
           t == <<b>>
           u == <<a, b>>
<1>1. /\ s \in Seq(S) /\ Len(s) = 1 /\ s[1] = a
      /\ t \in Seq(S) /\ Len(t) = 1 /\ t[1] = b
      /\ u \in Seq(S) /\ Len(u) = 2 /\ u[1] = a /\ u[2] = b
  OBVIOUS
<1> HIDE DEF S, s, t, u
<1>2. /\ s \o t \in Seq(S) /\ Len(s \o t) = Len(s) + Len(t)
      /\ \A i \in 1 .. Len(s) + Len(t) : (s \o t)[i] = IF i <= Len(s) THEN s[i] ELSE t[i - Len(s)]
  BY <1>1, ConcatProperties
<1>3. Len(s \o t) = 2 /\ \A i \in 1..2 : (s \o t)[i] = IF i <= 1 THEN s[i] ELSE t[i - 1]
  BY <1>1, <1>2
<1>4. \A i \in 1..2 : (s \o t)[i] = u[i]
  BY <1>1, <1>3
<1>5. s \o t = u
  BY <1>1, <1>2, <1>3, <1>4, SeqEqual
<1> QED
  BY <1>5 DEF s, t, u

\* What stands before the price of an order to place.
LEMMA BeforePrice ==
  <<{1}>> \o AnyBytes(Width) \o AnyBytes(Width) \o AnyBytes(Width) \o <<0..1>> \o <<0..1>>
    = <<{1}>> \o AnyBytes(3 * Width) \o <<{0, 1}, {0, 1}>>
<1> DEFINE one == <<{1}>>
           any == AnyBytes(Width)
           two == AnyBytes(2 * Width)
           three == AnyBytes(3 * Width)
           flag == <<{0, 1}>>
           flags == <<{0, 1}, {0, 1}>>
<1>1. one \in Form /\ any \in Form /\ two \in Form /\ three \in Form /\ flag \in Form
  <2>1. 2 * Width \in Nat /\ 3 * Width \in Nat
    BY Sizes
  <2>2. any \in Form /\ two \in Form /\ three \in Form
    BY Sizes, <2>1, AnyForm
  <2>3. {1} \in SUBSET Byte /\ {0, 1} \in SUBSET Byte
    BY Sizes
  <2> HIDE DEF any, two, three
  <2> QED
    BY <2>2, <2>3 DEF Form
<1>2. one \o any \o any = one \o two
  BY Sizes, Ids
<1>3. two \o any = three
  <2>1. 2 * Width \in Nat /\ 2 * Width + Width = 3 * Width
    BY Sizes
  <2>2. AnyBytes(2 * Width) \o AnyBytes(Width) = AnyBytes(2 * Width + Width)
    BY Sizes, <2>1, AnyAny
  <2> QED
    BY <2>1, <2>2
<1>4. flag \o flag = flags /\ 0..1 = {0, 1}
  <2>1. 0..1 = {0, 1}
    OBVIOUS
  <2>2. flag \o flag = flags
    BY TwoOnes, Zenon
  <2> QED
    BY <2>1, <2>2
<1> HIDE DEF one, any, two, three, flag, flags
<1>5. (one \o two) \o any = one \o (two \o any) /\ one \o three \in Form
  <2>1. (one \o two) \o any = one \o (two \o any)
    BY SMTT(30), <1>1, ConcatAssociative DEF Form
  <2>2. one \o three \in Form
    BY <1>1, ConcatProperties DEF Form
  <2> QED
    BY <2>1, <2>2
<1>6. ((one \o three) \o flag) \o flag = (one \o three) \o (flag \o flag)
  <2> DEFINE ids == one \o three
  <2>1. ids \in Seq(SUBSET Byte) /\ flag \in Seq(SUBSET Byte)
    BY <1>1, <1>5 DEF Form
  <2> HIDE DEF ids
  <2>2. (ids \o flag) \o flag = ids \o (flag \o flag)
    BY <2>1, ConcatAssociative
  <2> QED
    BY <2>2 DEF ids
<1>7. one \o any \o any \o any \o flag \o flag = one \o three \o flags
  BY <1>2, <1>3, <1>4, <1>5, <1>6
<1> QED
  BY <1>4, <1>7 DEF one, any, three, flag, flags

LEMMA ParsePlaceMeans ==
  ASSUME NEW buf \in Seq(Byte), Len(buf) >= 1, buf[1] = 1
  PROVE  Parses(ParsePlace(buf), buf, PlaceForms)
<1> DEFINE id == ReadU64(buf, 1)
           oid == ReadU64(buf, id.off)
           symbol == ReadSymbol8(buf, oid.off)
           side == ReadEnum(buf, symbol.off, Sides)
           type == ReadEnum(buf, side.off, OrderTypes)
           price == ReadOption(buf, type.off)
           qty == ReadU64(buf, price.off)
           tif == ReadEnum(buf, qty.off, TimesInForce)
           a0 == Ok(1, 1)
           a1 == AndThen(a0, id)
           a2 == AndThen(a1, oid)
           a3 == AndThen(a2, symbol)
           a4 == AndThen(a3, side)
           a5 == AndThen(a4, type)
           a6 == AndThen(a5, price)
           a7 == AndThen(a6, qty)
           a8 == AndThen(a7, tif)
           c == [kind |-> "Place", client_id |-> id.value, client_order_id |-> oid.value,
                 symbol |-> symbol.value, side |-> side.value, order_type |-> type.value,
                 price |-> price.value, quantity |-> qty.value, time_in_force |-> tif.value]
           r == ParsePlace(buf)
           b2 == <<1>> \o ToLe(id.value) \o ToLe(oid.value)
           b3 == b2 \o symbol.value
           b5 == b3 \o ByteOf(side.value, Sides) \o ByteOf(type.value, OrderTypes)
           b6 == b5 \o OptionBytes(price.value)
           b8 == b6 \o ToLe(qty.value) \o ByteOf(tif.value, TimesInForce)
           f1 == Then({<<{1}>>}, {AnyBytes(Width)})
           f2 == Then(f1, {AnyBytes(Width)})
           f3 == Then(f2, {AnyBytes(Width)})
           f4 == Then(f3, {<<0..Len(Sides)-1>>})
           f5 == Then(f4, {<<0..Len(OrderTypes)-1>>})
           f6 == Then(f5, OptionForms)
           f7 == Then(f6, {AnyBytes(Width)})
           f8 == Then(f7, {<<0..Len(TimesInForce)-1>>})
<1>1. r = IF id.ok /\ oid.ok /\ symbol.ok /\ side.ok /\ type.ok /\ price.ok /\ qty.ok /\ tif.ok
          THEN Ok(c, tif.off) ELSE Err
  BY DEF ParsePlace
<1>2. a0.ok /\ a0.off = 1 /\ Stage(a0, <<1>>, buf, {<<{1}>>})
  BY Sizes, StageTag DEF Ok
<1>3. /\ id = ReadU64(buf, 1) /\ oid = ReadU64(buf, id.off)
      /\ symbol = ReadSymbol8(buf, oid.off)
      /\ side = ReadEnum(buf, symbol.off, Sides) /\ type = ReadEnum(buf, side.off, OrderTypes)
      /\ price = ReadOption(buf, type.off) /\ qty = ReadU64(buf, price.off)
      /\ tif = ReadEnum(buf, qty.off, TimesInForce)
  OBVIOUS
<1> HIDE DEF id, oid, symbol, side, type, price, qty, tif, c, r
<1> HIDE DEF a0, a1, a2, a3, a4, a5, a6, a7, a8, b2, b3, b5, b6, b8
<1> HIDE DEF f1, f2, f3, f4, f5, f6, f7, f8
<1>4. /\ Stage(a1, <<1>> \o ToLe(id.value), buf, f1)
      /\ a1.ok <=> id.ok
      /\ a1.ok => a1.off = id.off /\ id.value \in Word
  <2>1. a0.ok => id = ReadU64(buf, a0.off)
    BY <1>2, <1>3
  <2>2. Stage(a1, <<1>> \o ToLe(id.value), buf, f1) /\ (a0.ok /\ id.ok => id.value \in Word)
    BY <1>2, <2>1, StageU64 DEF a1, f1
  <2> QED
    BY <1>2, <2>2, AndThenMeans DEF a1
<1>5. /\ Stage(a2, b2, buf, f2)
      /\ a2.ok <=> a1.ok /\ oid.ok
      /\ a2.ok => a2.off = oid.off /\ oid.value \in Word
  <2>1. a1.ok => oid = ReadU64(buf, a1.off)
    BY <1>3, <1>4
  <2>2. Stage(a2, b2, buf, f2) /\ (a1.ok /\ oid.ok => oid.value \in Word)
    BY <1>4, <2>1, StageU64 DEF a2, f2, b2
  <2> QED
    BY <2>2, AndThenMeans DEF a2
<1>6. /\ Stage(a3, b3, buf, f3)
      /\ a3.ok <=> a2.ok /\ symbol.ok
      /\ a3.ok => a3.off = symbol.off /\ symbol.value \in Symbol
  <2>1. a2.ok => symbol = ReadSymbol8(buf, a2.off)
    BY <1>3, <1>5
  <2>2. Stage(a3, b3, buf, f3) /\ (a2.ok /\ symbol.ok => symbol.value \in Symbol)
    BY <1>5, <2>1, StageSymbol DEF a3, f3, b3
  <2> QED
    BY <2>2, AndThenMeans DEF a3
<1>7. /\ Stage(a4, b3 \o ByteOf(side.value, Sides), buf, f4)
      /\ a4.ok <=> a3.ok /\ side.ok
      /\ a4.ok => a4.off = side.off /\ side.value \in ToSet(Sides)
  <2>1. a3.ok => side = ReadEnum(buf, a3.off, Sides)
    BY <1>3, <1>6
  <2>2. /\ Stage(a4, b3 \o ByteOf(side.value, Sides), buf, f4)
        /\ a3.ok /\ side.ok => side.value \in ToSet(Sides)
    BY <1>6, <2>1, StageEnum DEF a4, f4
  <2> QED
    BY <2>2, AndThenMeans DEF a4
<1>8. /\ Stage(a5, b5, buf, f5)
      /\ a5.ok <=> a4.ok /\ type.ok
      /\ a5.ok => a5.off = type.off /\ type.value \in ToSet(OrderTypes)
  <2>1. a4.ok => type = ReadEnum(buf, a4.off, OrderTypes)
    BY <1>3, <1>7
  <2>2. Stage(a5, b5, buf, f5) /\ (a4.ok /\ type.ok => type.value \in ToSet(OrderTypes))
    BY <1>7, <2>1, StageEnum DEF a5, f5, b5
  <2> QED
    BY <2>2, AndThenMeans DEF a5
<1>9. /\ Stage(a6, b6, buf, f6)
      /\ a6.ok <=> a5.ok /\ price.ok
      /\ a6.ok => a6.off = price.off /\ price.value \in Word \cup {Null}
  <2>1. a5.ok => price = ReadOption(buf, a5.off)
    BY <1>3, <1>8
  <2>2. Stage(a6, b6, buf, f6) /\ (a5.ok /\ price.ok => price.value \in Word \cup {Null})
    BY <1>8, <2>1, StageOption DEF a6, f6, b6
  <2> QED
    BY <2>2, AndThenMeans DEF a6
<1>10. /\ Stage(a7, b6 \o ToLe(qty.value), buf, f7)
       /\ a7.ok <=> a6.ok /\ qty.ok
       /\ a7.ok => a7.off = qty.off /\ qty.value \in Word
  <2>1. a6.ok => qty = ReadU64(buf, a6.off)
    BY <1>3, <1>9
  <2>2. Stage(a7, b6 \o ToLe(qty.value), buf, f7) /\ (a6.ok /\ qty.ok => qty.value \in Word)
    BY <1>9, <2>1, StageU64 DEF a7, f7
  <2> QED
    BY <2>2, AndThenMeans DEF a7
<1>11. /\ Stage(a8, b8, buf, f8)
       /\ a8.ok <=> a7.ok /\ tif.ok
       /\ a8.ok => a8.off = tif.off /\ tif.value \in ToSet(TimesInForce)
  <2>1. a7.ok => tif = ReadEnum(buf, a7.off, TimesInForce)
    BY <1>3, <1>10
  <2>2. Stage(a8, b8, buf, f8) /\ (a7.ok /\ tif.ok => tif.value \in ToSet(TimesInForce))
    BY <1>10, <2>1, StageEnum DEF a8, f8, b8
  <2> QED
    BY <2>2, AndThenMeans DEF a8
<1>12. f8 = PlaceForms
  <2> DEFINE any == AnyBytes(Width)
             flag == <<0..1>>
             pre == <<{1}>> \o AnyBytes(3 * Width) \o <<{0, 1}, {0, 1}>>
             last == <<{0, 1, 2}>>
  <2>1. Len(Sides) - 1 = 1 /\ Len(OrderTypes) - 1 = 1 /\ 0..Len(TimesInForce)-1 = {0, 1, 2}
    BY NameCounts
  <2>2. f5 = {pre}
    <3>1. f5 = {<<{1}>> \o any \o any \o any \o flag \o flag}
      <4>1. f1 = {<<{1}>> \o any}
        BY ThenOne DEF f1
      <4>2. f2 = {<<{1}>> \o any \o any}
        BY <4>1, ThenOne DEF f2
      <4>3. f3 = {<<{1}>> \o any \o any \o any}
        BY <4>2, ThenOne DEF f3
      <4>4. f4 = {<<{1}>> \o any \o any \o any \o flag}
        BY <2>1, <4>3, ThenOne DEF f4
      <4> QED
        BY <2>1, <4>4, ThenOne DEF f5
    <3> QED
      BY <3>1, BeforePrice
  <2> HIDE DEF pre, any, last
  <2>3. f6 = {pre \o p : p \in OptionForms}
    BY <2>2, ThenEach DEF f6
  <2>4. f7 = {pre \o p \o any : p \in OptionForms}
    <3>1. f7 = {f \o any : f \in f6}
      BY EachThen DEF f7, any
    <3> QED
      BY <2>3, <3>1
  <2>5. f8 = {pre \o p \o any \o last : p \in OptionForms}
    <3>1. f8 = {f \o last : f \in f7}
      <4>1. f8 = Then(f7, {last})
        BY <2>1 DEF f8, last
      <4> QED
        BY <4>1, EachThen
    <3> QED
      BY <2>4, <3>1
  <2> QED
    BY <2>5 DEF pre, any, last, PlaceForms
<1>13. /\ id.value \in Word /\ oid.value \in Word /\ symbol.value \in Symbol
       /\ side.value \in ToSet(Sides) /\ type.value \in ToSet(OrderTypes)
       /\ price.value \in Word \cup {Null} /\ qty.value \in Word
       /\ tif.value \in ToSet(TimesInForce)
       => c \in Command /\ Encode(c) = b8
  BY DEF c, Command, Encode, b2, b3, b5, b6, b8
<1>14. a8.ok <=> /\ id.ok /\ oid.ok /\ symbol.ok /\ side.ok
                 /\ type.ok /\ price.ok /\ qty.ok /\ tif.ok
  BY <1>4, <1>5, <1>6, <1>7, <1>8, <1>9, <1>10, <1>11
<1>15. /\ r.ok <=> a8.ok
       /\ r.ok => r.off = a8.off /\ r.value = c
  BY <1>1, <1>11, <1>14 DEF Ok, Err
<1>16. a8.ok => c \in Command /\ Encode(c) = b8
  BY <1>4, <1>5, <1>6, <1>7, <1>8, <1>9, <1>10, <1>11, <1>13
<1> QED
  BY <1>11, <1>12, <1>15, <1>16, LastStage DEF r

-----------------------------------------------------------------------------
(* parse_command: the messages of the format, and those only.                *)

\* A form that begins with the tag and is not longer than the bound.
Starts(form, tag, bound) == form \in Form /\ Len(form) \in 1..bound /\ form[1] = {tag}

LEMMA StartsThen ==
  ASSUME NEW f, NEW tag, NEW m \in Nat, Starts(f, tag, m),
         NEW g \in Form, NEW n \in Nat, Len(g) <= n
  PROVE  Starts(f \o g, tag, m + n)
<1>1. f \in Form /\ Len(f) \in Nat /\ Len(g) \in Nat /\ Len(f) >= 1 /\ Len(f) <= m
  BY LenProperties DEF Form, Starts
<1>2. /\ f \o g \in Form /\ Len(f \o g) = Len(f) + Len(g)
      /\ \A i \in 1..Len(f)+Len(g) : (f \o g)[i] = IF i <= Len(f) THEN f[i] ELSE g[i - Len(f)]
  BY <1>1, ConcatProperties DEF Form
<1>3. 1 \in 1..Len(f)+Len(g) /\ 1 <= Len(f) /\ Len(f) + Len(g) \in 1..m+n
  BY <1>1
<1>4. (f \o g)[1] = f[1]
  BY <1>2, <1>3
<1> QED
  BY <1>2, <1>3, <1>4 DEF Starts

LEMMA StartsTag ==
  ASSUME NEW tag \in Byte
  PROVE  Starts(<<{tag}>>, tag, 1)
BY DEF Starts, Form

LEMMA OptionForm ==
  ASSUME NEW form \in OptionForms
  PROVE  form \in Form /\ Len(form) <= Width + 1
<1>1. {0} \in SUBSET Byte /\ {1} \in SUBSET Byte /\ Width \in Nat /\ Width >= 1
  BY Sizes
<1>2. <<{0}>> \in Form /\ Len(<<{0}>>) = 1
  BY <1>1 DEF Form
<1>3. Starts(<<{1}>>, 1, 1)
  BY Sizes, StartsTag
<1>4. Starts(<<{1}>> \o AnyBytes(Width), 1, 1 + Width)
  BY <1>1, <1>3, AnyForm, StartsThen
<1>5. form = <<{0}>> \/ form = <<{1}>> \o AnyBytes(Width)
  BY DEF OptionForms
<1>6. CASE form = <<{0}>>
  BY <1>1, <1>2, <1>6
<1>7. CASE form = <<{1}>> \o AnyBytes(Width)
  <2>1. Starts(form, 1, 1 + Width)
    BY <1>4, <1>7
  <2> QED
    BY <1>1, <2>1 DEF Starts
<1> QED
  BY <1>5, <1>6, <1>7

LEMMA FormsStart ==
  /\ \A form \in PlaceForms : Starts(form, 1, MaxLen)
  /\ \A form \in CancelForms : Starts(form, 2, MaxLen)
  /\ \A form \in ModifyForms : Starts(form, 3, MaxLen)
<1> DEFINE W == Width
<1>1. W \in Nat /\ MaxLen \in Nat /\ MaxLen >= 5 * W + 5
  BY Sizes
<1>2. /\ Starts(<<{1}>>, 1, 1) /\ Starts(<<{2}>>, 2, 1) /\ Starts(<<{3}>>, 3, 1)
  BY Sizes, StartsTag
<1>3. 2 * W \in Nat /\ 3 * W \in Nat
  BY <1>1
<1>4. /\ AnyBytes(2 * W) \in Form /\ Len(AnyBytes(2 * W)) <= 2 * W
      /\ AnyBytes(3 * W) \in Form /\ Len(AnyBytes(3 * W)) <= 3 * W
      /\ AnyBytes(W) \in Form /\ Len(AnyBytes(W)) <= W
  BY <1>1, <1>3, AnyForm
<1>5. ASSUME NEW form, NEW tag, NEW m \in Nat, m <= MaxLen, Starts(form, tag, m)
      PROVE  Starts(form, tag, MaxLen)
  BY <1>1, <1>5 DEF Starts
<1>6. /\ <<{0, 1}, {0, 1}>> \in Form /\ Len(<<{0, 1}, {0, 1}>>) <= 2
      /\ <<{0, 1, 2}>> \in Form /\ Len(<<{0, 1, 2}>>) <= 1
  <2>1. {0, 1} \in SUBSET Byte /\ {0, 1, 2} \in SUBSET Byte
    BY Sizes
  <2> QED
    BY <2>1 DEF Form
<1> HIDE DEF W
<1>7. ASSUME NEW form \in CancelForms PROVE Starts(form, 2, MaxLen)
  <2>1. Starts(form, 2, 1 + 2 * W)
    BY <1>2, <1>3, <1>4, StartsThen DEF CancelForms, W
  <2> QED
    BY <1>1, <1>5, <2>1
<1>8. ASSUME NEW form \in ModifyForms PROVE Starts(form, 3, MaxLen)
  <2> DEFINE ids == <<{3}>> \o AnyBytes(2 * W)
  <2>1. PICK p \in OptionForms, q \in OptionForms : form = ids \o p \o q
    <3>1. ModifyForms = WithTwo(ids, OptionForms)
      BY DEF ModifyForms, W
    <3> HIDE DEF ids
    <3>2. HasTwo(ModifyForms, ids, OptionForms)
      BY <3>1, InWithTwo
    <3> QED
      BY <1>8, <3>2 DEF HasTwo
  <2>2. Starts(ids, 3, 1 + 2 * W)
    BY <1>2, <1>3, <1>4, StartsThen
  <2> HIDE DEF ids
  <2>3. 1 + 2 * W \in Nat /\ W + 1 \in Nat /\ 1 + 2 * W + (W + 1) \in Nat
    BY <1>1
  <2>4. Starts(ids \o p, 3, 1 + 2 * W + (W + 1))
    BY <2>2, <2>3, OptionForm, StartsThen DEF W
  <2>5. Starts(form, 3, 1 + 2 * W + (W + 1) + (W + 1))
    BY <2>1, <2>3, <2>4, OptionForm, StartsThen DEF W
  <2>6. /\ 1 + 2 * W + (W + 1) + (W + 1) \in Nat
        /\ 1 + 2 * W + (W + 1) + (W + 1) <= MaxLen
    BY <1>1
  <2> QED
    BY <1>5, <2>5, <2>6
<1>9. ASSUME NEW form \in PlaceForms PROVE Starts(form, 1, MaxLen)
  <2> DEFINE flags == <<{0, 1}, {0, 1}>>
             last == <<{0, 1, 2}>>
             ids == <<{1}>> \o AnyBytes(3 * W)
             any == AnyBytes(W)
             n == 1 + 3 * W + 2 + (W + 1)
  <2>1. PICK p \in OptionForms : form = ids \o flags \o p \o any \o last
    BY DEF PlaceForms, W
  <2>2. Starts(ids, 1, 1 + 3 * W)
    BY <1>2, <1>3, <1>4, StartsThen
  <2>3. /\ any \in Form /\ Len(any) <= W
        /\ flags \in Form /\ Len(flags) <= 2 /\ last \in Form /\ Len(last) <= 1
    BY <1>4, <1>6
  <2>4. /\ 1 + 3 * W \in Nat /\ 1 + 3 * W + 2 \in Nat /\ W + 1 \in Nat /\ n \in Nat
        /\ n + W \in Nat /\ n + W + 1 \in Nat /\ n + W + 1 <= MaxLen
    BY <1>1
  <2> HIDE DEF ids, flags, last, any
  <2>5. Starts(ids \o flags, 1, 1 + 3 * W + 2)
    BY <2>2, <2>3, <2>4, StartsThen
  <2>6. Starts(ids \o flags \o p, 1, n)
    BY <2>4, <2>5, OptionForm, StartsThen DEF W
  <2> HIDE DEF n
  <2>7. Starts(ids \o flags \o p \o any, 1, n + W)
    BY <1>1, <2>3, <2>4, <2>6, StartsThen
  <2>8. Starts(form, 1, n + W + 1)
    BY <2>1, <2>3, <2>4, <2>7, StartsThen
  <2> QED
    BY <1>5, <2>4, <2>8
<1> QED
  BY <1>7, <1>8, <1>9

LEMMA InForms ==
  \A form : form \in Forms <=> form \in CancelForms \/ form \in ModifyForms \/ form \in PlaceForms
<1>1. Forms = CancelForms \cup ModifyForms \cup PlaceForms
  BY DEF Forms, CancelForms, ModifyForms, WithTwo, PlaceForms
<1> QED
  BY <1>1

LEMMA ParseCommandMeans ==
  ASSUME NEW buf \in Seq(Byte)
  PROVE  LET r == ParseCommand(buf)
         IN /\ r.ok <=> \E form \in Forms : HasForm(buf, form)
            /\ r.ok => /\ r.value \in Command
                       /\ Encode(r.value) \in Seq(Byte) /\ IsPrefix(Encode(r.value), buf)
<1> DEFINE r == ParseCommand(buf)
<1>0. Len(buf) \in Nat
  BY LenProperties
<1>1. \A form : form \in Forms <=> form \in CancelForms \/ form \in ModifyForms \/ form \in PlaceForms
  BY InForms
\* A message has at most the forms of its tag.
<1>2. ASSUME NEW form, NEW tag, Starts(form, tag, MaxLen)
      PROVE  /\ HasForm(buf, form) <=> Fits(buf, 0, form)
             /\ Fits(buf, 0, form) => Len(buf) >= 1 /\ buf[1] = tag
  <2>1. form \in Form /\ Len(form) \in Nat /\ Len(form) >= 1 /\ form[1] = {tag}
    BY <1>2, Sizes DEF Starts
  <2>2. Fits(buf, 0, form) => Len(buf) >= 1 /\ buf[1] = tag
    <3>1. 1 \in 1..Len(form) /\ 0 + 1 = 1
      BY <2>1
    <3>2. Fits(buf, 0, form) => buf[1] \in form[1] /\ Len(form) <= Len(buf)
      BY <1>0, <2>1, <3>1 DEF Fits
    <3> QED
      BY <1>0, <2>1, <3>2
  <2> QED
    BY <2>1, <2>2, HasFormFits
<1>3. /\ \A form \in CancelForms : Fits(buf, 0, form) => Len(buf) >= 1 /\ buf[1] = 2
      /\ \A form \in ModifyForms : Fits(buf, 0, form) => Len(buf) >= 1 /\ buf[1] = 3
      /\ \A form \in PlaceForms : Fits(buf, 0, form) => Len(buf) >= 1 /\ buf[1] = 1
      /\ \A form \in Forms : HasForm(buf, form) <=> Fits(buf, 0, form)
  BY <1>1, <1>2, FormsStart
<1>4. ASSUME NEW forms, Parses(r, buf, forms), forms \subseteq Forms,
             \A form \in Forms : Fits(buf, 0, form) => form \in forms
      PROVE  /\ r.ok <=> \E form \in Forms : HasForm(buf, form)
             /\ r.ok => /\ r.value \in Command
                        /\ Encode(r.value) \in Seq(Byte) /\ IsPrefix(Encode(r.value), buf)
  <2>1. r.ok <=> \E form \in Forms : HasForm(buf, form)
    BY <1>1, <1>3, <1>4 DEF Parses
  <2>2. ASSUME r.ok
        PROVE  /\ r.value \in Command
               /\ Encode(r.value) \in Seq(Byte) /\ IsPrefix(Encode(r.value), buf)
    <3> DEFINE e == Encode(r.value)
               n == r.off
    <3>1. r.value \in Command /\ n \in 0..Len(buf) /\ e = SubSeq(buf, 1, n)
      BY <1>4, <2>2 DEF Parses
    <3> HIDE DEF e, n
    <3>2. \A i \in 1..n : buf[i] \in Byte
      BY <1>0, <3>1, ElementOfSeq
    <3>3. e \in Seq(Byte) /\ Len(e) = n
      BY <1>0, <3>1, <3>2, SubSeqProperties
    <3>4. SubSeq(e, 1, Len(e)) = e
      BY <3>3, SubSeqFull
    <3> QED
      BY <1>0, <3>1, <3>3, <3>4 DEF IsPrefix, e
  <2> QED
    BY <2>1, <2>2
<1>5. CASE Len(buf) >= 1 /\ buf[1] = 1
  <2>1. r = ParsePlace(buf)
    BY <1>5 DEF ParseCommand
  <2>2. Parses(r, buf, PlaceForms)
    BY <1>5, <2>1, ParsePlaceMeans
  <2> HIDE DEF r
  <2>3. \A form \in Forms : Fits(buf, 0, form) => form \in PlaceForms
    BY <1>1, <1>3, <1>5
  <2> QED
    BY <1>1, <1>4, <2>2, <2>3 DEF r
<1>6. CASE Len(buf) >= 1 /\ buf[1] = 2
  <2>1. r = ParseCancel(buf)
    BY <1>6 DEF ParseCommand
  <2>2. Parses(r, buf, CancelForms)
    BY <1>6, <2>1, ParseCancelMeans
  <2> HIDE DEF r
  <2>3. \A form \in Forms : Fits(buf, 0, form) => form \in CancelForms
    BY <1>1, <1>3, <1>6
  <2> QED
    BY <1>1, <1>4, <2>2, <2>3 DEF r
<1>7. CASE Len(buf) >= 1 /\ buf[1] = 3
  <2>1. r = ParseModify(buf)
    BY <1>7 DEF ParseCommand
  <2>2. Parses(r, buf, ModifyForms)
    BY <1>7, <2>1, ParseModifyMeans
  <2> HIDE DEF r
  <2>3. \A form \in Forms : Fits(buf, 0, form) => form \in ModifyForms
    BY <1>1, <1>3, <1>7
  <2> QED
    BY <1>1, <1>4, <2>2, <2>3 DEF r
<1>8. CASE ~(Len(buf) >= 1 /\ buf[1] \in {1, 2, 3})
  <2>1. r = Err
    BY <1>0, <1>8, EmptySeq DEF ParseCommand
  <2>2. ~r.ok
    BY <2>1 DEF Err
  <2> HIDE DEF r
  <2>3. \A form \in Forms : ~HasForm(buf, form)
    BY <1>1, <1>3, <1>8
  <2> QED
    BY <2>2, <2>3 DEF r
<1> QED
  BY <1>5, <1>6, <1>7, <1>8

-----------------------------------------------------------------------------
(* The slot.                                                                 *)

\* What the unmarshaller is given, and what it makes of it.
Given == SubSeq(rawBytes, 1, len)

Result == LET result == ParseCommand(Given) IN IF result.ok THEN result.value ELSE Null

\* A published slot gives the client's bytes up to the array's length, and a
\* parsed one holds what the parser makes of those.
IInv ==
  /\ TypeOK
  /\ pc # "claimed" => /\ len = (IF Len(sent) < MaxLen THEN Len(sent) ELSE MaxLen)
                       /\ Given \in Seq(Byte) /\ Len(Given) = len
                       /\ \A i \in 1..len : Given[i] = sent[i]
  /\ pc = "parsed" => command = Result

LEMMA InitIInv == Init => IInv
<1> SUFFICES ASSUME Init PROVE IInv
  OBVIOUS
<1>1. TypeOK
  BY DEF Init, TypeOK
<1> QED
  BY <1>1 DEF Init, IInv

LEMMA PublishIInv ==
  ASSUME IInv, NEW raw \in Sent, Publish(raw)
  PROVE  IInv'
<1> DEFINE n == IF Len(raw) < MaxLen THEN Len(raw) ELSE MaxLen
           kept == [i \in 1..MaxLen |-> IF i <= n THEN raw[i] ELSE 0]
<1>1. /\ rawBytes' = kept /\ len' = n /\ command' = Null /\ sent' = raw /\ pc' = "written"
  BY DEF Publish
<1>2. raw \in Seq(Byte) /\ Len(raw) \in Nat /\ MaxLen \in Nat /\ 0 \in Byte
  BY WireFormatAssumption, Sizes, LenProperties
<1>3. n \in 0..MaxLen /\ n <= Len(raw)
  BY <1>2
<1> HIDE DEF n
<1>4. kept \in [1..MaxLen -> Byte] /\ \A i \in 1..n : kept[i] = raw[i]
  <2>1. \A i \in 1..n : i \in 1..MaxLen /\ i \in 1..Len(raw) /\ i <= n
    BY <1>2, <1>3
  <2>2. \A i \in 1..MaxLen : i <= n => raw[i] \in Byte
    BY <1>2, <1>3, ElementOfSeq
  <2> QED
    BY <1>2, <2>1, <2>2
<1> HIDE DEF kept
<1>5. Len(kept) = MaxLen
  BY <1>2, <1>4
<1>6. /\ SubSeq(kept, 1, n) \in Seq(Byte) /\ Len(SubSeq(kept, 1, n)) = n
      /\ \A i \in 1..n : SubSeq(kept, 1, n)[i] = kept[i]
  <2>1. \A i \in 1..n : kept[i] \in Byte
    <3>1. \A i \in 1..n : i \in 1..MaxLen
      BY <1>2, <1>3
    <3> QED
      BY <1>4, <3>1
  <2>2. n \in Int /\ (IF 1 <= n THEN n - 1 + 1 ELSE 0) = n /\ n - 1 + 1 = n
        /\ \A i \in 1..n : 1 + i - 1 = i
    BY <1>3
  <2>3. /\ SubSeq(kept, 1, n) \in Seq(Byte)
        /\ Len(SubSeq(kept, 1, n)) = IF 1 <= n THEN n - 1 + 1 ELSE 0
        /\ \A i \in 1..n-1+1 : SubSeq(kept, 1, n)[i] = kept[1 + i - 1]
    BY <2>1, <2>2, SubSeqProperties
  <2> QED
    BY <2>2, <2>3
<1>7. Given' = SubSeq(kept, 1, n)
  BY <1>1 DEF Given
<1>8. TypeOK'
  BY <1>1, <1>2, <1>3, <1>4, <1>5 DEF TypeOK
<1>9. n = IF Len(raw) < MaxLen THEN Len(raw) ELSE MaxLen
  BY DEF n
<1>10. /\ Given' \in Seq(Byte) /\ Len(Given') = len' /\ \A i \in 1..len' : Given'[i] = sent'[i]
       /\ len' = IF Len(sent') < MaxLen THEN Len(sent') ELSE MaxLen
  BY <1>1, <1>4, <1>6, <1>7, <1>9
<1> QED
  BY <1>1, <1>8, <1>10 DEF IInv

LEMMA UnmarshalIInv ==
  ASSUME IInv, Unmarshal
  PROVE  IInv'
<1>1. /\ pc = "written" /\ command' = Result /\ pc' = "parsed"
      /\ rawBytes' = rawBytes /\ len' = len /\ sent' = sent
  BY DEF Unmarshal, Result, Given
<1>2. Given' = Given /\ Result' = Result
  BY <1>1 DEF Given, Result
<1>3. Given \in Seq(Byte)
  BY <1>1 DEF IInv
<1>4. Result \in Command \cup {Null}
  BY <1>3, ParseCommandMeans DEF Result
<1>5. TypeOK'
  BY <1>1, <1>4 DEF IInv, TypeOK
<1> QED
  BY <1>1, <1>2, <1>5 DEF IInv

LEMMA NextIInv == IInv /\ [Next]_vars => IInv'
<1> SUFFICES ASSUME IInv, [Next]_vars PROVE IInv'
  OBVIOUS
<1>1. ASSUME NEW raw \in Sent, Publish(raw) PROVE IInv'
  BY <1>1, PublishIInv
<1>2. CASE Unmarshal
  BY <1>2, UnmarshalIInv
<1>3. CASE UNCHANGED vars
  <2>1. Given' = Given /\ Result' = Result
    BY <1>3 DEF Given, Result, vars
  <2> QED
    BY <1>3, <2>1 DEF IInv, TypeOK, vars
<1> QED
  BY <1>1, <1>2, <1>3 DEF Next

\* The inductive invariant of the slot, whatever is published into it and
\* however often it is used again.
THEOREM SpecIInv == Spec => []IInv
<1> QED
  BY InitIInv, NextIInv, PTL DEF Spec

\* A parsed slot holds a command when the bytes given to the parser have a form,
\* and nothing else.
LEMMA ParsedSlot ==
  ASSUME IInv, pc = "parsed"
  PROVE  /\ Given \in Seq(Byte) /\ sent \in Seq(Byte) /\ Len(Given) \in Nat /\ Len(sent) \in Nat
         /\ Len(Given) = (IF Len(sent) < MaxLen THEN Len(sent) ELSE MaxLen)
         /\ \A i \in 1..Len(Given) : Given[i] = sent[i]
         /\ command # Null <=> \E form \in Forms : HasForm(Given, form)
         /\ command # Null => /\ Encode(command) \in Seq(Byte)
                              /\ IsPrefix(Encode(command), Given)
<1> DEFINE result == ParseCommand(Given)
<1>1. /\ Given \in Seq(Byte) /\ sent \in Seq(Byte)
      /\ Len(Given) = (IF Len(sent) < MaxLen THEN Len(sent) ELSE MaxLen)
      /\ \A i \in 1..Len(Given) : Given[i] = sent[i]
  BY DEF IInv, TypeOK
<1>2. Len(Given) \in Nat /\ Len(sent) \in Nat
  BY <1>1, LenProperties
<1>3. /\ result.ok <=> \E form \in Forms : HasForm(Given, form)
      /\ result.ok => /\ result.value \in Command
                      /\ Encode(result.value) \in Seq(Byte) /\ IsPrefix(Encode(result.value), Given)
  BY <1>1, ParseCommandMeans
<1>4. command = IF result.ok THEN result.value ELSE Null
  BY DEF IInv, Result
<1> HIDE DEF result
<1>5. command # Null <=> result.ok
  BY <1>3, <1>4, WireFormatAssumption
<1> QED
  BY <1>1, <1>2, <1>3, <1>4, <1>5

LEMMA IInvAccepts == IInv => AcceptsTheFormat
<1> SUFFICES ASSUME IInv, pc = "parsed"
             PROVE  command # Null <=> \E form \in Forms : HasForm(sent, form)
  BY DEF AcceptsTheFormat
<1>1. /\ Len(Given) \in Nat /\ Len(sent) \in Nat
      /\ Len(Given) = (IF Len(sent) < MaxLen THEN Len(sent) ELSE MaxLen)
      /\ \A i \in 1..Len(Given) : Given[i] = sent[i]
      /\ command # Null <=> \E form \in Forms : HasForm(Given, form)
  BY ParsedSlot
\* No form is longer than the array, so what is cut off does not matter.
<1>2. ASSUME NEW form \in Forms PROVE HasForm(Given, form) <=> HasForm(sent, form)
  <2>1. Len(form) \in Nat /\ Len(form) <= MaxLen /\ DOMAIN form = 1..Len(form)
    <3>1. form \in CancelForms \/ form \in ModifyForms \/ form \in PlaceForms
      BY InForms
    <3>2. \E tag : Starts(form, tag, MaxLen)
      BY <3>1, FormsStart
    <3> QED
      BY <3>2, Sizes, LenProperties DEF Starts, Form
  <2>2. Len(Given) >= Len(form) <=> Len(sent) >= Len(form)
    BY <1>1, <2>1, Sizes
  <2>3. Len(Given) >= Len(form) => \A i \in DOMAIN form : Given[i] = sent[i]
    BY <1>1, <2>1
  <2> QED
    BY <2>2, <2>3 DEF HasForm
<1> QED
  BY <1>1, <1>2

LEMMA IInvDecodes == IInv => DecodesWhatWasSent
<1> SUFFICES ASSUME IInv, pc = "parsed", command # Null
             PROVE  IsPrefix(Encode(command), sent)
  BY DEF DecodesWhatWasSent
<1> DEFINE e == Encode(command)
           n == Len(e)
<1>1. /\ Len(Given) \in Nat /\ Len(sent) \in Nat /\ sent \in Seq(Byte) /\ Given \in Seq(Byte)
      /\ Len(Given) = (IF Len(sent) < MaxLen THEN Len(sent) ELSE MaxLen)
      /\ \A i \in 1..Len(Given) : Given[i] = sent[i]
      /\ e \in Seq(Byte) /\ IsPrefix(e, Given)
  BY ParsedSlot
<1> HIDE DEF e
<1>2. n \in Nat /\ n <= Len(Given) /\ Len(Given) <= Len(sent) /\ SubSeq(e, 1, n) = SubSeq(Given, 1, n)
  BY <1>1, Sizes, LenProperties DEF IsPrefix
<1> HIDE DEF n
<1>3. SubSeq(Given, 1, n) = SubSeq(sent, 1, n)
  <2> DEFINE s == SubSeq(Given, 1, n)
             t == SubSeq(sent, 1, n)
  <2>1. /\ \A i \in 1..n : Given[i] \in Byte /\ sent[i] \in Byte /\ Given[i] = sent[i]
        /\ n \in Int /\ (IF 1 <= n THEN n - 1 + 1 ELSE 0) = n /\ n - 1 + 1 = n
        /\ \A i \in 1..n : 1 + i - 1 = i
    BY <1>1, <1>2, ElementOfSeq
  <2>2. /\ s \in Seq(Byte) /\ Len(s) = IF 1 <= n THEN n - 1 + 1 ELSE 0
        /\ \A i \in 1..n-1+1 : s[i] = Given[1 + i - 1]
    BY <2>1, SubSeqProperties
  <2>3. /\ t \in Seq(Byte) /\ Len(t) = IF 1 <= n THEN n - 1 + 1 ELSE 0
        /\ \A i \in 1..n-1+1 : t[i] = sent[1 + i - 1]
    BY <2>1, SubSeqProperties
  <2> HIDE DEF s, t
  <2>4. Len(s) = n /\ Len(t) = n /\ \A i \in 1..n : s[i] = Given[i] /\ t[i] = sent[i]
    BY <2>1, <2>2, <2>3
  <2>5. \A i \in 1..Len(s) : s[i] = t[i]
    BY <2>1, <2>4
  <2>6. s = t
    BY <2>2, <2>3, <2>4, <2>5, SeqEqual
  <2> QED
    BY <2>6 DEF s, t
<1> QED
  BY <1>1, <1>2, <1>3 DEF IsPrefix, e, n

\* The slot has its length, and what comes out of it is a command or none
\* (unmarshallerConsumer.rs, single_producer.rs), whatever clients send.
THEOREM SpecTypeOK == Spec => []TypeOK
<1>1. IInv => TypeOK
  BY DEF IInv
<1> QED
  BY <1>1, SpecIInv, PTL

\* parse_command takes the messages of the format and no others, for every byte
\* string a client may send: a message cut anywhere, one with an impossible byte
\* and one cut off by the slot.
THEOREM SpecAcceptsTheFormat == Spec => []AcceptsTheFormat
<1> QED
  BY IInvAccepts, SpecIInv, PTL

\* And the command is the one that was sent: its encoding is what the message
\* begins with.
THEOREM SpecDecodesWhatWasSent == Spec => []DecodesWhatWasSent
<1> QED
  BY IInvDecodes, SpecIInv, PTL

-----------------------------------------------------------------------------
(* The other way round: every command that is encoded is read again.         *)

LEMMA QuotientBelow ==
  ASSUME NEW C \in Nat \ {0}, NEW x \in Nat, NEW y \in Nat, x <= C * y - 1
  PROVE  x \div C <= y - 1
<1> DEFINE q == x \div C
           r == x % C
<1>1. q \in Nat /\ r \in Nat /\ x = C * q + r
  OBVIOUS
<1> HIDE DEF q, r
<1>2. CASE q >= y
  <2>1. C * (q - y) >= 0 /\ C * (q - y) = C * q - C * y
    BY <1>1, <1>2
  <2>2. C * q \in Int /\ C * y \in Int
    BY <1>1
  <2> QED
    BY <1>1, <2>1, <2>2
<1> QED
  BY <1>1, <1>2 DEF q

\* A word has so many bytes, and the word of those bytes is that word.
LEMMA BytesOfWord ==
  ASSUME NEW word \in Word
  PROVE  ToLe(word) \in [1..Width -> Byte] /\ FromLe(ToLe(word)) = word
<1> DEFINE bytes == ToLe(word)
<1>0. Width \in Nat /\ Base \in Nat \ {0} /\ word \in Nat /\ word <= Power[Width] - 1
  BY WireFormatAssumption, Powers DEF Word
<1>1. PICK rest \in [0..Width -> Nat] :
        /\ rest[0] = word
        /\ \A n \in 1..Width : rest[n] = rest[n - 1] \div Base
        /\ bytes = [i \in 1..Width |-> rest[i - 1] % Base]
  BY <1>0, ToLeIs
<1>2. ASSUME NEW n \in 1..Width
      PROVE  /\ n - 1 \in 0..Width /\ n \in 0..Width /\ Width - n \in 0..Width
             /\ Width - (n - 1) \in 1..Width /\ Width - (n - 1) - 1 = Width - n
             /\ rest[n - 1] \in Nat /\ rest[n] \in Nat /\ rest[n - 1] % Base \in Byte
  <2>1. n - 1 \in 0..Width /\ n \in 0..Width
    BY <1>0
  <2>2. rest[n - 1] \in Nat /\ rest[n] \in Nat
    BY <1>1, <2>1
  <2>3. \A x \in Nat : x % Base \in 0..Base-1
    BY <1>0
  <2>4. rest[n - 1] % Base \in Byte
    BY <2>2, <2>3 DEF Byte
  <2>5. /\ Width - n \in 0..Width
        /\ Width - (n - 1) \in 1..Width /\ Width - (n - 1) - 1 = Width - n
    BY <1>0
  <2> QED
    BY <2>1, <2>2, <2>4, <2>5
<1>3. bytes \in [1..Width -> Byte]
  BY <1>1, <1>2
\* Nothing is left after Width bytes.
<1> DEFINE below == {n \in 0..Width : rest[n] <= Power[Width - n] - 1}
<1>4. 0 \in below
  BY <1>0, <1>1
<1>5. ASSUME NEW n \in 1..Width, n - 1 \in below PROVE n \in below
  <2> DEFINE m == Width - (n - 1)
  <2>1. m \in 1..Width /\ m - 1 = Width - n /\ m - 1 \in 0..Width
    BY <1>0, <1>2
  <2>2. rest[n - 1] <= Power[m] - 1
    BY <1>5
  <2> HIDE DEF m
  <2>3. Power[m] = Base * Power[m - 1] /\ Power[m - 1] \in Nat
    BY <2>1, Powers
  <2>4. rest[n - 1] \div Base <= Power[m - 1] - 1
    BY <1>0, <1>2, <2>2, <2>3, QuotientBelow
  <2>5. rest[n] <= Power[Width - n] - 1
    BY <1>1, <2>1, <2>4
  <2> QED
    BY <1>2, <2>5
<1>6. rest[Width] = 0
  <2>1. \A n \in 0..Width : n \in below
    <3> HIDE DEF below
    <3> QED
      BY <1>0, <1>4, <1>5, Induction
  <2>2. Width \in 0..Width /\ Width - Width = 0
    BY <1>0
  <2>3. rest[Width] <= Power[0] - 1 /\ rest[Width] \in Nat
    BY <1>1, <2>1, <2>2
  <2> QED
    BY <2>3, Powers
\* The worth of the last n bytes is what was left when they were next.
<1>7. PICK v \in [0..Width -> Nat] :
        /\ v[0] = 0
        /\ \A n \in 1..Width : v[n] = bytes[Width + 1 - n] + Base * v[n - 1]
        /\ FromLe(bytes) = v[Width]
  BY <1>3, FromLeIs
<1> HIDE DEF bytes
<1> DEFINE worth == {n \in 0..Width : v[n] = rest[Width - n]}
<1>8. 0 \in worth
  <2>1. Width - 0 = Width /\ 0 \in 0..Width
    BY <1>0
  <2> QED
    BY <1>6, <1>7, <2>1
<1>9. ASSUME NEW n \in 1..Width, n - 1 \in worth PROVE n \in worth
  <2> DEFINE m == Width + 1 - n
  <2>1. m \in 1..Width /\ Width - (n - 1) = m /\ m - 1 = Width - n
    BY <1>0
  <2>2. v[n - 1] = rest[m] /\ v[n] = bytes[m] + Base * v[n - 1]
    BY <1>7, <1>9, <2>1
  <2> HIDE DEF m
  <2>3. /\ rest[m] = rest[m - 1] \div Base /\ bytes[m] = rest[m - 1] % Base
        /\ rest[m - 1] \in Nat
    BY <1>1, <1>2, <2>1
  <2>4. \A x \in Nat : (x % Base) + Base * (x \div Base) = x
    BY <1>0
  <2>5. v[n] = rest[m - 1]
    BY <2>2, <2>3, <2>4
  <2> QED
    BY <1>2, <2>1, <2>5
<1>10. v[Width] = rest[0]
  <2>1. \A n \in 0..Width : n \in worth
    <3> HIDE DEF worth
    <3> QED
      BY <1>0, <1>8, <1>9, Induction
  <2>2. Width \in 0..Width /\ Width - Width = 0
    BY <1>0
  <2> QED
    BY <2>1, <2>2
<1> QED
  BY <1>1, <1>3, <1>7, <1>10 DEF bytes

\* The bytes behind off are these.
Stand(buf, off, bytes) ==
  off + Len(bytes) <= Len(buf) /\ \A i \in 1..Len(bytes) : buf[off + i] = bytes[i]

LEMMA StandConcat ==
  ASSUME NEW buf \in Seq(Byte), NEW off \in Nat, NEW x \in Seq(Byte), NEW y \in Seq(Byte),
         Stand(buf, off, x \o y)
  PROVE  Stand(buf, off, x) /\ Stand(buf, off + Len(x), y)
<1> DEFINE m == Len(x)
           n == Len(y)
           z == x \o y
<1>1. m \in Nat /\ n \in Nat /\ Len(buf) \in Nat
  BY LenProperties
<1>2. Len(z) = m + n /\ \A i \in 1..m+n : z[i] = IF i <= m THEN x[i] ELSE y[i - m]
  BY ConcatProperties
<1>3. off + (m + n) <= Len(buf) /\ \A i \in 1..m+n : buf[off + i] = z[i]
  BY <1>2 DEF Stand
<1> HIDE DEF m, n, z
<1>4. ASSUME NEW i \in 1..m PROVE buf[off + i] = x[i]
  BY <1>1, <1>2, <1>3
<1>5. ASSUME NEW i \in 1..n PROVE buf[off + m + i] = y[i]
  <2> DEFINE j == m + i
  <2>1. j \in 1..m+n /\ ~(j <= m) /\ j - m = i /\ off + j = off + m + i
    BY <1>1
  <2> HIDE DEF j
  <2>2. z[j] = y[j - m] /\ buf[off + j] = z[j]
    BY <1>2, <1>3, <2>1
  <2> QED
    BY <2>1, <2>2
<1>6. off + m <= Len(buf) /\ off + m + n <= Len(buf)
  BY <1>1, <1>3
<1> QED
  BY <1>4, <1>5, <1>6 DEF Stand, m, n

\* What a reader of so many bytes gives when they are there.
LEMMA BytesThere ==
  ASSUME NEW buf \in Seq(Byte), NEW off \in Nat, NEW n \in Nat, off + n <= Len(buf)
  PROVE  \E s \in Seq(Byte) : /\ ReadBytes(buf, off, n) = Ok(s, off + n) /\ Len(s) = n
                              /\ \A i \in 1..n : s[i] = buf[off + i]
<1> DEFINE r == ReadBytes(buf, off, n)
           s == SubSeq(buf, off + 1, off + n)
<1>1. /\ r.ok <=> off + n <= Len(buf)
      /\ r.ok => /\ r.off = off + n /\ r.value = SubSeq(buf, off + 1, off + n)
                 /\ r.value \in [1..n -> Byte]
                 /\ \A i \in 1..n : r.value[i] = buf[off + i]
  BY ReadBytesMeans
<1>2. Len(buf) \in Nat
  BY LenProperties
<1>3. r = Ok(s, off + n)
  BY <1>2 DEF ReadBytes
<1> HIDE DEF r, s
<1>4. r.value = s
  BY <1>3 DEF Ok
<1>5. s \in [1..n -> Byte] /\ \A i \in 1..n : s[i] = buf[off + i]
  BY <1>1, <1>4
<1>6. s \in Seq(Byte) /\ Len(s) = n
  BY <1>5
<1> QED
  BY <1>3, <1>5, <1>6 DEF r

\* What stands there is what such a reader gives.
LEMMA BytesBack ==
  ASSUME NEW buf \in Seq(Byte), NEW off \in Nat, NEW bytes \in Seq(Byte),
         NEW n \in Nat, Len(bytes) = n, Stand(buf, off, bytes)
  PROVE  ReadBytes(buf, off, n) = Ok(bytes, off + n)
<1>1. off + n <= Len(buf) /\ \A i \in 1..n : buf[off + i] = bytes[i]
  BY DEF Stand
<1>2. PICK s \in Seq(Byte) : /\ ReadBytes(buf, off, n) = Ok(s, off + n) /\ Len(s) = n
                             /\ \A i \in 1..n : s[i] = buf[off + i]
  BY <1>1, BytesThere
<1>3. \A i \in 1..n : s[i] = bytes[i]
  BY <1>1, <1>2
<1>4. s = bytes
  BY <1>2, <1>3, SeqEqual
<1> QED
  BY <1>2, <1>4

LEMMA WordBytes ==
  ASSUME NEW word \in Word
  PROVE  ToLe(word) \in Seq(Byte) /\ Len(ToLe(word)) = Width
<1> DEFINE bytes == ToLe(word)
<1>1. bytes \in [1..Width -> Byte] /\ Width \in Nat
  BY BytesOfWord, Sizes
<1> HIDE DEF bytes
<1> QED
  BY <1>1 DEF bytes

LEMMA U64Back ==
  ASSUME NEW buf \in Seq(Byte), NEW off \in Nat, NEW word \in Word,
         Stand(buf, off, ToLe(word))
  PROVE  ReadU64(buf, off) = Ok(word, off + Width)
<1> DEFINE b == ReadBytes(buf, off, Width)
<1>1. b = Ok(ToLe(word), off + Width)
  BY WordBytes, Sizes, BytesBack
<1>2. b.ok /\ b.value = ToLe(word) /\ b.off = off + Width
  BY <1>1 DEF Ok
<1>3. ReadU64(buf, off) = IF b.ok THEN Ok(FromLe(b.value), b.off) ELSE Err
  BY DEF ReadU64
<1> HIDE DEF b
<1> QED
  BY <1>2, <1>3, BytesOfWord

LEMMA SymbolBytes ==
  ASSUME NEW symbol \in Symbol
  PROVE  symbol \in Seq(Byte) /\ Len(symbol) = Width
BY Sizes DEF Symbol

LEMMA SymbolBack ==
  ASSUME NEW buf \in Seq(Byte), NEW off \in Nat, NEW symbol \in Symbol,
         Stand(buf, off, symbol)
  PROVE  ReadSymbol8(buf, off) = Ok(symbol, off + Width)
<1>1. symbol \in Seq(Byte) /\ Len(symbol) = Width /\ Width \in Nat
  BY Sizes, SymbolBytes
<1> QED
  BY <1>1, BytesBack DEF ReadSymbol8

LEMMA NameDomains ==
  ASSUME NEW names \in {Sides, OrderTypes, TimesInForce}
  PROVE  DOMAIN names = 1..Len(names) /\ Len(names) \in 2..3
<1>1. CASE names = Sides
  BY <1>1, NameCounts DEF Sides
<1>2. CASE names = OrderTypes
  BY <1>2, NameCounts DEF OrderTypes
<1>3. CASE names = TimesInForce
  BY <1>3, NameCounts DEF TimesInForce
<1> QED
  BY <1>1, <1>2, <1>3

\* The byte of a name is where it is in the list.
LEMMA EnumBack ==
  ASSUME NEW buf \in Seq(Byte), NEW off \in Nat,
         NEW names \in {Sides, OrderTypes, TimesInForce}, NEW name \in ToSet(names),
         Stand(buf, off, ByteOf(name, names))
  PROVE  ReadEnum(buf, off, names) = Ok(name, off + 1)
<1> DEFINE b == ReadBytes(buf, off, 1)
           j == CHOOSE i \in DOMAIN names : names[i] = name
           byte == ByteOf(name, names)
<1>1. byte = <<j - 1>>
  BY DEF ByteOf
<1>2. j \in DOMAIN names /\ names[j] = name
  BY DEF ToSet
<1>3. DOMAIN names = 1..Len(names) /\ Len(names) \in 2..3
  BY NameDomains
<1> HIDE DEF j, byte
<1>4. j \in 1..3 /\ j - 1 \in Byte /\ j - 1 + 1 = j /\ j - 1 < Len(names)
  <2> DEFINE n == Len(names)
  <2>1. j \in 1..n /\ n \in 2..3
    BY <1>2, <1>3
  <2> HIDE DEF n
  <2>2. j \in 1..3 /\ j - 1 \in {0, 1, 2} /\ j - 1 + 1 = j /\ j - 1 < n
    BY <2>1
  <2> QED
    BY <2>2, Sizes DEF n
<1>5. byte \in Seq(Byte) /\ Len(byte) = 1 /\ byte[1] = j - 1
  BY <1>1, <1>4
<1>6. b = Ok(byte, off + 1)
  BY <1>5, BytesBack DEF byte
<1>7. b.ok /\ b.value = byte /\ b.off = off + 1
  BY <1>6 DEF Ok
<1>8. ReadEnum(buf, off, names) =
        IF b.ok /\ b.value[1] < Len(names) THEN Ok(names[b.value[1] + 1], b.off) ELSE Err
  BY DEF ReadEnum
<1> HIDE DEF b
<1>9. b.value[1] = j - 1
  BY <1>5, <1>7
<1> QED
  BY <1>2, <1>4, <1>7, <1>8, <1>9

LEMMA EnumByte ==
  ASSUME NEW names \in {Sides, OrderTypes, TimesInForce}, NEW name \in ToSet(names)
  PROVE  ByteOf(name, names) \in Seq(Byte) /\ Len(ByteOf(name, names)) = 1
<1> DEFINE j == CHOOSE i \in DOMAIN names : names[i] = name
           n == Len(names)
<1>1. ByteOf(name, names) = <<j - 1>>
  BY DEF ByteOf
<1>2. j \in DOMAIN names
  BY DEF ToSet
<1>3. DOMAIN names = 1..n /\ n \in 2..3
  BY NameDomains
<1> HIDE DEF j, n
<1>4. j - 1 \in {0, 1, 2}
  BY <1>2, <1>3
<1>5. j - 1 \in Byte
  BY <1>4, Sizes
<1> QED
  BY <1>1, <1>5

LEMMA OptionSeq ==
  ASSUME NEW word \in Word \cup {Null}
  PROVE  OptionBytes(word) \in Seq(Byte) /\ Len(OptionBytes(word)) <= Width + 1
<1>0. {0, 1} \subseteq Byte /\ Width \in Nat /\ Width >= 1
  BY Sizes
<1>1. <<0>> \in Seq(Byte) /\ Len(<<0>>) = 1 /\ <<1>> \in Seq(Byte) /\ Len(<<1>>) = 1
  BY <1>0
<1>2. CASE word = Null
  BY <1>0, <1>1, <1>2 DEF OptionBytes
<1>3. CASE word # Null
  <2> DEFINE bytes == ToLe(word)
  <2>1. OptionBytes(word) = <<1>> \o bytes /\ word \in Word
    BY <1>3 DEF OptionBytes
  <2>2. bytes \in Seq(Byte) /\ Len(bytes) = Width
    BY <2>1, WordBytes
  <2> HIDE DEF bytes
  <2>3. OptionBytes(word) \in Seq(Byte) /\ Len(OptionBytes(word)) = 1 + Width
    BY <1>1, <2>1, <2>2, ConcatProperties
  <2> QED
    BY <1>0, <2>3
<1> QED
  BY <1>2, <1>3

LEMMA OptionBack ==
  ASSUME NEW buf \in Seq(Byte), NEW off \in Nat, NEW word \in Word \cup {Null},
         Stand(buf, off, OptionBytes(word))
  PROVE  ReadOption(buf, off) = Ok(word, off + Len(OptionBytes(word)))
<1> DEFINE flag == ReadBytes(buf, off, 1)
           r == ReadOption(buf, off)
<1>0. {0, 1} \subseteq Byte /\ Width \in Nat /\ Width >= 1
  BY Sizes
<1>1. <<0>> \in Seq(Byte) /\ Len(<<0>>) = 1 /\ <<1>> \in Seq(Byte) /\ Len(<<1>>) = 1
  BY <1>0
<1>2. r = CASE flag.ok /\ flag.value[1] = 0 -> Ok(Null, flag.off)
            [] flag.ok /\ flag.value[1] = 1 -> ReadU64(buf, flag.off)
            [] OTHER -> Err
  BY DEF ReadOption
<1>3. CASE word = Null
  <2>1. OptionBytes(word) = <<0>>
    BY <1>3 DEF OptionBytes
  <2>2. flag = Ok(<<0>>, off + 1)
    <3>1. <<0>> \in Seq(Byte) /\ Len(<<0>>) = 1 /\ Stand(buf, off, <<0>>) /\ 1 \in Nat
      BY <1>1, <2>1
    <3> QED
      BY <3>1, BytesBack
  <2>3. flag.ok /\ flag.value[1] = 0 /\ flag.off = off + 1
    BY <2>2 DEF Ok
  <2> HIDE DEF flag
  <2>4. r = Ok(Null, off + 1)
    BY <1>2, <2>3
  <2> QED
    BY <1>0, <1>1, <1>3, <2>1, <2>4
<1>4. CASE word # Null
  <2> DEFINE bytes == ToLe(word)
  <2>1. OptionBytes(word) = <<1>> \o bytes /\ word \in Word
    BY <1>4 DEF OptionBytes
  <2>2. bytes \in Seq(Byte) /\ Len(bytes) = Width
    BY <2>1, WordBytes
  <2> HIDE DEF bytes
  <2>3. OptionBytes(word) \in Seq(Byte) /\ Len(OptionBytes(word)) = 1 + Width
    BY <1>1, <2>1, <2>2, ConcatProperties
  <2>4. Stand(buf, off, <<1>>) /\ Stand(buf, off + Len(<<1>>), bytes)
    BY <1>1, <2>1, <2>2, StandConcat
  <2>5. flag = Ok(<<1>>, off + 1)
    <3>1. <<1>> \in Seq(Byte) /\ Len(<<1>>) = 1 /\ Stand(buf, off, <<1>>) /\ 1 \in Nat
      BY <1>1, <2>4
    <3> QED
      BY <3>1, BytesBack
  <2>6. flag.ok /\ flag.value[1] = 1 /\ flag.off = off + 1
    BY <2>5 DEF Ok
  <2> HIDE DEF flag
  <2>7. r = ReadU64(buf, off + 1)
    BY <1>2, <2>6
  <2>8. ReadU64(buf, off + 1) = Ok(word, off + 1 + Width)
    <3>1. off + 1 \in Nat /\ Stand(buf, off + 1, bytes)
      BY <1>1, <2>4
    <3> QED
      BY <2>1, <3>1, U64Back DEF bytes
  <2>9. off + 1 + Width = off + (1 + Width)
    BY <1>0
  <2> QED
    BY <2>3, <2>7, <2>8, <2>9
<1> QED
  BY <1>3, <1>4

\* A message that stands at the head of the buffer, and its last part.
LEMMA Peel ==
  ASSUME NEW buf \in Seq(Byte), NEW x \in Seq(Byte), NEW y \in Seq(Byte)
  PROVE  /\ x \o y \in Seq(Byte) /\ Len(x \o y) = Len(x) + Len(y)
         /\ Len(x) \in Nat /\ Len(y) \in Nat
         /\ Stand(buf, 0, x \o y) => Stand(buf, 0, x) /\ Stand(buf, Len(x), y)
<1>1. /\ x \o y \in Seq(Byte) /\ Len(x \o y) = Len(x) + Len(y)
      /\ Len(x) \in Nat /\ Len(y) \in Nat
  BY ConcatProperties, LenProperties
<1>2. ASSUME Stand(buf, 0, x \o y) PROVE Stand(buf, 0, x) /\ Stand(buf, Len(x), y)
  <2>1. Stand(buf, 0, x) /\ Stand(buf, 0 + Len(x), y)
    BY <1>2, StandConcat
  <2>2. 0 + Len(x) = Len(x)
    BY <1>1
  <2> QED
    BY <2>1, <2>2
<1> QED
  BY <1>1, <1>2

\* A buffer that begins with the tag of the command.
LEMMA TagBack ==
  ASSUME NEW buf \in Seq(Byte), NEW tag, Stand(buf, 0, <<tag>>)
  PROVE  buf # <<>> /\ buf[1] = tag
<1>1. Len(<<tag>>) = 1 /\ <<tag>>[1] = tag /\ Len(buf) \in Nat
  BY LenProperties
<1>2. 0 + 1 <= Len(buf) /\ buf[0 + 1] = tag
  BY <1>1 DEF Stand
<1>3. buf # <<>>
  BY <1>2, EmptySeq
<1> QED
  BY <1>2, <1>3

LEMMA ParseCancelBack ==
  ASSUME NEW buf \in Seq(Byte), NEW c \in Command, c.kind = "Cancel",
         Stand(buf, 0, Encode(c))
  PROVE  ParseCommand(buf) = Ok(c, Len(Encode(c))) /\ Len(Encode(c)) <= MaxLen
<1> DEFINE x == ToLe(c.client_id)
           y == ToLe(c.client_order_id)
           e1 == <<2>>
           e2 == e1 \o x
           e3 == e2 \o y
           id == ReadU64(buf, 1)
           oid == ReadU64(buf, id.off)
<1>1. /\ c = [kind |-> "Cancel", client_id |-> c.client_id,
              client_order_id |-> c.client_order_id]
      /\ c.client_id \in Word /\ c.client_order_id \in Word
  BY DEF Command
<1>2. Encode(c) = e3
  BY DEF Encode
<1>3. x \in Seq(Byte) /\ y \in Seq(Byte) /\ Len(x) = Width /\ Len(y) = Width
  BY <1>1, WordBytes
<1>4. e1 \in Seq(Byte) /\ Len(e1) = 1
  BY Sizes
<1>5. ParseCancel(buf) =
        IF id.ok /\ oid.ok
        THEN Ok([kind |-> "Cancel", client_id |-> id.value,
                 client_order_id |-> oid.value], oid.off)
        ELSE Err
  BY DEF ParseCancel
<1>6. id = ReadU64(buf, 1) /\ oid = ReadU64(buf, id.off)
  OBVIOUS
<1> HIDE DEF x, y, e1, e2, e3, id, oid
<1>7. e2 \in Seq(Byte) /\ Len(e2) = 1 + Width
  <2>1. e2 \in Seq(Byte) /\ Len(e2) = Len(e1) + Len(x)
    BY <1>3, <1>4, Peel DEF e2
  <2> QED
    BY <1>3, <1>4, <2>1
<1>8. e3 \in Seq(Byte) /\ Len(e3) = 1 + Width + Width
  <2>1. e3 \in Seq(Byte) /\ Len(e3) = Len(e2) + Len(y)
    BY <1>3, <1>7, Peel DEF e3
  <2> QED
    BY <1>3, <1>7, <2>1
<1>9. Stand(buf, 0, e2) /\ Stand(buf, 1 + Width, y)
  BY <1>2, <1>3, <1>7, Peel DEF e3
<1>10. Stand(buf, 0, e1) /\ Stand(buf, 1, x)
  <2>1. Stand(buf, 0, e1) /\ Stand(buf, Len(e1), x)
    BY <1>3, <1>4, <1>9, Peel DEF e2
  <2> QED
    BY <1>4, <2>1
<1>11. buf # <<>> /\ buf[1] = 2
  BY <1>10, TagBack DEF e1
<1>12. ParseCommand(buf) = ParseCancel(buf)
  BY <1>11 DEF ParseCommand
<1>13. 1 \in Nat /\ 1 + Width \in Nat
  BY Sizes
<1>14. id = Ok(c.client_id, 1 + Width)
  BY <1>1, <1>6, <1>10, <1>13, U64Back DEF x
<1>15. id.ok /\ id.value = c.client_id /\ id.off = 1 + Width
  BY <1>14 DEF Ok
<1>16. oid = Ok(c.client_order_id, 1 + Width + Width)
  BY <1>1, <1>6, <1>9, <1>13, <1>15, U64Back DEF y
<1>17. oid.ok /\ oid.value = c.client_order_id /\ oid.off = 1 + Width + Width
  BY <1>16 DEF Ok
<1>18. 1 + Width + Width <= MaxLen
  BY Sizes
<1> QED
  BY <1>1, <1>2, <1>5, <1>8, <1>12, <1>15, <1>17, <1>18

LEMMA ParseModifyBack ==
  ASSUME NEW buf \in Seq(Byte), NEW c \in Command, c.kind = "Modify",
         Stand(buf, 0, Encode(c))
  PROVE  ParseCommand(buf) = Ok(c, Len(Encode(c))) /\ Len(Encode(c)) <= MaxLen
<1> DEFINE x == ToLe(c.client_id)
           y == ToLe(c.client_order_id)
           p == OptionBytes(c.new_price)
           q == OptionBytes(c.new_qty)
           e1 == <<3>>
           e2 == e1 \o x
           e3 == e2 \o y
           e4 == e3 \o p
           e5 == e4 \o q
           id == ReadU64(buf, 1)
           oid == ReadU64(buf, id.off)
           price == ReadOption(buf, oid.off)
           qty == ReadOption(buf, price.off)
<1>1. /\ c = [kind |-> "Modify", client_id |-> c.client_id,
              client_order_id |-> c.client_order_id, new_price |-> c.new_price,
              new_qty |-> c.new_qty]
      /\ c.client_id \in Word /\ c.client_order_id \in Word
      /\ c.new_price \in Word \cup {Null} /\ c.new_qty \in Word \cup {Null}
  BY DEF Command
<1>2. Encode(c) = e5
  BY DEF Encode
<1>3. /\ x \in Seq(Byte) /\ y \in Seq(Byte) /\ Len(x) = Width /\ Len(y) = Width
      /\ p \in Seq(Byte) /\ Len(p) <= Width + 1
      /\ q \in Seq(Byte) /\ Len(q) <= Width + 1
  BY <1>1, WordBytes, OptionSeq
<1>4. e1 \in Seq(Byte) /\ Len(e1) = 1
  BY Sizes
<1>5. ParseModify(buf) =
        IF id.ok /\ oid.ok /\ price.ok /\ qty.ok
        THEN Ok([kind |-> "Modify", client_id |-> id.value,
                 client_order_id |-> oid.value, new_price |-> price.value,
                 new_qty |-> qty.value], qty.off)
        ELSE Err
  BY DEF ParseModify
<1>6. /\ id = ReadU64(buf, 1) /\ oid = ReadU64(buf, id.off)
      /\ price = ReadOption(buf, oid.off) /\ qty = ReadOption(buf, price.off)
  OBVIOUS
<1> HIDE DEF x, y, p, q, e1, e2, e3, e4, e5, id, oid, price, qty
<1>7. e2 \in Seq(Byte) /\ Len(e2) = 1 + Width
  <2>1. e2 \in Seq(Byte) /\ Len(e2) = Len(e1) + Len(x)
    BY <1>3, <1>4, Peel DEF e2
  <2> QED
    BY <1>3, <1>4, <2>1
<1>8. e3 \in Seq(Byte) /\ Len(e3) = 1 + Width + Width /\ Len(e3) \in Nat
  <2>1. e3 \in Seq(Byte) /\ Len(e3) = Len(e2) + Len(y)
    BY <1>3, <1>7, Peel DEF e3
  <2>2. Len(e3) \in Nat
    BY <2>1, LenProperties
  <2> QED
    BY <1>3, <1>7, <2>1, <2>2
<1>9. e4 \in Seq(Byte) /\ Len(e4) = Len(e3) + Len(p) /\ Len(e4) \in Nat
  <2>1. p \in Seq(Byte) /\ e3 \in Seq(Byte)
    BY <1>3, <1>8
  <2>2. e4 \in Seq(Byte) /\ Len(e4) = Len(e3) + Len(p)
    BY <2>1, Peel DEF e4
  <2> QED
    BY <2>2, LenProperties
<1>10. e5 \in Seq(Byte) /\ Len(e5) = Len(e4) + Len(q) /\ Len(p) \in Nat /\ Len(q) \in Nat
  <2>1. p \in Seq(Byte) /\ q \in Seq(Byte) /\ e4 \in Seq(Byte)
    BY <1>3, <1>9
  <2>2. e5 \in Seq(Byte) /\ Len(e5) = Len(e4) + Len(q)
    BY <2>1, Peel DEF e5
  <2> QED
    BY <2>1, <2>2, LenProperties
<1>11. Stand(buf, 0, e4) /\ Stand(buf, Len(e4), q)
  BY <1>2, <1>3, <1>9, Peel DEF e5
<1>12. Stand(buf, 0, e3) /\ Stand(buf, Len(e3), p)
  BY <1>3, <1>8, <1>11, Peel DEF e4
<1>13. Stand(buf, 0, e2) /\ Stand(buf, 1 + Width, y)
  BY <1>3, <1>7, <1>12, Peel DEF e3
<1>14. Stand(buf, 0, e1) /\ Stand(buf, 1, x)
  <2>1. Stand(buf, 0, e1) /\ Stand(buf, Len(e1), x)
    BY <1>3, <1>4, <1>13, Peel DEF e2
  <2> QED
    BY <1>4, <2>1
<1>15. buf # <<>> /\ buf[1] = 3
  BY <1>14, TagBack DEF e1
<1>16. ParseCommand(buf) = ParseModify(buf)
  BY <1>15 DEF ParseCommand
<1>17. 1 \in Nat /\ 1 + Width \in Nat
  BY Sizes
<1>18. id = Ok(c.client_id, 1 + Width)
  BY <1>1, <1>6, <1>14, <1>17, U64Back DEF x
<1>19. id.ok /\ id.value = c.client_id /\ id.off = 1 + Width
  BY <1>18 DEF Ok
<1>20. oid = Ok(c.client_order_id, 1 + Width + Width)
  BY <1>1, <1>6, <1>13, <1>17, <1>19, U64Back DEF y
<1>21. oid.ok /\ oid.value = c.client_order_id /\ oid.off = Len(e3)
  BY <1>8, <1>20 DEF Ok
<1>22. price = Ok(c.new_price, Len(e3) + Len(p))
  BY <1>1, <1>6, <1>8, <1>12, <1>21, OptionBack DEF p
<1>23. price.ok /\ price.value = c.new_price /\ price.off = Len(e4)
  BY <1>9, <1>22 DEF Ok
<1>24. qty = Ok(c.new_qty, Len(e4) + Len(q))
  BY <1>1, <1>6, <1>9, <1>11, <1>23, OptionBack DEF q
<1>25. qty.ok /\ qty.value = c.new_qty /\ qty.off = Len(e5)
  BY <1>10, <1>24 DEF Ok
<1>26. Len(e5) <= MaxLen
  <2>1. \A l3, l4, l5, lp, lq \in Nat :
          /\ l3 = 1 + Width + Width /\ l4 = l3 + lp /\ l5 = l4 + lq
          /\ lp <= Width + 1 /\ lq <= Width + 1
          => l5 <= MaxLen
    BY Sizes
  <2>2. Len(e5) \in Nat
    BY <1>10, LenProperties
  <2> QED
    BY <1>3, <1>8, <1>9, <1>10, <2>1, <2>2
<1>27. ParseCommand(buf) = Ok(c, Len(e5))
  <2>1. ParseModify(buf) =
          Ok([kind |-> "Modify", client_id |-> id.value,
              client_order_id |-> oid.value, new_price |-> price.value,
              new_qty |-> qty.value], qty.off)
    BY <1>5, <1>19, <1>21, <1>23, <1>25
  <2> QED
    BY <1>1, <1>16, <1>19, <1>21, <1>23, <1>25, <2>1
<1> QED
  BY <1>2, <1>26, <1>27

LEMMA ParsePlaceBack ==
  ASSUME NEW buf \in Seq(Byte), NEW c \in Command, c.kind = "Place",
         Stand(buf, 0, Encode(c))
  PROVE  ParseCommand(buf) = Ok(c, Len(Encode(c))) /\ Len(Encode(c)) <= MaxLen
<1> DEFINE x2 == ToLe(c.client_id)
           x3 == ToLe(c.client_order_id)
           x4 == c.symbol
           x5 == ByteOf(c.side, Sides)
           x6 == ByteOf(c.order_type, OrderTypes)
           x7 == OptionBytes(c.price)
           x8 == ToLe(c.quantity)
           x9 == ByteOf(c.time_in_force, TimesInForce)
           e1 == <<1>>
           e2 == e1 \o x2
           e3 == e2 \o x3
           e4 == e3 \o x4
           e5 == e4 \o x5
           e6 == e5 \o x6
           e7 == e6 \o x7
           e8 == e7 \o x8
           e9 == e8 \o x9
           id == ReadU64(buf, 1)
           oid == ReadU64(buf, id.off)
           symbol == ReadSymbol8(buf, oid.off)
           side == ReadEnum(buf, symbol.off, Sides)
           type == ReadEnum(buf, side.off, OrderTypes)
           price == ReadOption(buf, type.off)
           qty == ReadU64(buf, price.off)
           tif == ReadEnum(buf, qty.off, TimesInForce)
           read == [kind |-> "Place", client_id |-> id.value, client_order_id |-> oid.value,
                    symbol |-> symbol.value, side |-> side.value, order_type |-> type.value,
                    price |-> price.value, quantity |-> qty.value, time_in_force |-> tif.value]
<1>1. /\ c = [kind |-> "Place", client_id |-> c.client_id,
              client_order_id |-> c.client_order_id, symbol |-> c.symbol,
              side |-> c.side, order_type |-> c.order_type, price |-> c.price,
              quantity |-> c.quantity, time_in_force |-> c.time_in_force]
      /\ c.client_id \in Word /\ c.client_order_id \in Word /\ c.symbol \in Symbol
      /\ c.side \in ToSet(Sides) /\ c.order_type \in ToSet(OrderTypes)
      /\ c.price \in Word \cup {Null} /\ c.quantity \in Word
      /\ c.time_in_force \in ToSet(TimesInForce)
  BY DEF Command
<1>2. Encode(c) = e9
  BY DEF Encode
<1>3. /\ e1 \in Seq(Byte) /\ Len(e1) = 1
      /\ x2 \in Seq(Byte) /\ Len(x2) = Width
      /\ x3 \in Seq(Byte) /\ Len(x3) = Width
      /\ x4 \in Seq(Byte) /\ Len(x4) = Width
      /\ x5 \in Seq(Byte) /\ Len(x5) = 1
      /\ x6 \in Seq(Byte) /\ Len(x6) = 1
      /\ x7 \in Seq(Byte) /\ Len(x7) <= Width + 1
      /\ x8 \in Seq(Byte) /\ Len(x8) = Width
      /\ x9 \in Seq(Byte) /\ Len(x9) = 1
  <2>1. e1 \in Seq(Byte) /\ Len(e1) = 1
    BY Sizes
  <2>2. /\ x2 \in Seq(Byte) /\ Len(x2) = Width /\ x3 \in Seq(Byte) /\ Len(x3) = Width
        /\ x8 \in Seq(Byte) /\ Len(x8) = Width
    BY <1>1, WordBytes
  <2>3. x4 \in Seq(Byte) /\ Len(x4) = Width
    <3>1. c.symbol \in Symbol
      BY <1>1
    <3> QED
      BY <3>1, SymbolBytes
  <2>4. /\ x5 \in Seq(Byte) /\ Len(x5) = 1 /\ x6 \in Seq(Byte) /\ Len(x6) = 1
        /\ x9 \in Seq(Byte) /\ Len(x9) = 1
    BY <1>1, EnumByte
  <2>5. x7 \in Seq(Byte) /\ Len(x7) <= Width + 1
    BY <1>1, OptionSeq
  <2> HIDE DEF e1, x2, x3, x4, x5, x6, x7, x8, x9
  <2> QED
    BY <2>1, <2>2, <2>3, <2>4, <2>5
<1>4. ParsePlace(buf) =
        IF id.ok /\ oid.ok /\ symbol.ok /\ side.ok /\ type.ok /\ price.ok /\ qty.ok /\ tif.ok
        THEN Ok(read, tif.off)
        ELSE Err
  BY DEF ParsePlace
<1>5. /\ id = ReadU64(buf, 1) /\ oid = ReadU64(buf, id.off)
      /\ symbol = ReadSymbol8(buf, oid.off)
      /\ side = ReadEnum(buf, symbol.off, Sides) /\ type = ReadEnum(buf, side.off, OrderTypes)
      /\ price = ReadOption(buf, type.off) /\ qty = ReadU64(buf, price.off)
      /\ tif = ReadEnum(buf, qty.off, TimesInForce)
  OBVIOUS
<1> HIDE DEF e1, e2, e3, e4, e5, e6, e7, e8, e9
<1> HIDE DEF x2, x3, x4, x5, x6, x7, x8, x9
<1> HIDE DEF id, oid, symbol, side, type, price, qty, tif
\* The bytes after each field, and how many they are.
<1>6. /\ e2 \in Seq(Byte) /\ Len(e2) = Len(e1) + Len(x2)
      /\ e3 \in Seq(Byte) /\ Len(e3) = Len(e2) + Len(x3)
      /\ e4 \in Seq(Byte) /\ Len(e4) = Len(e3) + Len(x4)
      /\ e5 \in Seq(Byte) /\ Len(e5) = Len(e4) + Len(x5)
      /\ e6 \in Seq(Byte) /\ Len(e6) = Len(e5) + Len(x6)
      /\ e7 \in Seq(Byte) /\ Len(e7) = Len(e6) + Len(x7)
      /\ e8 \in Seq(Byte) /\ Len(e8) = Len(e7) + Len(x8)
      /\ e9 \in Seq(Byte) /\ Len(e9) = Len(e8) + Len(x9)
  <2>1. e2 \in Seq(Byte) /\ Len(e2) = Len(e1) + Len(x2)
    <3>1. e1 \in Seq(Byte) /\ x2 \in Seq(Byte)
      BY <1>3
    <3> QED
      BY <3>1, Peel DEF e2
  <2>2. e3 \in Seq(Byte) /\ Len(e3) = Len(e2) + Len(x3)
    <3>1. e2 \in Seq(Byte) /\ x3 \in Seq(Byte)
      BY <1>3, <2>1
    <3> QED
      BY <3>1, Peel DEF e3
  <2>3. e4 \in Seq(Byte) /\ Len(e4) = Len(e3) + Len(x4)
    <3>1. e3 \in Seq(Byte) /\ x4 \in Seq(Byte)
      BY <1>3, <2>2
    <3> QED
      BY <3>1, Peel DEF e4
  <2>4. e5 \in Seq(Byte) /\ Len(e5) = Len(e4) + Len(x5)
    <3>1. e4 \in Seq(Byte) /\ x5 \in Seq(Byte)
      BY <1>3, <2>3
    <3> QED
      BY <3>1, Peel DEF e5
  <2>5. e6 \in Seq(Byte) /\ Len(e6) = Len(e5) + Len(x6)
    <3>1. e5 \in Seq(Byte) /\ x6 \in Seq(Byte)
      BY <1>3, <2>4
    <3> QED
      BY <3>1, Peel DEF e6
  <2>6. e7 \in Seq(Byte) /\ Len(e7) = Len(e6) + Len(x7)
    <3>1. e6 \in Seq(Byte) /\ x7 \in Seq(Byte)
      BY <1>3, <2>5
    <3> QED
      BY <3>1, Peel DEF e7
  <2>7. e8 \in Seq(Byte) /\ Len(e8) = Len(e7) + Len(x8)
    <3>1. e7 \in Seq(Byte) /\ x8 \in Seq(Byte)
      BY <1>3, <2>6
    <3> QED
      BY <3>1, Peel DEF e8
  <2>8. e9 \in Seq(Byte) /\ Len(e9) = Len(e8) + Len(x9)
    <3>1. e8 \in Seq(Byte) /\ x9 \in Seq(Byte)
      BY <1>3, <2>7
    <3> QED
      BY <3>1, Peel DEF e9
  <2> QED
    BY <2>1, <2>2, <2>3, <2>4, <2>5, <2>6, <2>7, <2>8
<1>7. /\ Len(e1) \in Nat /\ Len(e2) \in Nat /\ Len(e3) \in Nat /\ Len(e4) \in Nat
      /\ Len(e5) \in Nat /\ Len(e6) \in Nat /\ Len(e7) \in Nat /\ Len(e8) \in Nat
      /\ Len(e9) \in Nat /\ Len(x7) \in Nat
  BY <1>3, <1>6, LenProperties
\* Where each field stands.
<1>8. Stand(buf, 0, e8) /\ Stand(buf, Len(e8), x9)
  <2>1. e8 \in Seq(Byte) /\ x9 \in Seq(Byte) /\ Stand(buf, 0, e9)
    BY <1>2, <1>3, <1>6
  <2> QED
    BY <2>1, Peel DEF e9
<1>9. Stand(buf, 0, e7) /\ Stand(buf, Len(e7), x8)
  <2>1. e7 \in Seq(Byte) /\ x8 \in Seq(Byte) /\ Stand(buf, 0, e8)
    BY <1>3, <1>6, <1>8
  <2> QED
    BY <2>1, Peel DEF e8
<1>10. Stand(buf, 0, e6) /\ Stand(buf, Len(e6), x7)
  <2>1. e6 \in Seq(Byte) /\ x7 \in Seq(Byte) /\ Stand(buf, 0, e7)
    BY <1>3, <1>6, <1>9
  <2> QED
    BY <2>1, Peel DEF e7
<1>11. Stand(buf, 0, e5) /\ Stand(buf, Len(e5), x6)
  <2>1. e5 \in Seq(Byte) /\ x6 \in Seq(Byte) /\ Stand(buf, 0, e6)
    BY <1>3, <1>6, <1>10
  <2> QED
    BY <2>1, Peel DEF e6
<1>12. Stand(buf, 0, e4) /\ Stand(buf, Len(e4), x5)
  <2>1. e4 \in Seq(Byte) /\ x5 \in Seq(Byte) /\ Stand(buf, 0, e5)
    BY <1>3, <1>6, <1>11
  <2> QED
    BY <2>1, Peel DEF e5
<1>13. Stand(buf, 0, e3) /\ Stand(buf, Len(e3), x4)
  <2>1. e3 \in Seq(Byte) /\ x4 \in Seq(Byte) /\ Stand(buf, 0, e4)
    BY <1>3, <1>6, <1>12
  <2> QED
    BY <2>1, Peel DEF e4
<1>14. Stand(buf, 0, e2) /\ Stand(buf, Len(e2), x3)
  <2>1. e2 \in Seq(Byte) /\ x3 \in Seq(Byte) /\ Stand(buf, 0, e3)
    BY <1>3, <1>6, <1>13
  <2> QED
    BY <2>1, Peel DEF e3
<1>15. Stand(buf, 0, e1) /\ Stand(buf, Len(e1), x2)
  <2>1. e1 \in Seq(Byte) /\ x2 \in Seq(Byte) /\ Stand(buf, 0, e2)
    BY <1>3, <1>6, <1>14
  <2> QED
    BY <2>1, Peel DEF e2
<1>16. ParseCommand(buf) = ParsePlace(buf)
  <2>1. buf # <<>> /\ buf[1] = 1
    BY <1>15, TagBack DEF e1
  <2> QED
    BY <2>1 DEF ParseCommand
\* What is read there.
<1>17. id.ok /\ id.value = c.client_id /\ id.off = Len(e2)
  <2>1. Len(e1) \in Nat /\ Stand(buf, Len(e1), x2) /\ c.client_id \in Word
    BY <1>1, <1>7, <1>15
  <2>2. id = ReadU64(buf, Len(e1))
    BY <1>3, <1>5
  <2>3. ReadU64(buf, Len(e1)) = Ok(c.client_id, Len(e1) + Width)
    BY <2>1, U64Back DEF x2
  <2>4. Len(e1) + Width = Len(e2)
    BY <1>3, <1>6
  <2> QED
    BY <2>2, <2>3, <2>4 DEF Ok
<1>18. oid.ok /\ oid.value = c.client_order_id /\ oid.off = Len(e3)
  <2>1. Len(e2) \in Nat /\ Stand(buf, Len(e2), x3) /\ c.client_order_id \in Word
    BY <1>1, <1>7, <1>14
  <2>2. oid = ReadU64(buf, Len(e2))
    BY <1>5, <1>17
  <2>3. ReadU64(buf, Len(e2)) = Ok(c.client_order_id, Len(e2) + Width)
    BY <2>1, U64Back DEF x3
  <2>4. Len(e2) + Width = Len(e3)
    BY <1>3, <1>6
  <2> QED
    BY <2>2, <2>3, <2>4 DEF Ok
<1>19. symbol.ok /\ symbol.value = c.symbol /\ symbol.off = Len(e4)
  <2>1. Len(e3) \in Nat /\ Stand(buf, Len(e3), x4) /\ c.symbol \in Symbol
    BY <1>1, <1>7, <1>13
  <2>2. symbol = ReadSymbol8(buf, Len(e3))
    BY <1>5, <1>18
  <2>3. ReadSymbol8(buf, Len(e3)) = Ok(c.symbol, Len(e3) + Width)
    BY <2>1, SymbolBack DEF x4
  <2>4. Len(e3) + Width = Len(e4)
    BY <1>3, <1>6
  <2> QED
    BY <2>2, <2>3, <2>4 DEF Ok
<1>20. side.ok /\ side.value = c.side /\ side.off = Len(e5)
  <2>1. Len(e4) \in Nat /\ Stand(buf, Len(e4), x5) /\ c.side \in ToSet(Sides)
    BY <1>1, <1>7, <1>12
  <2>2. side = ReadEnum(buf, Len(e4), Sides)
    BY <1>5, <1>19
  <2>3. ReadEnum(buf, Len(e4), Sides) = Ok(c.side, Len(e4) + 1)
    BY <2>1, EnumBack DEF x5
  <2>4. Len(e4) + 1 = Len(e5)
    BY <1>3, <1>6
  <2> QED
    BY <2>2, <2>3, <2>4 DEF Ok
<1>21. type.ok /\ type.value = c.order_type /\ type.off = Len(e6)
  <2>1. Len(e5) \in Nat /\ Stand(buf, Len(e5), x6) /\ c.order_type \in ToSet(OrderTypes)
    BY <1>1, <1>7, <1>11
  <2>2. type = ReadEnum(buf, Len(e5), OrderTypes)
    BY <1>5, <1>20
  <2>3. ReadEnum(buf, Len(e5), OrderTypes) = Ok(c.order_type, Len(e5) + 1)
    BY <2>1, EnumBack DEF x6
  <2>4. Len(e5) + 1 = Len(e6)
    BY <1>3, <1>6
  <2> QED
    BY <2>2, <2>3, <2>4 DEF Ok
<1>22. price.ok /\ price.value = c.price /\ price.off = Len(e7)
  <2>1. Len(e6) \in Nat /\ Stand(buf, Len(e6), x7) /\ c.price \in Word \cup {Null}
    BY <1>1, <1>7, <1>10
  <2>2. price = ReadOption(buf, Len(e6))
    BY <1>5, <1>21
  <2>3. ReadOption(buf, Len(e6)) = Ok(c.price, Len(e6) + Len(x7))
    BY <2>1, OptionBack DEF x7
  <2>4. Len(e6) + Len(x7) = Len(e7)
    BY <1>3, <1>6
  <2> QED
    BY <2>2, <2>3, <2>4 DEF Ok
<1>23. qty.ok /\ qty.value = c.quantity /\ qty.off = Len(e8)
  <2>1. Len(e7) \in Nat /\ Stand(buf, Len(e7), x8) /\ c.quantity \in Word
    BY <1>1, <1>7, <1>9
  <2>2. qty = ReadU64(buf, Len(e7))
    BY <1>5, <1>22
  <2>3. ReadU64(buf, Len(e7)) = Ok(c.quantity, Len(e7) + Width)
    BY <2>1, U64Back DEF x8
  <2>4. Len(e7) + Width = Len(e8)
    BY <1>3, <1>6
  <2> QED
    BY <2>2, <2>3, <2>4 DEF Ok
<1>24. tif.ok /\ tif.value = c.time_in_force /\ tif.off = Len(e9)
  <2>1. Len(e8) \in Nat /\ Stand(buf, Len(e8), x9) /\ c.time_in_force \in ToSet(TimesInForce)
    BY <1>1, <1>7, <1>8
  <2>2. tif = ReadEnum(buf, Len(e8), TimesInForce)
    BY <1>5, <1>23
  <2>3. ReadEnum(buf, Len(e8), TimesInForce) = Ok(c.time_in_force, Len(e8) + 1)
    BY <2>1, EnumBack DEF x9
  <2>4. Len(e8) + 1 = Len(e9)
    BY <1>3, <1>6
  <2> QED
    BY <2>2, <2>3, <2>4 DEF Ok
<1>25. read = c
  BY <1>1, <1>17, <1>18, <1>19, <1>20, <1>21, <1>22, <1>23, <1>24
<1> HIDE DEF read
<1>26. ParseCommand(buf) = Ok(c, Len(e9))
  BY <1>4, <1>16, <1>17, <1>18, <1>19, <1>20, <1>21, <1>22, <1>23, <1>24, <1>25
<1>27. Len(e9) <= MaxLen
  <2>1. Len(e4) = 1 + Width + Width + Width
    BY <1>3, <1>6
  <2>2. Len(e7) = Len(e4) + 1 + 1 + Len(x7)
    BY <1>3, <1>6
  <2>3. Len(e9) = Len(e7) + Width + 1
    BY <1>3, <1>6
  <2>4. \A l4, l7, l9, lx \in Nat :
          /\ l4 = 1 + Width + Width + Width /\ l7 = l4 + 1 + 1 + lx /\ lx <= Width + 1
          /\ l9 = l7 + Width + 1
          => l9 <= MaxLen
    BY Sizes
  <2> QED
    BY <1>3, <1>7, <2>1, <2>2, <2>3, <2>4
<1> QED
  BY <1>2, <1>26, <1>27

LEMMA EncodeBytes ==
  ASSUME NEW c \in Command
  PROVE  Encode(c) \in Seq(Byte)
<1> DEFINE S == Seq(Byte)
<1>1. \A x, y \in S : x \o y \in S
  BY ConcatProperties
<1>2. <<1>> \in S /\ <<2>> \in S /\ <<3>> \in S
  BY Sizes
<1>3. /\ \A w \in Word : ToLe(w) \in S
      /\ \A w \in Word \cup {Null} : OptionBytes(w) \in S
      /\ \A s \in Symbol : s \in S
  BY WordBytes, OptionSeq, SymbolBytes
<1>4. CASE c.kind = "Place"
  <2> DEFINE x2 == ToLe(c.client_id)
             x3 == ToLe(c.client_order_id)
             x4 == c.symbol
             x5 == ByteOf(c.side, Sides)
             x6 == ByteOf(c.order_type, OrderTypes)
             x7 == OptionBytes(c.price)
             x8 == ToLe(c.quantity)
             x9 == ByteOf(c.time_in_force, TimesInForce)
  <2>1. /\ c.client_id \in Word /\ c.client_order_id \in Word /\ c.symbol \in Symbol
        /\ c.side \in ToSet(Sides) /\ c.order_type \in ToSet(OrderTypes)
        /\ c.price \in Word \cup {Null} /\ c.quantity \in Word
        /\ c.time_in_force \in ToSet(TimesInForce)
    BY <1>4 DEF Command
  <2>2. Encode(c) = <<1>> \o x2 \o x3 \o x4 \o x5 \o x6 \o x7 \o x8 \o x9
    BY <1>4 DEF Encode
  <2>3. x2 \in S /\ x3 \in S /\ x4 \in S /\ x7 \in S /\ x8 \in S
    BY <1>3, <2>1
  <2>4. x5 \in S /\ x6 \in S /\ x9 \in S
    BY <2>1, EnumByte
  <2> HIDE DEF x2, x3, x4, x5, x6, x7, x8, x9, S
  <2>5. <<1>> \o x2 \o x3 \o x4 \o x5 \in S
    BY <1>1, <1>2, <2>3, <2>4
  <2> QED
    BY <1>1, <2>2, <2>3, <2>4, <2>5 DEF S
<1>5. CASE c.kind = "Cancel"
  <2> DEFINE x == ToLe(c.client_id)
             y == ToLe(c.client_order_id)
  <2>1. c.client_id \in Word /\ c.client_order_id \in Word
    BY <1>5 DEF Command
  <2>2. Encode(c) = <<2>> \o x \o y
    BY <1>5 DEF Encode
  <2>3. x \in S /\ y \in S
    BY <1>3, <2>1
  <2> HIDE DEF x, y, S
  <2> QED
    BY <1>1, <1>2, <2>2, <2>3 DEF S
<1>6. CASE c.kind = "Modify"
  <2> DEFINE x == ToLe(c.client_id)
             y == ToLe(c.client_order_id)
             p == OptionBytes(c.new_price)
             q == OptionBytes(c.new_qty)
  <2>1. /\ c.client_id \in Word /\ c.client_order_id \in Word
        /\ c.new_price \in Word \cup {Null} /\ c.new_qty \in Word \cup {Null}
    BY <1>6 DEF Command
  <2>2. Encode(c) = <<3>> \o x \o y \o p \o q
    BY <1>6 DEF Encode
  <2>3. x \in S /\ y \in S /\ p \in S /\ q \in S
    BY <1>3, <2>1
  <2> HIDE DEF x, y, p, q, S
  <2> QED
    BY <1>1, <1>2, <2>2, <2>3 DEF S
<1>7. c.kind \in {"Place", "Cancel", "Modify"}
  BY DEF Command
<1> QED
  BY <1>4, <1>5, <1>6, <1>7

\* A buffer that begins with the bytes of a command is parsed as that command,
\* and no command is longer than the array.
LEMMA ParseBack ==
  ASSUME NEW buf \in Seq(Byte), NEW c \in Command, Stand(buf, 0, Encode(c))
  PROVE  ParseCommand(buf) = Ok(c, Len(Encode(c))) /\ Len(Encode(c)) <= MaxLen
<1>1. c.kind \in {"Place", "Cancel", "Modify"}
  BY DEF Command
<1> QED
  BY <1>1, ParsePlaceBack, ParseCancelBack, ParseModifyBack

LEMMA PrefixStands ==
  ASSUME NEW buf \in Seq(Byte), NEW e \in Seq(Byte), IsPrefix(e, buf)
  PROVE  Stand(buf, 0, e)
<1> DEFINE n == Len(e)
           s == SubSeq(e, 1, n)
           t == SubSeq(buf, 1, n)
<1>1. n \in Nat /\ n <= Len(buf) /\ Len(buf) \in Nat /\ s = t
  BY LenProperties DEF IsPrefix
<1>2. \A i \in 1..n : e[i] \in Byte /\ buf[i] \in Byte
  BY <1>1, ElementOfSeq
<1> HIDE DEF n, s, t
<1>3. n \in Int /\ n - 1 + 1 = n /\ \A i \in 1..n : 1 + i - 1 = i
  BY <1>1
<1>4. \A i \in 1..n-1+1 : s[i] = e[1 + i - 1]
  BY <1>2, <1>3, SubSeqProperties DEF s
<1>5. \A i \in 1..n-1+1 : t[i] = buf[1 + i - 1]
  BY <1>2, <1>3, SubSeqProperties DEF t
<1>6. \A i \in 1..n : e[i] = buf[i]
  BY <1>1, <1>3, <1>4, <1>5
<1>7. 0 + n <= Len(buf) /\ \A i \in 1..n : 0 + i = i
  BY <1>1
<1> QED
  BY <1>6, <1>7 DEF Stand, n

\* The command in a parsed slot is the command whose bytes the client sent, and
\* there is none when the bytes are no command's: publish and parse_command
\* neither lose a command nor make up one.
CommandsArrive ==
  pc = "parsed" => \A c \in Command : command = c <=> IsPrefix(Encode(c), sent)

LEMMA IInvArrive == IInv => CommandsArrive
<1> SUFFICES ASSUME IInv, pc = "parsed", NEW c \in Command
             PROVE  command = c <=> IsPrefix(Encode(c), sent)
  BY DEF CommandsArrive
<1>1. ASSUME command = c PROVE IsPrefix(Encode(c), sent)
  BY <1>1, IInvDecodes, WireFormatAssumption DEF DecodesWhatWasSent
<1>2. ASSUME IsPrefix(Encode(c), sent) PROVE command = c
  <2> DEFINE e == Encode(c)
             n == Len(e)
  <2>1. /\ Given \in Seq(Byte) /\ sent \in Seq(Byte) /\ Len(Given) \in Nat /\ Len(sent) \in Nat
        /\ Len(Given) = (IF Len(sent) < MaxLen THEN Len(sent) ELSE MaxLen)
        /\ \A i \in 1..Len(Given) : Given[i] = sent[i]
    BY ParsedSlot
  <2>2. e \in Seq(Byte) /\ n \in Nat
    BY EncodeBytes, LenProperties
  <2>3. Stand(sent, 0, e)
    BY <1>2, <2>1, <2>2, PrefixStands
  <2>4. n <= MaxLen
    BY <2>1, <2>3, ParseBack
  <2> HIDE DEF e
  <2>5. Stand(Given, 0, e)
    <3> HIDE DEF n
    <3>1. 0 + n <= Len(sent) /\ \A i \in 1..n : sent[0 + i] = e[i]
      BY <2>3 DEF Stand, n
    <3>2. 0 + n <= Len(Given) /\ \A i \in 1..n : 0 + i = i /\ i \in 1..Len(Given)
      BY <2>1, <2>2, <2>4, <3>1
    <3>3. \A i \in 1..n : Given[0 + i] = e[i]
      BY <2>1, <3>1, <3>2
    <3> QED
      BY <3>2, <3>3 DEF Stand, n
  <2>6. ParseCommand(Given) = Ok(c, Len(Encode(c)))
    BY <2>1, <2>5, ParseBack DEF e
  <2>7. Result = c
    BY <2>6 DEF Result, Ok
  <2> QED
    BY <2>7 DEF IInv
<1> QED
  BY <1>1, <1>2

\* The round trip: whatever command a client encodes, whatever it leaves behind
\* it and whatever the slot held before, the command in the parsed slot is that
\* one (single_producer.rs publish, unmarshallerConsumer.rs parse_command).
THEOREM SpecCommandsArrive == Spec => []CommandsArrive
<1> QED
  BY IInvArrive, SpecIInv, PTL

=============================================================================
