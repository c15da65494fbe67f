--------------------------- MODULE InputRingProofs ---------------------------
(***************************************************************************)
(* Proofs about the input ring, for every capacity, every set of reading     *)
(* threads, every order of the BLP's dependencies and every message set.     *)
(***************************************************************************)
EXTENDS InputRing, TLAPS

-----------------------------------------------------------------------------
(* The inductive invariant.                                                 *)

\* The sequences are ordered as the barriers promise, and the producer's claim
\* is within a lap of the BLP.
Ordered ==
  /\ \A c \in Stage1 : seq[Blp] <= seq[c] /\ seq[c] <= seq[Producer]
  /\ nextSeq - 1 <= seq[Blp] + Capacity

\* What the producer has done for its last claim.
ProducerAt ==
  /\ pc[Producer] \in {"claim", "write", "cursor", "publish"}
  /\ pc[Producer] # "claim" => nextSeq >= 1
  /\ seq[Producer] = IF pc[Producer] = "claim" THEN nextSeq - 1 ELSE nextSeq - 2
  /\ cursor = IF pc[Producer] \in {"claim", "publish"} THEN nextSeq - 1 ELSE nextSeq - 2
  /\ Len(sent) = IF pc[Producer] = "write" THEN nextSeq - 1 ELSE nextSeq

\* The dependencies a consumer has found ready, all of them once it is past
\* its barrier, have reached the sequence it wants (and never go back).
ConsumerAt ==
  \A c \in Consumers :
    /\ pc[c] \in {"wait", "access", "advance"}
    /\ pc[c] # "wait" => scanned[c] = 0
    /\ \A i \in 1..Len(Deps(c)) :
         (pc[c] # "wait" \/ i <= scanned[c]) => seq[Deps(c)[i]] >= NextOf(c)

\* The unmarshaller has parsed message n.
Parsed(n) ==
  \/ n <= seq[Unmarshaller]
  \/ n = NextOf(Unmarshaller) /\ pc[Unmarshaller] = "advance"

\* The last Capacity messages written are in their slots; the others are not
\* initialized.
SlotsHold ==
  /\ \A n \in 0..Len(sent)-1 : n >= Len(sent) - Capacity =>
       slots[Idx(n)] = [raw |-> sent[n+1],
                        cmd |-> IF Parsed(n) THEN ParseOf(sent[n+1]) ELSE Null,
                        ts  |-> n]
  /\ \A i \in 0..Capacity-1 : slots[i] = Null <=> i >= Len(sent)

\* The BLP holds the command of the message it is at.
CapturedRight ==
  pc[Blp] = "advance" =>
    captured = [cmd |-> ParseOf(sent[NextOf(Blp)+1]), ts |-> NextOf(Blp)]

IInv ==
  /\ TypeOK
  /\ Ordered
  /\ ProducerAt
  /\ ConsumerAt
  /\ SlotsHold
  /\ CapturedRight
  /\ InOrderDelivery

-----------------------------------------------------------------------------
(* The slot index.                                                          *)

LEMMA IdxRange ==
  ASSUME NEW n \in Nat
  PROVE  Idx(n) \in 0..Capacity-1
BY InputRingAssumption DEF Idx

LEMMA IdxFirstLap ==
  ASSUME NEW n \in Nat, n < Capacity
  PROVE  Idx(n) = n
BY InputRingAssumption DEF Idx

\* Two sequences less than a lap apart are in different slots.
LEMMA IdxDistinct ==
  ASSUME NEW a \in Nat, NEW b \in Nat, a # b, a - b < Capacity, b - a < Capacity
  PROVE  Idx(a) # Idx(b)
<1> DEFINE C == Capacity
           p == a \div C
           q == b \div C
           r == a % C
<1> SUFFICES ASSUME r = b % C PROVE FALSE
  BY DEF Idx
<1>1. C \in Nat \ {0}
  BY InputRingAssumption
<1> HIDE DEF C
<1>2. p \in Int /\ q \in Int /\ r \in Int /\ a = C * p + r /\ b = C * q + r
  BY <1>1
<1> HIDE DEF p, q, r
<1>3. b - a = C * (q - p) /\ a - b = C * (p - q)
  BY <1>1, <1>2
<1>4. a - b < C /\ b - a < C
  BY DEF C
<1>5. CASE q = p
  BY <1>1, <1>2, <1>5
<1>6. CASE q - p >= 1
  <2>1. C * (q - p) >= C
    BY <1>1, <1>2, <1>6
  <2> QED
    BY <1>1, <1>2, <1>3, <1>4, <2>1
<1>7. CASE p - q >= 1
  <2>1. C * (p - q) >= C
    BY <1>1, <1>2, <1>7
  <2> QED
    BY <1>1, <1>2, <1>3, <1>4, <2>1
<1> QED
  BY <1>2, <1>5, <1>6, <1>7

-----------------------------------------------------------------------------
(* The threads, and the types of what they keep.                            *)

LEMMA ThreadFacts ==
  /\ Producer \notin Consumers /\ Blp \notin Stage1 /\ Unmarshaller \notin Readers
  /\ Stage1 \subseteq Consumers /\ Consumers \subseteq Threads
  /\ Producer \in Threads /\ Blp \in Consumers /\ Unmarshaller \in Stage1
  /\ Readers \subseteq Stage1 /\ Blp # Unmarshaller
BY InputRingAssumption DEF Threads, Consumers, Stage1, Producer, Unmarshaller, Blp

LEMMA Types ==
  ASSUME TypeOK
  PROVE  /\ Capacity \in Nat /\ Capacity >= 1 /\ Total \in Nat
         /\ nextSeq \in Nat /\ seq \in [Threads -> Int] /\ pc \in [Threads -> Places]
         /\ \A t \in Threads : seq[t] \in Int /\ seq[t] >= -1
         /\ Len(sent) \in Nat /\ Len(handled) \in Nat
         /\ scanned \in [Consumers -> Nat]
BY InputRingAssumption DEF TypeOK

LEMMA SeqBound == TypeOK => \A t \in Threads : seq[t] <= Total - 1
BY InputRingAssumption DEF TypeOK

-----------------------------------------------------------------------------
(* The barriers.                                                            *)

\* A consumer has at least one dependency; the BLP has every first-stage
\* thread and the others have the producer.
LEMMA DepsType ==
  ASSUME NEW c \in Consumers
  PROVE  /\ Deps(c) \in Seq(Stage1 \cup {Producer})
         /\ Len(Deps(c)) \in Nat /\ Len(Deps(c)) >= 1
         /\ c # Blp => Deps(c) = <<Producer>>
         /\ c = Blp => \A d \in Stage1 : \E i \in 1..Len(Deps(c)) : Deps(c)[i] = d
<1>1. CASE c = Blp
  <2>1. BlpDeps \in Seq(Stage1) /\ \E i \in 1..Len(BlpDeps) : BlpDeps[i] = Unmarshaller
    BY InputRingAssumption DEF Stage1
  <2> QED
    BY <1>1, <2>1, InputRingAssumption DEF Deps
<1>2. CASE c # Blp
  BY <1>2 DEF Deps
<1> QED
  BY <1>1, <1>2

\* A consumer past its barrier is at a message that was published and whose
\* slot has not been reused; the BLP is behind every first-stage thread.
LEMMA PastBarrier ==
  ASSUME IInv, NEW c \in Consumers, pc[c] # "wait"
  PROVE  /\ NextOf(c) \in 0..Len(sent)-1
         /\ NextOf(c) >= Len(sent) - Capacity
         /\ NextOf(c) <= seq[Producer]
         /\ c = Blp => \A d \in Stage1 : seq[d] >= NextOf(c)
<1> USE DEF IInv
<1>1. seq \in [Threads -> Int] /\ seq[c] >= -1 /\ nextSeq \in Nat /\ Len(sent) \in Nat
      /\ Capacity \in Nat
  BY InputRingAssumption DEF TypeOK, Consumers, Threads
<1>2. seq[Blp] <= seq[c]
  BY <1>1 DEF Ordered, Consumers, Threads, Stage1
<1>3. c = Blp => \A d \in Stage1 : seq[d] >= NextOf(c)
  BY DepsType DEF ConsumerAt
<1>4. NextOf(c) <= seq[Producer]
  <2>1. CASE c = Blp
    BY <2>1, <1>3, <1>1 DEF Ordered, Stage1, Threads, Consumers, NextOf, Unmarshaller
  <2>2. CASE c # Blp
    BY <2>2, DepsType DEF ConsumerAt
  <2> QED
    BY <2>1, <2>2
<1>5. seq[Producer] <= Len(sent) - 1 /\ Len(sent) <= nextSeq
  BY <1>1 DEF ProducerAt
<1> QED
  BY <1>1, <1>2, <1>3, <1>4, <1>5 DEF Ordered, NextOf, Threads, Consumers, Producer, Blp

-----------------------------------------------------------------------------
(* The invariant holds at first and every step preserves it.                *)

LEMMA InitIInv == Init => IInv
<1> SUFFICES ASSUME Init PROVE IInv
  OBVIOUS
<1> USE DEF Init
<1>1. TypeOK
  <2>1. seq \in [Threads -> -1..Total-1] /\ nextSeq \in 0..Total /\ cursor \in -1..Total-1
    BY InputRingAssumption
  <2>2. \A c \in Consumers : scanned[c] < Len(Deps(c))
    BY DepsType
  <2>3. slots \in [0..Capacity-1 -> Slot \cup {Null}]
    OBVIOUS
  <2> QED
    BY <2>1, <2>2, <2>3 DEF TypeOK, Threads, Places
<1>2. Ordered
  BY InputRingAssumption DEF Ordered, Threads, Consumers
<1>3. ProducerAt
  BY DEF ProducerAt, Threads
<1>4. ConsumerAt
  <2> SUFFICES ASSUME NEW c \in Consumers
               PROVE  pc[c] = "wait" /\ scanned[c] = 0
    BY DepsType DEF ConsumerAt
  <2> QED
    BY ThreadFacts
<1>5. SlotsHold
  BY InputRingAssumption DEF SlotsHold
<1>6. CapturedRight
  BY DEF CapturedRight, Threads, Consumers, Producer, Blp
<1>7. InOrderDelivery
  BY DEF InOrderDelivery, NextOf, Threads, Consumers
<1> QED
  BY <1>1, <1>2, <1>3, <1>4, <1>5, <1>6, <1>7 DEF IInv

LEMMA ClaimNextIInv == IInv /\ ClaimNext => IInv'
<1> SUFFICES ASSUME IInv, ClaimNext PROVE IInv'
  OBVIOUS
<1> USE DEF IInv, ClaimNext, At
<1>0. /\ pc[Producer] = "claim" /\ pc'[Producer] = "write" /\ nextSeq' = nextSeq + 1
      /\ \A c \in Consumers : pc'[c] = pc[c] /\ NextOf(c)' = NextOf(c)
  BY Types, ThreadFacts DEF NextOf
<1>1. TypeOK'
  <2>1. pc' \in [Threads -> Places]
    BY Types DEF Places
  <2>2. nextSeq' \in 0..Total
    BY <1>0, Types
  <2> QED
    BY <2>1, <2>2 DEF TypeOK, Deps
<1>2. Ordered'
  <2>1. /\ seq[Blp] \in Int /\ nextSeq \in Nat /\ Capacity \in Nat /\ seq' = seq
    BY Types, ThreadFacts
  <2>2. nextSeq' - 1 <= seq'[Blp] + Capacity
    BY <1>0, <2>1 DEF GateOpen
  <2> QED
    BY <2>1, <2>2 DEF Ordered
<1>3. ProducerAt'
  BY SMTT(30), <1>0, Types, ThreadFacts DEF ProducerAt
<1>4. ConsumerAt'
  BY SMTT(30), <1>0, Types, ThreadFacts DEF ConsumerAt, Deps
<1>5. SlotsHold'
  BY SMTT(30), <1>0, Types, ThreadFacts DEF SlotsHold, Parsed, Consumers, Stage1
<1>6. CapturedRight'
  BY <1>0, Types, ThreadFacts DEF CapturedRight, Consumers
<1>7. InOrderDelivery'
  BY <1>0, Types, ThreadFacts DEF InOrderDelivery, Consumers
<1> QED
  BY <1>1, <1>2, <1>3, <1>4, <1>5, <1>6, <1>7 DEF IInv

LEMMA WriteSlotIInv == ASSUME NEW m \in Messages PROVE IInv /\ WriteSlot(m) => IInv'
<1> SUFFICES ASSUME IInv, WriteSlot(m) PROVE IInv'
  OBVIOUS
<1> USE DEF IInv, WriteSlot, At
<1>new. PICK new \in Nat : new = Len(sent)
  BY Types
<1>0. /\ pc[Producer] = "write" /\ pc'[Producer] = "cursor"
      /\ Claimed = new /\ new = Len(sent) /\ new \in Nat
      /\ \A c \in Consumers : pc'[c] = pc[c] /\ NextOf(c)' = NextOf(c)
  BY <1>new, Types, ThreadFacts DEF NextOf, ProducerAt, Claimed
<1>1. /\ sent' = Append(sent, m) /\ Len(sent') = new + 1 /\ sent'[new + 1] = m
      /\ \A k \in 1..new : sent'[k] = sent[k]
      /\ sent' \in Seq(Messages)
  BY <1>0 DEF TypeOK
<1>2. /\ slots' = [slots EXCEPT ![Idx(new)] = [raw |-> m, cmd |-> Null, ts |-> new]]
      /\ Idx(new) \in 0..Capacity-1
  BY <1>0, IdxRange
<1>3. TypeOK'
  <2>1. pc' \in [Threads -> Places]
    BY Types DEF Places
  <2>2. [raw |-> m, cmd |-> Null, ts |-> new] \in Slot
    BY <1>0 DEF Slot
  <2>3. slots' \in [0..Capacity-1 -> Slot \cup {Null}]
    BY <1>2, <2>2 DEF TypeOK
  <2> QED
    BY <1>1, <2>1, <2>3 DEF TypeOK, Deps
<1>4. Ordered'
  BY DEF Ordered
<1>5. ProducerAt'
  BY <1>0, <1>1, Types, ThreadFacts DEF ProducerAt
<1>6. ConsumerAt'
  BY <1>0 DEF ConsumerAt, Deps
<1>7. SlotsHold'
  <2>1. ASSUME NEW n \in 0..new-1, n >= new + 1 - Capacity
        PROVE  /\ slots'[Idx(n)] = slots[Idx(n)]
               /\ sent'[n+1] = sent[n+1]
               /\ Parsed(n)' <=> Parsed(n)
    <3>1. Idx(n) # Idx(new)
      <4>1. n \in Nat /\ n # new /\ n - new < Capacity /\ new - n < Capacity
        BY <2>1, <1>0, Types
      <4> QED
        BY <4>1, IdxDistinct
    <3>2. slots'[Idx(n)] = slots[Idx(n)]
      BY <1>2, <2>1, <3>1, IdxRange DEF TypeOK
    <3>3. Parsed(n)' <=> Parsed(n)
      BY <1>0, ThreadFacts DEF Parsed
    <3>4. sent'[n+1] = sent[n+1]
      BY <1>0, <1>1, <2>1
    <3> HIDE DEF IInv, WriteSlot
    <3> QED
      BY <3>2, <3>3, <3>4, Zenon
  <2>2. ~Parsed(new)'
    <3>1. seq[Unmarshaller] \in Int /\ seq[Producer] \in Int /\ nextSeq \in Nat
      BY Types, ThreadFacts
    <3>2. seq[Producer] < new /\ seq[Unmarshaller] <= seq[Producer]
      BY <1>0, <3>1, ThreadFacts DEF Claimed, ProducerAt, Ordered
    <3>3. ~(new <= seq[Unmarshaller])
      BY <1>0, <3>1, <3>2
    <3>4. pc[Unmarshaller] = "advance" => NextOf(Unmarshaller) <= seq[Producer]
      BY PastBarrier, ThreadFacts
    <3>5. seq' = seq /\ NextOf(Unmarshaller)' = NextOf(Unmarshaller)
          /\ pc'[Unmarshaller] = pc[Unmarshaller]
      BY <1>0, ThreadFacts
    <3>6. pc[Unmarshaller] = "advance" => new # NextOf(Unmarshaller)
      BY <1>0, <3>1, <3>2, <3>4
    <3> QED
      BY <3>3, <3>5, <3>6 DEF Parsed
  <2>3. slots'[Idx(new)] = [raw |-> m, cmd |-> Null, ts |-> new]
    BY <1>2 DEF TypeOK
  <2>4. ASSUME NEW i \in 0..Capacity-1
        PROVE  slots'[i] = Null <=> i >= new + 1
    <3>1. new < Capacity => Idx(new) = new
      BY <1>0, IdxFirstLap
    <3>2. [raw |-> m, cmd |-> Null, ts |-> new] # Null
      BY <1>0, InputRingAssumption DEF Slot
    <3>3. CASE i = Idx(new)
      BY <1>0, <1>2, <2>3, <3>1, <3>2, <3>3, Types
    <3>4. CASE i # Idx(new)
      BY SMTT(30), <1>0, <1>2, <3>1, <3>4, Types DEF SlotsHold, TypeOK
    <3> QED
      BY <3>3, <3>4
  <2>5. ASSUME NEW n \in 0..new, n >= new + 1 - Capacity
        PROVE  slots'[Idx(n)] = [raw |-> sent'[n+1],
                                 cmd |-> IF Parsed(n)' THEN ParseOf(sent'[n+1]) ELSE Null,
                                 ts  |-> n]
    <3>1. CASE n = new
      BY <1>1, <2>2, <2>3, <3>1 DEF Parsed
    <3>2. CASE n # new
      <4>1. n \in 0..new-1 /\ n >= new - Capacity
        BY <1>0, <2>5, <3>2, Types
      <4>2. slots[Idx(n)] = [raw |-> sent[n+1],
                             cmd |-> IF Parsed(n) THEN ParseOf(sent[n+1]) ELSE Null,
                             ts  |-> n]
        BY <4>1, <1>0 DEF SlotsHold
      <4>3. /\ slots'[Idx(n)] = slots[Idx(n)]
            /\ sent'[n+1] = sent[n+1]
            /\ Parsed(n)' <=> Parsed(n)
        BY <2>1, <2>5, <4>1
      <4> QED
        BY <4>2, <4>3
    <3> QED
      BY <3>1, <3>2
  <2>6. Len(sent') - 1 = new /\ Len(sent') - Capacity = new + 1 - Capacity
    BY <1>0, <1>1, Types
  <2> QED
    BY <1>1, <2>4, <2>5, <2>6 DEF SlotsHold, Idx, ParseOf
<1>8. CapturedRight'
  BY <1>0, <1>1, PastBarrier, ThreadFacts DEF CapturedRight
<1>9. InOrderDelivery'
  BY <1>0, <1>1, Types, ThreadFacts DEF InOrderDelivery
<1> QED
  BY <1>3, <1>4, <1>5, <1>6, <1>7, <1>8, <1>9 DEF IInv

LEMMA StoreCursorIInv == IInv /\ StoreCursor => IInv'
<1> SUFFICES ASSUME IInv, StoreCursor PROVE IInv'
  OBVIOUS
<1> USE DEF IInv, StoreCursor, At
<1>0. /\ pc[Producer] = "cursor" /\ pc'[Producer] = "publish"
      /\ \A c \in Consumers : pc'[c] = pc[c] /\ NextOf(c)' = NextOf(c)
  BY Types, ThreadFacts DEF NextOf
<1>1. TypeOK'
  <2>1. pc' \in [Threads -> Places]
    BY Types DEF Places
  <2>2. cursor' \in -1..Total-1
    BY Types DEF TypeOK, Claimed
  <2> QED
    BY <2>1, <2>2 DEF TypeOK, Deps
<1>2. Ordered'
  BY DEF Ordered
<1>3. ProducerAt'
  BY <1>0, Types DEF ProducerAt, Claimed
<1>4. ConsumerAt'
  BY <1>0 DEF ConsumerAt, Deps
<1>5. SlotsHold'
  BY <1>0, ThreadFacts DEF SlotsHold, Parsed
<1>6. CapturedRight'
  BY <1>0, ThreadFacts DEF CapturedRight
<1>7. InOrderDelivery'
  BY <1>0, ThreadFacts DEF InOrderDelivery
<1> QED
  BY <1>1, <1>2, <1>3, <1>4, <1>5, <1>6, <1>7 DEF IInv

LEMMA PublishIInv == IInv /\ Publish => IInv'
<1> SUFFICES ASSUME IInv, Publish PROVE IInv'
  OBVIOUS
<1> USE DEF IInv, Publish, At
<1>0. /\ pc[Producer] = "publish" /\ pc'[Producer] = "claim"
      /\ seq'[Producer] = nextSeq - 1 /\ seq[Producer] = nextSeq - 2
      /\ \A c \in Consumers : pc'[c] = pc[c] /\ seq'[c] = seq[c] /\ NextOf(c)' = NextOf(c)
  BY Types, ThreadFacts DEF NextOf, Claimed, ProducerAt
<1>1. TypeOK'
  <2>1. pc' \in [Threads -> Places]
    BY Types DEF Places
  <2>2. nextSeq - 1 \in -1..Total-1
    BY Types DEF TypeOK
  <2>3. seq' \in [Threads -> -1..Total-1]
    BY <2>2 DEF TypeOK, Claimed
  <2> QED
    BY <2>1, <2>3 DEF TypeOK, Deps
<1>2. Ordered'
  BY SMTT(30), <1>0, Types, ThreadFacts DEF Ordered
<1>3. ProducerAt'
  BY <1>0, Types DEF ProducerAt
<1>4. ConsumerAt'
  <2>1. \A t \in Threads : seq'[t] >= seq[t] /\ seq'[t] \in Int
    BY <1>0, Types DEF Threads
  <2>2. ASSUME NEW c \in Consumers, NEW i \in 1..Len(Deps(c))
        PROVE  Deps(c)[i] \in Threads
    BY DepsType, ThreadFacts
  <2>3. \A c \in Consumers : NextOf(c) \in Int
    BY Types, ThreadFacts DEF NextOf
  <2>4. ASSUME NEW c \in Consumers, NEW i \in 1..Len(Deps(c)), seq[Deps(c)[i]] >= NextOf(c)
        PROVE  seq'[Deps(c)[i]] >= NextOf(c)
    BY <2>1, <2>2, <2>3, <2>4, Types
  <2> QED
    BY <1>0, <2>4 DEF ConsumerAt, Deps
<1>5. SlotsHold'
  BY <1>0, ThreadFacts DEF SlotsHold, Parsed
<1>6. CapturedRight'
  BY <1>0, ThreadFacts DEF CapturedRight
<1>7. InOrderDelivery'
  BY <1>0, ThreadFacts DEF InOrderDelivery
<1> QED
  BY <1>1, <1>2, <1>3, <1>4, <1>5, <1>6, <1>7 DEF IInv

LEMMA ScanIInv == ASSUME NEW c \in Consumers PROVE IInv /\ ScanDependency(c) => IInv'
<1> SUFFICES ASSUME IInv, ScanDependency(c) PROVE IInv'
  OBVIOUS
<1> USE DEF IInv, ScanDependency, At
<1>0. /\ pc[c] = "wait" /\ pc'[c] \in {"wait", "access"}
      /\ \A t \in Threads \ {c} : pc'[t] = pc[t]
      /\ pc'[Producer] = pc[Producer]
      /\ pc' \in [Threads -> Places]
  BY Types, ThreadFacts DEF Places
<1>1. TypeOK'
  <2> DEFINE found == IF scanned[c] + 1 = Len(Deps(c)) THEN 0 ELSE scanned[c] + 1
  <2>1. found \in Nat /\ found < Len(Deps(c))
    BY DepsType, Types DEF TypeOK
  <2>2. scanned' = [scanned EXCEPT ![c] = found]
    OBVIOUS
  <2> HIDE DEF found
  <2>3. scanned' \in [Consumers -> Nat] /\ \A d \in Consumers : scanned'[d] < Len(Deps(d))
    BY <2>1, <2>2, Types DEF TypeOK
  <2> QED
    BY <1>0, <2>3 DEF TypeOK, Deps
<1>2. Ordered'
  BY DEF Ordered
<1>3. ProducerAt'
  BY <1>0 DEF ProducerAt
<1>4. ConsumerAt'
  <2> SUFFICES ASSUME NEW d \in Consumers
               PROVE  /\ pc'[d] \in {"wait", "access", "advance"}
                      /\ pc'[d] # "wait" => scanned'[d] = 0
                      /\ \A i \in 1..Len(Deps(d)) :
                           (pc'[d] # "wait" \/ i <= scanned'[d]) => seq[Deps(d)[i]] >= NextOf(d)
    BY DEF ConsumerAt, Deps, NextOf
  <2>1. CASE d # c
    BY <1>0, <2>1, Types, ThreadFacts DEF ConsumerAt
  <2>2. CASE d = c
    <3>1. \A i \in 1..Len(Deps(c)) : i <= scanned[c] + 1 => seq[Deps(c)[i]] >= NextOf(c)
      BY <1>0, Types DEF ConsumerAt, DependencyReady
    <3>2. CASE scanned[c] + 1 = Len(Deps(c))
      <4>1. scanned'[c] = 0
        BY <3>2, Types
      <4> QED
        BY <1>0, <2>2, <3>1, <3>2, <4>1, DepsType
    <3>3. CASE scanned[c] + 1 # Len(Deps(c))
      BY <1>0, <2>2, <3>1, <3>3, Types
    <3> QED
      BY <3>2, <3>3
  <2> QED
    BY <2>1, <2>2
<1>5. SlotsHold'
  BY <1>0, ThreadFacts DEF SlotsHold, Parsed, NextOf
<1>6. CapturedRight'
  BY <1>0, ThreadFacts DEF CapturedRight, NextOf
<1>7. InOrderDelivery'
  BY DEF InOrderDelivery, NextOf
<1> QED
  BY <1>1, <1>2, <1>3, <1>4, <1>5, <1>6, <1>7 DEF IInv

LEMMA RescanIInv == ASSUME NEW c \in Consumers PROVE IInv /\ Rescan(c) => IInv'
<1> SUFFICES ASSUME IInv, Rescan(c) PROVE IInv'
  OBVIOUS
<1> USE DEF IInv, Rescan, At
<1>1. TypeOK'
  BY DepsType DEF TypeOK, Deps
<1>2. Ordered'
  BY DEF Ordered
<1>3. ProducerAt'
  BY DEF ProducerAt
<1>4. ConsumerAt'
  <2> SUFFICES ASSUME NEW d \in Consumers
               PROVE  /\ pc[d] # "wait" => scanned'[d] = 0
                      /\ \A i \in 1..Len(Deps(d)) :
                           (pc[d] # "wait" \/ i <= scanned'[d]) => seq[Deps(d)[i]] >= NextOf(d)
    BY DEF ConsumerAt, Deps, NextOf
  <2> QED
    BY Types DEF ConsumerAt
<1>5. SlotsHold'
  BY DEF SlotsHold, Parsed, NextOf
<1>6. CapturedRight'
  BY DEF CapturedRight, NextOf
<1>7. InOrderDelivery'
  BY DEF InOrderDelivery, NextOf
<1> QED
  BY <1>1, <1>2, <1>3, <1>4, <1>5, <1>6, <1>7 DEF IInv

LEMMA ReadSlotIInv == ASSUME NEW c \in Readers PROVE IInv /\ ReadSlot(c) => IInv'
<1> SUFFICES ASSUME IInv, ReadSlot(c) PROVE IInv'
  OBVIOUS
<1> USE DEF IInv, ReadSlot, At
<1>0. /\ pc[c] = "access" /\ pc'[c] = "advance"
      /\ \A t \in Threads \ {c} : pc'[t] = pc[t]
      /\ pc' \in [Threads -> Places]
  BY Types, ThreadFacts DEF Places
<1>1. TypeOK'
  BY <1>0 DEF TypeOK, Deps
<1>2. Ordered'
  BY DEF Ordered
<1>3. ProducerAt'
  BY <1>0, ThreadFacts DEF ProducerAt
<1>4. ConsumerAt'
  BY <1>0, ThreadFacts DEF ConsumerAt, Deps, NextOf
<1>5. SlotsHold'
  BY <1>0, ThreadFacts DEF SlotsHold, Parsed, NextOf
<1>6. CapturedRight'
  BY <1>0, ThreadFacts DEF CapturedRight, NextOf
<1>7. InOrderDelivery'
  BY DEF InOrderDelivery, NextOf
<1> QED
  BY <1>1, <1>2, <1>3, <1>4, <1>5, <1>6, <1>7 DEF IInv

LEMMA UnmarshalIInv == IInv /\ Unmarshal => IInv'
<1> SUFFICES ASSUME IInv, Unmarshal PROVE IInv'
  OBVIOUS
<1> USE DEF IInv, Unmarshal, At
<1>now. PICK now \in Int : now = NextOf(Unmarshaller)
  BY Types, ThreadFacts DEF NextOf
<1>0. /\ pc[Unmarshaller] = "access" /\ pc'[Unmarshaller] = "advance"
      /\ \A t \in Threads \ {Unmarshaller} : pc'[t] = pc[t]
      /\ pc' \in [Threads -> Places]
      /\ now = seq[Unmarshaller] + 1
  BY <1>now, Types, ThreadFacts DEF Places, NextOf
<1>1. /\ now \in 0..Len(sent)-1 /\ now >= Len(sent) - Capacity /\ now \in Nat
      /\ Idx(now) \in 0..Capacity-1
  <2>1. now \in 0..Len(sent)-1 /\ now >= Len(sent) - Capacity
    BY <1>now, <1>0, PastBarrier, ThreadFacts
  <2> QED
    BY <2>1, IdxRange, Types
<1>2. slots[Idx(now)] = [raw |-> sent[now+1], cmd |-> Null, ts |-> now]
  <2>1. ~Parsed(now)
    BY <1>0, <1>1, Types DEF Parsed
  <2> QED
    BY <2>1, <1>1 DEF SlotsHold
<1>3. slots' = [slots EXCEPT ![Idx(now)] =
                  [raw |-> sent[now+1], cmd |-> ParseOf(sent[now+1]), ts |-> now]]
  <2>1. slots' = [slots EXCEPT ![Idx(now)] = [slots[Idx(now)] EXCEPT !.cmd = ParseOf(slots[Idx(now)].raw)]]
    BY <1>now DEF TypeOK
  <2>2. slots[Idx(now)].raw = sent[now+1]
    BY <1>2
  <2>3. [slots[Idx(now)] EXCEPT !.cmd = ParseOf(sent[now+1])]
          = [raw |-> sent[now+1], cmd |-> ParseOf(sent[now+1]), ts |-> now]
    BY <1>2
  <2> QED
    BY <2>1, <2>2, <2>3
<1>4. sent[now+1] \in Messages
  BY <1>1 DEF TypeOK
<1>5. TypeOK'
  <2>1. [raw |-> sent[now+1], cmd |-> ParseOf(sent[now+1]), ts |-> now] \in Slot
    BY <1>1, <1>4 DEF Slot, ParseOf
  <2>2. slots' \in [0..Capacity-1 -> Slot \cup {Null}]
    BY <1>3, <2>1 DEF TypeOK
  <2> QED
    BY <1>0, <2>2 DEF TypeOK, Deps
<1>6. Ordered'
  BY DEF Ordered
<1>7. ProducerAt'
  BY <1>0, ThreadFacts DEF ProducerAt
<1>8. ConsumerAt'
  BY <1>0, ThreadFacts DEF ConsumerAt, Deps, NextOf
<1>9. SlotsHold'
  <2>1. ASSUME NEW n \in 0..Len(sent)-1, n >= Len(sent) - Capacity
        PROVE  slots'[Idx(n)] = [raw |-> sent[n+1],
                                 cmd |-> IF Parsed(n)' THEN ParseOf(sent[n+1]) ELSE Null,
                                 ts  |-> n]
    <3>1. CASE n = now
      <4>1. Parsed(n)'
        BY <1>0, <3>1 DEF Parsed, NextOf
      <4> QED
        BY <1>1, <1>3, <3>1, <4>1 DEF TypeOK
    <3>2. CASE n # now
      <4>1. n \in Nat /\ n - now < Capacity /\ now - n < Capacity
        BY <1>1, <2>1, <3>2, Types
      <4>2. slots'[Idx(n)] = slots[Idx(n)]
        BY <1>1, <1>3, <3>2, <4>1, IdxDistinct, IdxRange DEF TypeOK
      <4>3. Parsed(n)' <=> Parsed(n)
        BY <1>0, <3>2, Types, ThreadFacts DEF Parsed, NextOf
      <4>4. slots[Idx(n)] = [raw |-> sent[n+1],
                             cmd |-> IF Parsed(n) THEN ParseOf(sent[n+1]) ELSE Null,
                             ts  |-> n]
        BY <2>1 DEF SlotsHold
      <4> QED
        BY <4>2, <4>3, <4>4
    <3> QED
      BY <3>1, <3>2
  <2>2. ASSUME NEW i \in 0..Capacity-1
        PROVE  slots'[i] = Null <=> i >= Len(sent)
    <3>1. CASE i = Idx(now)
      <4>1. slots'[i] # Null /\ slots[i] # Null
        <5>1. slots[i] \in Slot /\ slots'[i] \in Slot
          BY SMTT(30), <1>1, <1>2, <1>3, <1>4, <3>1 DEF Slot, ParseOf, TypeOK
        <5> QED
          BY <5>1, InputRingAssumption
      <4> QED
        BY <4>1 DEF SlotsHold
    <3>2. CASE i # Idx(now)
      BY <1>1, <1>3, <3>2 DEF SlotsHold, TypeOK
    <3> QED
      BY <3>1, <3>2
  <2> QED
    BY <2>1, <2>2 DEF SlotsHold, Idx, ParseOf
<1>10. CapturedRight'
  BY <1>0, ThreadFacts DEF CapturedRight, NextOf
<1>11. InOrderDelivery'
  BY DEF InOrderDelivery, NextOf
<1> QED
  BY <1>5, <1>6, <1>7, <1>8, <1>9, <1>10, <1>11 DEF IInv

LEMMA AdvanceIInv == ASSUME NEW c \in Stage1 PROVE IInv /\ Advance(c) => IInv'
<1> SUFFICES ASSUME IInv, Advance(c) PROVE IInv'
  OBVIOUS
<1> USE DEF IInv, Advance, At
<1>0. /\ pc[c] = "advance" /\ pc'[c] = "wait"
      /\ \A t \in Threads \ {c} : pc'[t] = pc[t] /\ seq'[t] = seq[t]
      /\ seq'[c] = seq[c] + 1
      /\ pc' \in [Threads -> Places]
  BY Types, ThreadFacts DEF Places, NextOf
<1>1. seq[c] + 1 <= seq[Producer]
  BY <1>0, PastBarrier, ThreadFacts DEF NextOf
<1>2. \A t \in Threads : seq'[t] >= seq[t] /\ seq'[t] \in Int
  BY SMTT(30), <1>0, Types, ThreadFacts
<1>3. TypeOK'
  <2>1. seq' \in [Threads -> -1..Total-1]
    <3>1. seq[c] + 1 \in -1..Total-1
      BY SMTT(30), <1>1, Types, ThreadFacts, SeqBound
    <3> QED
      BY <3>1 DEF TypeOK, NextOf
  <2> QED
    BY <1>0, <2>1 DEF TypeOK, Deps
<1>4. Ordered'
  <2>1. /\ \A t \in Threads : seq[t] \in Int
        /\ Blp \in Threads /\ Blp # c /\ Producer \in Threads /\ Producer # c
        /\ \A d \in Stage1 : d \in Threads
    BY Types, ThreadFacts
  <2>2. /\ seq'[Blp] = seq[Blp] /\ seq'[Producer] = seq[Producer] /\ nextSeq' = nextSeq
        /\ \A d \in Stage1 : d # c => seq'[d] = seq[d]
    BY <1>0, <2>1
  <2>3. ASSUME NEW d \in Stage1 PROVE seq'[Blp] <= seq'[d] /\ seq'[d] <= seq'[Producer]
    BY <1>0, <1>1, <2>1, <2>2 DEF Ordered
  <2> QED
    BY <2>2, <2>3 DEF Ordered
<1>5. ProducerAt'
  BY <1>0, ThreadFacts DEF ProducerAt
<1>6. ConsumerAt'
  <2> SUFFICES ASSUME NEW d \in Consumers
               PROVE  /\ pc'[d] \in {"wait", "access", "advance"}
                      /\ pc'[d] # "wait" => scanned[d] = 0
                      /\ \A i \in 1..Len(Deps(d)) :
                           (pc'[d] # "wait" \/ i <= scanned[d]) => seq'[Deps(d)[i]] >= seq'[d] + 1
    BY DEF ConsumerAt, Deps, NextOf
  <2>1. CASE d # c
    <3>1. \A i \in 1..Len(Deps(d)) : Deps(d)[i] \in Threads
      BY DepsType, ThreadFacts
    <3>2. /\ pc'[d] = pc[d] /\ seq'[d] = seq[d] /\ seq[d] \in Int
          /\ pc[d] \in {"wait", "access", "advance"} /\ (pc[d] # "wait" => scanned[d] = 0)
      BY <1>0, <2>1, Types, ThreadFacts DEF ConsumerAt
    <3>3. \A i \in 1..Len(Deps(d)) :
            (pc[d] # "wait" \/ i <= scanned[d]) => seq[Deps(d)[i]] >= seq[d] + 1
      BY DEF ConsumerAt, NextOf
    <3>4. ASSUME NEW i \in 1..Len(Deps(d)), pc'[d] # "wait" \/ i <= scanned[d]
          PROVE  seq'[Deps(d)[i]] >= seq'[d] + 1
      <4>1. seq[Deps(d)[i]] >= seq[d] + 1
        BY <3>2, <3>3, <3>4
      <4>2. /\ seq[Deps(d)[i]] \in Int /\ seq'[Deps(d)[i]] \in Int
            /\ seq'[Deps(d)[i]] >= seq[Deps(d)[i]]
        BY <1>2, <3>1, Types
      <4> QED
        BY <3>2, <4>1, <4>2
    <3> QED
      BY <3>2, <3>4
  <2>2. CASE d = c
    <3>1. scanned[c] = 0 /\ Len(Deps(d)) \in Nat
      BY <1>0, DepsType, ThreadFacts DEF ConsumerAt
    <3> QED
      BY <1>0, <2>2, <3>1
  <2> QED
    BY <2>1, <2>2
<1>7. SlotsHold'
  <2>1. ASSUME NEW n \in Int PROVE Parsed(n)' <=> Parsed(n)
    <3>1. CASE c = Unmarshaller
      BY <1>0, <3>1, Types, ThreadFacts DEF Parsed, NextOf
    <3>2. CASE c # Unmarshaller
      BY <1>0, <3>2, ThreadFacts DEF Parsed, NextOf
    <3> QED
      BY <3>1, <3>2
  <2> QED
    BY <2>1, Types DEF SlotsHold, Idx, ParseOf
<1>8. CapturedRight'
  BY <1>0, ThreadFacts DEF CapturedRight, NextOf
<1>9. InOrderDelivery'
  BY <1>0, ThreadFacts DEF InOrderDelivery, NextOf
<1> QED
  BY <1>3, <1>4, <1>5, <1>6, <1>7, <1>8, <1>9 DEF IInv

LEMMA BlpCaptureIInv == IInv /\ BlpCapture => IInv'
<1> SUFFICES ASSUME IInv, BlpCapture PROVE IInv'
  OBVIOUS
<1> USE DEF IInv, BlpCapture, At
<1>0. /\ pc[Blp] = "access" /\ pc'[Blp] = "advance"
      /\ \A t \in Threads \ {Blp} : pc'[t] = pc[t]
      /\ pc' \in [Threads -> Places]
  BY Types, ThreadFacts DEF Places
<1>now. PICK now \in Int : now = NextOf(Blp)
  BY Types, ThreadFacts DEF NextOf
<1>1. /\ now \in 0..Len(sent)-1 /\ now >= Len(sent) - Capacity /\ now <= seq[Unmarshaller]
      /\ now \in Nat
  BY <1>now, <1>0, PastBarrier, Types, ThreadFacts
<1>2. slots[Idx(now)] = [raw |-> sent[now+1], cmd |-> ParseOf(sent[now+1]), ts |-> now]
  BY <1>1 DEF SlotsHold, Parsed
<1>3. captured' = [cmd |-> ParseOf(sent[now+1]), ts |-> now]
  <2>1. captured' = [cmd |-> slots[Idx(now)].cmd, ts |-> slots[Idx(now)].ts]
    BY <1>now
  <2> QED
    BY <1>2, <2>1
<1>4. TypeOK'
  <2>1. sent[now+1] \in Messages
    BY <1>1 DEF TypeOK
  <2>2. captured' \in [cmd: Messages \cup {Null}, ts: Nat]
    BY <1>1, <1>3, <2>1 DEF ParseOf
  <2> QED
    BY <1>0, <2>2 DEF TypeOK, Deps
<1>5. Ordered'
  BY DEF Ordered
<1>6. ProducerAt'
  BY <1>0, ThreadFacts DEF ProducerAt
<1>7. ConsumerAt'
  BY <1>0, ThreadFacts DEF ConsumerAt, Deps, NextOf
<1>8. SlotsHold'
  BY <1>0, ThreadFacts DEF SlotsHold, Parsed, NextOf
<1>9. CapturedRight'
  BY <1>now, <1>3 DEF CapturedRight, NextOf, ParseOf
<1>10. InOrderDelivery'
  BY DEF InOrderDelivery, NextOf
<1> QED
  BY <1>4, <1>5, <1>6, <1>7, <1>8, <1>9, <1>10 DEF IInv

LEMMA BlpAdvanceIInv == IInv /\ BlpAdvance => IInv'
<1> SUFFICES ASSUME IInv, BlpAdvance PROVE IInv'
  OBVIOUS
<1> USE DEF IInv, BlpAdvance, At
<1>0. /\ pc[Blp] = "advance" /\ pc'[Blp] = "wait"
      /\ \A t \in Threads \ {Blp} : pc'[t] = pc[t] /\ seq'[t] = seq[t]
      /\ seq'[Blp] = seq[Blp] + 1
      /\ pc' \in [Threads -> Places]
  BY Types, ThreadFacts DEF Places, NextOf
<1>1. /\ seq[Blp] + 1 <= Len(sent) - 1 /\ seq[Blp] + 1 <= seq[Producer]
      /\ \A d \in Stage1 : seq[d] >= seq[Blp] + 1
  <2>1. NextOf(Blp) = seq[Blp] + 1 /\ seq[Blp] \in Int /\ Len(sent) \in Nat
    BY Types, ThreadFacts DEF NextOf
  <2>2. /\ NextOf(Blp) \in 0..Len(sent)-1 /\ NextOf(Blp) <= seq[Producer]
        /\ \A d \in Stage1 : seq[d] >= NextOf(Blp)
    BY <1>0, PastBarrier, ThreadFacts
  <2> QED
    BY <2>1, <2>2
<1>2. /\ captured.cmd = ParseOf(sent[seq[Blp]+2])
      /\ captured.cmd \in Messages \cup {Null}
  <2>1. sent[seq[Blp]+2] \in Messages
    BY SMTT(30), <1>1, Types, ThreadFacts DEF TypeOK
  <2>2. captured = [cmd |-> ParseOf(sent[NextOf(Blp)+1]), ts |-> NextOf(Blp)]
    BY <1>0 DEF CapturedRight
  <2>3. NextOf(Blp) + 1 = seq[Blp] + 2
    BY Types, ThreadFacts DEF NextOf
  <2> QED
    BY <2>1, <2>2, <2>3 DEF ParseOf
<1>3. TypeOK'
  <2>1. seq[Blp] + 1 \in -1..Total-1
    BY SMTT(30), <1>1, Types, ThreadFacts, SeqBound
  <2>2. seq' \in [Threads -> -1..Total-1]
    BY <2>1 DEF TypeOK, NextOf
  <2>3. handled' \in Seq(Messages \cup {Null})
    BY <1>2 DEF TypeOK
  <2> QED
    BY <1>0, <2>2, <2>3 DEF TypeOK, Deps
<1>4. Ordered'
  <2>1. /\ seq[Blp] \in Int /\ nextSeq \in Nat /\ Capacity \in Nat /\ Producer # Blp
        /\ \A c \in Stage1 : c \in Threads \ {Blp}
    BY Types, ThreadFacts
  <2>2. /\ \A c \in Stage1 : seq'[c] = seq[c]
        /\ seq'[Producer] = seq[Producer] /\ nextSeq' = nextSeq
    BY <1>0, <2>1, ThreadFacts
  <2>3. \A c \in Stage1 : seq'[Blp] <= seq'[c] /\ seq'[c] <= seq'[Producer]
    BY <1>0, <1>1, <2>2 DEF Ordered
  <2>4. nextSeq' - 1 <= seq'[Blp] + Capacity
    BY <1>0, <2>1, <2>2 DEF Ordered
  <2> QED
    BY <2>3, <2>4 DEF Ordered
<1>5. ProducerAt'
  BY <1>0, ThreadFacts DEF ProducerAt
<1>6. ConsumerAt'
  <2> SUFFICES ASSUME NEW d \in Consumers
               PROVE  /\ pc'[d] \in {"wait", "access", "advance"}
                      /\ pc'[d] # "wait" => scanned[d] = 0
                      /\ \A i \in 1..Len(Deps(d)) :
                           (pc'[d] # "wait" \/ i <= scanned[d]) => seq'[Deps(d)[i]] >= seq'[d] + 1
    BY DEF ConsumerAt, Deps, NextOf
  <2>1. CASE d # Blp
    <3>1. \A i \in 1..Len(Deps(d)) : Deps(d)[i] = Producer
      BY <2>1, DepsType
    <3> QED
      BY <1>0, <2>1, <3>1, ThreadFacts DEF ConsumerAt, NextOf
  <2>2. CASE d = Blp
    <3>1. pc'[Blp] = "wait"
      BY <1>0
    <3>2. scanned[Blp] = 0
      BY <1>0, ThreadFacts DEF ConsumerAt
    <3> QED
      BY <2>2, <3>1, <3>2, DepsType
  <2> QED
    BY <2>1, <2>2
<1>7. SlotsHold'
  BY <1>0, ThreadFacts DEF SlotsHold, Parsed, NextOf
<1>8. CapturedRight'
  BY <1>0 DEF CapturedRight
<1>9. InOrderDelivery'
  <2>1. /\ Len(handled) = seq[Blp] + 1 /\ Len(handled) \in Nat /\ Len(sent) \in Nat
        /\ seq[Blp] \in Int
    BY Types, ThreadFacts DEF InOrderDelivery, NextOf
  <2>2. handled' = Append(handled, captured.cmd) /\ sent' = sent
    OBVIOUS
  <2>3. /\ Len(handled') = Len(handled) + 1
        /\ \A k \in 1..Len(handled) : handled'[k] = handled[k]
        /\ handled'[Len(handled) + 1] = captured.cmd
    BY <1>2, <2>2 DEF TypeOK
  <2>4. Len(handled') = NextOf(Blp)' /\ Len(handled') <= Len(sent)
    BY <1>0, <1>1, <2>1, <2>3 DEF NextOf
  <2>5. ASSUME NEW k \in 1..Len(handled') PROVE handled'[k] = ParseOf(sent[k])
    <3>1. k \in 1..Len(handled) \/ k = Len(handled) + 1
      BY <2>1, <2>3
    <3>2. Len(handled) + 1 = seq[Blp] + 2
      BY <2>1
    <3> QED
      BY <1>2, <2>3, <3>1, <3>2 DEF InOrderDelivery
  <2> QED
    BY <2>2, <2>4, <2>5 DEF InOrderDelivery, ParseOf
<1> QED
  BY <1>3, <1>4, <1>5, <1>6, <1>7, <1>8, <1>9 DEF IInv

LEMMA NextIInv == IInv /\ [Next]_vars => IInv'
<1> SUFFICES ASSUME IInv, [Next]_vars PROVE IInv'
  OBVIOUS
<1>1. CASE ProducerStep
  BY <1>1, ClaimNextIInv, WriteSlotIInv, StoreCursorIInv, PublishIInv DEF ProducerStep
<1>2. ASSUME NEW c \in Readers, ReaderStep(c) PROVE IInv'
  BY <1>2, ScanIInv, RescanIInv, ReadSlotIInv, AdvanceIInv, ThreadFacts DEF ReaderStep, Wait
<1>3. CASE UnmarshallerStep
  BY <1>3, ScanIInv, RescanIInv, UnmarshalIInv, AdvanceIInv, ThreadFacts DEF UnmarshallerStep, Wait
<1>4. CASE BlpStep
  BY <1>4, ScanIInv, RescanIInv, BlpCaptureIInv, BlpAdvanceIInv, ThreadFacts DEF BlpStep, Wait
<1>5. CASE UNCHANGED vars
  BY <1>5 DEF vars, IInv, TypeOK, Ordered, ProducerAt, ConsumerAt, SlotsHold, CapturedRight,
              InOrderDelivery, Deps, Parsed, NextOf
<1> QED
  BY <1>1, <1>2, <1>3, <1>4, <1>5 DEF Next, Drained

THEOREM SpecIInv == Spec => []IInv
<1>1. Init => IInv
  BY InitIInv
<1>2. IInv /\ [Next]_vars => IInv'
  BY NextIInv
<1> QED
  BY <1>1, <1>2, PTL DEF Spec

-----------------------------------------------------------------------------
(* What the invariant says of the code.                                     *)

\* Every variable of the ring keeps its type: the sequences stay within the
\* messages published, a barrier scan never runs past the dependency Vec.
THEOREM SpecTypeOK == Spec => []TypeOK
<1>1. IInv => TypeOK
  BY DEF IInv
<1> QED
  BY <1>1, SpecIInv, PTL

\* The slots are used without a data race, whatever the capacity and the
\* threads: unsafe slot_mut, slot_ref and slot_mut_ref never touch a field that
\* another thread is writing.
THEOREM SpecRaceFree == Spec => []RaceFree
<1>1. IInv => RaceFree
  <2> SUFFICES ASSUME IInv, NEW t \in Threads, NEW u \in Threads,
                      t # u, InSlot(t), InSlot(u), SlotOf(t) = SlotOf(u)
               PROVE  Written(t) \cap (Written(u) \cup ReadBy(u)) = {}
    BY DEF RaceFree
  <2>1. ASSUME NEW c \in Consumers, InSlot(c), InSlot(Producer)
        PROVE  SlotOf(c) # SlotOf(Producer)
    <3>1. pc[c] = "access" /\ pc[Producer] = "write"
      BY <2>1, ThreadFacts DEF InSlot, At
    <3>2. /\ NextOf(c) \in 0..Len(sent)-1 /\ NextOf(c) >= Len(sent) - Capacity
          /\ NextOf(c) <= seq[Producer] /\ seq[Blp] <= seq[c]
      <4>1. seq[Blp] \in Int /\ seq[Blp] <= seq[c]
        BY Types, ThreadFacts DEF IInv, Ordered, Consumers
      <4> QED
        BY <3>1, <4>1, PastBarrier
    <3>3. /\ Claimed = Len(sent) /\ seq[Producer] = Claimed - 1
          /\ Claimed <= seq[Blp] + Capacity /\ Claimed \in Nat
      BY <3>1, Types DEF IInv, ProducerAt, Ordered, Claimed
    <3>4. Claimed - NextOf(c) < Capacity /\ NextOf(c) - Claimed < Capacity /\ NextOf(c) # Claimed
      <4>1. NextOf(c) = seq[c] + 1 /\ seq[c] \in Int /\ seq[Blp] \in Int /\ seq[Producer] \in Int
            /\ Capacity \in Nat /\ Capacity >= 1
        BY Types, ThreadFacts DEF IInv, NextOf
      <4> HIDE DEF NextOf
      <4> QED
        BY <3>2, <3>3, <4>1
    <3>5. Idx(NextOf(c)) # Idx(Claimed)
      BY <3>2, <3>3, <3>4, IdxDistinct, Types DEF IInv
    <3> QED
      BY <3>5, ThreadFacts DEF SlotOf
  <2>2. t # Producer /\ u # Producer
    BY <2>1 DEF Threads
  <2>3. CASE t = Unmarshaller /\ u = Blp
    <3>1. pc[t] = "access" /\ pc[u] = "access"
      BY <2>3, ThreadFacts DEF InSlot, At
    <3>2. /\ NextOf(u) < NextOf(t) /\ NextOf(t) - NextOf(u) < Capacity
          /\ NextOf(t) \in Nat /\ NextOf(u) \in Nat
      <4>1. seq[t] >= NextOf(u) /\ NextOf(u) \in 0..Len(sent)-1 /\ NextOf(t) \in 0..Len(sent)-1
            /\ NextOf(u) >= Len(sent) - Capacity
        BY <3>1, <2>3, PastBarrier, ThreadFacts
      <4>2. NextOf(t) = seq[t] + 1 /\ seq[t] \in Int /\ Len(sent) \in Nat /\ Capacity \in Nat
        BY Types DEF IInv, NextOf
      <4> HIDE DEF NextOf
      <4> QED
        BY <4>1, <4>2
    <3>3. Idx(NextOf(t)) # Idx(NextOf(u))
      BY <3>2, IdxDistinct, Types DEF IInv
    <3> QED
      BY <2>2, <3>3 DEF SlotOf
  <2>4. CASE ~(t = Unmarshaller /\ u = Blp)
    BY <2>2, <2>4, ThreadFacts DEF Written, ReadBy, Threads, Consumers
  <2> QED
    BY <2>3, <2>4
<1> QED
  BY <1>1, SpecIInv, PTL

\* A consumer never finds an uninitialized slot or a message of another lap.
THEOREM SpecFreshSlot == Spec => []FreshSlot
<1>1. IInv => FreshSlot
  <2> SUFFICES ASSUME IInv, NEW c \in Consumers, InSlot(c), NEW n \in Int, n = NextOf(c)
               PROVE  /\ slots[Idx(n)] # Null /\ slots[Idx(n)].ts = n
                      /\ n < Len(sent) /\ slots[Idx(n)].raw = sent[n + 1]
    <3>1. ASSUME IInv, NEW c \in Consumers PROVE NextOf(c) \in Int
      BY <3>1, Types, ThreadFacts DEF NextOf, IInv
    <3> QED
      BY <3>1 DEF FreshSlot
  <2>1. n \in 0..Len(sent)-1 /\ n >= Len(sent) - Capacity
    BY PastBarrier, ThreadFacts DEF InSlot, At
  <2>2. slots[Idx(n)] = [raw |-> sent[n+1], cmd |-> IF Parsed(n) THEN ParseOf(sent[n+1]) ELSE Null,
                         ts |-> n]
    BY <2>1 DEF IInv, SlotsHold
  <2>3. slots[Idx(n)] \in Slot
    <3>1. sent[n+1] \in Messages
      BY <2>1, Types DEF IInv, TypeOK
    <3> QED
      BY <2>1, <2>2, <3>1 DEF Slot, ParseOf
  <2> QED
    BY <2>1, <2>2, <2>3, Types, InputRingAssumption DEF IInv
<1> QED
  BY <1>1, SpecIInv, PTL

\* The BLP finishes every message once, in order, with its own command.
THEOREM SpecInOrderDelivery == Spec => []InOrderDelivery
<1>1. IInv => InOrderDelivery
  BY DEF IInv
<1> QED
  BY <1>1, SpecIInv, PTL

\* The BLP is in a slot only when every first-stage thread has moved past it,
\* although its barrier loads their sequences one after another.
THEOREM SpecBlpAfterStage1 == Spec => []BlpAfterStage1
<1>1. IInv => BlpAfterStage1
  BY PastBarrier, ThreadFacts DEF BlpAfterStage1, InSlot, At
<1> QED
  BY <1>1, SpecIInv, PTL

\* Gating on the BLP alone keeps the producer within a lap of every consumer.
THEOREM SpecBackpressure == Spec => []Backpressure
<1>1. IInv => Backpressure
  BY SMTT(30), Types, ThreadFacts DEF IInv, Ordered, Backpressure, NextOf, Consumers
<1> QED
  BY <1>1, SpecIInv, PTL

\* The slots that RingBuffer::drop counts were written, and when no publish is
\* under way it counts all that were.
THEOREM SpecDropSound == Spec => []DropSound
<1>1. IInv => DropSound
  <2> SUFFICES ASSUME IInv PROVE DropSound
    OBVIOUS
  <2>1. cursor + 1 <= Len(sent) /\ (At(Producer, "claim") => cursor + 1 = Len(sent)) /\ cursor \in Int
    BY Types DEF IInv, ProducerAt, At
  <2>2. DropCount \in Nat /\ DropCount <= Capacity /\ DropCount <= Len(sent)
        /\ (At(Producer, "claim") => DropCount = IF Len(sent) < Capacity THEN Len(sent) ELSE Capacity)
    BY <2>1, Types DEF DropCount, IInv
  <2>3. \A i \in 0..Capacity-1 : slots[i] = Null <=> i >= Len(sent)
    BY DEF IInv, SlotsHold
  <2>4. Capacity \in Nat /\ Len(sent) \in Nat
    BY Types DEF IInv
  <2> HIDE DEF DropCount
  <2>5. \A i \in 0..DropCount-1 : slots[i] # Null
    BY <2>2, <2>3, <2>4
  <2>6. At(Producer, "claim") => \A i \in DropCount..Capacity-1 : slots[i] = Null
    BY <2>2, <2>3, <2>4
  <2> QED
    BY <2>5, <2>6 DEF DropSound
<1> QED
  BY <1>1, SpecIInv, PTL

-----------------------------------------------------------------------------
(* Refinement: the safety part of ImplementsFifo.                           *)

Published == [k \in 1..(seq[Producer] + 1) |-> ParseOf(sent[k])]

LEMMA PublishedType ==
  ASSUME IInv
  PROVE  /\ Published \in Seq(Messages \cup {Null}) /\ Len(Published) = seq[Producer] + 1
         /\ seq[Producer] + 1 \in Nat /\ seq[Producer] + 1 <= Len(sent)
<1>1. seq[Producer] + 1 \in Nat /\ seq[Producer] + 1 <= Len(sent)
  BY SMTT(30), Types, ThreadFacts DEF IInv, ProducerAt
<1>2. \A k \in 1..(seq[Producer] + 1) : ParseOf(sent[k]) \in Messages \cup {Null}
  BY <1>1, Types DEF IInv, TypeOK, ParseOf
<1> QED
  BY <1>1, <1>2 DEF Published

LEMMA StepFifo == IInv /\ [Next]_vars => [Fifo!Next]_<<Published, handled>>
<1> SUFFICES ASSUME IInv, [Next]_vars PROVE [Fifo!Next]_<<Published, handled>>
  OBVIOUS
<1>1. ASSUME UNCHANGED <<seq, sent, handled>> PROVE UNCHANGED <<Published, handled>>
  BY <1>1 DEF Published, ParseOf
<1>2. ASSUME NEW m \in Messages, WriteSlot(m) PROVE UNCHANGED <<Published, handled>>
  <2>1. \A k \in 1..(seq[Producer] + 1) : sent'[k] = sent[k]
    BY SMTT(30), <1>2, PublishedType DEF WriteSlot, IInv, TypeOK
  <2> QED
    BY <1>2, <2>1 DEF WriteSlot, Published, ParseOf
<1>3. CASE Publish
  <2>1. /\ pc[Producer] = "publish" /\ nextSeq >= 1 /\ nextSeq \in Nat
        /\ seq'[Producer] + 1 = nextSeq /\ seq[Producer] + 1 = nextSeq - 1 /\ Len(sent) = nextSeq
        /\ sent' = sent /\ handled' = handled
    BY SMTT(30), <1>3, Types, ThreadFacts DEF Publish, IInv, ProducerAt, Claimed, At
  <2>2. PICK v \in Messages \cup {Null} : v = ParseOf(sent[nextSeq])
    BY <2>1 DEF IInv, TypeOK, ParseOf
  <2>3. Published' = Append(Published, v)
    <3>1. Published' = [k \in 1..nextSeq |-> ParseOf(sent[k])]
      BY <2>1 DEF Published, ParseOf
    <3>2. Published = [k \in 1..(nextSeq-1) |-> ParseOf(sent[k])] /\ Len(Published) = nextSeq - 1
      BY <2>1, PublishedType DEF Published
    <3>3. Append(Published, v) = [k \in 1..nextSeq |-> IF k = nextSeq THEN v ELSE Published[k]]
      BY <2>1, <3>2, PublishedType
    <3> QED
      BY <2>1, <2>2, <3>1, <3>2, <3>3
  <2>4. Len(Published) - Len(handled) < Capacity
    <3>1. Len(handled) = seq[Blp] + 1 /\ nextSeq - 1 <= seq[Blp] + Capacity /\ seq[Blp] \in Int
      BY Types, ThreadFacts DEF IInv, InOrderDelivery, NextOf, Ordered
    <3> QED
      BY SMTT(30), <2>1, <3>1, PublishedType, Types DEF IInv
  <2> QED
    BY <2>1, <2>2, <2>3, <2>4 DEF Fifo!Next, Fifo!Send, Published
<1>4. ASSUME NEW c \in Stage1, Advance(c) PROVE UNCHANGED <<Published, handled>>
  <2>1. seq'[Producer] = seq[Producer]
    BY <1>4, Types, ThreadFacts DEF Advance, IInv
  <2> QED
    BY <1>4, <2>1 DEF Advance, Published, ParseOf
<1>5. CASE BlpAdvance
  <2>1. /\ pc[Blp] = "advance" /\ seq'[Producer] = seq[Producer] /\ sent' = sent
        /\ handled' = Append(handled, captured.cmd)
    BY <1>5, Types, ThreadFacts DEF BlpAdvance, IInv, At
  <2>2. /\ NextOf(Blp) <= seq[Producer] /\ NextOf(Blp) \in Nat /\ Len(handled) = NextOf(Blp)
        /\ captured.cmd = ParseOf(sent[NextOf(Blp) + 1])
    BY <2>1, PastBarrier, Types, ThreadFacts DEF IInv, InOrderDelivery, CapturedRight
  <2>3. Published' = Published
    BY <2>1 DEF Published, ParseOf
  <2>4. Published[Len(handled) + 1] = captured.cmd /\ Len(handled) < Len(Published)
    BY SMTT(30), <2>2, PublishedType, Types, ThreadFacts DEF Published, IInv
  <2> QED
    BY <2>1, <2>3, <2>4 DEF Fifo!Next, Fifo!Receive, Published
<1>6. CASE ProducerStep
  BY <1>1, <1>2, <1>3, <1>6 DEF ProducerStep, ClaimNext, StoreCursor
<1>7. ASSUME NEW c \in Consumers, Wait(c) PROVE UNCHANGED <<Published, handled>>
  BY <1>1, <1>7 DEF Wait, ScanDependency, Rescan
<1>8. ASSUME NEW c \in Readers, ReaderStep(c) PROVE UNCHANGED <<Published, handled>>
  BY <1>1, <1>4, <1>7, <1>8, ThreadFacts DEF ReaderStep, ReadSlot
<1>9. CASE UnmarshallerStep
  BY <1>1, <1>4, <1>7, <1>9, ThreadFacts DEF UnmarshallerStep, Unmarshal
<1>10. CASE BlpStep
  BY <1>1, <1>5, <1>7, <1>10, ThreadFacts DEF BlpStep, BlpCapture
<1>11. CASE UNCHANGED vars
  BY <1>1, <1>11 DEF vars
<1> QED
  BY <1>6, <1>8, <1>9, <1>10, <1>11 DEF Next, Drained

\* Seen from the two sequences that bound it, the input ring is a lossless
\* queue of parsed commands that never holds more than Capacity of them.
THEOREM SpecFifo == Spec => Fifo!Spec
<1>1. Init => Fifo!Init
  <2> SUFFICES ASSUME Init PROVE Published = <<>> /\ handled = <<>>
    BY DEF Fifo!Init, Published
  <2>1. seq[Producer] + 1 = 0
    BY ThreadFacts DEF Init
  <2> QED
    BY <2>1 DEF Init, Published
<1>2. IInv /\ [Next]_vars => [Fifo!Next]_(Fifo!fifoVars)
  BY StepFifo DEF Fifo!fifoVars, Published
<1> QED
  BY <1>1, <1>2, SpecIInv, PTL DEF Spec, Fifo!Spec

=============================================================================
