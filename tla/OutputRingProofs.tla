-------------------------- MODULE OutputRingProofs --------------------------
(***************************************************************************)
(* Proofs about the output ring, for every capacity, every length of the    *)
(* event array and every event, with or without a consumer.                 *)
(***************************************************************************)
EXTENDS OutputRing, SequenceTheorems, TLAPS

-----------------------------------------------------------------------------
(* The inductive invariant.                                                 *)

\* At most a lap of events is unread; the BLP past its gate has a slot of its
\* own; the consumer past its barrier has something to read.
Gated ==
  /\ gatingSequence >= -1
  /\ gatingSequence <= outputSequence
  /\ outputSequence - gatingSequence <= Capacity
  /\ pubPc \in {"write", "publish"} => HasRoom
  /\ outPc \in {"access", "advance"} => Available

\* How far each side has got in the history of the events.
Counted ==
  /\ Len(emitted) = NextOut + Len(pending)
  /\ Len(delivered) = IF outPc = "advance" THEN NextRead + 1 ELSE NextRead

\* Each published and unread event is in its slot, each waiting one is held.
Placed ==
  /\ \A n \in 0..Len(emitted)-1 :
       (gatingSequence < n /\ n <= outputSequence) \/ (n = NextOut /\ pubPc = "publish")
         => outSlots[Idx(n)] = emitted[n+1]
  /\ \A i \in 1..Len(pending) : emitted[NextOut + i] = [event |-> pending[i], timestamp |-> stamp]

IInv ==
  /\ TypeOK
  /\ Gated
  /\ Counted
  /\ Placed
  /\ DeliveredInOrder

-----------------------------------------------------------------------------
(* Slot indices, types, and what a step may rely on.                        *)

LEMMA IdxRange ==
  ASSUME NEW n \in Nat
  PROVE  Idx(n) \in 0..Capacity-1
BY OutputRingAssumption DEF Idx

\* Two sequences less than a lap apart are in different slots.
LEMMA IdxDistinct ==
  ASSUME NEW a \in Nat, NEW b \in Nat, a # b, a - b < Capacity, b - a < Capacity
  PROVE  Idx(a) # Idx(b)
<1> DEFINE C == Capacity
           p == a \div C
           q == b \div C
           r == a % C
<1> SUFFICES ASSUME r = b % C PROVE FALSE
  BY DEF Idx
<1>1. C \in Nat \ {0}
  BY OutputRingAssumption
<1> HIDE DEF C
<1>2. p \in Int /\ q \in Int /\ r \in Int /\ a = C * p + r /\ b = C * q + r
  BY <1>1
<1> HIDE DEF p, q, r
<1>3. b - a = C * (q - p) /\ a - b = C * (p - q)
  BY <1>1, <1>2
<1>4. a - b < C /\ b - a < C
  BY DEF C
<1>5. CASE q = p
  BY <1>1, <1>2, <1>5
<1>6. CASE q - p >= 1
  <2>1. C * (q - p) >= C
    BY <1>1, <1>2, <1>6
  <2> QED
    BY <1>1, <1>2, <1>3, <1>4, <2>1
<1>7. CASE p - q >= 1
  <2>1. C * (p - q) >= C
    BY <1>1, <1>2, <1>7
  <2> QED
    BY <1>1, <1>2, <1>3, <1>4, <2>1
<1> QED
  BY <1>2, <1>5, <1>6, <1>7

\* The BLP's event array is a sequence.
LEMMA BatchType ==
  ASSUME NEW events \in Batches
  PROVE  events \in Seq(Events) /\ Len(events) \in Nat /\ Len(events) <= EventBufferLen
BY OutputRingAssumption DEF Batches

LEMMA Types ==
  ASSUME TypeOK
  PROVE  /\ Capacity \in Nat /\ Capacity >= 1 /\ EventBufferLen \in Nat
         /\ outputSequence \in Int /\ gatingSequence \in Int
         /\ NextOut \in Int /\ NextRead \in Int
         /\ Len(pending) \in Nat /\ Len(emitted) \in Nat /\ Len(delivered) \in Nat
BY OutputRingAssumption DEF TypeOK, NextOut, NextRead

-----------------------------------------------------------------------------
(* The invariant holds at first and every step preserves it.                *)

LEMMA InitIInv == Init => IInv
<1> SUFFICES ASSUME Init PROVE IInv
  OBVIOUS
<1> USE DEF Init
<1>1. TypeOK
  BY OutputRingAssumption DEF TypeOK
<1>2. Gated
  BY OutputRingAssumption DEF Gated
<1>3. Counted
  BY DEF Counted, NextOut, NextRead
<1>4. Placed
  BY DEF Placed
<1>5. DeliveredInOrder
  BY DEF DeliveredInOrder
<1> QED
  BY <1>1, <1>2, <1>3, <1>4, <1>5 DEF IInv

LEMMA EmitIInv ==
  ASSUME NEW events \in Batches, NEW ts \in Stamps
  PROVE  IInv /\ Emit(events, ts) => IInv'
<1> SUFFICES ASSUME IInv, Emit(events, ts) PROVE IInv'
  OBVIOUS
<1> USE DEF IInv, Emit
<1> DEFINE held == [i \in 1..Len(events) |-> [event |-> events[i], timestamp |-> ts]]
<1>0. /\ Len(pending) = 0
      /\ events \in Seq(Events) /\ Len(events) \in Nat /\ Len(events) <= EventBufferLen
      /\ NextOut' = NextOut /\ NextRead' = NextRead /\ NextOut = Len(emitted)
  BY BatchType, Types DEF TypeOK, Counted, NextOut, NextRead
<1>1. held \in Seq(OutputSlot) /\ Len(held) = Len(events)
  BY <1>0 DEF OutputSlot
<1>2. /\ emitted' \in Seq(OutputSlot)
      /\ Len(emitted') = Len(emitted) + Len(events)
      /\ \A k \in 1..Len(emitted) : emitted'[k] = emitted[k]
      /\ \A i \in 1..Len(events) : emitted'[Len(emitted) + i] = held[i]
  <2> HIDE DEF held
  <2>1. emitted' = emitted \o held /\ emitted \in Seq(OutputSlot)
    BY DEF held, TypeOK
  <2> HIDE DEF IInv, Emit
  <2>2. emitted' \in Seq(OutputSlot)
    BY <1>1, <2>1
  <2>3. Len(emitted') = Len(emitted) + Len(held)
    BY <1>1, <2>1, ConcatProperties
  <2>4. \A k \in 1..Len(emitted) : emitted'[k] = emitted[k]
    BY <1>1, <2>1
  <2>5. \A i \in 1..Len(held) : emitted'[Len(emitted) + i] = held[i]
    BY <1>1, <2>1
  <2> QED
    BY <1>1, <2>2, <2>3, <2>4, <2>5
<1>3. TypeOK'
  BY <1>0, <1>2, Types DEF TypeOK
<1>4. Gated'
  BY DEF Gated, HasRoom, Available, NextOut, NextRead
<1>5. Counted'
  BY <1>0, <1>2, Types DEF Counted
<1>6. Placed'
  <2>1. ASSUME NEW n \in 0..Len(emitted')-1, gatingSequence < n, n <= outputSequence
        PROVE  outSlots[Idx(n)] = emitted'[n+1]
    BY <1>0, <1>2, <2>1, Types DEF Placed, NextOut
  <2>2. pubPc' # "publish"
    OBVIOUS
  <2>3. \A i \in 1..Len(pending') : emitted'[NextOut' + i] = [event |-> pending'[i], timestamp |-> stamp']
    BY <1>0, <1>2
  <2> QED
    BY <1>0, <2>1, <2>2, <2>3 DEF Placed, Idx
<1>7. DeliveredInOrder'
  BY <1>2, Types DEF DeliveredInOrder
<1> QED
  BY <1>3, <1>4, <1>5, <1>6, <1>7 DEF IInv

LEMMA PassGateIInv == IInv /\ PassGate => IInv'
<1> SUFFICES ASSUME IInv, PassGate PROVE IInv'
  OBVIOUS
<1> USE DEF IInv, PassGate
<1>1. TypeOK'
  BY DEF TypeOK
<1>2. Gated'
  BY DEF Gated, HasRoom, Available, NextOut, NextRead
<1>3. Counted'
  BY DEF Counted, NextOut, NextRead
<1>4. Placed'
  BY DEF Placed, NextOut
<1>5. DeliveredInOrder'
  BY DEF DeliveredInOrder
<1> QED
  BY <1>1, <1>2, <1>3, <1>4, <1>5 DEF IInv

LEMMA FillSlotIInv == IInv /\ FillSlot => IInv'
<1> SUFFICES ASSUME IInv, FillSlot PROVE IInv'
  OBVIOUS
<1> USE DEF IInv, FillSlot
<1>here. PICK here \in Int : here = NextOut
  BY Types
<1>0. /\ here = outputSequence + 1 /\ here \in Nat /\ NextOut' = here
      /\ here - gatingSequence <= Capacity /\ gatingSequence >= -1
      /\ Idx(here) \in 0..Capacity-1
      /\ here < Len(emitted) /\ Len(pending) >= 1
  <2>1. here = outputSequence + 1 /\ here \in Nat /\ NextOut' = here
    BY <1>here, Types DEF Gated, NextOut
  <2>2. Len(pending) >= 1
    BY Types DEF TypeOK
  <2>3. here - gatingSequence <= Capacity /\ gatingSequence >= -1
    BY <1>here DEF Gated, HasRoom
  <2>4. Len(emitted) = here + Len(pending) /\ Len(emitted) \in Nat /\ Len(pending) \in Nat
    BY <1>here, Types DEF Counted
  <2>5. here < Len(emitted)
    BY <2>1, <2>2, <2>4
  <2>6. Idx(here) \in 0..Capacity-1
    BY <2>1, IdxRange
  <2> QED
    BY <2>1, <2>2, <2>3, <2>5, <2>6
<1>1. Head(pending) \in Events /\ stamp \in Stamps /\ Head(pending) = pending[1]
  BY <1>0 DEF TypeOK
<1>2. emitted[here + 1] = [event |-> Head(pending), timestamp |-> stamp]
  <2>1. 1 \in 1..Len(pending)
    BY <1>0, Types
  <2>2. emitted[NextOut + 1] = [event |-> pending[1], timestamp |-> stamp]
    BY <2>1 DEF Placed
  <2> QED
    BY <1>here, <1>1, <2>2
<1>3. outSlots' = [outSlots EXCEPT ![Idx(here)] = emitted[here + 1]]
  BY <1>here, <1>2
<1>4. TypeOK'
  <2>1. emitted[here + 1] \in OutputSlot
    BY <1>1, <1>2 DEF OutputSlot
  <2> QED
    BY <1>3, <2>1 DEF TypeOK
<1>5. Gated'
  BY DEF Gated, HasRoom, Available, NextOut, NextRead
<1>6. Counted'
  BY DEF Counted, NextOut, NextRead
<1>7. Placed'
  <2>1. ASSUME NEW n \in 0..Len(emitted)-1, gatingSequence < n, n <= outputSequence
        PROVE  outSlots'[Idx(n)] = emitted[n+1]
    <3>1. n \in Nat /\ n # here /\ n - here < Capacity /\ here - n < Capacity
      <4>1. Capacity \in Nat /\ Capacity >= 1 /\ gatingSequence \in Int /\ outputSequence \in Int
        BY Types
      <4> HIDE DEF IInv, FillSlot
      <4> QED
        BY <1>0, <2>1, <4>1
    <3>2. outSlots'[Idx(n)] = outSlots[Idx(n)]
      BY <1>0, <1>3, <3>1, IdxDistinct, IdxRange DEF TypeOK
    <3> QED
      BY <2>1, <3>2 DEF Placed
  <2>2. outSlots'[Idx(here)] = emitted[here + 1]
    BY <1>0, <1>3 DEF TypeOK
  <2>3. \A i \in 1..Len(pending) : emitted[here + i] = [event |-> pending[i], timestamp |-> stamp]
    BY <1>here DEF Placed
  <2> QED
    BY <1>0, <2>1, <2>2, <2>3 DEF Placed, Idx
<1>8. DeliveredInOrder'
  BY DEF DeliveredInOrder
<1> QED
  BY <1>4, <1>5, <1>6, <1>7, <1>8 DEF IInv

LEMMA PublishOutIInv == IInv /\ PublishOut => IInv'
<1> SUFFICES ASSUME IInv, PublishOut PROVE IInv'
  OBVIOUS
<1> USE DEF IInv, PublishOut
<1>here. PICK here \in Int : here = NextOut
  BY Types
<1>0. /\ here = outputSequence + 1 /\ outputSequence' = here /\ NextOut' = here + 1
      /\ NextRead' = NextRead
  BY <1>here, Types DEF NextOut, NextRead
<1>1. /\ pending \in Seq(Events) /\ pending # <<>>
      /\ pending' \in Seq(Events) /\ Len(pending') = Len(pending) - 1
      /\ \A i \in 1..Len(pending') : pending'[i] = pending[i+1]
  <2>1. pending \in Seq(Events) /\ pending # <<>> /\ pending' = Tail(pending)
    BY DEF TypeOK
  <2> HIDE DEF IInv, PublishOut
  <2> QED
    BY <2>1, HeadTailProperties
<1>2. TypeOK'
  BY <1>0, <1>1, Types DEF TypeOK
<1>3. Gated'
  <2>1. here - gatingSequence <= Capacity
    BY <1>here DEF Gated, HasRoom
  <2>2. outPc \in {"access", "advance"} => Available'
    BY <1>0, Types DEF Gated, Available, NextRead
  <2> QED
    BY SMTT(30), <1>0, <2>1, <2>2, Types DEF Gated
<1>4. Counted'
  <2>1. Len(emitted) = here + Len(pending) /\ Len(pending) \in Nat
    BY <1>here, Types DEF Counted
  <2>2. Len(emitted) = NextOut' + Len(pending')
    BY <1>0, <1>1, <2>1
  <2>3. Len(delivered) = IF outPc = "advance" THEN NextRead' + 1 ELSE NextRead'
    BY <1>0 DEF Counted
  <2> QED
    BY <2>2, <2>3 DEF Counted
<1>5. Placed'
  <2>1. outSlots[Idx(here)] = emitted[here + 1]
    <3>1. here \in 0..Len(emitted)-1
      <4>1. Len(emitted) = here + Len(pending) /\ Len(pending) \in Nat /\ Len(pending) # 0
        BY <1>here, <1>1, Types DEF Counted
      <4>2. here >= 0
        BY SMTT(30), <1>0, Types DEF Gated
      <4> QED
        BY <4>1, <4>2
    <3> QED
      BY <1>here, <3>1 DEF Placed
  <2>2. ASSUME NEW n \in 0..Len(emitted)-1, gatingSequence < n, n <= here
        PROVE  outSlots[Idx(n)] = emitted[n+1]
    <3>1. n = here \/ n <= outputSequence
      BY SMTT(30), <1>0, <2>2, Types
    <3> QED
      BY <2>1, <2>2, <3>1 DEF Placed
  <2>3. ASSUME NEW i \in 1..Len(pending')
        PROVE  emitted[here + 1 + i] = [event |-> pending'[i], timestamp |-> stamp]
    <3>1. i + 1 \in 1..Len(pending) /\ here + 1 + i = here + (i + 1)
      BY <1>1, <2>3, Types
    <3>2. emitted[here + (i + 1)] = [event |-> pending[i + 1], timestamp |-> stamp]
      BY <1>here, <3>1 DEF Placed
    <3> QED
      BY <1>1, <3>1, <3>2
  <2> QED
    BY <1>0, <2>2, <2>3 DEF Placed, Idx
<1>6. DeliveredInOrder'
  BY DEF DeliveredInOrder
<1> QED
  BY <1>2, <1>3, <1>4, <1>5, <1>6 DEF IInv

LEMMA AwaitOutputIInv == IInv /\ AwaitOutput => IInv'
<1> SUFFICES ASSUME IInv, AwaitOutput PROVE IInv'
  OBVIOUS
<1> USE DEF IInv, AwaitOutput
<1>1. TypeOK'
  BY DEF TypeOK
<1>2. Gated'
  BY DEF Gated, HasRoom, Available, NextOut, NextRead
<1>3. Counted'
  BY DEF Counted, NextOut, NextRead
<1>4. Placed'
  BY DEF Placed, NextOut
<1>5. DeliveredInOrder'
  BY DEF DeliveredInOrder
<1> QED
  BY <1>1, <1>2, <1>3, <1>4, <1>5 DEF IInv

LEMMA ReadOutputIInv == IInv /\ ReadOutput => IInv'
<1> SUFFICES ASSUME IInv, ReadOutput PROVE IInv'
  OBVIOUS
<1> USE DEF IInv, ReadOutput
<1>here. PICK here \in Int : here = NextRead
  BY Types
<1>0. /\ here = gatingSequence + 1 /\ here \in Nat /\ here <= outputSequence
      /\ here < Len(emitted) /\ Len(delivered) = here
      /\ NextOut' = NextOut /\ NextRead' = NextRead
  BY SMTT(30), <1>here, Types DEF Gated, Available, Counted, NextRead, NextOut
<1>1. outSlots[Idx(here)] = emitted[here + 1] /\ emitted[here + 1] \in OutputSlot
  BY <1>0, Types DEF Placed, TypeOK
<1>2. /\ delivered' \in Seq(OutputSlot) /\ Len(delivered') = here + 1
      /\ delivered'[here + 1] = emitted[here + 1]
      /\ \A k \in 1..here : delivered'[k] = delivered[k]
  <2>1. delivered' = Append(delivered, emitted[here + 1]) /\ delivered \in Seq(OutputSlot)
    BY <1>here, <1>1 DEF TypeOK
  <2> HIDE DEF IInv, ReadOutput
  <2> QED
    BY <1>0, <1>1, <2>1, AppendProperties
<1>3. TypeOK'
  BY <1>2 DEF TypeOK
<1>4. Gated'
  BY DEF Gated, HasRoom, Available, NextOut, NextRead
<1>5. Counted'
  BY <1>here, <1>0, <1>2 DEF Counted
<1>6. Placed'
  BY DEF Placed, NextOut
<1>7. DeliveredInOrder'
  BY SMTT(30), <1>0, <1>2, Types DEF DeliveredInOrder
<1> QED
  BY <1>3, <1>4, <1>5, <1>6, <1>7 DEF IInv

LEMMA AdvanceGateIInv == IInv /\ AdvanceGate => IInv'
<1> SUFFICES ASSUME IInv, AdvanceGate PROVE IInv'
  OBVIOUS
<1> USE DEF IInv, AdvanceGate
<1>0. /\ gatingSequence' = gatingSequence + 1 /\ NextRead' = NextRead + 1
      /\ gatingSequence + 1 <= outputSequence /\ NextOut' = NextOut
  BY Types DEF NextRead, NextOut, Gated, Available
<1>1. TypeOK'
  BY <1>0, Types DEF TypeOK
<1>2. Gated'
  <2>1. /\ gatingSequence \in Int /\ outputSequence \in Int /\ NextOut \in Int /\ Capacity \in Nat
        /\ outputSequence' = outputSequence /\ pubPc' = pubPc /\ outPc' = "wait"
    BY Types
  <2>2. pubPc' \in {"write", "publish"} => HasRoom'
    BY <1>0, <2>1 DEF Gated, HasRoom
  <2>3. /\ gatingSequence' >= -1 /\ gatingSequence' <= outputSequence'
        /\ outputSequence' - gatingSequence' <= Capacity
    BY <1>0, <2>1 DEF Gated
  <2> QED
    BY <2>1, <2>2, <2>3 DEF Gated
<1>3. Counted'
  BY <1>0, Types DEF Counted
<1>4. Placed'
  BY SMTT(30), <1>0, Types DEF Placed
<1>5. DeliveredInOrder'
  BY DEF DeliveredInOrder
<1> QED
  BY <1>1, <1>2, <1>3, <1>4, <1>5 DEF IInv

LEMMA NextIInv == IInv /\ [Next]_outVars => IInv'
<1> SUFFICES ASSUME IInv, [Next]_outVars PROVE IInv'
  OBVIOUS
<1>1. ASSUME NEW events \in Batches, NEW ts \in Stamps, Emit(events, ts) PROVE IInv'
  BY <1>1, EmitIInv
<1>2. CASE PublisherStep
  BY <1>2, PassGateIInv, FillSlotIInv, PublishOutIInv DEF PublisherStep
<1>3. CASE ConsumerStep
  BY <1>3, AwaitOutputIInv, ReadOutputIInv, AdvanceGateIInv DEF ConsumerStep
<1>4. CASE UNCHANGED outVars
  BY <1>4 DEF outVars, IInv, TypeOK, Gated, Counted, Placed, DeliveredInOrder, HasRoom, Available,
              NextOut, NextRead
<1> QED
  BY <1>1, <1>2, <1>3, <1>4 DEF Next, Quiescent

THEOREM SpecIInv == Spec => []IInv
<1>1. Init => IInv
  BY InitIInv
<1>2. IInv /\ [Next]_outVars => IInv'
  BY NextIInv
<1> QED
  BY <1>1, <1>2, PTL DEF Spec

-----------------------------------------------------------------------------
(* What the invariant says of the code.                                     *)

\* Every variable keeps its type: in particular the BLP is outside
\* publish_output exactly when it holds no event.
THEOREM SpecTypeOK == Spec => []TypeOK
<1>1. IInv => TypeOK
  BY DEF IInv
<1> QED
  BY <1>1, SpecIInv, PTL

\* publish_output never writes a slot the consumer has still to move past.
THEOREM SpecNoOverwrite == Spec => []NoOverwrite
<1>1. IInv => NoOverwrite
  <2> SUFFICES ASSUME IInv, pubPc \in {"write", "publish"}, NEW n \in Int,
                      n >= gatingSequence + 1, n <= outputSequence
               PROVE  Idx(n) # Idx(NextOut)
    BY Types DEF NoOverwrite, IInv
  <2>1. /\ n \in Nat /\ NextOut \in Nat /\ n # NextOut
        /\ n - NextOut < Capacity /\ NextOut - n < Capacity
    <3>1. /\ outputSequence \in Int /\ gatingSequence \in Int /\ Capacity \in Nat
          /\ gatingSequence >= -1 /\ outputSequence - gatingSequence <= Capacity
          /\ NextOut = outputSequence + 1 /\ NextOut - gatingSequence <= Capacity
      BY Types DEF IInv, Gated, HasRoom, NextOut
    <3> QED
      BY <3>1
  <2> QED
    BY <2>1, IdxDistinct
<1> QED
  BY <1>1, SpecIInv, PTL

\* The consumer reads the events in the order the BLP handed them over.
THEOREM SpecDeliveredInOrder == Spec => []DeliveredInOrder
<1>1. IInv => DeliveredInOrder
  BY DEF IInv
<1> QED
  BY <1>1, SpecIInv, PTL

\* A sequence that lists n elements of s from lo+1 on is that segment of s.
LEMMA SegmentIs ==
  ASSUME NEW S, NEW s \in Seq(S), NEW lo \in Nat, NEW hi \in lo..Len(s),
         NEW f \in Seq(S), Len(f) = hi - lo, \A i \in 1..Len(f) : f[i] = s[lo + i]
  PROVE  f = SubSeq(s, lo + 1, hi)
<1>1. \A i \in lo+1..hi : s[i] \in S
  OBVIOUS
<1>2. /\ SubSeq(s, lo + 1, hi) \in Seq(S) /\ Len(SubSeq(s, lo + 1, hi)) = hi - lo
      /\ \A i \in 1..(hi - lo) : SubSeq(s, lo + 1, hi)[i] = s[lo + i]
  BY <1>1, SubSeqProperties
<1> QED
  BY <1>2, SeqEqual

\* Every event is read, in the ring, or held by the BLP, in order: a full ring
\* loses nothing.
THEOREM SpecNothingLost == Spec => []NothingLost
<1>1. IInv => NothingLost
  <2> SUFFICES ASSUME IInv PROVE NothingLost
    OBVIOUS
  <2> DEFINE read    == SubSeq(delivered, 1, NextRead)
             inRing  == [i \in 1..(outputSequence - gatingSequence) |-> outSlots[Idx(gatingSequence + i)]]
             heldBlp == [i \in 1..Len(pending) |-> [event |-> pending[i], timestamp |-> stamp]]
  <2>0. /\ NextRead \in Nat /\ NextOut \in Nat /\ NextRead <= NextOut /\ NextOut <= Len(emitted)
        /\ NextRead <= Len(delivered) /\ emitted \in Seq(OutputSlot)
        /\ NextOut = outputSequence + 1 /\ NextRead = gatingSequence + 1
        /\ outputSequence \in Int /\ gatingSequence \in Int /\ delivered \in Seq(OutputSlot)
        /\ Len(pending) \in Nat /\ Len(emitted) = NextOut + Len(pending)
    BY Types DEF IInv, TypeOK, Gated, Counted, NextRead, NextOut
  <2>1. read = SubSeq(emitted, 1, NextRead)
    <3>1. \A k \in 1..NextRead : delivered[k] = emitted[k]
      BY <2>0 DEF IInv, DeliveredInOrder
    <3> QED
      BY SMTT(30), <2>0, <3>1
  <2>2. inRing = SubSeq(emitted, NextRead + 1, NextOut)
    <3>1. ASSUME NEW i \in 1..(outputSequence - gatingSequence)
          PROVE  outSlots[Idx(gatingSequence + i)] = emitted[NextRead + i]
      <4>1. gatingSequence + i \in 0..Len(emitted)-1 /\ gatingSequence < gatingSequence + i
            /\ gatingSequence + i <= outputSequence /\ gatingSequence + i + 1 = NextRead + i
        BY <2>0
      <4> QED
        BY <4>1 DEF IInv, Placed
    <3>2. outputSequence - gatingSequence = NextOut - NextRead
      BY <2>0
    <3>3. /\ inRing \in Seq(OutputSlot) /\ Len(inRing) = NextOut - NextRead
          /\ \A i \in 1..Len(inRing) : inRing[i] = emitted[NextRead + i]
      <4>1. outputSequence - gatingSequence \in Nat
        BY <2>0
      <4>2. \A i \in 1..(outputSequence - gatingSequence) : emitted[NextRead + i] \in OutputSlot
        BY <2>0
      <4> QED
        BY <3>1, <3>2, <4>1, <4>2
    <3> HIDE DEF inRing
    <3> QED
      BY <2>0, <3>3, SegmentIs
  <2>3. heldBlp = SubSeq(emitted, NextOut + 1, Len(emitted))
    <3>1. \A i \in 1..Len(pending) : emitted[NextOut + i] = [event |-> pending[i], timestamp |-> stamp]
      BY DEF IInv, Placed
    <3>2. Len(pending) = Len(emitted) - NextOut /\ Len(emitted) \in Nat
      BY <2>0
    <3>3. /\ heldBlp \in Seq(OutputSlot) /\ Len(heldBlp) = Len(emitted) - NextOut
          /\ \A i \in 1..Len(heldBlp) : heldBlp[i] = emitted[NextOut + i]
      <4>1. \A i \in 1..Len(pending) : emitted[NextOut + i] \in OutputSlot
        BY <2>0
      <4> QED
        BY <2>0, <3>1, <3>2, <4>1
    <3> HIDE DEF heldBlp
    <3> QED
      BY <2>0, <3>2, <3>3, SegmentIs
  <2> HIDE DEF read, inRing, heldBlp
  <2>4. /\ 1 \in 1..Len(emitted)+1
        /\ NextRead \in 1-1..Len(emitted) /\ NextOut \in NextRead..Len(emitted)
        /\ NextOut \in 1-1..Len(emitted) /\ Len(emitted) \in NextOut..Len(emitted)
    BY <2>0
  <2>5. SubSeq(emitted, 1, NextRead) \o SubSeq(emitted, NextRead + 1, NextOut) = SubSeq(emitted, 1, NextOut)
    BY <2>0, <2>4, ConcatAdjacentSubSeq
  <2>6. SubSeq(emitted, 1, NextOut) \o SubSeq(emitted, NextOut + 1, Len(emitted))
          = SubSeq(emitted, 1, Len(emitted))
    BY <2>0, <2>4, ConcatAdjacentSubSeq
  <2>7. emitted = (read \o inRing) \o heldBlp
    BY <2>0, <2>1, <2>2, <2>3, <2>5, <2>6, SubSeqFull
  <2> QED
    BY <2>7 DEF NothingLost, read, inRing, heldBlp
<1> QED
  BY <1>1, SpecIInv, PTL

-----------------------------------------------------------------------------
(* Refinement: the safety part of ImplementsFifo.                           *)

Published == SubSeq(emitted, 1, NextOut)
Consumed  == SubSeq(delivered, 1, NextRead)

\* A longer history has the same first elements.
LEMMA PrefixStable ==
  ASSUME NEW S, NEW s \in Seq(S), NEW t \in Seq(S), NEW n \in Nat, n <= Len(s), n <= Len(t),
         \A k \in 1..n : t[k] = s[k]
  PROVE  SubSeq(t, 1, n) = SubSeq(s, 1, n)
<1>1. \A i \in 1..n : s[i] \in S /\ t[i] \in S
  OBVIOUS
<1>2. /\ SubSeq(s, 1, n) \in Seq(S) /\ Len(SubSeq(s, 1, n)) = n
      /\ SubSeq(t, 1, n) \in Seq(S) /\ Len(SubSeq(t, 1, n)) = n
      /\ \A i \in 1..n : SubSeq(s, 1, n)[i] = s[i] /\ SubSeq(t, 1, n)[i] = t[i]
  BY <1>1, SubSeqProperties
<1> QED
  BY <1>2, SeqEqual

\* One more element of a history.
LEMMA PrefixGrows ==
  ASSUME NEW S, NEW s \in Seq(S), NEW n \in Nat, n < Len(s)
  PROVE  SubSeq(s, 1, n + 1) = Append(SubSeq(s, 1, n), s[n + 1])
<1>1. \A i \in 1..n : s[i] \in S
  OBVIOUS
<1>2. \A i \in 1..n+1 : s[i] \in S
  OBVIOUS
<1>3. /\ SubSeq(s, 1, n) \in Seq(S) /\ Len(SubSeq(s, 1, n)) = n
      /\ \A i \in 1..n : SubSeq(s, 1, n)[i] = s[i]
  BY <1>1, SubSeqProperties
<1>4. /\ SubSeq(s, 1, n + 1) \in Seq(S) /\ Len(SubSeq(s, 1, n + 1)) = n + 1
      /\ \A i \in 1..n+1 : SubSeq(s, 1, n + 1)[i] = s[i]
  BY <1>2, SubSeqProperties
<1>5. /\ Append(SubSeq(s, 1, n), s[n + 1]) \in Seq(S)
      /\ Len(Append(SubSeq(s, 1, n), s[n + 1])) = n + 1
      /\ \A i \in 1..n+1 : Append(SubSeq(s, 1, n), s[n + 1])[i] = s[i]
  BY <1>2, <1>3, AppendProperties
<1> QED
  BY <1>4, <1>5, SeqEqual

LEMMA Histories ==
  ASSUME IInv
  PROVE  /\ emitted \in Seq(OutputSlot) /\ delivered \in Seq(OutputSlot)
         /\ NextOut \in Nat /\ NextOut <= Len(emitted)
         /\ NextRead \in Nat /\ NextRead <= Len(delivered)
         /\ Len(Published) = NextOut /\ Len(Consumed) = NextRead
         /\ \A k \in 1..NextOut : Published[k] = emitted[k]
<1>1. /\ emitted \in Seq(OutputSlot) /\ delivered \in Seq(OutputSlot)
      /\ NextOut \in Nat /\ NextOut <= Len(emitted)
      /\ NextRead \in Nat /\ NextRead <= Len(delivered)
  BY Types DEF IInv, TypeOK, Gated, Counted, NextOut, NextRead
<1>2. /\ \A k \in 1..NextOut : emitted[k] \in OutputSlot
      /\ \A k \in 1..NextRead : delivered[k] \in OutputSlot
  BY <1>1
<1> QED
  BY <1>1, <1>2, SubSeqProperties DEF Published, Consumed

LEMMA StepFifo == IInv /\ [Next]_outVars => [Fifo!Next]_<<Published, Consumed>>
<1> SUFFICES ASSUME IInv, [Next]_outVars, IInv' PROVE [Fifo!Next]_<<Published, Consumed>>
  BY NextIInv
<1>1. ASSUME UNCHANGED <<outputSequence, gatingSequence, emitted, delivered>>
      PROVE  UNCHANGED <<Published, Consumed>>
  BY <1>1 DEF Published, Consumed, NextOut, NextRead
<1>2. ASSUME NEW events \in Batches, NEW ts \in Stamps, Emit(events, ts)
      PROVE  UNCHANGED <<Published, Consumed>>
  <2>1. /\ emitted' = emitted \o [i \in 1..Len(events) |-> [event |-> events[i], timestamp |-> ts]]
        /\ NextOut' = NextOut /\ NextRead' = NextRead /\ delivered' = delivered
    BY <1>2 DEF Emit, NextOut, NextRead
  <2>2. emitted' \in Seq(OutputSlot) /\ emitted \in Seq(OutputSlot)
    BY DEF IInv, TypeOK
  <2>3. [i \in 1..Len(events) |-> [event |-> events[i], timestamp |-> ts]] \in Seq(OutputSlot)
    BY BatchType DEF OutputSlot
  <2>4. \A k \in 1..Len(emitted) : emitted'[k] = emitted[k]
    BY <2>1, <2>2, <2>3, ConcatProperties
  <2>5. Len(emitted') >= Len(emitted)
    BY <2>1, <2>2, <2>3, ConcatProperties
  <2>6. Published' = Published
    BY <2>1, <2>2, <2>4, <2>5, Histories, PrefixStable DEF Published
  <2> QED
    BY <2>1, <2>6 DEF Consumed
<1>3. CASE PublishOut
  <2>1. /\ NextOut' = NextOut + 1 /\ emitted' = emitted /\ NextOut < Len(emitted)
        /\ Consumed' = Consumed /\ HasRoom
    <3>1. pending # <<>> /\ Len(pending) >= 1
      BY <1>3, Types DEF PublishOut, IInv, TypeOK
    <3> QED
      BY <1>3, <3>1, Types DEF PublishOut, NextOut, NextRead, Consumed, IInv, Gated, Counted
  <2>2. Published' = Append(Published, emitted[NextOut + 1])
    BY <2>1, Histories, PrefixGrows DEF Published
  <2>3. emitted[NextOut + 1] \in OutputSlot
    BY <2>1, Histories
  <2>4. Len(Published) - Len(Consumed) < Capacity
    BY SMTT(30), <2>1, Histories, Types DEF HasRoom, NextOut, NextRead, IInv
  <2> QED
    BY <2>1, <2>2, <2>3, <2>4 DEF Fifo!Next, Fifo!Send, Published, Consumed
<1>4. CASE ReadOutput
  <2>1. /\ delivered' = Append(delivered, outSlots[Idx(NextRead)])
        /\ NextOut' = NextOut /\ NextRead' = NextRead /\ emitted' = emitted
    BY <1>4 DEF ReadOutput, NextOut, NextRead
  <2>2. /\ delivered' \in Seq(OutputSlot) /\ NextRead' <= Len(delivered')
        /\ \A k \in 1..Len(delivered) : delivered'[k] = delivered[k]
    <3>1. /\ delivered' \in Seq(OutputSlot) /\ Len(delivered) <= Len(emitted)
          /\ \A k \in 1..Len(delivered) : delivered[k] = emitted[k]
          /\ \A k \in 1..Len(delivered') : delivered'[k] = emitted[k]
      BY <2>1 DEF IInv, TypeOK, DeliveredInOrder
    <3>2. delivered \in Seq(OutputSlot) /\ NextRead \in Nat /\ NextRead <= Len(delivered)
      BY Histories
    <3>3. Len(delivered') = Len(delivered) + 1
      BY <2>1, <3>1, <3>2
    <3> QED
      BY <2>1, <3>1, <3>2, <3>3
  <2>3. Consumed' = Consumed
    BY <2>1, <2>2, Histories, PrefixStable DEF Consumed
  <2> QED
    BY <2>1, <2>3 DEF Published
<1>5. CASE AdvanceGate
  <2>1. /\ NextRead' = NextRead + 1 /\ delivered' = delivered /\ Len(delivered) = NextRead + 1
        /\ Published' = Published /\ NextRead < NextOut
    BY SMTT(30), <1>5, Types DEF AdvanceGate, NextOut, NextRead, Published, IInv, Gated, Counted, Available
  <2>2. Consumed' = Append(Consumed, delivered[NextRead + 1])
    BY <2>1, Histories, PrefixGrows DEF Consumed
  <2>3. delivered[NextRead + 1] = Published[NextRead + 1]
    BY <2>1, Histories DEF IInv, DeliveredInOrder
  <2> QED
    BY <2>1, <2>2, <2>3, Histories DEF Fifo!Next, Fifo!Receive, Published, Consumed
<1>6. CASE PublisherStep
  BY <1>1, <1>3, <1>6 DEF PublisherStep, PassGate, FillSlot
<1>7. CASE ConsumerStep
  BY <1>1, <1>4, <1>5, <1>7 DEF ConsumerStep, AwaitOutput
<1>8. CASE UNCHANGED outVars
  BY <1>1, <1>8 DEF outVars
<1> QED
  BY <1>2, <1>6, <1>7, <1>8 DEF Next, Quiescent

\* Seen from the output and the gating sequence, the output ring is a lossless
\* queue of events that never holds more than Capacity of them.
THEOREM SpecFifo == Spec => Fifo!Spec
<1>1. Init => Fifo!Init
  <2> SUFFICES ASSUME Init PROVE Published = <<>> /\ Consumed = <<>>
    BY DEF Fifo!Init, Published, Consumed
  <2>1. NextOut = 0 /\ NextRead = 0
    BY DEF Init, NextOut, NextRead
  <2> QED
    BY <2>1, SubSeqEmpty DEF Published, Consumed
<1>2. IInv /\ [Next]_outVars => [Fifo!Next]_(Fifo!fifoVars)
  BY StepFifo DEF Fifo!fifoVars, Published, Consumed
<1> QED
  BY <1>1, <1>2, SpecIInv, PTL DEF Spec, Fifo!Spec

=============================================================================
