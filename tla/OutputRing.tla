----------------------------- MODULE OutputRing -----------------------------
(***************************************************************************)
(* The output side of the pipeline.  When the BLP has run a command it holds *)
(* up to EventBufferLen events and the timestamp of the input message; it    *)
(* publishes the events one by one with publish_output into                  *)
(* RingBuffer<OutputSlot>, spinning while the ring is full.  OutputConsumer  *)
(* reads the slots in order and moves the gating sequence.                   *)
(*                                                                          *)
(* Nothing stores the cursor of this ring: it stays at -1, so its Drop       *)
(* drops nothing (an OutputSlot owns nothing either).                        *)
(***************************************************************************)
EXTENDS Integers, Sequences

CONSTANTS
  Capacity,        \* number of slots of the ring
  EventBufferLen,  \* length of the BLP's event array
  Events,          \* the output events
  Stamps,          \* the timestamps of input messages
  Null,            \* the content of an uninitialized slot
  Draining,        \* whether an OutputConsumer runs (main() starts none)
  MaxEvents        \* bound: how many events the BLP hands over in all

OutputSlot == [event: Events, timestamp: Stamps]

ASSUME OutputRingAssumption ==
  /\ Capacity \in Nat \ {0} /\ \E k \in 0..Capacity : Capacity = 2^k
  /\ EventBufferLen \in Nat \ {0}
  /\ Null \notin OutputSlot /\ Null \notin Stamps
  /\ Draining \in BOOLEAN
  /\ MaxEvents \in Nat

VARIABLES
  outSlots,        \* buffer[0..Capacity-1]; Null while MaybeUninit::uninit()
  outputSequence,  \* stored by the BLP
  gatingSequence,  \* stored by the consumer, loaded by publish_output
  pending,         \* the BLP's events[i..count): not yet published
  stamp,           \* input_ts of the command they come from; Null before the first
  pubPc,           \* where the BLP is in publish_output; "idle" outside
  outPc,           \* where the OutputConsumer is in its loop
  emitted,         \* history: every event handed over, with its timestamp
  delivered        \* history: what the consumer read, slot by slot

outVars == <<outSlots, outputSequence, gatingSequence, pending, stamp,
             pubPc, outPc, emitted, delivered>>

-----------------------------------------------------------------------------
\* slot_mut_ref / slot_ref: (seq as usize) & mask.
Idx(n) == n % Capacity

\* The slot publish_output is about to fill, and the one the consumer wants.
NextOut  == outputSequence + 1
NextRead == gatingSequence + 1

\* Mutants of HasRoom: one event too many fits, and no gate at all.
HasRoomForOneMore == NextOut - gatingSequence <= Capacity + 1
HasRoomAlways     == TRUE

\* The spin of publish_output ends.
HasRoom == NextOut - gatingSequence <= Capacity

\* Mutants of Available: the consumer runs one slot ahead, or one behind.
AvailableEarly == outputSequence >= gatingSequence
AvailableLate  == outputSequence > NextRead

\* wait_for on the one dependency of the output barrier.
Available == outputSequence >= NextRead

Init ==
  /\ outSlots = [i \in 0..Capacity-1 |-> Null]
  /\ outputSequence = -1
  /\ gatingSequence = -1
  /\ pending = <<>>
  /\ stamp = Null
  /\ pubPc = "idle"
  /\ outPc = "wait"
  /\ emitted = <<>>
  /\ delivered = <<>>

-----------------------------------------------------------------------------
\* The end of a command: the events it emitted, and its input_ts.  A command
\* that emitted none leaves the BLP idle.
Emit(events, ts) ==
  /\ pubPc = "idle"
  /\ Len(emitted) + Len(events) <= MaxEvents
  /\ pending' = events
  /\ stamp' = ts
  /\ pubPc' = IF events = <<>> THEN "idle" ELSE "gate"
  /\ emitted' = emitted \o [i \in 1..Len(events) |-> [event |-> events[i], timestamp |-> ts]]
  /\ UNCHANGED <<outSlots, outputSequence, gatingSequence, outPc, delivered>>

PassGate ==
  /\ pubPc = "gate"
  /\ HasRoom
  /\ pubPc' = "write"
  /\ UNCHANGED <<outSlots, outputSequence, gatingSequence, pending, stamp, outPc, emitted, delivered>>

\* slot.event and slot.timestamp_ns: two stores through one &mut.
FillSlot ==
  /\ pubPc = "write"
  /\ outSlots' = [outSlots EXCEPT ![Idx(NextOut)] = [event |-> Head(pending), timestamp |-> stamp]]
  /\ pubPc' = "publish"
  /\ UNCHANGED <<outputSequence, gatingSequence, pending, stamp, outPc, emitted, delivered>>

\* Mutants of PublishOut: return after the first event, or after none.
PublishFirstOnly ==
  /\ pubPc = "publish"
  /\ outputSequence' = NextOut
  /\ pending' = <<>>
  /\ pubPc' = "idle"
  /\ UNCHANGED <<outSlots, gatingSequence, stamp, outPc, emitted, delivered>>

PublishForEver ==
  /\ pubPc = "publish"
  /\ outputSequence' = NextOut
  /\ pending' = Tail(pending)
  /\ pubPc' = "gate"
  /\ UNCHANGED <<outSlots, gatingSequence, stamp, outPc, emitted, delivered>>

PublishOut ==
  /\ pubPc = "publish"
  /\ outputSequence' = NextOut
  /\ pending' = Tail(pending)
  /\ pubPc' = IF Tail(pending) = <<>> THEN "idle" ELSE "gate"
  /\ UNCHANGED <<outSlots, gatingSequence, stamp, outPc, emitted, delivered>>

-----------------------------------------------------------------------------
AwaitOutput ==
  /\ Draining
  /\ outPc = "wait"
  /\ Available
  /\ outPc' = "access"
  /\ UNCHANGED <<outSlots, outputSequence, gatingSequence, pending, stamp, pubPc, emitted, delivered>>

ReadOutput ==
  /\ outPc = "access"
  /\ delivered' = Append(delivered, outSlots[Idx(NextRead)])
  /\ outPc' = "advance"
  /\ UNCHANGED <<outSlots, outputSequence, gatingSequence, pending, stamp, pubPc, emitted>>

AdvanceGate ==
  /\ outPc = "advance"
  /\ gatingSequence' = NextRead
  /\ outPc' = "wait"
  /\ UNCHANGED <<outSlots, outputSequence, pending, stamp, pubPc, emitted, delivered>>

PublisherStep == PassGate \/ FillSlot \/ PublishOut

ConsumerStep == AwaitOutput \/ ReadOutput \/ AdvanceGate

\* The sequences of at most EventBufferLen events.
Batches == UNION {[1..n -> Events] : n \in 0..EventBufferLen}

\* Nothing to publish and nothing to read, or (without a consumer) a full ring:
\* the threads spin.
Quiescent ==
  /\ \/ pubPc = "idle" /\ Len(emitted) = MaxEvents
     \/ pubPc = "gate" /\ ~HasRoom /\ ~Draining
  /\ Draining => outPc = "wait" /\ ~Available
  /\ UNCHANGED outVars

Next ==
  \/ \E events \in Batches, ts \in Stamps : Emit(events, ts)
  \/ PublisherStep
  \/ ConsumerStep
  \/ Quiescent

Spec == Init /\ [][Next]_outVars

\* The BLP and the consumer run on; nothing obliges a command to emit events.
Fairness == WF_outVars(PublisherStep) /\ WF_outVars(ConsumerStep)

FairSpec == Spec /\ Fairness

-----------------------------------------------------------------------------
TypeOK ==
  /\ outSlots \in [0..Capacity-1 -> OutputSlot \cup {Null}]
  /\ outputSequence \in Int
  /\ gatingSequence \in Int
  /\ pending \in Seq(Events) /\ Len(pending) <= EventBufferLen
  /\ stamp \in Stamps \cup {Null} /\ (pubPc # "idle" => stamp \in Stamps)
  /\ pubPc \in {"idle", "gate", "write", "publish"}
  /\ (pubPc = "idle") <=> (pending = <<>>)
  /\ outPc \in {"wait", "access", "advance"}
  /\ emitted \in Seq(OutputSlot)
  /\ delivered \in Seq(OutputSlot)

\* The BLP writes no slot that the consumer has not moved past: neither while
\* it reads it (a data race) nor before it has read it (a lost event).
NoOverwrite ==
  pubPc \in {"write", "publish"} =>
    \A n \in gatingSequence+1..outputSequence : Idx(n) # Idx(NextOut)

\* Every event handed over is read by the consumer, waiting in the ring or
\* still held by the BLP, in this order and with the timestamp of its command:
\* a full ring delays events and never drops, repeats or reorders one.
NothingLost ==
  LET read    == SubSeq(delivered, 1, NextRead)
      inRing  == [i \in 1..(outputSequence - gatingSequence) |-> outSlots[Idx(gatingSequence + i)]]
      heldBlp == [i \in 1..Len(pending) |-> [event |-> pending[i], timestamp |-> stamp]]
  IN emitted = read \o inRing \o heldBlp

\* What the consumer reads is a written slot, namely the event of its turn.
DeliveredInOrder ==
  /\ Len(delivered) <= Len(emitted)
  /\ \A k \in 1..Len(delivered) : delivered[k] = emitted[k]

\* Every event is eventually read, though the BLP may find the ring full.
AllDelivered == \A k \in 1..MaxEvents : (Len(emitted) >= k) ~> (Len(delivered) >= k)

\* The output ring as a FIFO: an event is sent when the BLP stores the output
\* sequence and received when the consumer stores the gating sequence.
Fifo == INSTANCE BoundedFifo WITH
  Values   <- OutputSlot,
  sent     <- SubSeq(emitted, 1, NextOut),
  received <- SubSeq(delivered, 1, NextRead)

ImplementsFifo == Fifo!FairSpec

\* ringBuffer.rs:50: slot_mut_ref "gives mutable reference to an initialized
\* slot"; publish_output calls it on slots of the first lap.
InitializedSlot == pubPc = "write" => outSlots[Idx(NextOut)] # Null

=============================================================================
