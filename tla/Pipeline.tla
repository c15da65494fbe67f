------------------------------ MODULE Pipeline ------------------------------
(***************************************************************************)
(* The two rings joined by the BLP thread: it takes a command out of the    *)
(* input ring, runs it, stores its input sequence, and only then publishes  *)
(* the events of the command to the output ring.  While it publishes (it    *)
(* may spin on a full output ring) the producer may already overwrite the   *)
(* input slot the events come from.                                         *)
(*                                                                          *)
(* What a command does to the book is left out: it emits 1..MaxEmitted      *)
(* events, event k of message n being [of |-> n, nth |-> k].                *)
(***************************************************************************)
EXTENDS Integers, Sequences, FiniteSets

CONSTANTS
  InCapacity, OutCapacity,                     \* slots of the two rings
  Readers, BlpDeps, Messages, Malformed, Null, \* as in InputRing
  EventBufferLen, Draining,                    \* as in OutputRing
  MaxEmitted,                                  \* bound: events of one command
  Total                                        \* bound: messages published

Event == [of: 0..Total-1, nth: 1..EventBufferLen]

VARIABLES
  slots, cursor, nextSeq, seq, pc, scanned, captured, sent, handled,
  outSlots, outputSequence, gatingSequence, pending, stamp, pubPc, outPc, emitted, delivered

In == INSTANCE InputRing WITH Capacity <- InCapacity

Out == INSTANCE OutputRing WITH
  Capacity <- OutCapacity, Events <- Event, Stamps <- Nat,
  MaxEvents <- Total * EventBufferLen

ASSUME PipelineAssumption ==
  /\ In!InputRingAssumption
  /\ Out!OutputRingAssumption
  /\ MaxEmitted \in Nat \ {0}

inVars  == <<slots, cursor, nextSeq, seq, pc, scanned, captured, sent, handled>>
outVars == <<outSlots, outputSequence, gatingSequence, pending, stamp, pubPc, outPc,
             emitted, delivered>>
pipeVars == <<inVars, outVars>>

-----------------------------------------------------------------------------
Init == In!Init /\ Out!Init

\* Mutant of Kept: the event array has no end.
KeptAll(n) == n

\* The emit closure: the first EventBufferLen events of a command are kept.
Kept(n) == IF n <= EventBufferLen THEN n ELSE EventBufferLen

EventsOf(msg, n) == [k \in 1..Kept(n) |-> [of |-> msg, nth |-> k]]

\* The threads of the input side that never touch the output side.
Upstream ==
  /\ \/ In!ProducerStep
     \/ \E c \in Readers : In!ReaderStep(c)
     \/ In!UnmarshallerStep
  /\ UNCHANGED outVars

\* Mutant of LoopHead: the events are published behind the loop's back.
LoopHeadAlways == TRUE

\* The BLP is back at the head of its loop: the last command is published.
LoopHead == pubPc = "idle"

BlpTake ==
  /\ LoopHead
  /\ In!Wait(In!Blp) \/ In!BlpCapture
  /\ UNCHANGED outVars

\* slot.command is None: the thread moves on, without output.
BlpSkip ==
  /\ LoopHead
  /\ captured # Null /\ captured.cmd = Null
  /\ In!BlpAdvance
  /\ UNCHANGED outVars

\* The command is run: its input sequence is stored, its events are waiting.
BlpFinish(n) ==
  /\ captured # Null /\ captured.cmd # Null
  /\ In!BlpAdvance
  /\ Out!Emit(EventsOf(In!NextOf(In!Blp), n), captured.ts)

BlpPublish == Out!PublisherStep /\ UNCHANGED inVars

BlpStep == BlpTake \/ BlpSkip \/ (\E n \in 1..MaxEmitted : BlpFinish(n)) \/ BlpPublish

Downstream == Out!ConsumerStep /\ UNCHANGED inVars

\* Every message is published and handled and every event read: all spin.
Drained ==
  /\ nextSeq = Total /\ \A t \in In!Threads : seq[t] = Total - 1
  /\ LoopHead /\ gatingSequence = outputSequence
  /\ UNCHANGED pipeVars

Next == Upstream \/ BlpStep \/ Downstream \/ Drained

Spec == Init /\ [][Next]_pipeVars

\* The threads of the pipeline run on; the client publishes its Total messages
\* in a loop.  The consumer is not the pipeline's to promise.
Fairness ==
  /\ WF_pipeVars(In!ProducerStep /\ UNCHANGED outVars)
  /\ \A c \in Readers : WF_pipeVars(In!ReaderStep(c) /\ UNCHANGED outVars)
  /\ WF_pipeVars(In!UnmarshallerStep /\ UNCHANGED outVars)
  /\ WF_pipeVars(BlpStep)

FairSpec == Spec /\ Fairness

-----------------------------------------------------------------------------
TypeOK == In!TypeOK /\ Out!TypeOK


\* Every event that is not yet published belongs to the one command the BLP ran
\* last and carries the timestamp of that message, although the input sequence
\* has moved on and the slot may hold a later message by now.
OneCommandAhead ==
  /\ \A i \in 1..Len(pending) : pending[i].of = seq[In!Blp]
  /\ pending # <<>> => stamp = seq[In!Blp]

\* The consumer reads the outcome of every command once: events in the order
\* of the messages and, within a message, in the order they were emitted, each
\* with its message's timestamp; none is missing once the pipeline is empty.
OutcomesInOrder ==
  LET Of(i)  == delivered[i].event.of
      Nth(i) == delivered[i].event.nth
  IN /\ \A i \in 1..Len(delivered) :
          /\ delivered[i].timestamp = Of(i)
          /\ handled[Of(i) + 1] # Null
          /\ IF i > 1 /\ Of(i-1) = Of(i) THEN Nth(i) = Nth(i-1) + 1
                                         ELSE Nth(i) = 1 /\ (i > 1 => Of(i-1) < Of(i))
     /\ LoopHead /\ gatingSequence = outputSequence =>
          \A k \in 1..Len(handled) :
            handled[k] # Null <=> \E i \in 1..Len(delivered) : Of(i) = k - 1

\* The messages the BLP has passed over for want of a command.
Skipped == {k \in 1..Len(handled) : handled[k] = Null}

\* A slow consumer stops the client: messages accepted and not skipped exceed
\* the events read by at most the two rings and the command in the BLP.
EndToEndBackpressure ==
  nextSeq - Cardinality(Skipped) <= Out!NextRead + OutCapacity + 1 + InCapacity

ConsumerRuns  == WF_pipeVars(Downstream)
ConsumerStops == <>[][FALSE]_<<outPc, gatingSequence, delivered>>

\* Every message published is handled and all its events are read, however
\* slow the consumer and however often either ring was full.
AllOut ==
  ConsumerRuns => <>[](Len(handled) = Total /\ pending = <<>> /\ Len(delivered) = Len(emitted))

\* The output ring takes what there is.
AllPublished ==
  Len(handled) = Total /\ pending = <<>> /\ outputSequence - gatingSequence <= OutCapacity

\* It does not: the BLP spins in publish_output and a client that has more to
\* send in claim_next.
Stalled ==
  /\ pubPc = "gate" /\ ~Out!HasRoom
  /\ nextSeq < Total => In!At(In!Producer, "claim") /\ ~In!GateOpen(nextSeq)

\* Without an OutputConsumer, as main() wires the pipeline, or with one that
\* stops, wherever in its loop, nothing is overwritten and nothing goes on:
\* either the output ring holds all events that are still to be read, or BLP
\* and client spin for ever.
ClientStalls == ConsumerStops => <>[]AllPublished \/ <>[]Stalled

=============================================================================
