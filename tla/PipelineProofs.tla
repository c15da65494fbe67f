--------------------------- MODULE PipelineProofs ---------------------------
(***************************************************************************)
(* The two rings keep, inside the pipeline, everything that is proved about  *)
(* each of them alone: every step of the pipeline is a step or a stutter of  *)
(* either ring.  InP and OutP give the theorems of the two proof modules;    *)
(* the "Same" lemmas say that what they speak about is what In speaks about. *)
(***************************************************************************)
EXTENDS Pipeline, SequenceTheorems, FiniteSetTheorems, TLAPS

InP == INSTANCE InputRingProofs WITH Capacity <- InCapacity

OutP == INSTANCE OutputRingProofs WITH
  Capacity <- OutCapacity, Events <- Event, Stamps <- Nat,
  MaxEvents <- Total * EventBufferLen

LEMMA InAssumption == InP!InputRingAssumption
BY PipelineAssumption
   DEF In!InputRingAssumption, InP!InputRingAssumption, In!Stage1, InP!Stage1,
       In!Slot, InP!Slot, In!Unmarshaller, InP!Unmarshaller

LEMMA OutAssumption == OutP!OutputRingAssumption
BY PipelineAssumption
   DEF Out!OutputRingAssumption, OutP!OutputRingAssumption, Out!OutputSlot, OutP!OutputSlot

-----------------------------------------------------------------------------
(* Every step of the pipeline, seen from the input ring.                    *)

LEMMA SameNames ==
  /\ In!Producer = InP!Producer /\ In!Unmarshaller = InP!Unmarshaller /\ In!Blp = InP!Blp
  /\ In!Stage1 = InP!Stage1 /\ In!Consumers = InP!Consumers /\ In!Threads = InP!Threads
  /\ In!Slot = InP!Slot /\ In!vars = InP!vars
  /\ \A c : In!NextOf(c) = InP!NextOf(c)
BY DEF In!Producer, InP!Producer, In!Unmarshaller, InP!Unmarshaller, In!Blp, InP!Blp,
       In!Stage1, InP!Stage1, In!Consumers, InP!Consumers, In!Threads, InP!Threads,
       In!Slot, InP!Slot, In!vars, InP!vars, In!NextOf, InP!NextOf

LEMMA SameProducer == In!ProducerStep <=> InP!ProducerStep
BY DEF In!ProducerStep, InP!ProducerStep, In!ClaimNext, InP!ClaimNext,
       In!WriteSlot, InP!WriteSlot, In!StoreCursor, InP!StoreCursor,
       In!Publish, InP!Publish, In!At, InP!At, In!Claimed, InP!Claimed,
       In!GateOpen, InP!GateOpen, In!Idx, InP!Idx,
       In!Producer, InP!Producer, In!Blp, InP!Blp

LEMMA SameWait == \A c : In!Wait(c) <=> InP!Wait(c)
BY DEF In!Wait, InP!Wait, In!ScanDependency, InP!ScanDependency, In!Rescan, InP!Rescan,
       In!DependencyReady, InP!DependencyReady, In!Deps, InP!Deps, In!NextOf, InP!NextOf,
       In!At, InP!At, In!Producer, InP!Producer, In!Blp, InP!Blp

LEMMA SameReader == \A c : In!ReaderStep(c) <=> InP!ReaderStep(c)
BY SameWait, SameNames
   DEF In!ReaderStep, InP!ReaderStep, In!ReadSlot, InP!ReadSlot, In!Advance, InP!Advance,
       In!At, InP!At

LEMMA SameUnmarshaller == In!UnmarshallerStep <=> InP!UnmarshallerStep
BY SameWait, SameNames
   DEF In!UnmarshallerStep, InP!UnmarshallerStep, In!Unmarshal, InP!Unmarshal,
       In!Advance, InP!Advance, In!ParseOf, InP!ParseOf, In!Idx, InP!Idx, In!At, InP!At

LEMMA SameBlp ==
  /\ In!BlpCapture <=> InP!BlpCapture
  /\ In!BlpAdvance <=> InP!BlpAdvance
BY SameNames
   DEF In!BlpCapture, InP!BlpCapture, In!BlpAdvance, InP!BlpAdvance,
       In!Idx, InP!Idx, In!At, InP!At

LEMMA StepInput == [Next]_pipeVars => [InP!Next]_(InP!vars)
<1> SUFFICES ASSUME [Next]_pipeVars PROVE [InP!Next]_(InP!vars)
  OBVIOUS
<1>1. UNCHANGED inVars => UNCHANGED InP!vars
  BY DEF inVars, InP!vars
<1>2. CASE Upstream
  BY <1>2, SameProducer, SameReader, SameUnmarshaller DEF Upstream, InP!Next
<1>3. CASE BlpStep
  BY <1>1, <1>3, SameWait, SameBlp, SameNames
     DEF BlpStep, BlpTake, BlpSkip, BlpFinish, BlpPublish, InP!Next, InP!BlpStep
<1>4. CASE Downstream
  BY <1>1, <1>4 DEF Downstream
<1>5. CASE UNCHANGED pipeVars
  BY <1>1, <1>5 DEF pipeVars
<1> QED
  BY <1>2, <1>3, <1>4, <1>5 DEF Next, Drained

LEMMA InitInput == Init => InP!Init
BY SameNames DEF Init, In!Init, InP!Init

\* The pipeline runs the input ring by its rules: whatever it does downstream,
\* the producer, the first-stage threads and the BLP take the steps of InputRing.
THEOREM SpecInput == Spec => InP!Spec
BY InitInput, StepInput, PTL DEF Spec, InP!Spec

LEMMA InputInvariant == Spec => []InP!IInv
BY SpecInput, InAssumption, InP!SpecIInv, PTL

LEMMA SameSafety ==
  /\ InP!RaceFree <=> In!RaceFree
  /\ InP!FreshSlot <=> In!FreshSlot
  /\ InP!BlpAfterStage1 <=> In!BlpAfterStage1
  /\ InP!Backpressure <=> In!Backpressure
<1>1. \A t : InP!InSlot(t) <=> In!InSlot(t)
  BY SameNames DEF In!InSlot, InP!InSlot, In!At, InP!At
<1>2. \A t : InP!SlotOf(t) = In!SlotOf(t)
  BY SameNames DEF In!SlotOf, InP!SlotOf, In!Claimed, InP!Claimed, In!Idx, InP!Idx
<1>3. \A t : InP!Written(t) = In!Written(t) /\ InP!ReadBy(t) = In!ReadBy(t)
  BY SameNames DEF In!Written, InP!Written, In!ReadBy, InP!ReadBy
<1>4. InP!RaceFree <=> In!RaceFree
  BY <1>1, <1>2, <1>3, SameNames, Zenon DEF In!RaceFree, InP!RaceFree
<1>5. InP!FreshSlot <=> In!FreshSlot
  BY <1>1, SameNames DEF In!FreshSlot, InP!FreshSlot, In!Idx, InP!Idx
<1>6. InP!BlpAfterStage1 <=> In!BlpAfterStage1
  BY <1>1, SameNames DEF In!BlpAfterStage1, InP!BlpAfterStage1
<1>7. InP!Backpressure <=> In!Backpressure
  BY SameNames DEF In!Backpressure, InP!Backpressure
<1> QED
  BY <1>4, <1>5, <1>6, <1>7

\* In the whole pipeline the plain-memory accesses to input slots are free of
\* data races, every consumer finds the message it waited for, the BLP comes
\* after the first stage and the producer stays within a lap.
THEOREM SpecInputSafe ==
  Spec => [](In!RaceFree /\ In!FreshSlot /\ In!BlpAfterStage1 /\ In!Backpressure)
BY SpecInput, SameSafety, InAssumption, InP!SpecRaceFree, InP!SpecFreshSlot,
   InP!SpecBlpAfterStage1, InP!SpecBackpressure, PTL

-----------------------------------------------------------------------------
(* Every step of the pipeline, seen from the output ring.                   *)

LEMMA SameOut ==
  /\ Out!PublisherStep <=> OutP!PublisherStep
  /\ Out!ConsumerStep <=> OutP!ConsumerStep
  /\ \A events, ts : Out!Emit(events, ts) <=> OutP!Emit(events, ts)
  /\ Out!Init <=> OutP!Init
BY DEF Out!PublisherStep, OutP!PublisherStep, Out!PassGate, OutP!PassGate,
       Out!FillSlot, OutP!FillSlot, Out!PublishOut, OutP!PublishOut,
       Out!ConsumerStep, OutP!ConsumerStep, Out!AwaitOutput, OutP!AwaitOutput,
       Out!ReadOutput, OutP!ReadOutput, Out!AdvanceGate, OutP!AdvanceGate,
       Out!Emit, OutP!Emit, Out!Init, OutP!Init, Out!HasRoom, OutP!HasRoom,
       Out!Available, OutP!Available, Out!NextOut, OutP!NextOut,
       Out!NextRead, OutP!NextRead, Out!Idx, OutP!Idx

\* What the BLP hands over for a command: at most EventBufferLen events, of the
\* message it is at, with the timestamp of that message.
LEMMA HandOver ==
  ASSUME NEW n \in 1..MaxEmitted, InP!IInv, InP!IInv', In!BlpAdvance
  PROVE  /\ EventsOf(In!NextOf(In!Blp), n) \in OutP!Batches
         /\ Len(EventsOf(In!NextOf(In!Blp), n)) >= 1
         /\ \A k \in 1..Len(EventsOf(In!NextOf(In!Blp), n)) :
              EventsOf(In!NextOf(In!Blp), n)[k].of = seq[In!Blp] + 1
         /\ captured.ts = seq[In!Blp] + 1 /\ captured.ts \in Nat
         /\ seq'[In!Blp] = seq[In!Blp] + 1
         /\ seq[In!Blp] \in Int /\ seq[In!Blp] >= -1
<1>1. /\ In!Blp \in In!Threads /\ In!Blp \in In!Consumers
  BY DEF In!Threads, In!Consumers
<1>2. seq \in [In!Threads -> -1..Total-1] /\ seq' \in [In!Threads -> -1..Total-1]
  BY SameNames DEF InP!IInv, InP!TypeOK
<1>3. seq'[In!Blp] = seq[In!Blp] + 1
  BY <1>1, <1>2 DEF In!BlpAdvance, In!NextOf
<1>4. EventBufferLen \in Nat \ {0} /\ Total \in Nat /\ MaxEmitted \in Nat
  BY PipelineAssumption DEF In!InputRingAssumption, Out!OutputRingAssumption
<1>5. seq[In!Blp] + 1 \in 0..Total-1
  BY <1>1, <1>2, <1>3, <1>4
<1>6. Kept(n) \in 1..EventBufferLen
  BY <1>4 DEF Kept
<1>7. EventsOf(In!NextOf(In!Blp), n) = [k \in 1..Kept(n) |-> [of |-> seq[In!Blp] + 1, nth |-> k]]
  BY DEF EventsOf, In!NextOf
<1>8. EventsOf(In!NextOf(In!Blp), n) \in [1..Kept(n) -> Event]
  BY <1>4, <1>5, <1>6, <1>7 DEF Event
<1>9. EventsOf(In!NextOf(In!Blp), n) \in OutP!Batches
  BY <1>4, <1>6, <1>8 DEF OutP!Batches
<1>10. Len(EventsOf(In!NextOf(In!Blp), n)) = Kept(n)
  BY <1>4, <1>6, <1>7
<1>11. captured.ts = seq[In!Blp] + 1
  BY SameNames DEF InP!IInv, InP!CapturedRight, In!BlpAdvance, In!At, InP!NextOf
<1> QED
  BY <1>1, <1>2, <1>3, <1>4, <1>5, <1>6, <1>7, <1>9, <1>10, <1>11

LEMMA StepOutput == InP!IInv /\ InP!IInv' /\ [Next]_pipeVars => [OutP!Next]_(OutP!outVars)
<1> SUFFICES ASSUME InP!IInv, InP!IInv', [Next]_pipeVars PROVE [OutP!Next]_(OutP!outVars)
  OBVIOUS
<1>1. UNCHANGED outVars => UNCHANGED OutP!outVars
  BY DEF outVars, OutP!outVars
<1>2. CASE Upstream
  BY <1>1, <1>2 DEF Upstream
<1>3. CASE BlpTake \/ BlpSkip
  BY <1>1, <1>3 DEF BlpTake, BlpSkip
<1>4. ASSUME NEW n \in 1..MaxEmitted, BlpFinish(n) PROVE OutP!Next
  <2>1. OutP!Emit(EventsOf(In!NextOf(In!Blp), n), captured.ts)
    BY <1>4, SameOut DEF BlpFinish
  <2> QED
    BY <1>4, <2>1, HandOver DEF BlpFinish, OutP!Next
<1>5. CASE BlpPublish \/ Downstream
  BY <1>5, SameOut DEF BlpPublish, Downstream, OutP!Next
<1>6. CASE UNCHANGED pipeVars
  BY <1>1, <1>6 DEF pipeVars
<1> QED
  BY <1>2, <1>3, <1>4, <1>5, <1>6 DEF Next, BlpStep, Drained

\* The pipeline runs the output ring by its rules: what the BLP hands over is
\* what OutputRing lets a command hand over.
THEOREM SpecOutput == Spec => OutP!Spec
<1>1. Init => OutP!Init
  BY SameOut DEF Init
<1> QED
  BY <1>1, StepOutput, InputInvariant, PTL DEF Spec, OutP!Spec

LEMMA OutputInvariant == Spec => []OutP!IInv
BY SpecOutput, OutAssumption, OutP!SpecIInv, PTL

LEMMA SameOutSafety ==
  /\ OutP!NoOverwrite <=> Out!NoOverwrite
  /\ OutP!NothingLost <=> Out!NothingLost
BY DEF OutP!NoOverwrite, Out!NoOverwrite, OutP!NothingLost, Out!NothingLost,
       OutP!NextRead, Out!NextRead, OutP!NextOut, Out!NextOut, OutP!Idx, Out!Idx

\* In the whole pipeline no event slot is overwritten before it is read, and
\* every event a command emitted (up to the length of the event array) is read,
\* in the ring or still with the BLP, in order.
THEOREM SpecOutputSafe == Spec => [](Out!NoOverwrite /\ Out!NothingLost)
BY SpecOutput, SameOutSafety, OutAssumption, OutP!SpecNoOverwrite, OutP!SpecNothingLost, PTL

-----------------------------------------------------------------------------
(* What relates the two rings.                                              *)

\* Every command that was not skipped has left at least one event, and all of
\* them are published but those of the last.
Outcomes ==
  Len(handled) - Cardinality(Skipped) <= outputSequence + 1 + (IF pending = <<>> THEN 0 ELSE 1)

PipeInv == OneCommandAhead /\ Outcomes

\* What the invariants of the two rings give to the steps below.
LEMMA Known ==
  ASSUME InP!IInv, OutP!IInv
  PROVE  /\ In!Blp \in In!Threads /\ seq[In!Blp] \in Int /\ seq[In!Blp] >= -1
         /\ handled \in Seq(Messages \cup {Null})
         /\ Len(handled) = seq[In!Blp] + 1
         /\ nextSeq \in Int /\ nextSeq <= Len(handled) + InCapacity
         /\ pending \in Seq(Event) /\ (pubPc = "idle" <=> pending = <<>>)
         /\ outputSequence \in Int /\ gatingSequence \in Int
         /\ outputSequence - gatingSequence <= OutCapacity
         /\ InCapacity \in Nat /\ OutCapacity \in Nat
<1>1. In!Blp \in In!Threads
  BY DEF In!Threads, In!Consumers
<1>2. /\ seq \in [In!Threads -> -1..Total-1] /\ handled \in Seq(Messages \cup {Null})
      /\ nextSeq \in 0..Total
  BY SameNames DEF InP!IInv, InP!TypeOK
<1>3. Total \in Nat /\ InCapacity \in Nat /\ OutCapacity \in Nat
  BY PipelineAssumption DEF In!InputRingAssumption, Out!OutputRingAssumption
<1>4. Len(handled) = seq[In!Blp] + 1
  BY SameNames DEF InP!IInv, InP!InOrderDelivery, InP!NextOf
<1>5. nextSeq - 1 <= seq[In!Blp] + InCapacity
  BY SameNames DEF InP!IInv, InP!Ordered
<1>6. /\ pending \in Seq(Event) /\ (pubPc = "idle" <=> pending = <<>>)
      /\ outputSequence \in Int /\ gatingSequence \in Int
      /\ outputSequence - gatingSequence <= OutCapacity
  BY DEF OutP!IInv, OutP!TypeOK, OutP!Gated
<1>7. seq[In!Blp] \in -1..Total-1
  BY <1>1, <1>2
<1> QED
  BY <1>1, <1>2, <1>3, <1>4, <1>5, <1>6, <1>7

LEMMA SkippedCount ==
  ASSUME handled \in Seq(Messages \cup {Null})
  PROVE  IsFiniteSet(Skipped) /\ Cardinality(Skipped) \in Nat
<1>1. IsFiniteSet(1..Len(handled))
  BY FS_Interval
<1>2. Skipped \subseteq 1..Len(handled)
  BY DEF Skipped
<1> QED
  BY <1>1, <1>2, FS_Subset, FS_CardinalityType

\* One more message handled is one more skipped, or as many.
LEMMA SkippedGrows ==
  ASSUME handled \in Seq(Messages \cup {Null}), NEW c \in Messages \cup {Null},
         handled' = Append(handled, c)
  PROVE  /\ Len(handled') = Len(handled) + 1
         /\ Cardinality(Skipped') = Cardinality(Skipped) + (IF c = Null THEN 1 ELSE 0)
<1>1. Len(handled') = Len(handled) + 1 /\ Len(handled) \in Nat
  OBVIOUS
<1>2. \A k \in 1..Len(handled)+1 :
        handled'[k] = IF k = Len(handled) + 1 THEN c ELSE handled[k]
  OBVIOUS
<1>3. CASE c = Null
  <2>1. Skipped' = Skipped \cup {Len(handled) + 1}
    BY <1>1, <1>2, <1>3 DEF Skipped
  <2>2. Len(handled) + 1 \notin Skipped
    BY <1>1 DEF Skipped
  <2> QED
    BY <1>1, <1>3, <2>1, <2>2, SkippedCount, FS_AddElement
<1>4. CASE c # Null
  <2>1. Skipped' = Skipped
    BY <1>1, <1>2, <1>4 DEF Skipped
  <2> QED
    BY <1>1, <1>4, <2>1, SkippedCount
<1> QED
  BY <1>3, <1>4

LEMMA InitPipeInv == Init => PipeInv
<1> SUFFICES ASSUME Init PROVE PipeInv
  OBVIOUS
<1>1. pending = <<>> /\ handled = <<>> /\ outputSequence = -1
  BY DEF Init, In!Init, Out!Init
<1>2. Skipped = {}
  BY <1>1 DEF Skipped
<1> QED
  BY <1>1, <1>2, FS_EmptySet DEF PipeInv, OneCommandAhead, Outcomes

LEMMA StepPipeInv ==
  InP!IInv /\ InP!IInv' /\ OutP!IInv /\ PipeInv /\ [Next]_pipeVars => PipeInv'
<1> SUFFICES ASSUME InP!IInv, InP!IInv', OutP!IInv, PipeInv, [Next]_pipeVars PROVE PipeInv'
  OBVIOUS
<1> USE DEF PipeInv
\* Steps that leave the BLP's sequence and the output alone.
<1>1. ASSUME seq'[In!Blp] = seq[In!Blp],
             UNCHANGED <<handled, pending, stamp, outputSequence>>
      PROVE  PipeInv'
  BY <1>1 DEF OneCommandAhead, Outcomes, Skipped
<1>2. CASE Upstream
  <2>1. UNCHANGED <<handled, pending, stamp, outputSequence>>
    BY <1>2 DEF Upstream, outVars, In!ProducerStep, In!ClaimNext, In!WriteSlot,
                In!StoreCursor, In!Publish, In!ReaderStep, In!UnmarshallerStep, In!Wait,
                In!ScanDependency, In!Rescan, In!ReadSlot, In!Unmarshal, In!Advance
  <2>2. seq'[In!Blp] = seq[In!Blp]
    <3>1. In!Blp # In!Producer /\ In!Blp # In!Unmarshaller /\ In!Blp \notin Readers
      BY PipelineAssumption
         DEF In!InputRingAssumption, In!Blp, In!Producer, In!Unmarshaller
    <3>2. seq \in [In!Threads -> -1..Total-1] /\ In!Blp \in In!Threads
      BY SameNames, Known DEF InP!IInv, InP!TypeOK
    <3> QED
      BY <1>2, <3>1, <3>2
         DEF Upstream, In!ProducerStep, In!ClaimNext, In!WriteSlot,
             In!StoreCursor, In!Publish, In!ReaderStep, In!UnmarshallerStep, In!Wait,
             In!ScanDependency, In!Rescan, In!ReadSlot, In!Unmarshal, In!Advance
  <2> QED
    BY <1>1, <2>1, <2>2
<1>3. CASE BlpTake
  BY <1>1, <1>3 DEF BlpTake, outVars, In!Wait, In!ScanDependency, In!Rescan, In!BlpCapture
<1>4. CASE BlpSkip
  <2>1. pending = <<>> /\ UNCHANGED <<pending, stamp, outputSequence>>
    BY <1>4, Known DEF BlpSkip, LoopHead, outVars
  <2>2. handled' = Append(handled, Null)
    BY <1>4 DEF BlpSkip, In!BlpAdvance
  <2>3. /\ Len(handled') = Len(handled) + 1 /\ Len(handled) \in Nat
        /\ Cardinality(Skipped') = Cardinality(Skipped) + 1 /\ Cardinality(Skipped) \in Nat
    BY SMTT(30), <2>2, Known, SkippedGrows, SkippedCount
  <2> QED
    BY <2>1, <2>3, Known DEF OneCommandAhead, Outcomes
<1>5. ASSUME NEW n \in 1..MaxEmitted, BlpFinish(n) PROVE PipeInv'
  <2>1. /\ pending = <<>> /\ pending' = EventsOf(In!NextOf(In!Blp), n)
        /\ stamp' = captured.ts /\ outputSequence' = outputSequence
    BY <1>5, Known DEF BlpFinish, Out!Emit
  <2>2. /\ handled' = Append(handled, captured.cmd) /\ captured.cmd # Null
        /\ captured.cmd \in Messages \cup {Null}
    BY <1>5 DEF BlpFinish, In!BlpAdvance, InP!IInv, InP!TypeOK
  <2>3. /\ Len(handled') = Len(handled) + 1 /\ Len(handled) \in Nat
        /\ Cardinality(Skipped') = Cardinality(Skipped) /\ Cardinality(Skipped) \in Nat
    <3>1. handled \in Seq(Messages \cup {Null})
      BY Known
    <3>2. Cardinality(Skipped) \in Nat /\ Len(handled) \in Nat
      BY <3>1, SkippedCount
    <3>3. /\ Len(handled') = Len(handled) + 1
          /\ Cardinality(Skipped') = Cardinality(Skipped) + 0
      BY <2>2, <3>1, SkippedGrows
    <3> QED
      BY <3>2, <3>3
  <2>4. pending' # <<>>
    BY <1>5, <2>1, HandOver DEF BlpFinish
  <2>5. Outcomes'
    BY <2>1, <2>3, <2>4, Known DEF Outcomes
  <2>6. OneCommandAhead'
    BY <1>5, <2>1, HandOver DEF BlpFinish, OneCommandAhead
  <2> QED
    BY <2>5, <2>6
<1>6. CASE BlpPublish
  <2>1. UNCHANGED <<seq, handled, stamp>>
    BY <1>6 DEF BlpPublish, inVars, Out!PublisherStep, Out!PassGate, Out!FillSlot, Out!PublishOut
  <2>2. Cardinality(Skipped') = Cardinality(Skipped) /\ Cardinality(Skipped) \in Nat
    BY <2>1, Known, SkippedCount DEF Skipped
  <2>3. CASE Out!PublishOut
    <3>1. /\ pending # <<>> /\ pending' = Tail(pending) /\ outputSequence' = outputSequence + 1
      BY <2>3, Known DEF Out!PublishOut, Out!NextOut
    <3>2. \A i \in 1..Len(pending') : i + 1 \in 1..Len(pending) /\ pending'[i] = pending[i + 1]
      BY <3>1, Known, HeadTailProperties
    <3>3. OneCommandAhead'
      BY <2>1, <3>1, <3>2 DEF OneCommandAhead
    <3>4. Outcomes'
      <4>1. /\ Len(handled) - Cardinality(Skipped) <= outputSequence + 2
            /\ Len(handled) \in Nat /\ outputSequence \in Int
        <5>1. Len(handled) \in Nat /\ outputSequence \in Int
          BY Known
        <5> QED
          BY <2>2, <3>1, <5>1 DEF Outcomes
      <4>2. Len(handled') - Cardinality(Skipped') <= outputSequence' + 1
        BY <2>1, <2>2, <3>1, <4>1
      <4>3. /\ Len(handled') - Cardinality(Skipped') \in Int /\ outputSequence' \in Int
        BY <2>1, <2>2, <3>1, <4>1
      <4> QED
        BY <4>2, <4>3 DEF Outcomes
    <3> QED
      BY <3>3, <3>4
  <2>4. CASE Out!PassGate \/ Out!FillSlot
    BY <1>1, <2>1, <2>4 DEF Out!PassGate, Out!FillSlot
  <2> QED
    BY <1>6, <2>3, <2>4 DEF BlpPublish, Out!PublisherStep
<1>7. CASE Downstream
  BY <1>1, <1>7 DEF Downstream, inVars, Out!ConsumerStep, Out!AwaitOutput, Out!ReadOutput, Out!AdvanceGate
<1>8. CASE UNCHANGED pipeVars
  BY <1>1, <1>8 DEF pipeVars, inVars, outVars
<1> QED
  BY <1>2, <1>3, <1>4, <1>5, <1>6, <1>7, <1>8 DEF Next, BlpStep, Drained

LEMMA PipeInvariant == Spec => []PipeInv
BY InitPipeInv, StepPipeInv, InputInvariant, OutputInvariant, PTL DEF Spec

\* The events the BLP still holds are of the message it handled last and carry
\* its timestamp, although the producer may have reused its slot.
THEOREM SpecOneCommandAhead == Spec => []OneCommandAhead
BY PipeInvariant, PTL DEF PipeInv

\* A consumer that lags stops the client after two rings and one command.
THEOREM SpecEndToEndBackpressure == Spec => []EndToEndBackpressure
<1>1. ASSUME InP!IInv, OutP!IInv, PipeInv PROVE EndToEndBackpressure
  <2>1. /\ nextSeq \in Int /\ nextSeq <= Len(handled) + InCapacity /\ Len(handled) \in Int
        /\ outputSequence \in Int /\ gatingSequence \in Int
        /\ outputSequence - gatingSequence <= OutCapacity
        /\ InCapacity \in Nat /\ OutCapacity \in Nat
    BY <1>1, Known
  <2>2. Cardinality(Skipped) \in Nat
    BY <1>1, Known, SkippedCount
  <2>3. Len(handled) - Cardinality(Skipped) <= outputSequence + 2
    BY <1>1, <2>1, <2>2 DEF PipeInv, Outcomes
  <2> QED
    BY <2>1, <2>2, <2>3 DEF EndToEndBackpressure, Out!NextRead
<1> QED
  BY <1>1, InputInvariant, OutputInvariant, PipeInvariant, PTL

-----------------------------------------------------------------------------
(* The types, and the outcomes in the order of the messages.                *)

LEMMA SameTypes == (InP!TypeOK <=> In!TypeOK) /\ (OutP!TypeOK <=> Out!TypeOK)
<1>1. \A c : InP!Deps(c) = In!Deps(c)
  BY SameNames DEF In!Deps, InP!Deps
<1>2. InP!TypeOK <=> In!TypeOK
  BY <1>1, SameNames DEF In!TypeOK, InP!TypeOK, In!Places, InP!Places
<1>3. OutP!TypeOK <=> Out!TypeOK
  BY DEF Out!TypeOK, OutP!TypeOK, Out!OutputSlot, OutP!OutputSlot
<1> QED
  BY <1>2, <1>3

\* The threads of the pipeline keep slots, sequences and the event array in
\* their types and lengths.
THEOREM SpecTypeOK == Spec => []TypeOK
<1>1. InP!IInv => InP!TypeOK
  BY DEF InP!IInv
<1>2. OutP!IInv => OutP!TypeOK
  BY DEF OutP!IInv
<1> QED
  BY <1>1, <1>2, SameTypes, InputInvariant, OutputInvariant, PTL DEF TypeOK

\* An event of the history, next to the one before it.
Follows(i) ==
  IF i > 1 /\ emitted[i-1].event.of = emitted[i].event.of
  THEN emitted[i].event.nth = emitted[i-1].event.nth + 1
  ELSE emitted[i].event.nth = 1 /\ (i > 1 => emitted[i-1].event.of < emitted[i].event.of)

\* What OutcomesInOrder says of the events read holds of all that were emitted.
EmittedInOrder ==
  /\ \A i \in 1..Len(emitted) :
       /\ emitted[i].event.of \in 0..Len(handled)-1
       /\ emitted[i].timestamp = emitted[i].event.of
       /\ handled[emitted[i].event.of + 1] # Null
       /\ Follows(i)
  /\ \A k \in 1..Len(handled) : handled[k] # Null =>
       \E i \in 1..Len(emitted) : emitted[i].event.of = k - 1

\* The events of one command, all the events there are, and the order in which
\* they are appended.
LEMMA OutcomesAppended ==
  ASSUME NEW n \in 1..MaxEmitted, InP!IInv, InP!IInv', OutP!IInv, EmittedInOrder, BlpFinish(n)
  PROVE  EmittedInOrder'
<1> DEFINE old == Len(emitted)
           msg == Len(handled)
           new == Kept(n)
<1>1. /\ old \in Nat /\ msg \in Nat /\ new \in Nat /\ new >= 1
      /\ emitted \in Seq(OutP!OutputSlot) /\ handled \in Seq(Messages \cup {Null})
  <2>1. emitted \in Seq(OutP!OutputSlot)
    BY DEF OutP!IInv, OutP!TypeOK
  <2>2. EventBufferLen \in Nat \ {0} /\ MaxEmitted \in Nat
    BY PipelineAssumption DEF Out!OutputRingAssumption
  <2> QED
    BY SMTT(30), <2>1, <2>2, Known DEF Kept
<1>2. /\ seq[In!Blp] + 1 = msg /\ captured.ts = msg /\ captured.cmd # Null
      /\ handled' = Append(handled, captured.cmd)
  <2>1. captured.ts = seq[In!Blp] + 1
    BY HandOver DEF BlpFinish
  <2> QED
    BY <2>1, Known DEF BlpFinish, In!BlpAdvance
<1>3. EventsOf(In!NextOf(In!Blp), n) = [k \in 1..new |-> [of |-> msg, nth |-> k]]
  BY <1>2 DEF EventsOf, In!NextOf
<1>4. emitted' = emitted \o [k \in 1..new |-> [event |-> [of |-> msg, nth |-> k], timestamp |-> msg]]
  <2> DEFINE events == [k \in 1..new |-> [of |-> msg, nth |-> k]]
  <2>1. Len(events) = new /\ \A k \in 1..new : events[k] = [of |-> msg, nth |-> k]
    BY <1>1
  <2>2. emitted' = emitted \o [k \in 1..Len(events) |-> [event |-> events[k], timestamp |-> msg]]
    BY <1>2, <1>3 DEF BlpFinish, Out!Emit
  <2> HIDE DEF events
  <2> QED
    BY <2>1, <2>2
<1>5. /\ Len(emitted') = old + new
      /\ \A i \in 1..old : emitted'[i] = emitted[i]
      /\ \A i \in old+1..old+new :
           emitted'[i] = [event |-> [of |-> msg, nth |-> i - old], timestamp |-> msg]
  <2> DEFINE batch == [k \in 1..new |-> [event |-> [of |-> msg, nth |-> k], timestamp |-> msg]]
           S == OutP!OutputSlot \cup {batch[k] : k \in 1..new}
  <2>1. batch \in Seq(S) /\ emitted \in Seq(S) /\ Len(batch) = new
    <3>1. batch \in [1..new -> S]
      OBVIOUS
    <3>2. batch \in Seq(S) /\ Len(batch) = new
      BY <1>1, <3>1
    <3> HIDE DEF S
    <3>3. OutP!OutputSlot \subseteq S
      BY DEF S
    <3>4. \A i \in 1..old : emitted[i] \in S
      BY <1>1, <3>3
    <3>5. emitted \in Seq(S)
      BY <1>1, <3>4
    <3> QED
      BY <3>2, <3>5
  <2>2. \A i \in 1..new : batch[i] = [event |-> [of |-> msg, nth |-> i], timestamp |-> msg]
    OBVIOUS
  <2> HIDE DEF batch, S
  <2>3. /\ Len(emitted \o batch) = old + new
        /\ \A i \in 1..old+new :
             (emitted \o batch)[i] = IF i <= old THEN emitted[i] ELSE batch[i - old]
    BY <2>1, ConcatProperties
  <2>4. emitted' = emitted \o batch
    BY <1>4 DEF batch
  <2>5. \A i \in old+1..old+new : i - old \in 1..new /\ ~(i <= old) /\ i \in 1..old+new
    BY <1>1
  <2>6. \A i \in 1..old : i <= old /\ i \in 1..old+new
    BY <1>1
  <2> HIDE DEF old, new, msg
  <2> QED
    BY <2>2, <2>3, <2>4, <2>5, <2>6
<1>6. /\ Len(handled') = msg + 1 /\ handled'[msg + 1] # Null
      /\ \A k \in 1..msg : handled'[k] = handled[k]
  BY <1>1, <1>2
<1> HIDE DEF new
<1>7. ASSUME NEW i \in 1..old
      PROVE  /\ emitted'[i].event.of \in 0..msg-1
             /\ emitted'[i].timestamp = emitted'[i].event.of
             /\ handled'[emitted'[i].event.of + 1] # Null
             /\ Follows(i)'
  <2>1. /\ emitted[i].event.of \in 0..msg-1
        /\ emitted[i].timestamp = emitted[i].event.of
        /\ handled[emitted[i].event.of + 1] # Null
        /\ Follows(i)
    BY DEF EmittedInOrder
  <2>2. emitted'[i] = emitted[i] /\ (i > 1 => emitted'[i-1] = emitted[i-1])
    BY <1>1, <1>5
  <2>3. emitted[i].event.of + 1 \in 1..msg
    BY <1>1, <2>1
  <2> QED
    BY <1>6, <2>1, <2>2, <2>3 DEF Follows
<1>8. ASSUME NEW i \in old+1..old+new
      PROVE  /\ emitted'[i].event.of = msg /\ emitted'[i].event.nth = i - old
             /\ emitted'[i].timestamp = msg
             /\ Follows(i)'
  <2>1. /\ emitted'[i].event.of = msg /\ emitted'[i].event.nth = i - old
        /\ emitted'[i].timestamp = msg
    <3>1. emitted'[i] = [event |-> [of |-> msg, nth |-> i - old], timestamp |-> msg]
      BY <1>5
    <3> HIDE DEF msg, old
    <3> QED
      BY <3>1
  <2>2. CASE i = old + 1
    <3>1. i > 1 => emitted'[i-1].event.of < msg
      BY <1>1, <1>7, <2>2
    <3> QED
      BY <1>1, <2>1, <2>2, <3>1 DEF Follows
  <2>3. CASE i # old + 1
    <3>1. i - 1 \in old+1..old+new /\ i > 1
      BY <1>1, <2>3
    <3>2. emitted'[i-1].event.of = msg /\ emitted'[i-1].event.nth = (i - 1) - old
      <4>1. emitted'[i-1] = [event |-> [of |-> msg, nth |-> (i - 1) - old], timestamp |-> msg]
        BY <1>5, <3>1
      <4> HIDE DEF msg, old
      <4> QED
        BY <4>1
    <3> QED
      BY <1>1, <2>1, <3>1, <3>2 DEF Follows
  <2> QED
    BY <2>1, <2>2, <2>3
<1>9. ASSUME NEW i \in 1..Len(emitted')
      PROVE  /\ emitted'[i].event.of \in 0..Len(handled')-1
             /\ emitted'[i].timestamp = emitted'[i].event.of
             /\ handled'[emitted'[i].event.of + 1] # Null
             /\ Follows(i)'
  <2>1. i \in 1..old \/ i \in old+1..old+new
    BY <1>1, <1>5
  <2>2. CASE i \in 1..old
    <3>1. 0..msg-1 \subseteq 0..Len(handled')-1
      BY <1>1, <1>6
    <3> QED
      BY <1>7, <2>2, <3>1
  <2>3. CASE i \in old+1..old+new
    <3>1. emitted'[i].event.of = msg /\ emitted'[i].timestamp = msg /\ Follows(i)'
      BY <1>8, <2>3
    <3>2. msg \in 0..Len(handled')-1
      BY <1>1, <1>6
    <3> QED
      BY <1>6, <3>1, <3>2
  <2> QED
    BY <2>1, <2>2, <2>3
<1>10. ASSUME NEW k \in 1..Len(handled'), handled'[k] # Null
       PROVE  \E i \in 1..Len(emitted') : emitted'[i].event.of = k - 1
  <2>1. CASE k \in 1..msg
    <3>1. PICK i \in 1..old : emitted[i].event.of = k - 1
      BY <1>6, <1>10, <2>1 DEF EmittedInOrder
    <3>2. i \in 1..Len(emitted') /\ emitted'[i].event.of = k - 1
      BY <1>1, <1>5, <3>1
    <3> QED
      BY <3>2
  <2>2. CASE k = msg + 1
    <3>1. old + 1 \in 1..Len(emitted') /\ old + 1 \in old+1..old+new /\ k - 1 = msg
      BY <1>1, <1>5, <2>2
    <3> QED
      BY <1>8, <3>1
  <2> QED
    BY <1>1, <1>6, <2>1, <2>2
<1> QED
  BY <1>9, <1>10 DEF EmittedInOrder

LEMMA StepEmitted ==
  InP!IInv /\ InP!IInv' /\ OutP!IInv /\ EmittedInOrder /\ [Next]_pipeVars => EmittedInOrder'
<1> SUFFICES ASSUME InP!IInv, InP!IInv', OutP!IInv, EmittedInOrder, [Next]_pipeVars
             PROVE  EmittedInOrder'
  OBVIOUS
<1>1. ASSUME UNCHANGED <<emitted, handled>> PROVE EmittedInOrder'
  BY <1>1 DEF EmittedInOrder, Follows
<1>2. CASE Upstream
  BY <1>1, <1>2 DEF Upstream, outVars, In!ProducerStep, In!ClaimNext, In!WriteSlot,
                    In!StoreCursor, In!Publish, In!ReaderStep, In!UnmarshallerStep, In!Wait,
                    In!ScanDependency, In!Rescan, In!ReadSlot, In!Unmarshal, In!Advance
<1>3. CASE BlpTake
  BY <1>1, <1>3 DEF BlpTake, outVars, In!Wait, In!ScanDependency, In!Rescan, In!BlpCapture
<1>4. CASE BlpSkip
  <2>1. handled' = Append(handled, Null) /\ emitted' = emitted
    BY <1>4 DEF BlpSkip, In!BlpAdvance, outVars
  <2>2. handled \in Seq(Messages \cup {Null}) /\ Len(handled) \in Nat
    BY Known
  <2>3. /\ Len(handled') = Len(handled) + 1 /\ handled'[Len(handled) + 1] = Null
        /\ \A k \in 1..Len(handled) : handled'[k] = handled[k]
    BY <2>1, <2>2
  <2>4. ASSUME NEW i \in 1..Len(emitted)
        PROVE  /\ emitted[i].event.of \in 0..Len(handled')-1
               /\ emitted[i].timestamp = emitted[i].event.of
               /\ handled'[emitted[i].event.of + 1] # Null
               /\ Follows(i)'
    <3>1. /\ emitted[i].event.of \in 0..Len(handled)-1
          /\ emitted[i].timestamp = emitted[i].event.of
          /\ handled[emitted[i].event.of + 1] # Null /\ Follows(i)
      BY DEF EmittedInOrder
    <3>2. emitted[i].event.of + 1 \in 1..Len(handled)
      BY <2>2, <3>1
    <3>3. Follows(i)'
      BY <2>1, <3>1 DEF Follows
    <3> QED
      BY <2>2, <2>3, <3>1, <3>2, <3>3
  <2>5. ASSUME NEW k \in 1..Len(handled'), handled'[k] # Null
        PROVE  \E i \in 1..Len(emitted) : emitted[i].event.of = k - 1
    <3>1. k \in 1..Len(handled) /\ handled[k] # Null
      BY <2>2, <2>3, <2>5
    <3> QED
      BY <3>1 DEF EmittedInOrder
  <2> QED
    BY <2>1, <2>4, <2>5 DEF EmittedInOrder
<1>5. ASSUME NEW n \in 1..MaxEmitted, BlpFinish(n) PROVE EmittedInOrder'
  BY <1>5, OutcomesAppended
<1>6. CASE BlpPublish
  BY <1>1, <1>6 DEF BlpPublish, inVars, Out!PublisherStep, Out!PassGate, Out!FillSlot,
                    Out!PublishOut
<1>7. CASE Downstream
  BY <1>1, <1>7 DEF Downstream, inVars, Out!ConsumerStep, Out!AwaitOutput, Out!ReadOutput,
                    Out!AdvanceGate
<1>8. CASE UNCHANGED pipeVars
  BY <1>1, <1>8 DEF pipeVars, inVars, outVars
<1> QED
  BY <1>2, <1>3, <1>4, <1>5, <1>6, <1>7, <1>8 DEF Next, BlpStep, Drained

LEMMA EmittedInvariant == Spec => []EmittedInOrder
<1>1. Init => EmittedInOrder
  <2> SUFFICES ASSUME Init PROVE EmittedInOrder
    OBVIOUS
  <2>1. emitted = <<>> /\ handled = <<>>
    BY DEF Init, In!Init, Out!Init
  <2> QED
    BY <2>1 DEF EmittedInOrder
<1> QED
  BY <1>1, StepEmitted, InputInvariant, OutputInvariant, PTL DEF Spec

LEMMA EmittedDelivered ==
  ASSUME InP!IInv, OutP!IInv, EmittedInOrder
  PROVE  OutcomesInOrder
<1>1. /\ Len(delivered) \in Nat /\ Len(emitted) \in Nat /\ Len(delivered) <= Len(emitted)
      /\ \A k \in 1..Len(delivered) : delivered[k] = emitted[k]
      /\ handled \in Seq(Messages \cup {Null}) /\ Len(handled) \in Nat
  BY SMTT(30), Known DEF OutP!IInv, OutP!TypeOK, OutP!DeliveredInOrder
<1>2. ASSUME NEW i \in 1..Len(delivered)
      PROVE  /\ delivered[i].timestamp = delivered[i].event.of
             /\ handled[delivered[i].event.of + 1] # Null
             /\ IF i > 1 /\ delivered[i-1].event.of = delivered[i].event.of
                THEN delivered[i].event.nth = delivered[i-1].event.nth + 1
                ELSE /\ delivered[i].event.nth = 1
                     /\ i > 1 => delivered[i-1].event.of < delivered[i].event.of
  <2>1. i \in 1..Len(emitted) /\ delivered[i] = emitted[i]
        /\ (i > 1 => delivered[i-1] = emitted[i-1])
    BY <1>1
  <2> QED
    BY <2>1 DEF EmittedInOrder, Follows
<1>3. ASSUME LoopHead, gatingSequence = outputSequence, NEW k \in 1..Len(handled)
      PROVE  handled[k] # Null <=> \E i \in 1..Len(delivered) : delivered[i].event.of = k - 1
  <2>1. Len(delivered) = Len(emitted)
    <3>1. pending = <<>> /\ gatingSequence \in Int
      BY <1>3, Known DEF LoopHead
    <3>2. Len(emitted) = outputSequence + 1 + 0 /\ Len(delivered) >= gatingSequence + 1
      BY <3>1 DEF OutP!IInv, OutP!Counted, OutP!NextOut, OutP!NextRead
    <3> QED
      BY <1>1, <1>3, <3>1, <3>2
  <2>2. ASSUME NEW i \in 1..Len(delivered), delivered[i].event.of = k - 1
        PROVE  handled[k] # Null
    <3>1. handled[delivered[i].event.of + 1] # Null /\ delivered[i].event.of + 1 = k
      BY <1>2, <2>2
    <3> QED
      BY <3>1
  <2>3. ASSUME handled[k] # Null
        PROVE  \E i \in 1..Len(delivered) : delivered[i].event.of = k - 1
    <3>1. PICK i \in 1..Len(emitted) : emitted[i].event.of = k - 1
      BY <2>3 DEF EmittedInOrder
    <3> QED
      BY <1>1, <2>1, <3>1
  <2> QED
    BY <2>2, <2>3
<1> QED
  BY <1>2, <1>3 DEF OutcomesInOrder

\* However the two rings fill and wrap, the consumer reads the outcome of every
\* command once, in the order of the messages, each event with the timestamp of
\* its own message: what consumer/blp.rs copies before it stores its sequence
\* is enough.
THEOREM SpecOutcomesInOrder == Spec => []OutcomesInOrder
BY EmittedDelivered, InputInvariant, OutputInvariant, EmittedInvariant, PTL

=============================================================================
