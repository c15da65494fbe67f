------------------------------ MODULE InputRing ------------------------------
(***************************************************************************)
(* The input side of the pipeline: one SingleProducer publishes wire        *)
(* messages into RingBuffer<InputSlot>; the Unmarshaller and the other      *)
(* first-stage threads (JournalConsumer, Replicator) work on every slot in  *)
(* parallel; the BusinessLogicProcessor reads a slot after them.  Threads   *)
(* share nothing but the slots, which are plain memory, and one atomic      *)
(* sequence number each (sequence.rs), stored with Release and loaded with  *)
(* Acquire.                                                                 *)
(*                                                                          *)
(* Every load or store of a sequence is a step of its own.  A slot access   *)
(* lasts from the step that enters "write"/"access" to the step that leaves *)
(* it, so two accesses that may overlap do overlap in some state.           *)
(***************************************************************************)
EXTENDS Integers, Sequences

CONSTANTS
  Capacity,   \* number of slots of the ring
  Readers,    \* first-stage threads that only read: "journal", "replicator"
  BlpDeps,    \* the Vec of sequences given to the BLP's SequenceBarrier
  Messages,   \* wire messages; a message also names the Command it encodes
  Malformed,  \* the messages parse_command answers with Err
  Null,       \* Option::None, and the content of an uninitialized slot
  Total       \* bound: how many messages the producer's client publishes

Producer     == "producer"
Unmarshaller == "unmarshaller"
Blp          == "blp"

Stage1    == {Unmarshaller} \cup Readers
Consumers == Stage1 \cup {Blp}
Threads   == Consumers \cup {Producer}

\* InputSlot: raw_bytes/len, command, timestamp_ns.  The clock reading of the
\* n-th publish is n: that is all the pipeline does with a timestamp, carry it.
Slot == [raw: Messages, cmd: Messages \cup {Null}, ts: Nat]

\* RingBuffer::new asserts the power of two, without which "& mask" is no
\* index.  The first-stage threads all gate the BLP and nothing else does.
ASSUME InputRingAssumption ==
  /\ Capacity \in Nat \ {0} /\ \E k \in 0..Capacity : Capacity = 2^k
  /\ Readers \subseteq {"journal", "replicator"}
  /\ BlpDeps \in Seq(Stage1) /\ \A c \in Stage1 : \E i \in 1..Len(BlpDeps) : BlpDeps[i] = c
  /\ Malformed \subseteq Messages
  /\ Null \notin Messages /\ Null \notin Slot
  /\ Total \in Nat

VARIABLES
  slots,     \* buffer[0..Capacity-1]; Null while MaybeUninit::uninit()
  cursor,    \* RingBuffer.cursor
  nextSeq,   \* SingleProducer.next_seq
  seq,       \* the Sequence each thread publishes
  pc,        \* where each thread is in its loop
  scanned,   \* how many dependencies the current barrier scan found ready
  captured,  \* (command, input_ts) the BLP copied out of the slot, or Null
  sent,      \* history: the messages written, in order of publication
  handled    \* history: the commands the BLP finished with (Null: skipped)

vars == <<slots, cursor, nextSeq, seq, pc, scanned, captured, sent, handled>>

-----------------------------------------------------------------------------
\* slot_mut / slot_ref / slot_mut_ref: (seq as usize) & mask.
Idx(n) == n % Capacity

\* parse_command, by what it decides: the command, or None after an Err.
ParseOf(m) == IF m \in Malformed THEN Null ELSE m

\* Mutant of Deps: the BLP waits for the producer alone.
DepsOfProducer(c) == <<Producer>>

\* The sequences the barrier of a consumer waits for.
Deps(c) == IF c = Blp THEN BlpDeps ELSE <<Producer>>

\* self.sequence.get() + 1: only the thread itself stores its sequence.
NextOf(c) == seq[c] + 1

\* The producer's local `seq` between claim_next and the end of publish.
Claimed == nextSeq - 1

\* Mutants of GateOpen: the wrap point off by one, and the wrong thread asked.
GateOpenEarly(n) == seq[Blp] >= n - Capacity - 1
GateOnUnmarshaller(n) == seq[Unmarshaller] >= n - Capacity

\* claim_next: the slowest consumer has passed the wrap point of message n.
GateOpen(n) == seq[Blp] >= n - Capacity

\* Mutants of DependencyReady: off by one, and the maximum for the minimum.
DependencyReadyEarly(c) == seq[Deps(c)[scanned[c] + 1]] >= seq[c]
SomeDependencyReady(c) == \E i \in 1..Len(Deps(c)) : seq[Deps(c)[i]] >= NextOf(c)

\* wait_for: the dependency being loaded has reached the wanted sequence.
DependencyReady(c) == seq[Deps(c)[scanned[c] + 1]] >= NextOf(c)

At(t, here) == pc[t] = here

Init ==
  /\ slots = [i \in 0..Capacity-1 |-> Null]
  /\ cursor = -1
  /\ nextSeq = 0
  /\ seq = [t \in Threads |-> -1]
  /\ pc = [t \in Threads |-> IF t = Producer THEN "claim" ELSE "wait"]
  /\ scanned = [c \in Consumers |-> 0]
  /\ captured = Null
  /\ sent = <<>>
  /\ handled = <<>>

-----------------------------------------------------------------------------
\* SingleProducer::publish, called once for each of Total messages.
ClaimNext ==
  /\ At(Producer, "claim")
  /\ nextSeq < Total
  /\ GateOpen(nextSeq)
  /\ nextSeq' = nextSeq + 1
  /\ pc' = [pc EXCEPT ![Producer] = "write"]
  /\ UNCHANGED <<slots, cursor, seq, scanned, captured, sent, handled>>

WriteSlot(m) ==
  /\ At(Producer, "write")
  /\ slots' = [slots EXCEPT ![Idx(Claimed)] = [raw |-> m, cmd |-> Null, ts |-> Claimed]]
  /\ sent' = Append(sent, m)
  /\ pc' = [pc EXCEPT ![Producer] = "cursor"]
  /\ UNCHANGED <<cursor, nextSeq, seq, scanned, captured, handled>>

\* Mutant of StoreCursor: the number of messages for the last sequence.
StoreCount ==
  /\ At(Producer, "cursor")
  /\ cursor' = Claimed + 1
  /\ pc' = [pc EXCEPT ![Producer] = "publish"]
  /\ UNCHANGED <<slots, nextSeq, seq, scanned, captured, sent, handled>>

StoreCursor ==
  /\ At(Producer, "cursor")
  /\ cursor' = Claimed
  /\ pc' = [pc EXCEPT ![Producer] = "publish"]
  /\ UNCHANGED <<slots, nextSeq, seq, scanned, captured, sent, handled>>

Publish ==
  /\ At(Producer, "publish")
  /\ seq' = [seq EXCEPT ![Producer] = Claimed]
  /\ pc' = [pc EXCEPT ![Producer] = "claim"]
  /\ UNCHANGED <<slots, cursor, nextSeq, scanned, captured, sent, handled>>

\* Mutant of ScanDependency: the next wait_for does not start from the front.
ScanWithoutReset(c) ==
  /\ At(c, "wait")
  /\ DependencyReady(c)
  /\ scanned' = [scanned EXCEPT ![c] = @ + 1]
  /\ pc' = [pc EXCEPT ![c] = IF scanned[c] + 1 = Len(Deps(c)) THEN "access" ELSE "wait"]
  /\ UNCHANGED <<slots, cursor, nextSeq, seq, captured, sent, handled>>

\* SequenceBarrier::wait_for: the dependencies are loaded one after another,
\* at different moments.  A scan that loads one too low starts over.
ScanDependency(c) ==
  /\ At(c, "wait")
  /\ DependencyReady(c)
  /\ IF scanned[c] + 1 = Len(Deps(c))
     THEN /\ scanned' = [scanned EXCEPT ![c] = 0]
          /\ pc' = [pc EXCEPT ![c] = "access"]
     ELSE /\ scanned' = [scanned EXCEPT ![c] = @ + 1]
          /\ UNCHANGED pc
  /\ UNCHANGED <<slots, cursor, nextSeq, seq, captured, sent, handled>>

Rescan(c) ==
  /\ At(c, "wait")
  /\ scanned[c] > 0
  /\ ~DependencyReady(c)
  /\ scanned' = [scanned EXCEPT ![c] = 0]
  /\ UNCHANGED <<slots, cursor, nextSeq, seq, pc, captured, sent, handled>>

\* JournalConsumer and Replicator: look at the slot, leave it alone.
ReadSlot(c) ==
  /\ At(c, "access")
  /\ pc' = [pc EXCEPT ![c] = "advance"]
  /\ UNCHANGED <<slots, cursor, nextSeq, seq, scanned, captured, sent, handled>>

\* Mutant of Unmarshal: the thread does not get past a parse error.
UnmarshalValid ==
  /\ At(Unmarshaller, "access")
  /\ LET i == Idx(NextOf(Unmarshaller)) IN
       /\ ParseOf(slots[i].raw) # Null
       /\ slots' = [slots EXCEPT ![i] = [@ EXCEPT !.cmd = ParseOf(slots[i].raw)]]
  /\ pc' = [pc EXCEPT ![Unmarshaller] = "advance"]
  /\ UNCHANGED <<cursor, nextSeq, seq, scanned, captured, sent, handled>>

\* Unmarshaller: overwrite slot.command with what the bytes parse to.
Unmarshal ==
  /\ At(Unmarshaller, "access")
  /\ LET i == Idx(NextOf(Unmarshaller)) IN
       slots' = [slots EXCEPT ![i] = [@ EXCEPT !.cmd = ParseOf(slots[i].raw)]]
  /\ pc' = [pc EXCEPT ![Unmarshaller] = "advance"]
  /\ UNCHANGED <<cursor, nextSeq, seq, scanned, captured, sent, handled>>

Advance(c) ==
  /\ At(c, "advance")
  /\ seq' = [seq EXCEPT ![c] = NextOf(c)]
  /\ pc' = [pc EXCEPT ![c] = "wait"]
  /\ UNCHANGED <<slots, cursor, nextSeq, scanned, captured, sent, handled>>

\* The BLP copies command and timestamp out of the slot, runs the command and
\* stores its sequence; on None it stores the sequence at once.
BlpCapture ==
  /\ At(Blp, "access")
  /\ LET slot == slots[Idx(NextOf(Blp))] IN
       captured' = [cmd |-> slot.cmd, ts |-> slot.ts]
  /\ pc' = [pc EXCEPT ![Blp] = "advance"]
  /\ UNCHANGED <<slots, cursor, nextSeq, seq, scanned, sent, handled>>

BlpAdvance ==
  /\ At(Blp, "advance")
  /\ seq' = [seq EXCEPT ![Blp] = NextOf(Blp)]
  /\ handled' = Append(handled, captured.cmd)
  /\ captured' = Null
  /\ pc' = [pc EXCEPT ![Blp] = "wait"]
  /\ UNCHANGED <<slots, cursor, nextSeq, scanned, sent>>

-----------------------------------------------------------------------------
ProducerStep == ClaimNext \/ (\E m \in Messages : WriteSlot(m)) \/ StoreCursor \/ Publish

Wait(c) == ScanDependency(c) \/ Rescan(c)

ReaderStep(c) == Wait(c) \/ ReadSlot(c) \/ Advance(c)

UnmarshallerStep == Wait(Unmarshaller) \/ Unmarshal \/ Advance(Unmarshaller)

BlpStep == Wait(Blp) \/ BlpCapture \/ BlpAdvance

\* The client's loop is over and every consumer has caught up: all of them spin.
Drained ==
  /\ nextSeq = Total
  /\ \A t \in Threads : seq[t] = Total - 1
  /\ UNCHANGED vars

Next ==
  \/ ProducerStep
  \/ \E c \in Readers : ReaderStep(c)
  \/ UnmarshallerStep
  \/ BlpStep
  \/ Drained

\* Every thread runs on; the client publishes its Total messages in a loop.
Fairness ==
  /\ WF_vars(ProducerStep)
  /\ \A c \in Readers : WF_vars(ReaderStep(c))
  /\ WF_vars(UnmarshallerStep)
  /\ WF_vars(BlpStep)

Spec == Init /\ [][Next]_vars

FairSpec == Spec /\ Fairness

-----------------------------------------------------------------------------
Places == {"claim", "write", "cursor", "publish", "wait", "access", "advance"}

TypeOK ==
  /\ slots \in [0..Capacity-1 -> Slot \cup {Null}]
  /\ cursor \in -1..Total-1
  /\ nextSeq \in 0..Total
  /\ seq \in [Threads -> -1..Total-1]
  /\ pc \in [Threads -> Places]
  /\ scanned \in [Consumers -> Nat]
  /\ \A c \in Consumers : scanned[c] < Len(Deps(c))
  /\ captured \in [cmd: Messages \cup {Null}, ts: Nat] \cup {Null}
  /\ sent \in Seq(Messages)
  /\ handled \in Seq(Messages \cup {Null})

-----------------------------------------------------------------------------
\* Which thread holds which slot, and the fields it reads and writes there.
InSlot(t) == At(t, IF t = Producer THEN "write" ELSE "access")

SlotOf(t) == IF t = Producer THEN Idx(Claimed) ELSE Idx(NextOf(t))

Written(t) ==
  CASE t = Producer     -> {"raw", "cmd", "ts"}
    [] t = Unmarshaller -> {"cmd"}
    [] OTHER            -> {}

ReadBy(t) ==
  CASE t \in Stage1 -> {"raw"}
    [] t = Blp      -> {"cmd", "ts"}
    [] OTHER        -> {}

\* Two threads in the same slot at once never have a field that one of them
\* writes and the other uses: the plain-memory accesses behind slot_mut,
\* slot_ref and slot_mut_ref are free of data races.
RaceFree ==
  \A t, u \in Threads :
    t # u /\ InSlot(t) /\ InSlot(u) /\ SlotOf(t) = SlotOf(u)
      => Written(t) \cap (Written(u) \cup ReadBy(u)) = {}

\* A consumer inside a slot finds the message of the sequence it waited for:
\* never uninitialized memory (assume_init_ref), never the lap before, never
\* one the producer has already overwritten.
FreshSlot ==
  \A c \in Consumers : InSlot(c) =>
    LET n == NextOf(c) IN
      /\ slots[Idx(n)] # Null
      /\ slots[Idx(n)].ts = n
      /\ n < Len(sent) /\ slots[Idx(n)].raw = sent[n + 1]

\* The BLP finishes every message exactly once, in the order of publication,
\* and with the command of that message, also when the parse is skipped.
InOrderDelivery ==
  /\ Len(handled) = NextOf(Blp)
  /\ Len(handled) <= Len(sent)
  /\ \A k \in 1..Len(handled) : handled[k] = ParseOf(sent[k])

\* When the BLP is in a slot, every first-stage thread has moved past it,
\* although the barrier loaded their sequences at different moments.
BlpAfterStage1 ==
  InSlot(Blp) => \A c \in Stage1 : seq[c] >= NextOf(Blp)

\* The producer is never more than a lap ahead of any consumer, although it
\* looks at the sequence of the BLP alone.
Backpressure ==
  \A c \in Consumers : nextSeq - NextOf(c) <= Capacity

\* RingBuffer::drop knows from the cursor alone which slots hold a value: the
\* slots it counts were written, and none that was written is left out, in the
\* empty ring, on the first lap and on every later one.  Drop runs when the last
\* Arc of the ring goes, between two publishes if its producer is gone; the
\* first half holds at every moment, the second whenever no publish is under way.
DropCount ==
  IF cursor < 0 THEN 0 ELSE IF cursor + 1 < Capacity THEN cursor + 1 ELSE Capacity

DropSound ==
  /\ \A i \in 0..DropCount-1 : slots[i] # Null
  /\ At(Producer, "claim") => \A i \in DropCount..Capacity-1 : slots[i] = Null

\* Every message the client publishes is eventually handled: no thread waits
\* forever, whatever the interleaving of the barrier scans.
AllHandled == <>[](Len(handled) = Total)

\* The input ring as a FIFO of parsed commands: a message is sent when the
\* producer stores its sequence and received when the BLP stores its own.
Fifo == INSTANCE BoundedFifo WITH
  Values   <- Messages \cup {Null},
  sent     <- [k \in 1..(seq[Producer] + 1) |-> ParseOf(sent[k])],
  received <- handled

ImplementsFifo == Fifo!FairSpec

=============================================================================
