# A TLA+ model of LMAX-rs

LMAX-rs is a single-symbol matching engine behind an LMAX-style pipeline: a
producer writes wire messages into an input ring, a first stage of threads works
on every slot in parallel, the business logic processor (BLP) runs one command
at a time against the order book and publishes what came of it to an output
ring, and a consumer drains that. All source paths below are relative to
`src/LMAX-rs-main/src/`.

This directory holds TLA+ modules for that code, TLC configurations that check
them on small instances and TLAPS proofs that hold for every instance.
`PROJECT.json` maps every definition to the lines it stands for and lists the
runs, the mutants that show each property can fail, the findings, the hazards
and the theorems.

## The system

| Component | Source | State | Operations |
|---|---|---|---|
| Ring buffer | `ring_buffer/ringBuffer.rs` | slots (`MaybeUninit`), mask, cursor | slot_mut / slot_ref / slot_mut_ref by sequence, drop |
| Sequence | `sequence/sequence.rs` | one atomic i64 | get (Acquire), set (Release) |
| Sequence barrier | `sequence_barrier/sequenceBarrier.rs` | the sequences waited for | wait_for (spin on the minimum) |
| Single producer | `single_producer/singleProducer.rs` | next_seq | claim_next (spin on the BLP), publish |
| Unmarshaller | `consumer/unmarshallerConsumer.rs` | its sequence | wait, parse the bytes into slot.command, advance |
| Journal, replicator | `consumer/jounrnalConsumer.rs`, `replicatorConsumer.rs` | their sequences | wait, look at the slot, advance |
| BLP thread | `consumer/blp.rs` | its sequence, 16-event array, book, clients, order index | wait, capture, run a command, advance, publish the events |
| Publisher | `blp/publisher.rs` | output sequence | spin on the gating sequence, fill a slot, publish |
| Output consumer | `consumer/outputConsumer.rs` | gating sequence | wait, read, advance |
| Bitmap | `blp/bitmap.rs` | three levels of 64-bit words | set_bit, clear_bit, best_ask, best_bid |
| Arena and price levels | `blp/arena.rs`, `price_level.rs`, `order_id.rs` | slots with generations, free list, FIFO list per level | alloc_order, free_order, validate |
| Order book | `blp/book.rs` | a bitmap and levels per side, one arena | add_order, remove_order, price_to_tick, tick_to_price |
| Matching | `blp/matching.rs` | the aggressor's leaves_qty | match_aggressor |
| Handlers | `blp/handlers.rs` | clients' open orders, order index, next order id | process_place, process_cancel, process_modify |
| Wire format | `consumer/unmarshallerConsumer.rs`, `order/command.rs` | an offset into the slot's bytes | parse_command and its readers |
| Clock | `util/time.rs` | the instant of its first reading | now_ns |
| Wiring | `main.rs` | which threads run | main |
| Benchmarks | `main.rs` (tests) | send times, samples | send, wait, collect |

Threads share no lock and no channel. The slots are plain memory; a thread knows
when it may touch one only from the sequence numbers of the others. So what can
go wrong between threads is one of these: two threads in a slot at once with one
of them writing, a thread in a slot whose message is not (or no longer) the one
it wants, a message or an event lost, repeated or reordered, and threads that
wait for each other for ever. Inside the BLP thread everything is sequential;
what can go wrong there is that the structures of the book (lists, free list,
bitmap, index, counters) drift apart over a long sequence of legal commands.

What makes each part correct, and the property that says so:

| Part | Has to | Properties |
|---|---|---|
| Ring buffer, producer, barrier | keep two threads out of each other's fields; give a consumer the message of its sequence; never run a lap ahead of the slowest, though the producer asks the BLP alone | `RaceFree`, `FreshSlot`, `Backpressure`, `BlpAfterStage1`, `DropSound` |
| Input side as a whole | handle every message once, in order, and get to it | `InOrderDelivery`, `AllHandled`, `ImplementsFifo` |
| Publisher, output consumer | lose, repeat, reorder or overwrite no event | `NoOverwrite`, `NothingLost`, `DeliveredInOrder`, `AllDelivered`, `ImplementsFifo` |
| Wire format | take for a command what the format allows and nothing else, and the command that was sent | `AcceptsTheFormat`, `DecodesWhatWasSent` |
| BLP thread | keep a command's outcome apart from the slot it came from; pass backpressure on, also for ever | `OneCommandAhead`, `OutcomesInOrder`, `EndToEndBackpressure`, `AllOut`, `ClientStalls` |
| Bitmap | keep its three levels in agreement, find the best tick | `LevelsAgree`, `BestLevelsFound` |
| Arena, levels, book | keep lists, free list and counters in agreement | `LevelsAreQueues`, `SlotsAccounted`, `LevelTotals` |
| Matching, handlers | trade in price-time order and end; keep index and accounts in agreement with the book; tell the clients | `ImplementsPriceTime`, `CommandsEnd`, `FillsCross`, `IndexSound`, `OpenOrdersCounted`, `ReinsertHasRoom`, `EveryOrderReachable`, `StreamTellsBook` |

## The modules

| Module | What it is |
|---|---|
| `InputRing` | producer, first stage and BLP around the input ring |
| `OutputRing` | BLP's publishing and the output consumer around the output ring |
| `BoundedFifo` | the abstract specification both rings implement |
| `Pipeline` | the two rings joined by the BLP thread |
| `WireFormat` | bytes of a message into a slot, and parse_command over them |
| `Benchmark` | the pipeline under a benchmark of `main.rs`, with the clock |
| `MCInputRing`, `MCPipeline`, `MCWireFormat`, `MCBenchmark` | constant values for TLC |
| `InputRingProofs`, `OutputRingProofs`, `PipelineProofs`, `WireFormatProofs` | theorems |
| `BitmapOps` | the three-level bitmap as operators, with what its levels have to be (`MarksExactly`) |
| `OrderBook` | arena, free list, price levels and bitmaps under the three ways in which the handlers change them |
| `PriceTimePriority` | the abstract specification of the engine: one queue per side and price level |
| `MatchingEngine` | the command handlers, the matching loop, order index, accounts and event array around the book |
| `MCOrderBook`, `MCEngine` | constant values and symmetry for TLC |
| `BitmapProofs`, `OrderBookProofs`, `EngineProofs`, `EngineOutcomeProofs` | theorems |

### InputRing

`pc[t]` is the place of thread `t` in its loop, `seq[t]` the sequence it stores.
The producer's `publish` is `ClaimNext` (the load of the BLP's sequence that
ends the spin), `WriteSlot`, `StoreCursor`, `Publish`. A consumer's loop is
`ScanDependency`/`Rescan` (wait_for), the slot access (`ReadSlot`, `Unmarshal`
or `BlpCapture`) and `Advance`/`BlpAdvance`.

* `wait_for` takes the minimum of loads made at different moments. The model has
  one step per load: a scan that finds every dependency ready goes on, one that
  finds a low value starts over. (The code goes on loading before it starts
  over; those loads change nothing.) `NextOf(c)` is `self.sequence.get() + 1`,
  read without a step of its own because only the thread itself stores it.
* A slot access lasts from the step that enters `"access"`/`"write"` to the step
  that leaves it, so accesses that may overlap in the program overlap in some
  state; `RaceFree` looks at those states field by field.
* Release stores and Acquire loads make what happened before the store visible
  after the load, so interleaving the steps is a sound model of this code as
  long as `RaceFree` holds - which is one of the things checked.
* Bytes and commands are one value: a message *is* the command it encodes, and
  `Malformed` holds the messages `parse_command` answers with `Err`. A clock
  reading is the sequence of the message: timestamps are only carried.
* The three forms of wiring (all of the README's consumers, one reader, and
  `main()`'s, which starts the unmarshaller alone) are values of `Readers` and
  `BlpDeps`.

### OutputRing

`Emit` is the end of a command: the events it left in the array. `PassGate`,
`FillSlot`, `PublishOut` are `publish_output`, repeated until `pending` is
empty; `AwaitOutput`, `ReadOutput`, `AdvanceGate` are the consumer's loop.
`Draining = FALSE` is a pipeline without a consumer, as `main()` builds it.

### Pipeline

`In` and `Out` are instances of the two modules over shared variables. The BLP
thread is the product of both: it takes a command (`BlpTake`), and either skips
a message without one (`BlpSkip`) or finishes it (`BlpFinish(n)`: the sequence is
stored and `n` events are waiting, at most `EventBufferLen` of them kept), then
publishes (`BlpPublish`) before it goes back to its barrier. What a command does
to the book is abstracted to "it emits 1..MaxEmitted events": every command of
`handlers.rs` emits at least one.

`Pipeline` and `MatchingEngine` meet in exactly one place. Book, index and
accounts belong to the BLP thread; between `BlpTake` and `BlpFinish` that thread
runs one handler to its end and touches no shared memory, and no other thread
sees any of it but the events. So what the two modules show composes without a
product of their state spaces: the engine's commands are those of
`InOrderDelivery`, its events leave as `OutcomesInOrder` says, and the events of
an engine with a long enough array tell the book (`StreamTellsBook`). The product
was left out because it has nothing to add to this and is out of TLC's reach at
sizes where either half is interesting.

The consumer is a test's or a user's thread, so its fairness is not part of
`Fairness`. `AllOut` has it as a premise (`ConsumerRuns`), `ClientStalls` the
opposite one (`ConsumerStops`: from some moment on the consumer takes no step,
wherever it is; with `main()`'s wiring it never takes the first).

### WireFormat

`Publish` is the slot write of `SingleProducer::publish` with its bytes
(`raw_bytes` zeroed, cut at `MaxLen`), `Unmarshal` the turn of the unmarshaller
with `parse_command`. A reader is an operator from buffer and offset to a value
and the next offset, or `Err`; `ParsePlace`, `ParseCancel` and `ParseModify` run
the readers that the functions call, in their order, each from where the one before
it ended. One slot is enough: what the other
threads may do with it meanwhile is `InputRing`'s question. `Encode` is a client's
encoder, as `make_place_bytes` and the benchmarks write it.

The format itself is stated a second time, without cursor or readers: `Forms` are
the sets of bytes that may stand at each place of a message (src/README.md:105-109
and the codes of the enums). `AcceptsTheFormat` compares the two.

### Benchmark

`Pipeline` with the thread of `benchmark_full_pipeline_throughput_and_latency`
(`Send`, `WaitUntil`, `Collect`) and the clock (`now`, `Tick`): `PublishStep` reads
the clock when `publish` does, after it has its slot. A timestamp of `Pipeline`
names its message, `stamps` is the reading behind it. `shown` remembers when each
event became visible in the output ring.

### BitmapOps and OrderBook

A word of the bitmap is the set of its one bits; `Radix` is 64 in the code. The
arena's `Slot { generation, state }` is one function per field (`generation`,
`order`, `prev`, `next`, `nextFree`), with `order[s] = Null` for a `Free` slot
and `Null` for `None`. The actions are what the handlers call:

| Action | Code |
|---|---|
| `AddOrder(side, tick, ord)` | `HalfBook::add_order` with `Arena::alloc_order`: make the level if there is none, pop the free list, link at the tail, count, set the bit |
| `RemoveOrder(side, tick, idx)` | `HalfBook::remove_order` with `Arena::free_order`: unlink, count, bump the generation, push on the free list, drop an empty level and clear its bit |
| `ReduceOrder(side, tick, idx, qty)` | the partial fill of `match_aggressor` and the in-place branch of `process_modify` |

Everything here belongs to the BLP thread, so an operation is one step. Their
failure branches (full arena, level or slot not there) change nothing and are
guards. Two history variables say what the structures are for: `queue`, the
slots of each level in order of arrival, and `freeList`. No operation reads
them; the properties compare the links, counters and bits with them.

### MatchingEngine

`Book` is an instance of `OrderBook` over this module's variables. `pc` is
`"idle"` between commands, `"match"` in the loop of `match_aggressor` (one step
per fill) and `"reinsert"` between the `remove_order` and the `add_order` of a
modify: the one place where a handler has changed half of its state.

| Handler | Actions |
|---|---|
| `process_place` | `PlaceRejected` (zero quantity, limit of open orders), `PlaceInvalid` (no price, no tick: these consume an order id), `PlaceAccepted`, then `MatchBest`\*, then `Executed`, `CancelResidual` (MARKET), `Rest` or `RestRejected` (arena full) |
| `process_cancel` | `Cancel`, `CancelRejected` |
| `process_modify` | `ModifyRejected`, `ModifyInPlace`, or `ModifyRemove` and then `ModifyReinsert` or `ModifyDropped` |

`told` is a history variable: what a reader of the output events knows of the
live orders. `Emit` is the closure of `consumer/blp.rs`, which drops what does
not fit in its array. Clients are any sequence of commands over small sets of
clients, ids, prices (in and out of range, `Null` for None) and quantities (zero
included). `ReuseIds = FALSE` is a client discipline that a run may assume: an id is not
used again while its order rests.

`PriceTimePriority` has queues of orders and nothing else; the refinement maps
`queue` and `order` to them, so `ImplementsPriceTime` says that bitmap scans,
linked lists and index together never trade out of turn, skip a level, lose a
quantity or let an order that the limit excludes trade.


## The runs

| Run | Shows |
|---|---|
| `InputRing` | three first-stage threads, 2 slots, 4 messages (two laps): race freedom, fresh slots, order and exactly-once, the barrier, backpressure, that `Drop` counts the slots that were written, that every message is handled, and that the ring implements `BoundedFifo`, liveness included |
| `OutputRing` | batches of up to 3 events through 2 slots: no overwrite, nothing lost, order kept, every event read; the ring implements `BoundedFifo` |
| `OutputRing_uninit` | *violation*: ringBuffer.rs:50 says slot_mut_ref refers to an initialized slot; publish_output uses it on the first lap |
| `Pipeline` | outcomes in message order with the right timestamp although the input slot may be reused by then; end-to-end backpressure, tight; every message handled and every event read if the consumer runs on; if it stops, the output ring holds what is left or BLP and client spin for ever |
| `WireFormat` | place, cancel and modify with every choice of side, type, options and time in force; each of them cut at every length, with bytes behind it up to and past the slot's end, and with every other value of every byte; in any order through one slot |
| `Benchmark_latency` | *violation*: README.md:190 and 267 give the samples as the mean latency of the full pipeline; they are the time the producer waited for a slot |
| `OrderBook` | 3 slots shared by two sides, 4 ticks in three words of a radix-2 bitmap, orders of up to two units, generations that wrap: any history of adding, removing from anywhere and reducing leaves lists, free list, bitmap and totals in agreement |
| `Engine_safety` | two clients that may reuse ids, every kind of command, an arena that fills up and an event array of one: the index holds no stale locator, the accounts count, a modify finds its room again, fills are within the limit, and a place leaves no order behind that it could have traded with, so that only a modify can leave the book crossed |
| `Engine_stream` | with the client discipline and modifies inside the tick range, the events tell the book exactly, and no order is out of its owner's reach; no command of these clients emits more than the array's two events, and the mutant with one fewer fails. Its tick size is two, with prices on and between the ticks: `FillsCross` says that a buy pays at most one over its limit and that a sell leaves no bid behind that is one or more above its own, and neither bound can be lowered |
| `Engine_priority` | every command ends, and the engine implements `PriceTimePriority` |
| `Engine_reuse` | *violation*: README.md:119 gives "Order not found or already filled" for CancelRejected; a client that placed two orders under one id gets it for an order that rests |
| `Engine_array` | *violation*: README.md:115, an order that sweeps more orders than the array has room for rests without an OrderAccepted |

Bounds. Two slots per ring are the smallest number for which "one lap behind"
and "the next slot" differ; the number of messages (`Total`, `MaxEvents`) covers
two laps, so that every slot is reused and every off-by-one in a wrap point,
gate or barrier shows (the mutants are such off-by-ones). Batches are longer
than the ring and longer than the event array. Two kinds of message are enough:
one that parses and one that does not. The theorems remove the bounds.

For the bytes: four byte values are every tag, flag and enum code and one that is
none of them; a word of two different bytes tells a wrong byte order or width,
the largest word and zero are the boundaries. 16 bytes of slot hold the longest
message (15) and are too few for what some clients send. The benchmark run sends
two messages through an input ring of one slot.

For the book and the engine: `Radix = 2` gives 8 ticks in four words, and
`UsedTicks` (or the ticks of `Prices` and `NewPrices`) lie in the same word, in
another word of the same half, and in the other half, so that each of the three
bitmap levels has to keep a bit and to lose one. `Capacity` 2 to 4: three slots
let an order leave from the front, the middle and the back of a level, and an
arena of two fills up at once. Orders of one to four units give full, partial and
multi-level fills. `GenLimit` 1 or 2 makes the generation wrap within a run.
`EventBufferLen` is 1 or 2 where its overflow is the question and 16 elsewhere.
`TickSize` is 1, as every caller in the repository passes, but 2 in `Engine_stream`,
whose `Prices` 1 and 2 share a tick; a modify goes to another one, far off (15).
`MaxOrderId` bounds the accepted orders, `MaxFilled` those reductions in place
that the code books as fills, `ReuseIds` says whether clients reuse an id that
is still in the index. Symmetry (clients and their order ids) is used in safety
runs alone.

Fairness. Every thread is a loop that spins or works and never blocks or exits,
on an operating system that schedules it again and again: weak fairness of each
thread's steps (`ProducerStep`, `ReaderStep(c)`, `UnmarshallerStep`, `BlpStep`,
`PublisherStep`, in `OutputRing` `ConsumerStep`; for the consumer of `Pipeline` see
there). In the engine, `WF(Finish)`: once a command has
begun its handler runs on, since it waits for nothing; no fairness says that a
client sends another. Nothing is assumed about how far apart the
loads of one barrier scan are. No fairness is assumed for `Emit`, which stands
for a command that may never come. For `InputRing` and `Pipeline` the producer's
fairness includes its client, which publishes `Total` messages in a loop as the
benchmarks do.

`CHECK_DEADLOCK FALSE` is used in `Benchmark_latency` alone: a benchmark ends. In
the other modules a step `Drained`/`Quiescent` says when all threads may
spin for ever: any other state without a step is reported as a deadlock.

## What is proved

TLAPS checks, for every capacity (a power of two is not even needed beyond being
positive), every set of readers, every order of the BLP's dependencies, every
message set and every number of messages:

* **InputRingProofs.** `SpecTypeOK`, `SpecRaceFree`, `SpecFreshSlot`,
  `SpecInOrderDelivery`, `SpecBlpAfterStage1`, `SpecBackpressure`,
  `SpecDropSound` and `SpecFifo` (the ring implements the safety part of
  `BoundedFifo`). None of these is inductive. The inductive invariant `IInv`
  adds: the order of the sequences (`seq[Blp] <= seq[c] <= seq[Producer]` and
  the claim within a lap of the BLP: `Ordered`); what the producer has done for
  its last claim (`ProducerAt`); that the dependencies a scan has passed *stay*
  ready, which is what makes a non-atomic minimum sound (`ConsumerAt`); and that
  the last `Capacity` messages written are in their slots, parsed or not yet
  (`SlotsHold`, `CapturedRight`). Race freedom then follows from the order of
  the sequences and from two different messages less than a lap apart having
  different slots (`IdxDistinct`).
* **OutputRingProofs.** `SpecTypeOK`, `SpecNoOverwrite`, `SpecNothingLost`,
  `SpecDeliveredInOrder`, `SpecFifo`, from an invariant that places each
  unread event in its slot (`Placed`) between the gating and the output
  sequence (`Gated`, `Counted`).
* **PipelineProofs.** `SpecInput` and `SpecOutput`: the pipeline refines either
  ring, so their theorems hold in it (`SpecInputSafe`, `SpecOutputSafe`). From
  both invariants, `SpecTypeOK`, `SpecOneCommandAhead` and
  `SpecEndToEndBackpressure`, whose invariant `Outcomes` counts commands against
  events, and `SpecOutcomesInOrder`, whose invariant `EmittedInOrder` says it of the
  events emitted, read or not: each is of a message handled and carries its
  timestamp, they follow each other in message order, and no command is without one.
* **WireFormatProofs.** `SpecTypeOK`, `SpecAcceptsTheFormat` and
  `SpecDecodesWhatWasSent`, for every base, word width, slot length and set of
  messages, so for `Base = 256`, `Width = 8`, `MaxLen = 256` and any bytes. The
  invariant `IInv` is about the slot: what the unmarshaller is given (`Given`) is what
  the client sent, up to the length of the array, whatever was in the slot before. The
  rest is about `parse_command` (`ParseCommandMeans`). `WordOfBytes`:
  `to_le_bytes` after `from_le_bytes` gives the bytes back; recursive
  functions are unfolded after showing that there is one (`Recursion`, by
  `Induction` on the set of the numbers that have the property, which is a set
  and so in reach). `Reads` says of a reader
  that it succeeds just when one of its forms stands at its offset, ends behind that
  form and gives a value encoded as those bytes; `Chain` that two such readers, one
  from where the other ended, read the forms of the one followed by those of the
  other. That is run along the eight fields of a place, the two of a cancel, the four of a
  modify (`Stage...`, `ParsePlaceMeans`, ...). `FormsStart`: a form begins with the
  tag of its kind and is not longer than `5 * Width + 5 <= MaxLen`, so that what the
  slot cuts off is never part of a message.
  `SpecCommandsArrive` is the other way round, for all commands of the format (too
  many to enumerate, so no run checks it): a parsed slot holds a command just when the
  client's bytes begin with that command's encoding. `BytesOfWord` is
  `from_le_bytes` after `to_le_bytes` (nothing of a word is left after `Width`
  bytes); `ParseBack` finds each field where the encoder put it (`Stand`), by
  taking the encoding apart from its end (`Peel`), and reads it again from the front.
* **BitmapProofs.** `SetBitMarks` and `ClearBitMarks`: from any bitmap that marks
  a set of ticks (`MarksExactly`), `set_bit` and `clear_bit` give one that marks
  the set with, or without, their tick - for every radix, so for the 64 of the
  code. `BestAskLeast` and `BestBidGreatest`: of such a bitmap the three scans
  give the least and the greatest tick. The arithmetic underneath is that a tick
  is its three digits (`TickDigits`, `TickOfBit`), that different digits are
  different ticks, and that digits order as ticks do (`TicksOrdered`); that no
  scan meets an empty word is `NoEmptyWord`.
* **OrderBookProofs.** `SpecTypeOK`, `SpecLevelsAreQueues`, `SpecSlotsAccounted`,
  `SpecLevelsAgree`, `SpecBestLevelsFound` and `SpecLevelTotals` - all that the run
  checks - for every capacity, generation limit, radix and set of orders. The
  invariant `IInv` is the conjunction of `TypeOK`, `SlotsAccounted`, `LevelsAgree`
  and the queues read by their indices (`LevelsLinked`), and none of them is inductive alone:
  `alloc_order` may use the head of the free list because `SlotsAccounted` says
  that no level holds it; `free_order` repairs the right neighbours because
  `LevelsAreQueues` says which they are and `SlotsAccounted` that they belong to
  no other level; a level is dropped at the right moment because its count is
  the length of its queue, and only then is clearing its bit right. Read both
  ways, a list is easier to reason about by its indices than reversed:
  `Linked` is that form and `LinkedBothWays` the equivalence. The steps rest on
  lemmas about one list: `AppendLinked` (link behind the tail), `WithoutLinked`
  (unlink at any place), `LinkedSame` (other lists are not disturbed),
  `PopList` and `PushList` (the free list), `ListFits` (a pigeonhole: no list
  is longer than the arena). `SpecLevelTotals` needs what a sum over a set is, and
  `MapThenSumSet` recurs over the elements in the order CHOOSE gives them. There is
  a sum that does not depend on an order (`SumExists`), it satisfies that
  recursion (`SumsIter`), and nothing else does (`IterOnce`); each by the least
  size of a set for which it fails (`LeastNat`). The section "What a user of
  the book may rely on" says the same without lists and links.
* **EngineProofs.** `SpecTypeOK`, `SpecIndexSound`, `SpecOpenOrdersCounted` and
  `SpecReinsertHasRoom`, whatever the clients send, ids reused or not. `BookP` is
  OrderBookProofs over the engine's variables; the "Same" lemmas say that it speaks
  of what `Book` speaks of. `IInv` is the book's invariant, the four properties and
  two more: an order rests on its side at the tick of its price (`AtItsLevel`), as
  the tick in a locator is read at the cancel and computed at the placement; and a
  place is in the loop only below the limit of open orders and with a tick for its
  price (`CommandAt`), checked many fills before the order rests. A stale
  locator is what wrapping generations could hide; `IndexSound` is kept because
  every step that frees a slot deletes the one entry that names it: an entry's key
  is that of the order in its slot, so there is no other.
* **EngineOutcomeProofs.** What a client gets. `StepKinds` sorts the steps by what they
  do to the queues (an order `Joins`, `Leaves` or `Loses` quantity; a command
  `Ends` or the book `Idles`); the rest is shown of each kind.
  - `SpecEveryOrderReachable`: with the client discipline (`~ReuseIds`) no order
    rests out of its owner's reach. The invariant `ReachInv` adds that the order a
    command holds has a key of its own.
  - `SpecFillsCross`: no fill outside the limit, and nothing left behind that was
    within it, up to the width of a level; exactly, when the tick is one. An order
    rests at the tick of its price, and its price is less than a tick above that
    of its level (`RoundsDown`), so that the comparison with the best level's price
    decides for every order of the book (`RestsAt`).
  - `SpecStreamTellsBook`: the events tell the book as long as the array has room for
    the fills a command makes and its last event (`RoomToTell`) and no modify drops its order.
    The invariants: order ids are given once (`IdsApart`), and what was told of an
    order that rests is true and of no other order anything (`ToldRight`).
    `SmallOrdersAreTold` gives a discipline of clients under which both premises
    hold: no place asks for more than the array has entries, and no modify names a
    price without a tick (invariant `EventsFit`). With the code's 16 entries a client who
    places up to 16 units is told all.
  - `SpecPriceTime`: the engine implements the safety part of `PriceTimePriority` when
    every price a client may name is the price of its tick (`OnGrid`; `TickOfOne`: any
    price is when the tick is one). The book maps to its queues of orders (`Resting`), the command in
    progress to `Executing`, and the steps so: `PlaceAccepted` is `Enter`; `MatchBest`
    is `Trade`, because the bitmap's best tick is the best level of the queues
    (`BestLevel`) and the head of that level the first of its queue
    (`FirstOfQueue`); `Rest` and `ModifyReinsert` are `Rest`; a command that ends
    otherwise is `Leave`; `Cancel` and `ModifyRemove` are `Withdraw`, `ModifyInPlace` is
    `Shrink`, and rejections are stutters. `Full` of the queues is a full
    arena, by an injection of the places in the queues into the slots and back
    (`FullMeans`).

The assumptions are the named ones of the modules: positive capacities, radix and
limits, a byte with more values than there are tags and a slot as long as the longest
message, `Null` different from numbers, orders, levels and locators, and orders
with a positive quantity that stay in the set when they are reduced. The theorems of
EngineOutcomeProofs have premises besides, stated in them: `~ReuseIds`, `OnGrid`, the
two of `SpecStreamTellsBook`, `FewFills /\ TicksNamed`. None of them can be dropped: `Engine_reuse`
and `Engine_array` are runs in which the first and the third fail, and where two prices
share a tick the queues of `PriceTimePriority`, which know an order by its tick, trade
what the engine does not (see the end of "Not modelled").

Only model-checked: all liveness (`AllHandled`, `AllDelivered`, `AllOut`,
`ClientStalls`, `CommandsEnd` and the fairness halves of `ImplementsFifo` and
`ImplementsPriceTime`), because the prover has no rules for fairness and ENABLED
here. Every other property of a passing run is a theorem.

## Not modelled

* Weak memory beyond Release/Acquire: see InputRing. i64 sequence overflow: 2^63
  messages.
* The latency histograms, percentiles and everything printed.
* `linux_benchmarks.rs` and `test/*.rs`: not compiled (`main.rs` comments them
  out). Of the benchmarks of `main.rs` the workloads and the statistics; what they
  do with the pipeline is `Benchmark`, four times over, and the draining consumer of
  the end-to-end benchmark is `Pipeline`'s.
* Journal files and replication: the code has stubs.
* Panics of a thread (a failed `assert!`, arithmetic overflow in a debug build).
* u64 overflow of `total_qty` and `filled_qty`, u32 overflow of a level's
  `order_count`. The generation's wrap (mod 2^32) is modelled, and does not matter:
  `IndexSound` holds with `GenLimit = 2` and `1`.
* `symbol`, `time_in_force` (never read), `quantity` (written, never read), the
  reasons of rejections, the fields of events a reader does not need to know the book.
* The product of `Pipeline` and `MatchingEngine`: see Pipeline.
* DAY and GTD, which no byte of a message stands for.

Read in the code and modelled as it is, without a run of its own: with `tick_size > 1` `price_to_tick`
rounds down and `match_aggressor` compares the limit with the *level's* price, so
that with ticks of two a buy at 1 trades with a sell at 2, and a sell at 2 does not trade
with a bid at 2 (`FillsCross` says how far this goes and `Engine_stream` checks it;
every caller in the repository passes 1); the
in-place branch of `process_modify` adds the reduction to `filled_qty`, against
order.rs:20 (nothing reads the field); first-stage threads do access one slot at
the same time, against src/README.md:76-77, and what keeps that sound is
`RaceFree`; that output slots map 1:1 to input sequences, as main.rs:731 says, holds
for the commands of that benchmark, each of which emits one event, and not for the
pipeline, where a slot's number does not say whose outcome it holds (`OutcomesInOrder`
allows any number of events per command; the order and the timestamp say it); a modify is not matched against the book (handlers.rs:382), so
two orders may cross between commands until one of them trades, although
README.md:117 gives "Two orders crossed" as what triggers a Fill;
`benchmark_lmax_end_to_end_latency` subtracts readings of two clocks that count from
their own first readings (main.rs:30, util/time.rs:12), the consumer's later by
the first message's latency.

About the workloads, which are not modelled: each benchmark has one client, and an
account rests at most 1000 orders (matching.rs:14). The pure place benchmark
sends 100,000 buys that nothing trades with, so from the 1001st on it measures
OrderRejected. In the mixed one the aggressive prices (115 and 125) lie inside the
passive ones (106-110 and 130-134): the aggressive orders trade with each other
and, against main.rs:464 and 467, never with a passive one.

## Plan

1. `InputRing`, `OutputRing`, `Pipeline` and their proofs - done.
2. `BitmapOps`, `OrderBook`, `MatchingEngine`, `PriceTimePriority` - done; proofs of
   the bitmap and of the book's structures (`BitmapProofs`, `OrderBookProofs`) - done as
   listed above.
3. `WireFormat`, `Benchmark`, and a consumer that may stop in `Pipeline` - done.
4. Proofs about the engine, its refinement of `PriceTimePriority` included, and
   `LevelTotals` - done as listed above.
5. Proofs about `WireFormat` - done.
6. Left: liveness, which needs a prover with rules for fairness.
