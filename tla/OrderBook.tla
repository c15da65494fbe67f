------------------------------ MODULE OrderBook ------------------------------
(***************************************************************************)
(* The order book of the BLP (blp/book.rs, arena.rs, price_level.rs): an     *)
(* arena of slots shared by both sides, a free list through the free slots,  *)
(* per price level a doubly linked list through the occupied ones, and per   *)
(* side a bitmap of the levels in use.  The actions are the three ways in    *)
(* which the handlers change it.  The book is the BLP thread's own, so an     *)
(* operation is one step.                                                    *)
(*                                                                          *)
(* queue and freeList are history variables: the lists as sequences, changed *)
(* as an order queue and a stack would be, never read by an operation.       *)
(***************************************************************************)
EXTENDS BitmapOps, Sequences, SequencesExt

CONSTANTS
  Capacity,   \* slots of the arena
  GenLimit,   \* generation is a u32: it counts modulo this, 2^32
  BasePrice,  \* price of tick 0
  TickSize,   \* price difference of two ticks
  Orders,     \* the orders that may rest: records with leaves and filled
  UsedTicks   \* bound: the ticks that orders arrive at

Sides == {"BUY", "SELL"}
Slots == 0..Capacity-1

PriceLevel == [head: Slots \cup {Null}, tail: Slots \cup {Null}, orderCount: Nat, totalQty: Nat]
NewLevel   == [head |-> Null, tail |-> Null, orderCount |-> 0, totalQty |-> 0]

\* What a fill, and a modify that reduces in place, do to an order.
Reduced(ord, qty) == [ord EXCEPT !.leaves = @ - qty, !.filled = @ + qty]

\* Arena::new is called with a positive capacity.
ASSUME OrderBookAssumption ==
  /\ Capacity \in Nat \ {0}
  /\ GenLimit \in Nat \ {0}
  /\ BasePrice \in Nat /\ TickSize \in Nat \ {0}
  /\ \A ord \in Orders : /\ {"leaves", "filled"} \subseteq DOMAIN ord
                          /\ ord.leaves \in Nat \ {0} /\ ord.filled \in Nat
  /\ \A ord \in Orders : \A qty \in 1..ord.leaves-1 : Reduced(ord, qty) \in Orders
  /\ Null \notin Orders /\ Null \notin PriceLevel
  /\ UsedTicks \subseteq Ticks

VARIABLES
  generation,  \* Slot.generation
  order,       \* SlotState::Occupied.order; Null in a Free slot
  prev, next,  \* SlotState::Occupied.prev and .next
  nextFree,    \* SlotState::Free.next_free
  freeHead,    \* Arena.free_order_head
  orderCount,  \* Arena.order_count
  levels,      \* HalfBook.price_levels of each side; Null: None
  bitmap,      \* HalfBook.bitmap of each side
  queue,       \* history: the slots of each level, oldest first
  freeList     \* history: the free slots, next to be used first

vars == <<generation, order, prev, next, nextFree, freeHead, orderCount, levels, bitmap,
          queue, freeList>>

\* Mutant of PriceToTick: a price between two ticks goes to the upper one.
PriceToTickUp(price) ==
  IF price >= BasePrice /\ (price - BasePrice + TickSize - 1) \div TickSize \in Ticks
  THEN (price - BasePrice + TickSize - 1) \div TickSize
  ELSE Null

\* A level takes every price from its own to TickSize - 1 above it.
PriceToTick(price) ==
  IF price >= BasePrice /\ (price - BasePrice) \div TickSize \in Ticks
  THEN (price - BasePrice) \div TickSize
  ELSE Null

TickToPrice(tick) == BasePrice + (tick * TickSize)

\* The free list of Arena::new runs through the slots in order.
Init ==
  /\ generation = [s \in Slots |-> 0]
  /\ order = [s \in Slots |-> Null]
  /\ prev = [s \in Slots |-> Null] /\ next = [s \in Slots |-> Null]
  /\ nextFree = [s \in Slots |-> IF s + 1 \in Slots THEN s + 1 ELSE Null]
  /\ freeHead = 0
  /\ orderCount = 0
  /\ levels = [side \in Sides |-> [t \in Ticks |-> Null]]
  /\ bitmap = [side \in Sides |-> NewBitmap]
  /\ queue = [side \in Sides |-> [t \in Ticks |-> << >>]]
  /\ freeList = [i \in 1..Capacity |-> i - 1]

-----------------------------------------------------------------------------
Occupied(slot) == slot # Null /\ order[slot] # Null

\* saturating_sub
Monus(a, b) == IF a >= b THEN a - b ELSE 0

\* A level with one more order at its tail, and with one order taken out.
LevelWith(level, idx, qty) ==
  [head |-> IF level.head = Null THEN idx ELSE level.head,
   tail |-> idx,
   orderCount |-> level.orderCount + 1,
   totalQty |-> level.totalQty + qty]

\* Mutant of LevelWithout: free_order forgets the tail.
LevelWithoutKeepsTail(level, idx) ==
  [level EXCEPT !.head = IF @ = idx THEN next[idx] ELSE @, !.orderCount = @ - 1,
                !.totalQty = Monus(@, order[idx].leaves)]

LevelWithout(level, idx) ==
  [head |-> IF level.head = idx THEN next[idx] ELSE level.head,
   tail |-> IF level.tail = idx THEN prev[idx] ELSE level.tail,
   orderCount |-> level.orderCount - 1,
   totalQty |-> Monus(level.totalQty, order[idx].leaves)]

\* `if let SlotState::Occupied { ref mut next, .. }` of a neighbour.
Relinked(links, at, to) == IF Occupied(at) THEN [links EXCEPT ![at] = to] ELSE links

\* Mutant of LinkAtTail: the new order does not learn of the one before it.
LinkForwardOnly(idx, tail) ==
  /\ prev' = [prev EXCEPT ![idx] = Null]
  /\ next' = [Relinked(next, tail, idx) EXCEPT ![idx] = Null]

\* The new slot behind the tail of its level.
LinkAtTail(idx, tail) ==
  /\ prev' = [prev EXCEPT ![idx] = tail]
  /\ next' = [Relinked(next, tail, idx) EXCEPT ![idx] = Null]

\* The neighbours of a slot that becomes Free.
Unlink(idx) ==
  /\ next' = [Relinked(next, prev[idx], next[idx]) EXCEPT ![idx] = Null]
  /\ prev' = [Relinked(prev, next[idx], prev[idx]) EXCEPT ![idx] = Null]

\* Mutant of BitmapWithout: the bit goes with any order of the level.
BitmapWithoutEager(side, tick, last) == [bitmap EXCEPT ![side] = ClearBit(@, tick)]

BitmapWithout(side, tick, last) ==
  IF last THEN [bitmap EXCEPT ![side] = ClearBit(@, tick)] ELSE bitmap

\* Mutant of PopFree: the free slots are taken to follow each other.
PopFreeBump(idx) ==
  /\ freeHead' = idx + 1
  /\ nextFree' = [nextFree EXCEPT ![idx] = Null]

PopFree(idx) ==
  /\ freeHead' = nextFree[idx]
  /\ nextFree' = [nextFree EXCEPT ![idx] = Null]

\* Mutants of PushFree: the slots behind are lost, and the slot itself is.
PushFreeDropsRest(idx) ==
  /\ nextFree' = [nextFree EXCEPT ![idx] = Null]
  /\ freeHead' = idx
PushFreeLost(idx) ==
  /\ nextFree' = [nextFree EXCEPT ![idx] = freeHead]
  /\ UNCHANGED freeHead

PushFree(idx) ==
  /\ nextFree' = [nextFree EXCEPT ![idx] = freeHead]
  /\ freeHead' = idx

\* Arena::alloc_order answers Err(order).
ArenaFull == freeHead = Null

\* The OrderId an alloc_order answers with.
NextOrderId == [index |-> freeHead, generation |-> generation[freeHead]]

\* HalfBook::add_order and Arena::alloc_order with room in the arena.  (With
\* none they change nothing: a level made for the order is dropped again.)
AddOrder(side, tick, ord) ==
  /\ ~ArenaFull
  /\ LET idx == freeHead
         level == IF levels[side][tick] = Null THEN NewLevel ELSE levels[side][tick]
     IN /\ order' = [order EXCEPT ![idx] = ord]
        /\ LinkAtTail(idx, level.tail)
        /\ levels' = [levels EXCEPT ![side][tick] = LevelWith(level, idx, ord.leaves)]
        /\ PopFree(idx)
        /\ orderCount' = orderCount + 1
        /\ bitmap' = [bitmap EXCEPT ![side] = SetBit(@, tick)]
        /\ queue' = [queue EXCEPT ![side][tick] = Append(@, idx)]
        /\ freeList' = Tail(freeList)
        /\ UNCHANGED generation

\* HalfBook::remove_order and Arena::free_order: unlink the slot, put it in
\* front of the free list, drop the level with its last order.  On a level
\* that is None or a slot that is Free they change nothing; no caller names such
\* a place (MatchingEngine's IndexSound), and these branches are the guard here.
RemoveOrder(side, tick, idx) ==
  /\ levels[side][tick] # Null /\ Occupied(idx)
  /\ LET level == LevelWithout(levels[side][tick], idx)
         last  == level.orderCount = 0
     IN /\ levels' = [levels EXCEPT ![side][tick] = IF last THEN Null ELSE level]
        /\ bitmap' = BitmapWithout(side, tick, last)
  /\ Unlink(idx)
  /\ order' = [order EXCEPT ![idx] = Null]
  /\ generation' = [generation EXCEPT ![idx] = (@ + 1) % GenLimit]
  /\ PushFree(idx)
  /\ orderCount' = orderCount - 1
  /\ queue' = [queue EXCEPT ![side][tick] = RemoveFirst(@, idx)]
  /\ freeList' = <<idx>> \o freeList

\* Mutant of LevelReduced: the level's total is left as it was.
LevelNotReduced(level, qty) == level

LevelReduced(level, qty) == [level EXCEPT !.totalQty = Monus(@, qty)]

\* A partial fill in match_aggressor, and the in-place branch of
\* process_modify: the order and its level lose qty, the lists stay.
ReduceOrder(side, tick, idx, qty) ==
  /\ Occupied(idx)
  /\ order' = [order EXCEPT ![idx] = Reduced(@, qty)]
  /\ levels' = IF levels[side][tick] = Null THEN levels
               ELSE [levels EXCEPT ![side][tick] = LevelReduced(@, qty)]
  /\ UNCHANGED <<generation, prev, next, nextFree, freeHead, orderCount, bitmap, queue, freeList>>

\* The callers name a slot together with the level it is in.
Next ==
  \E side \in Sides, tick \in UsedTicks :
    \/ \E ord \in Orders : AddOrder(side, tick, ord)
    \/ \E idx \in ToSet(queue[side][tick]) : RemoveOrder(side, tick, idx)
    \/ \E idx \in ToSet(queue[side][tick]) :
         \E qty \in 1..order[idx].leaves-1 : ReduceOrder(side, tick, idx, qty)

Spec == Init /\ [][Next]_vars

-----------------------------------------------------------------------------
\* The slots, the levels, the bitmaps and the counters have their types.
TypeOK ==
  /\ generation \in [Slots -> 0..GenLimit-1]
  /\ order \in [Slots -> Orders \cup {Null}]
  /\ prev \in [Slots -> Slots \cup {Null}]
  /\ next \in [Slots -> Slots \cup {Null}]
  /\ nextFree \in [Slots -> Slots \cup {Null}]
  /\ freeHead \in Slots \cup {Null}
  /\ orderCount \in 0..Capacity
  /\ levels \in [Sides -> [Ticks -> PriceLevel \cup {Null}]]
  /\ bitmap \in [Sides -> Bitmap]
  /\ queue \in [Sides -> [Ticks -> Seq(Slots)]]
  /\ freeList \in Seq(Slots)

\* A list of slots is linked through `fwd` from `first` on.
LinkedFrom(first, list, fwd) ==
  /\ first = IF list = << >> THEN Null ELSE list[1]
  /\ \A i \in 1..Len(list) : fwd[list[i]] = IF i = Len(list) THEN Null ELSE list[i + 1]

\* A level is there exactly while it has orders, and then its head, tail and
\* count, and the prev and next of its slots, spell its orders in the order of
\* their arrival - whatever was cancelled or filled from the middle meanwhile.
LevelsAreQueues ==
  \A side \in Sides, t \in Ticks :
    LET q == queue[side][t]
        level == levels[side][t]
    IN IF q = << >> THEN level = Null
       ELSE /\ level # Null
            /\ level.orderCount = Len(q)
            /\ LinkedFrom(level.head, q, next)
            /\ LinkedFrom(level.tail, Reverse(q), prev)

\* No slot is lost and none is in two places: it is on the free list once and
\* Free, or in one level of one side once and Occupied; the next_free links
\* and the count of orders say the same.
SlotsAccounted ==
  /\ LinkedFrom(freeHead, freeList, nextFree)
  /\ IsInjective(freeList)
  /\ \A side \in Sides, t \in Ticks : IsInjective(queue[side][t])
  /\ \A s \in Slots :
       /\ order[s] = Null <=> s \in ToSet(freeList)
       /\ order[s] = Null => prev[s] = Null /\ next[s] = Null
       /\ order[s] # Null => \E side \in Sides, t \in Ticks : s \in ToSet(queue[side][t])
       /\ \A side1, side2 \in Sides, t1, t2 \in Ticks :
            s \in ToSet(queue[side1][t1]) /\ s \in ToSet(queue[side2][t2])
              => order[s] # Null /\ side1 = side2 /\ t1 = t2
  /\ orderCount = Capacity - Len(freeList)

\* The ticks in use, as the price levels have them.
TicksInUse(side) == {t \in Ticks : levels[side][t] # Null}

\* The three levels of each bitmap mark exactly the price levels in use: no bit
\* outlives its word and no word its bit, so that no scan of best_ask or
\* best_bid meets an empty word.
LevelsAgree == \A side \in Sides : MarksExactly(bitmap[side], TicksInUse(side))

\* best_ask and best_bid answer from the bitmap alone: they give the lowest
\* and the highest price level that has orders, or None when the side is
\* empty, after any history of orders joining and leaving levels.
BestLevelsFound ==
  \A side \in Sides :
    /\ IsLeast(BestAsk(bitmap[side]), TicksInUse(side))
    /\ IsGreatest(BestBid(bitmap[side]), TicksInUse(side))

\* What the orders in these slots have left.
LeavesOf(ords, slots) == MapThenSumSet(LAMBDA s : ords[s].leaves, slots)

\* total_qty, kept up by four different code paths, is the sum of what the
\* orders of the level have left (sums beyond a u64 are not modelled).
LevelTotals ==
  \A side \in Sides, t \in Ticks :
    levels[side][t] # Null =>
      levels[side][t].totalQty = LeavesOf(order, ToSet(queue[side][t]))

=============================================================================
