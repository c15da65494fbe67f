---------------------------- MODULE MatchingEngine ----------------------------
(***************************************************************************)
(* One command at a time against the order book: process_place,              *)
(* process_cancel and process_modify (blp/handlers.rs), match_aggressor       *)
(* (blp/matching.rs) and the event array of the BLP's loop (consumer/blp.rs). *)
(*                                                                          *)
(* A handler runs to its end before the next command.  It is one step, but   *)
(* for its loop and for the two changes a modify makes to the book: pc says  *)
(* whether a place is in match_aggressor's loop ("match", one step per fill) *)
(* or a modify between its remove_order and its add_order ("reinsert").      *)
(***************************************************************************)
EXTENDS Integers, Sequences, SequencesExt, FiniteSets

CONSTANTS
  Radix, Null, Capacity, GenLimit, BasePrice, TickSize,  \* see OrderBook
  Clients,        \* client_id
  ClientOrders,   \* client_order_id
  MaxOpenOrders,  \* MAX_OPEN_ORDERS, 1000
  EventBufferLen, \* length of the event array, 16
  Prices,         \* bound: the prices a Place may name, in range or not
  Quantities,     \* bound: the quantities a Place may name
  NewPrices,      \* bound: what a Modify may name: prices, or Null for None
  NewQtys,        \* bound: what a Modify may name: quantities, or Null for None
  MaxOrderId,     \* bound: how many orders get an id
  MaxFilled,      \* bound: how far modifies in place push filled_qty
  ReuseIds        \* whether clients reuse the id of an order that still rests

Sides    == {"BUY", "SELL"}
Keys     == Clients \X ClientOrders
OrderIds == 1..MaxOrderId

\* struct Order.  symbol, order_type and time_in_force are carried only (what
\* rests is LIMIT and GTC), and quantity is written and never read.
Order == [id: OrderIds, client: Clients, cid: ClientOrders, side: Sides, price: Nat,
          leaves: Nat \ {0}, filled: Nat]

VARIABLES
  generation, order, prev, next, nextFree, freeHead, orderCount, levels, bitmap,
  queue, freeList,  \* the book
  index,        \* OrderIndex: (client, client order) -> OrderLocator, or Null
  openOrders,   \* ClientAccount.open_orders; 0 for a client without account
  nextOrderId,  \* next_order_id
  pc,           \* "idle", "match" or "reinsert"
  cmd,          \* the order being matched or moved, or Null
  emitted,      \* `count`: how many events of the command are in the array
  told          \* history: the live orders as the kept events tell of them

bookVars == <<generation, order, prev, next, nextFree, freeHead, orderCount, levels, bitmap,
              queue, freeList>>
vars == <<generation, order, prev, next, nextFree, freeHead, orderCount, levels, bitmap,
          queue, freeList, index, openOrders, nextOrderId, pc, cmd, emitted, told>>

Book == INSTANCE OrderBook WITH
  Orders    <- Order,
  UsedTicks <- 0..Radix*Radix*Radix-1

Slots == Book!Slots
Ticks == Book!Ticks

Locator == [oid: [index: Slots, generation: 0..GenLimit-1], tick: Ticks, side: Sides,
            internalId: OrderIds]

\* The arena, the radix and the tick size are positive; the bounds are sets of
\* what a message can name, and Null is none of the values it stands in for.
ASSUME MatchingEngineAssumption ==
  /\ Radix \in Nat \ {0} /\ Capacity \in Nat \ {0} /\ GenLimit \in Nat \ {0}
  /\ TickSize \in Nat \ {0} /\ BasePrice \in Nat
  /\ MaxOpenOrders \in Nat /\ EventBufferLen \in Nat /\ MaxOrderId \in Nat
  /\ MaxFilled \in Nat
  /\ Prices \subseteq Nat /\ Quantities \subseteq Nat
  /\ NewPrices \subseteq Nat \cup {Null} /\ NewQtys \subseteq Nat \cup {Null}
  /\ ReuseIds \in BOOLEAN
  /\ Null \notin Int /\ Null \notin Order /\ Null \notin Book!PriceLevel /\ Null \notin Locator
  /\ Null \notin [id: OrderIds, side: Sides, limit: Int \cup {Null}, leaves: Nat, trading: BOOLEAN]
  /\ Null \notin [price: Nat, leaves: Nat \ {0}]

Init ==
  /\ Book!Init
  /\ index = [key \in Keys |-> Null]
  /\ openOrders = [c \in Clients |-> 0]
  /\ nextOrderId = 1
  /\ pc = "idle"
  /\ cmd = Null
  /\ emitted = 0
  /\ told = [id \in OrderIds |-> Null]

-----------------------------------------------------------------------------
(***************************************************************************)
(* Output events.  The rejections leave every order as it was for a reader   *)
(* of the output: told does not change.                                      *)
(***************************************************************************)
\* OrderAccepted and OrderModified: the order rests, at a price, with a rest.
HeardRests(id, price, leaves) == [told EXCEPT ![id] = [price |-> price, leaves |-> leaves]]

\* A Fill, for its resting order.
HeardFill(id, qty) ==
  IF told[id] = Null THEN told
  ELSE [told EXCEPT ![id] = IF @.leaves > qty
                            THEN [price |-> @.price, leaves |-> @.leaves - qty] ELSE Null]

\* OrderCancelled.
HeardGone(id) == [told EXCEPT ![id] = Null]

\* Mutant of ArrayHasRoom: the last place of the array is not used.
ArrayHasRoomLess == emitted < EventBufferLen - 1

ArrayHasRoom == emitted < EventBufferLen

\* The emit closure: an event beyond the array is dropped.  `heard` is what a
\* reader makes of the event if it is not.
Emit(heard) == told' = IF ArrayHasRoom THEN heard ELSE told

\* Mutant of Counted: the count runs on when the array is full.
CountedPast == emitted + 1

Counted == IF ArrayHasRoom THEN emitted + 1 ELSE emitted

\* saturating_sub(1) of open_orders.
OneLess(client) == [openOrders EXCEPT ![client] = Book!Monus(@, 1)]
OneMore(client) == [openOrders EXCEPT ![client] = @ + 1]

Opposite(side) == IF side = "BUY" THEN "SELL" ELSE "BUY"

-----------------------------------------------------------------------------
(***************************************************************************)
(* process_place.                                                          *)
(***************************************************************************)
\* The client's discipline, where a run assumes it: an id is used again only
\* after its order is gone.
IdFree(c, k) ==
  ReuseIds \/ \A s \in Slots : order[s] # Null => order[s].client # c \/ order[s].cid # k

OverLimit(c) == openOrders[c] >= MaxOpenOrders

\* Some(price) that price_to_tick finds a tick for.
HasTick(price) == price # Null /\ Book!PriceToTick(price) # Null

\* Rejected before the order gets an id.
PlaceRejected(c, k, quantity) ==
  /\ pc = "idle" /\ IdFree(c, k)
  /\ quantity = 0 \/ OverLimit(c)
  /\ Emit(told)
  /\ UNCHANGED <<bookVars, index, openOrders, nextOrderId, pc, cmd, emitted>>

\* Rejected after it got one (handlers.rs:58): a LIMIT order without a price
\* (Null) or with one that no tick has.
PlaceInvalid(c, k, price, quantity) ==
  /\ pc = "idle" /\ IdFree(c, k)
  /\ quantity # 0 /\ ~OverLimit(c)
  /\ nextOrderId \in OrderIds
  /\ ~HasTick(price)
  /\ nextOrderId' = nextOrderId + 1
  /\ Emit(told)
  /\ UNCHANGED <<bookVars, index, openOrders, pc, cmd, emitted>>

\* The call of match_aggressor: price is Null for a MARKET order.
PlaceAccepted(c, k, side, price, quantity) ==
  /\ pc = "idle" /\ IdFree(c, k)
  /\ quantity # 0 /\ ~OverLimit(c)
  /\ nextOrderId \in OrderIds
  /\ price = Null \/ HasTick(price)
  /\ nextOrderId' = nextOrderId + 1
  /\ cmd' = [id |-> nextOrderId, client |-> c, cid |-> k, side |-> side, price |-> price,
             leaves |-> quantity, filled |-> 0]
  /\ pc' = "match"
  /\ UNCHANGED <<bookVars, index, openOrders, emitted, told>>

-----------------------------------------------------------------------------
(***************************************************************************)
(* match_aggressor.                                                        *)
(***************************************************************************)
BestTick ==
  IF cmd.side = "BUY" THEN Book!BestAsk(bitmap["SELL"]) ELSE Book!BestBid(bitmap["BUY"])

\* Mutant of Crosses: a market order's rule for every order.
CrossesAlways(tick) == TRUE

Crosses(tick) ==
  cmd.price # Null =>
    /\ cmd.side = "BUY"  => cmd.price >= Book!TickToPrice(tick)
    /\ cmd.side = "SELL" => cmd.price <= Book!TickToPrice(tick)

\* Mutant of RestingSlot: the newest order of the level trades first.
RestingSlotTail == levels[Opposite(cmd.side)][BestTick].tail

\* The order that waited longest at the best level.
RestingSlot == levels[Opposite(cmd.side)][BestTick].head

\* Mutant of CanMatch: the loop does not look at leaves_qty.
CanMatchAnyQty ==
  /\ BestTick # Null
  /\ Crosses(BestTick)
  /\ levels[Opposite(cmd.side)][BestTick] # Null
  /\ Book!Occupied(RestingSlot)

\* The loop goes on: none of its breaks is taken.
CanMatch ==
  /\ cmd.leaves > 0
  /\ BestTick # Null
  /\ Crosses(BestTick)
  /\ levels[Opposite(cmd.side)][BestTick] # Null
  /\ Book!Occupied(RestingSlot)

\* Mutants of Deregister: the entry of a filled order stays, and the client is
\* taken from the wrong order of the two.
DeregisterNothing(o) == index
DeregisterWrongClient(o) == [index EXCEPT ![<<cmd.client, o.cid>>] = Null]

Deregister(o) == [index EXCEPT ![<<o.client, o.cid>>] = Null]

\* One turn of the loop.
MatchBest ==
  /\ pc = "match" /\ CanMatch
  /\ LET other   == Opposite(cmd.side)
         slot    == RestingSlot
         resting == order[slot]
         qty     == Book!Min({cmd.leaves, resting.leaves})
     IN /\ Emit(HeardFill(resting.id, qty))
        /\ emitted' = Counted
        /\ cmd' = [cmd EXCEPT !.leaves = @ - qty, !.filled = @ + qty]
        /\ IF qty = resting.leaves
           THEN /\ Book!RemoveOrder(other, BestTick, slot)
                /\ index' = Deregister(resting)
                /\ openOrders' = OneLess(resting.client)
           ELSE /\ Book!ReduceOrder(other, BestTick, slot, qty)
                /\ UNCHANGED <<index, openOrders>>
  /\ UNCHANGED <<nextOrderId, pc>>

\* The array's events are published and the next command starts afresh.
EndCommand == pc' = "idle" /\ cmd' = Null /\ emitted' = 0

\* leaves_qty = 0: the fills have said it all.
Executed ==
  /\ pc = "match" /\ ~CanMatch /\ cmd.leaves = 0
  /\ EndCommand
  /\ UNCHANGED <<bookVars, index, openOrders, nextOrderId, told>>

\* The residual of a MARKET order.
CancelResidual ==
  /\ pc = "match" /\ ~CanMatch /\ cmd.leaves > 0 /\ cmd.price = Null
  /\ Emit(HeardGone(cmd.id))
  /\ EndCommand
  /\ UNCHANGED <<bookVars, index, openOrders, nextOrderId>>

Register(o, oid, tick) ==
  [index EXCEPT ![<<o.client, o.cid>>] =
     [oid |-> oid, tick |-> tick, side |-> o.side, internalId |-> o.id]]

\* The rest of a LIMIT order joins the book.
Rest ==
  /\ pc = "match" /\ ~CanMatch /\ cmd.leaves > 0 /\ cmd.price # Null
  /\ LET tick == Book!PriceToTick(cmd.price)
     IN /\ Book!AddOrder(cmd.side, tick, cmd)
        /\ index' = Register(cmd, Book!NextOrderId, tick)
  /\ openOrders' = OneMore(cmd.client)
  /\ Emit(HeardRests(cmd.id, cmd.price, cmd.leaves))
  /\ EndCommand
  /\ UNCHANGED nextOrderId

\* RejectReason::ArenaFull.
RestRejected ==
  /\ pc = "match" /\ ~CanMatch /\ cmd.leaves > 0 /\ cmd.price # Null
  /\ Book!ArenaFull
  /\ Emit(told)
  /\ EndCommand
  /\ UNCHANGED <<bookVars, index, openOrders, nextOrderId>>

-----------------------------------------------------------------------------
(***************************************************************************)
(* process_cancel and process_modify.                                      *)
(***************************************************************************)
\* Arena::validate
Validates(oid) ==
  oid.index \in Slots /\ generation[oid.index] = oid.generation /\ order[oid.index] # Null

\* The locator is there, its OrderId is good and the order is the client's.
Found(c, k) ==
  /\ index[<<c, k>>] # Null
  /\ Validates(index[<<c, k>>].oid)
  /\ order[index[<<c, k>>].oid.index].client = c

\* A locator that does not validate is dropped from the index.
WithoutStale(c, k) ==
  IF index[<<c, k>>] # Null /\ ~Validates(index[<<c, k>>].oid)
  THEN [index EXCEPT ![<<c, k>>] = Null]
  ELSE index

NotFound(c, k) ==
  /\ pc = "idle" /\ ~Found(c, k)
  /\ index' = WithoutStale(c, k)
  /\ Emit(told)
  /\ UNCHANGED <<bookVars, openOrders, nextOrderId, pc, cmd, emitted>>

CancelRejected(c, k) == NotFound(c, k)

Cancel(c, k) ==
  /\ pc = "idle" /\ Found(c, k)
  /\ LET locator == index[<<c, k>>]
         slot    == locator.oid.index
     IN /\ Emit(HeardGone(locator.internalId))
        /\ Book!RemoveOrder(locator.side, locator.tick, slot)
  /\ index' = [index EXCEPT ![<<c, k>>] = Null]
  /\ openOrders' = OneLess(c)
  /\ UNCHANGED <<nextOrderId, pc, cmd, emitted>>

\* Not found, or a target of nothing left.
ModifyRejected(c, k, newQty) ==
  \/ NotFound(c, k)
  \/ /\ pc = "idle" /\ Found(c, k) /\ newQty = 0
     /\ Emit(told)
     /\ UNCHANGED <<bookVars, index, openOrders, nextOrderId, pc, cmd, emitted>>

\* new_price.unwrap_or(current_price), new_qty.unwrap_or(current_leaves)
TargetPrice(o, newPrice) == IF newPrice = Null THEN o.price ELSE newPrice
TargetLeaves(o, newQty)  == IF newQty = Null THEN o.leaves ELSE newQty

\* Price unchanged and quantity not increased: no need to re-queue.
KeepsPlace(o, newPrice, newQty) ==
  TargetPrice(o, newPrice) = o.price /\ TargetLeaves(o, newQty) <= o.leaves

\* The simple case.
ModifyInPlace(c, k, newPrice, newQty) ==
  /\ pc = "idle" /\ Found(c, k) /\ newQty # 0
  /\ LET locator == index[<<c, k>>]
         slot    == locator.oid.index
         o       == order[slot]
         target  == TargetLeaves(o, newQty)
     IN /\ KeepsPlace(o, newPrice, newQty)
        /\ (o.filled + o.leaves) - target <= MaxFilled
        /\ Book!ReduceOrder(locator.side, locator.tick, slot, o.leaves - target)
        /\ Emit(HeardRests(locator.internalId, o.price, target))
  /\ UNCHANGED <<index, openOrders, nextOrderId, pc, cmd, emitted>>

\* new_order of process_modify: client and id are the command's, the rest is
\* the old order's.
NewOrder(o, id, c, k, price, leaves) ==
  [o EXCEPT !.id = id, !.client = c, !.cid = k, !.price = price, !.leaves = leaves]

\* The complex case, up to remove_order and the removal from the index.
ModifyRemove(c, k, newPrice, newQty) ==
  /\ pc = "idle" /\ Found(c, k) /\ newQty # 0
  /\ LET locator == index[<<c, k>>]
         slot    == locator.oid.index
         o       == order[slot]
     IN /\ ~KeepsPlace(o, newPrice, newQty)
        /\ Book!RemoveOrder(locator.side, locator.tick, slot)
        /\ cmd' = NewOrder(o, locator.internalId, c, k, TargetPrice(o, newPrice),
                           TargetLeaves(o, newQty))
  /\ index' = [index EXCEPT ![<<c, k>>] = Null]
  /\ pc' = "reinsert"
  /\ UNCHANGED <<openOrders, nextOrderId, emitted, told>>

\* Its end: the order joins the queue of its price again, without matching.
ModifyReinsert ==
  /\ pc = "reinsert" /\ Book!PriceToTick(cmd.price) # Null
  /\ LET tick == Book!PriceToTick(cmd.price)
     IN /\ Book!AddOrder(cmd.side, tick, cmd)
        /\ index' = Register(cmd, Book!NextOrderId, tick)
  /\ Emit(HeardRests(cmd.id, cmd.price, cmd.leaves))
  /\ EndCommand
  /\ UNCHANGED <<openOrders, nextOrderId>>

\* Mutant of ModifyDropped: the account keeps the order that is gone.
ModifyDroppedSilently ==
  /\ pc = "reinsert"
  /\ Book!PriceToTick(cmd.price) = Null \/ Book!ArenaFull
  /\ Emit(told)
  /\ EndCommand
  /\ UNCHANGED <<bookVars, index, openOrders, nextOrderId>>

\* No tick has the new price, or no slot is free: the order is gone.
ModifyDropped ==
  /\ pc = "reinsert"
  /\ Book!PriceToTick(cmd.price) = Null \/ Book!ArenaFull
  /\ openOrders' = OneLess(cmd.client)
  /\ Emit(told)
  /\ EndCommand
  /\ UNCHANGED <<bookVars, index, nextOrderId>>

-----------------------------------------------------------------------------
\* The steps that finish a command once it has begun.
Finish ==
  \/ MatchBest \/ Executed \/ CancelResidual \/ Rest \/ RestRejected
  \/ ModifyReinsert \/ ModifyDropped

Place(c, k) ==
  \E quantity \in Quantities :
    \/ PlaceRejected(c, k, quantity)
    \/ \E price \in Prices \cup {Null} : PlaceInvalid(c, k, price, quantity)
    \/ \E side \in Sides, price \in Prices \cup {Null} : PlaceAccepted(c, k, side, price, quantity)

Modify(c, k) ==
  \E newQty \in NewQtys :
    \/ ModifyRejected(c, k, newQty)
    \/ \E newPrice \in NewPrices :
         ModifyInPlace(c, k, newPrice, newQty) \/ ModifyRemove(c, k, newPrice, newQty)

Next ==
  \/ Finish
  \/ \E c \in Clients, k \in ClientOrders :
       Place(c, k) \/ Cancel(c, k) \/ CancelRejected(c, k) \/ Modify(c, k)

Spec == Init /\ [][Next]_vars

\* A handler runs to its end: the thread never blocks inside one.
FairSpec == Spec /\ WF_vars(Finish)

-----------------------------------------------------------------------------
Live(s) == order[s] # Null

\* The book, the index, the accounts and the command have their types, and the
\* event array its length.
TypeOK ==
  /\ Book!TypeOK
  /\ index \in [Keys -> Locator \cup {Null}]
  /\ openOrders \in [Clients -> Nat]
  /\ nextOrderId \in 1..MaxOrderId+1
  /\ pc \in {"idle", "match", "reinsert"}
  /\ IF pc = "idle" THEN cmd = Null
     ELSE /\ cmd \in [id: OrderIds, client: Clients, cid: ClientOrders, side: Sides,
                      price: Nat \cup {Null}, leaves: Nat, filled: Nat]
          /\ pc = "reinsert" => cmd.price # Null /\ cmd.leaves > 0
  /\ emitted \in 0..EventBufferLen
  /\ told \in [OrderIds -> [price: Nat, leaves: Nat \ {0}] \cup {Null}]

\* Whatever is in the index is right: the OrderId validates and the order
\* there is the client's, under that id, in the level the locator names.  So
\* the branches for stale and foreign locators never run, and it does not
\* matter that generations wrap.
IndexSound ==
  \A key \in Keys : index[key] # Null =>
    LET locator == index[key]
        o == order[locator.oid.index]
    IN /\ Validates(locator.oid)
       /\ <<o.client, o.cid>> = key /\ o.id = locator.internalId /\ o.side = locator.side
       /\ Contains(queue[locator.side][locator.tick], locator.oid.index)

\* open_orders, changed in five places of two files, is the number of the
\* client's orders in the book (and the one a modify holds out of it), and no
\* history brings it over the limit.
OpenOrdersCounted ==
  \A c \in Clients :
    /\ openOrders[c] = Cardinality({s \in Slots : Live(s) /\ order[s].client = c})
                       + (IF pc = "reinsert" /\ cmd.client = c THEN 1 ELSE 0)
    /\ openOrders[c] <= MaxOpenOrders

\* A modify that took its order out of the book always finds a slot to put it
\* back: the ArenaFull branch of process_modify, which loses an order, is dead.
ReinsertHasRoom == pc = "reinsert" => ~Book!ArenaFull

\* The order is on the other side of the book and within the command's limit; a
\* market order has none.  A BUY's limit is raised by above, a SELL's by least.
CouldTrade(o, above, least) ==
  /\ o.side = Opposite(cmd.side)
  /\ \/ cmd.price = Null
     \/ cmd.side = "BUY" /\ o.price <= cmd.price + above
     \/ cmd.side = "SELL" /\ o.price >= cmd.price + least

\* README.md:117: a Fill is for "two orders crossed": the resting order it
\* executes is within the limit of the aggressor.  And the loop leaves no such
\* pair behind: a place that ends with something unfilled, resting, cancelled
\* or rejected, leaves no order it could have traded with.  So a book that is
\* crossed between two commands was crossed by a modify.
\* price_to_tick rounds down and the limit is compared with the level's price,
\* so both halves are as sharp as a level is wide: a BUY may pay up to
\* TickSize - 1 over its limit, and a SELL may leave bids behind that are less
\* than TickSize - 1 above its own.  With TickSize = 1 they are exact.
FillsCross ==
  [][/\ MatchBest => CouldTrade(order[RestingSlot], TickSize - 1, 0)
     /\ pc = "match" /\ pc' = "idle" /\ cmd.leaves > 0 =>
          \A s \in Slots : order'[s] # Null => ~CouldTrade(order'[s], 0, TickSize - 1)]_vars

\* README.md:115 and 118-120: a reader who only follows the output events knows
\* after every command which orders rest, at what price and with what left.
StreamTellsBook ==
  pc = "idle" =>
    \A id \in OrderIds :
      LET at == {s \in Slots : Live(s) /\ order[s].id = id}
      IN IF at = {} THEN told[id] = Null
         ELSE \A s \in at : told[id] = [price |-> order[s].price, leaves |-> order[s].leaves]

\* A client that does not reuse the id of a resting order can reach every one
\* of its orders: none is in the book without its entry in the index.
EveryOrderReachable ==
  \A s \in Slots : Live(s) =>
    LET locator == index[<<order[s].client, order[s].cid>>]
    IN locator # Null /\ locator.oid.index = s

\* README.md:119: CancelRejected means "order not found or already filled":
\* the owner of an order that rests never gets it for that order's id.
CancelRejectedOnlyIfGone ==
  pc = "idle" => \A s \in Slots : Live(s) => Found(order[s].client, order[s].cid)

\* Every command ends: match_aggressor's loop has no bound of its own, it ends
\* because each turn empties the aggressor or takes an order out of the book.
CommandsEnd == (pc # "idle") ~> (pc = "idle")

\* The queues of orders, and the order being executed or moved, as
\* PriceTimePriority has them.
Resting ==
  [side \in Sides |-> [t \in Ticks |->
     [i \in 1..Len(queue[side][t]) |-> [id     |-> order[queue[side][t][i]].id,
                                        leaves |-> order[queue[side][t][i]].leaves]]]]

Executing ==
  IF pc = "idle" THEN Null
  ELSE [id |-> cmd.id, side |-> cmd.side,
        limit |-> IF cmd.price = Null THEN Null ELSE Book!PriceToTick(cmd.price),
        leaves |-> cmd.leaves, trading |-> pc = "match"]

\* With one price per tick the engine is a price-time priority book.
PriceTime == INSTANCE PriceTimePriority WITH
  Ids      <- OrderIds,
  Levels   <- Ticks,
  resting  <- Resting,
  incoming <- Executing

ImplementsPriceTime == PriceTime!FairSpec

=============================================================================
