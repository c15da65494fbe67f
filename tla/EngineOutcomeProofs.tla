------------------------- MODULE EngineOutcomeProofs -------------------------
(***************************************************************************)
(* What the clients get of the engine: who trades with whom, what the        *)
(* events tell, which orders can be reached.  It rests on the invariant of   *)
(* EngineProofs and on what each kind of step does to the queues.            *)
(***************************************************************************)
EXTENDS EngineProofs

-----------------------------------------------------------------------------
(* What each change of the book does, for all that is proved of it below.     *)

\* Rest and ModifyReinsert: the command's order joins the queue of its tick.
Joins ==
  /\ pc # "idle" /\ (pc = "match" => ~CanMatch)
  /\ pc' = "idle" /\ cmd' = Null /\ emitted' = 0 /\ cmd \in Order
  /\ Book!PriceToTick(cmd.price) \in Ticks
  /\ freeHead \in Slots /\ order[freeHead] = Null
  /\ order' = [order EXCEPT ![freeHead] = cmd]
  /\ queue' = [queue EXCEPT ![cmd.side][Book!PriceToTick(cmd.price)] = Append(@, freeHead)]
  /\ index' = Register(cmd, Book!NextOrderId, Book!PriceToTick(cmd.price))
  /\ Emit(HeardRests(cmd.id, cmd.price, cmd.leaves))
  /\ UNCHANGED nextOrderId

\* The i-th order of a queue leaves the book, or loses qty.
Resident(side, tick, i) ==
  /\ side \in Sides /\ tick \in Ticks /\ i \in 1..Len(queue[side][tick])
  /\ queue[side][tick][i] \in Slots /\ order[queue[side][tick][i]] \in Order

Leaves(side, tick, i) ==
  /\ Resident(side, tick, i)
  /\ order' = [order EXCEPT ![queue[side][tick][i]] = Null]
  /\ queue' = [queue EXCEPT ![side][tick] = BookP!Without(@, i)]
  /\ index' = Deregister(order[queue[side][tick][i]])
  /\ UNCHANGED nextOrderId

Loses(side, tick, i, qty) ==
  /\ Resident(side, tick, i)
  /\ qty \in 0..order[queue[side][tick][i]].leaves-1
  /\ order' = [order EXCEPT ![queue[side][tick][i]] = Book!Reduced(@, qty)]
  /\ UNCHANGED <<queue, index, nextOrderId>>

LEMMA JoinsEffect == IInv /\ (Rest \/ ModifyReinsert) => Joins
<1> SUFFICES ASSUME IInv, Rest \/ ModifyReinsert PROVE Joins
  OBVIOUS
<1> DEFINE tick == Book!PriceToTick(cmd.price)
<1>1. /\ tick # Null /\ pc # "idle" /\ EndCommand /\ Book!AddOrder(cmd.side, tick, cmd)
      /\ index' = Register(cmd, Book!NextOrderId, tick)
      /\ Emit(HeardRests(cmd.id, cmd.price, cmd.leaves))
      /\ UNCHANGED nextOrderId /\ (pc = "match" => ~CanMatch)
      /\ cmd.price # Null /\ cmd.leaves > 0
  BY IInvMeans DEF EngineTyped, CommandAt, HasTick, Rest, ModifyReinsert
<1>2. cmd \in Order /\ cmd.side \in Sides /\ tick \in Ticks
  BY <1>1, IInvMeans, CommandFields DEF EngineTyped, Book!PriceToTick, Ticks
<1>3. /\ freeHead \in Slots /\ order[freeHead] = Null
      /\ order' = [order EXCEPT ![freeHead] = cmd]
      /\ queue' = [queue EXCEPT ![cmd.side][tick] = Append(@, freeHead)]
  BY <1>1, <1>2, IInvMeans, AddEffect
<1> QED
  BY <1>1, <1>2, <1>3 DEF Joins, EndCommand

LEMMA MatchEffect ==
  ASSUME IInv, MatchBest
  PROVE  LET other == Opposite(cmd.side)
             resting == order[RestingSlot]
             qty == Book!Min({cmd.leaves, resting.leaves})
         IN /\ pc = "match" /\ pc' = "match" /\ cmd \in Command /\ cmd' \in Command
            /\ cmd'.id = cmd.id /\ cmd'.client = cmd.client /\ cmd'.cid = cmd.cid
            /\ cmd'.side = cmd.side /\ cmd'.price = cmd.price /\ cmd'.leaves = cmd.leaves - qty
            /\ Resident(other, BestTick, 1) /\ RestingSlot = queue[other][BestTick][1]
            /\ qty \in Nat \ {0} /\ qty <= cmd.leaves
            /\ Emit(HeardFill(resting.id, qty)) /\ emitted' = Counted
            /\ IF qty = resting.leaves THEN Leaves(other, BestTick, 1)
                                       ELSE Loses(other, BestTick, 1, qty)
<1> DEFINE other == Opposite(cmd.side)
           tick == BestTick
           slot == RestingSlot
           resting == order[slot]
           qty == Book!Min({cmd.leaves, resting.leaves})
           after == [cmd EXCEPT !.leaves = @ - qty, !.filled = @ + qty]
<1>1. pc = "match" /\ CanMatch
  BY DEF MatchBest
<1>2. /\ other \in Sides /\ tick \in Ticks
      /\ 1 \in 1..Len(queue[other][tick]) /\ slot = queue[other][tick][1]
      /\ resting \in Order
      /\ qty \in Nat \ {0} /\ qty <= cmd.leaves
      /\ qty # resting.leaves => qty \in 0..resting.leaves-1
      /\ cmd \in Command
  BY <1>1, MatchQuantity
<1>3. /\ Emit(HeardFill(resting.id, qty)) /\ emitted' = Counted /\ cmd' = after
      /\ pc' = "match" /\ UNCHANGED nextOrderId
  BY <1>1 DEF MatchBest
<1>4. IF qty = resting.leaves
      THEN /\ Book!RemoveOrder(other, tick, slot)
           /\ index' = Deregister(resting)
      ELSE Book!ReduceOrder(other, tick, slot, qty) /\ UNCHANGED index
  BY DEF MatchBest
<1> HIDE DEF other, tick, qty
<1>5. /\ cmd' \in Command /\ cmd'.id = cmd.id /\ cmd'.client = cmd.client /\ cmd'.cid = cmd.cid
      /\ cmd'.side = cmd.side /\ cmd'.price = cmd.price /\ cmd'.leaves = cmd.leaves - qty
  <2>1. cmd.leaves \in Nat
    BY <1>2, CommandFields
  <2>2. qty \in 0..cmd.leaves
    BY <1>2, <2>1
  <2> QED
    BY <1>2, <1>3, <2>2, CommandFilled
<1> HIDE DEF after, slot
<1>6. Resident(other, tick, 1) /\ BookP!IInv
  <2>1. queue[other][tick][1] \in Slots
    BY <1>2, IInvMeans, Shape
  <2> QED
    BY <1>2, <2>1, IInvMeans DEF Resident
<1>7. CASE qty = resting.leaves
  <2>1. Book!RemoveOrder(other, tick, queue[other][tick][1])
    BY <1>2, <1>4, <1>7
  <2>2. /\ order' = [order EXCEPT ![queue[other][tick][1]] = Null]
        /\ queue' = [queue EXCEPT ![other][tick] = BookP!Without(@, 1)]
    BY <1>2, <1>6, <2>1, RemoveEffect
  <2>3. Leaves(other, tick, 1)
    BY <1>2, <1>3, <1>4, <1>6, <1>7, <2>2 DEF Leaves
  <2> QED
    BY <1>1, <1>2, <1>3, <1>5, <1>6, <1>7, <2>3 DEF other, tick, slot, qty
<1>8. CASE qty # resting.leaves
  <2>1. /\ Book!ReduceOrder(other, tick, queue[other][tick][1], qty)
        /\ qty \in 0..order[queue[other][tick][1]].leaves-1
    BY <1>2, <1>4, <1>8
  <2>2. /\ order' = [order EXCEPT ![queue[other][tick][1]] = Book!Reduced(@, qty)]
        /\ UNCHANGED queue
    BY <1>2, <1>6, <2>1, ReduceEffect
  <2>3. Loses(other, tick, 1, qty)
    BY <1>2, <1>3, <1>4, <1>6, <1>8, <2>1, <2>2 DEF Loses
  <2> QED
    BY <1>1, <1>2, <1>3, <1>5, <1>6, <1>8, <2>3 DEF other, tick, slot, qty
<1> QED
  BY <1>7, <1>8

LEMMA CancelEffect ==
  ASSUME IInv, NEW c \in Clients, NEW k \in ClientOrders, Cancel(c, k)
  PROVE  /\ pc = "idle" /\ UNCHANGED <<pc, cmd, emitted>>
         /\ \E side \in Sides, tick \in Ticks : \E i \in 1..Len(queue[side][tick]) :
              /\ Leaves(side, tick, i)
              /\ Emit(HeardGone(order[queue[side][tick][i]].id))
<1> DEFINE locator == index[<<c, k>>]
           side == locator.side
           tick == locator.tick
           slot == locator.oid.index
<1>1. pc = "idle" /\ Found(c, k) /\ UNCHANGED <<nextOrderId, pc, cmd, emitted>>
  BY DEF Cancel
<1>2. /\ Emit(HeardGone(locator.internalId)) /\ Book!RemoveOrder(side, tick, slot)
      /\ index' = [index EXCEPT ![<<c, k>>] = Null]
  BY DEF Cancel
<1>3. /\ side \in Sides /\ tick \in Ticks /\ slot \in Slots /\ order[slot] \in Order
      /\ order[slot].client = c /\ order[slot].cid = k /\ order[slot].id = locator.internalId
      /\ \E i \in 1..Len(queue[side][tick]) : queue[side][tick][i] = slot
  <2>1. FoundAt(locator, c, k)
    BY <1>1, FoundOrder
  <2> HIDE DEF locator
  <2> QED
    BY <2>1 DEF FoundAt
<1> HIDE DEF locator
<1>4. PICK i \in 1..Len(queue[side][tick]) : queue[side][tick][i] = slot
  BY <1>3
<1>5. /\ order' = [order EXCEPT ![queue[side][tick][i]] = Null]
      /\ queue' = [queue EXCEPT ![side][tick] = BookP!Without(@, i)]
  <2>1. Book!RemoveOrder(side, tick, queue[side][tick][i])
    BY <1>2, <1>4
  <2>2. BookP!IInv /\ side \in Sides /\ tick \in Ticks
    BY <1>3, IInvMeans
  <2> HIDE DEF side, tick
  <2> QED
    BY <2>1, <2>2, RemoveEffect
<1>6. Leaves(side, tick, i)
  BY <1>1, <1>2, <1>3, <1>4, <1>5 DEF Leaves, Resident, Deregister
<1> QED
  BY <1>1, <1>2, <1>3, <1>4, <1>6

LEMMA ModifyRemoveEffect ==
  ASSUME IInv, NEW c \in Clients, NEW k \in ClientOrders, NEW newPrice \in NewPrices,
         NEW newQty \in NewQtys, ModifyRemove(c, k, newPrice, newQty)
  PROVE  /\ pc = "idle" /\ pc' = "reinsert" /\ cmd' \in Command
         /\ cmd'.leaves \in Nat \ {0} /\ UNCHANGED <<emitted, told>>
         /\ \E side \in Sides, tick \in Ticks : \E i \in 1..Len(queue[side][tick]) :
              LET o == order[queue[side][tick][i]]
              IN /\ Leaves(side, tick, i) /\ o.side = side
                 /\ cmd'.id = o.id /\ cmd'.client = o.client /\ cmd'.cid = o.cid
                 /\ cmd'.side = o.side /\ cmd'.price = TargetPrice(o, newPrice)
<1> DEFINE locator == index[<<c, k>>]
           side == locator.side
           tick == locator.tick
           slot == locator.oid.index
           o == order[slot]
           taken == NewOrder(o, locator.internalId, c, k, TargetPrice(o, newPrice),
                             TargetLeaves(o, newQty))
<1>1. /\ pc = "idle" /\ Found(c, k) /\ newQty # 0 /\ pc' = "reinsert" /\ cmd' = taken
      /\ UNCHANGED <<nextOrderId, emitted, told>>
  BY DEF ModifyRemove
<1>2. Book!RemoveOrder(side, tick, slot) /\ index' = [index EXCEPT ![<<c, k>>] = Null]
  BY DEF ModifyRemove
<1>3. /\ side \in Sides /\ tick \in Ticks /\ slot \in Slots /\ o \in Order
      /\ locator.internalId \in OrderIds
      /\ o.client = c /\ o.cid = k /\ o.id = locator.internalId /\ o.side = side
      /\ \E i \in 1..Len(queue[side][tick]) : queue[side][tick][i] = slot
  <2>1. FoundAt(locator, c, k)
    BY <1>1, FoundOrder
  <2> HIDE DEF locator
  <2> QED
    BY <2>1 DEF FoundAt
<1>4. /\ taken \in Command /\ taken.leaves \in Nat \ {0} /\ taken.price = TargetPrice(o, newPrice)
      /\ taken.id = o.id /\ taken.client = o.client /\ taken.cid = o.cid /\ taken.side = o.side
  <2>1. TargetPrice(o, newPrice) \in Nat /\ TargetLeaves(o, newQty) \in Nat \ {0}
    BY <1>1, <1>3, TargetTypes
  <2>2. /\ o \in Order /\ locator.internalId \in OrderIds
        /\ o.id = locator.internalId /\ o.client = c /\ o.cid = k
    BY <1>3
  <2> HIDE DEF locator, o
  <2> QED
    BY <2>1, <2>2, CommandTaken
<1> HIDE DEF locator, taken
<1>5. PICK i \in 1..Len(queue[side][tick]) : queue[side][tick][i] = slot
  BY <1>3
<1>6. /\ order' = [order EXCEPT ![queue[side][tick][i]] = Null]
      /\ queue' = [queue EXCEPT ![side][tick] = BookP!Without(@, i)]
  <2>1. Book!RemoveOrder(side, tick, queue[side][tick][i])
    BY <1>2, <1>5
  <2>2. BookP!IInv /\ side \in Sides /\ tick \in Ticks
    BY <1>3, IInvMeans
  <2> HIDE DEF side, tick
  <2> QED
    BY <2>1, <2>2, RemoveEffect
<1>7. Leaves(side, tick, i)
  BY <1>1, <1>2, <1>3, <1>5, <1>6 DEF Leaves, Resident, Deregister
<1> QED
  BY <1>1, <1>3, <1>4, <1>5, <1>7

LEMMA ModifyInPlaceEffect ==
  ASSUME IInv, NEW c \in Clients, NEW k \in ClientOrders, NEW newPrice \in NewPrices,
         NEW newQty \in NewQtys, ModifyInPlace(c, k, newPrice, newQty)
  PROVE  /\ pc = "idle" /\ UNCHANGED <<pc, cmd, emitted>>
         /\ \E side \in Sides, tick \in Ticks : \E i \in 1..Len(queue[side][tick]) :
              LET o == order[queue[side][tick][i]]
              IN \E qty \in 0..o.leaves-1 :
                   Loses(side, tick, i, qty) /\ Emit(HeardRests(o.id, o.price, o.leaves - qty))
<1> DEFINE locator == index[<<c, k>>]
           side == locator.side
           tick == locator.tick
           slot == locator.oid.index
           o == order[slot]
           target == TargetLeaves(o, newQty)
           qty == o.leaves - target
<1>1. /\ pc = "idle" /\ Found(c, k) /\ newQty # 0
      /\ UNCHANGED <<index, nextOrderId, pc, cmd, emitted>>
  BY DEF ModifyInPlace
<1>2. /\ target <= o.leaves /\ Book!ReduceOrder(side, tick, slot, qty)
      /\ Emit(HeardRests(locator.internalId, o.price, target))
  BY DEF ModifyInPlace, KeepsPlace
<1>3. /\ side \in Sides /\ tick \in Ticks /\ slot \in Slots /\ o \in Order
      /\ o.id = locator.internalId
      /\ \E i \in 1..Len(queue[side][tick]) : queue[side][tick][i] = slot
  <2>1. FoundAt(locator, c, k)
    BY <1>1, FoundOrder
  <2> HIDE DEF locator
  <2> QED
    BY <2>1 DEF FoundAt
<1>4. target \in Nat \ {0} /\ qty \in 0..o.leaves-1 /\ o.leaves - qty = target
  <2>1. target \in Nat \ {0}
    BY <1>1, <1>3, TargetTypes
  <2>2. target <= o.leaves /\ o.leaves \in Nat
    BY <1>2, <1>3, Values
  <2> QED
    BY <2>1, <2>2
<1> HIDE DEF locator, target, qty
<1>5. PICK i \in 1..Len(queue[side][tick]) : queue[side][tick][i] = slot
  BY <1>3
<1>6. /\ order' = [order EXCEPT ![queue[side][tick][i]] = Book!Reduced(@, qty)]
      /\ UNCHANGED queue
  <2>1. /\ Book!ReduceOrder(side, tick, queue[side][tick][i], qty)
        /\ qty \in 0..order[queue[side][tick][i]].leaves-1
    BY <1>2, <1>4, <1>5
  <2>2. BookP!IInv /\ side \in Sides /\ tick \in Ticks
    BY <1>3, IInvMeans
  <2> HIDE DEF side, tick
  <2> QED
    BY <2>1, <2>2, ReduceEffect
<1>7. Loses(side, tick, i, qty)
  BY <1>1, <1>3, <1>4, <1>5, <1>6 DEF Loses, Resident
<1>8. qty \in 0..order[queue[side][tick][i]].leaves-1
  BY <1>4, <1>5
<1>9. Emit(HeardRests(order[queue[side][tick][i]].id, order[queue[side][tick][i]].price,
                      order[queue[side][tick][i]].leaves - qty))
  BY <1>2, <1>3, <1>4, <1>5
<1> QED
  BY <1>1, <1>3, <1>5, <1>7, <1>8, <1>9

\* Steps that leave the book alone: the end of a command, and everything that
\* begins none.
Ends ==
  /\ UNCHANGED <<order, queue, index, nextOrderId>>
  /\ pc # "idle" /\ (pc = "match" => ~CanMatch)
  /\ pc' = "idle" /\ cmd' = Null /\ emitted' = 0
  /\ \/ cmd.leaves = 0 \/ cmd.price = Null
     \/ Book!PriceToTick(cmd.price) = Null \/ Book!ArenaFull
  /\ \/ told' = told
     \/ pc = "match" /\ Emit(HeardGone(cmd.id))
  /\ pc = "reinsert" => ModifyDropped

Idles ==
  /\ UNCHANGED <<order, queue, index, pc, cmd, emitted, told>>
  /\ nextOrderId' \in {nextOrderId, nextOrderId + 1}

LEMMA StepKinds ==
  ASSUME IInv, [Next]_vars
  PROVE  \/ Idles \/ Ends \/ Joins \/ MatchBest
         \/ \E c \in Clients, k \in ClientOrders, side \in Sides, price \in Prices \cup {Null},
               quantity \in Quantities : PlaceAccepted(c, k, side, price, quantity)
         \/ \E c \in Clients, k \in ClientOrders : Cancel(c, k)
         \/ \E c \in Clients, k \in ClientOrders, newPrice \in NewPrices, newQty \in NewQtys :
              \/ ModifyRemove(c, k, newPrice, newQty)
              \/ ModifyInPlace(c, k, newPrice, newQty)
<1>1. Executed \/ RestRejected => Ends
  BY DEF Ends, Executed, RestRejected, EndCommand, Emit, bookVars
<1>2. CancelResidual => Ends
  BY DEF Ends, CancelResidual, EndCommand, bookVars
<1>3. ModifyDropped => Ends
  <2> SUFFICES ASSUME ModifyDropped PROVE Ends
    OBVIOUS
  <2>1. /\ UNCHANGED <<order, queue, index, nextOrderId>>
        /\ pc = "reinsert" /\ pc' = "idle" /\ cmd' = Null /\ emitted' = 0 /\ told' = told
        /\ Book!PriceToTick(cmd.price) = Null \/ Book!ArenaFull
    BY DEF ModifyDropped, EndCommand, Emit, bookVars
  <2> QED
    BY <2>1 DEF Ends
<1>4. CASE Rest \/ ModifyReinsert
  BY <1>4, JoinsEffect
<1>5. ASSUME NEW c \in Clients, NEW k \in ClientOrders, NotFound(c, k)
      PROVE  Idles
  BY <1>5, NotFoundMeans DEF Idles, NotFound, WithoutStale, Emit, bookVars
<1>6. ASSUME NEW c \in Clients, NEW k \in ClientOrders, NEW quantity \in Quantities,
             PlaceRejected(c, k, quantity)
      PROVE  Idles
  BY <1>6 DEF Idles, PlaceRejected, Emit, bookVars
<1>7. ASSUME NEW c \in Clients, NEW k \in ClientOrders, NEW price, NEW quantity \in Quantities,
             PlaceInvalid(c, k, price, quantity)
      PROVE  Idles
  BY <1>7 DEF Idles, PlaceInvalid, Emit, bookVars
<1>8. ASSUME NEW c \in Clients, NEW k \in ClientOrders, NEW newQty, ModifyRejected(c, k, newQty)
      PROVE  Idles
  <2>1. CASE NotFound(c, k)
    BY <1>5, <2>1
  <2>2. CASE ~NotFound(c, k)
    BY <1>8, <2>2 DEF Idles, ModifyRejected, Emit, bookVars
  <2> QED
    BY <2>1, <2>2
<1>9. CASE UNCHANGED vars
  BY <1>9 DEF vars, Idles
<1>10. CASE Finish
  BY <1>1, <1>2, <1>3, <1>4, <1>10 DEF Finish
<1>11. ASSUME NEW c \in Clients, NEW k \in ClientOrders, Place(c, k)
       PROVE  Idles \/ \E side \in Sides, price \in Prices \cup {Null}, quantity \in Quantities :
                         PlaceAccepted(c, k, side, price, quantity)
  <2>1. PICK quantity \in Quantities :
          \/ PlaceRejected(c, k, quantity)
          \/ \E price \in Prices \cup {Null} : PlaceInvalid(c, k, price, quantity)
          \/ \E side \in Sides, price \in Prices \cup {Null} :
               PlaceAccepted(c, k, side, price, quantity)
    BY <1>11 DEF Place
  <2> QED
    BY <1>6, <1>7, <2>1
<1>12. ASSUME NEW c \in Clients, NEW k \in ClientOrders, Modify(c, k)
       PROVE  Idles \/ \E newPrice \in NewPrices, newQty \in NewQtys :
                         \/ ModifyRemove(c, k, newPrice, newQty)
                         \/ ModifyInPlace(c, k, newPrice, newQty)
  BY <1>8, <1>12 DEF Modify
<1>13. CASE \E c \in Clients, k \in ClientOrders :
              Place(c, k) \/ Cancel(c, k) \/ CancelRejected(c, k) \/ Modify(c, k)
  <2>1. PICK c \in Clients, k \in ClientOrders :
          Place(c, k) \/ Cancel(c, k) \/ CancelRejected(c, k) \/ Modify(c, k)
    BY <1>13
  <2> QED
    BY <1>5, <1>11, <1>12, <2>1 DEF CancelRejected
<1> QED
  BY <1>9, <1>10, <1>13 DEF Next

-----------------------------------------------------------------------------
(* Clients that do not reuse the id of an order that rests.                 *)

KeyOf(o) == <<o.client, o.cid>>

\* The order being executed or moved has a key of its own.
CommandApart == pc # "idle" => \A s \in Slots : Live(s) => KeyOf(order[s]) # KeyOf(cmd)

ReachInv == EveryOrderReachable /\ CommandApart

\* With the order the command holds, all keys are different.
LEMMA ReachMeans ==
  EveryOrderReachable <=> \A s \in Slots : Live(s) =>
    index[KeyOf(order[s])] # Null /\ index[KeyOf(order[s])].oid.index = s
BY DEF EveryOrderReachable, KeyOf

LEMMA OrderTypes ==
  ASSUME IInv
  PROVE  /\ order \in [Slots -> Order \cup {Null}] /\ index \in [Keys -> Locator \cup {Null}]
         /\ told \in [OrderIds -> Told \cup {Null}]
         /\ \A s \in Slots : Live(s) => /\ order[s] \in Order /\ order[s].id \in OrderIds
                                        /\ KeyOf(order[s]) \in Keys
<1>1. /\ order \in [Slots -> Order \cup {Null}] /\ index \in [Keys -> Locator \cup {Null}]
      /\ told \in [OrderIds -> Told \cup {Null}]
  BY IInvMeans, Shape DEF EngineTyped
<1> QED
  BY <1>1, Values DEF Live, KeyOf, Keys

LEMMA JoinsReach == IInv /\ ReachInv /\ Joins => ReachInv'
<1> SUFFICES ASSUME IInv, ReachInv, Joins PROVE ReachInv'
  OBVIOUS
<1>1. CommandApart'
  BY DEF Joins, CommandApart
<1> SUFFICES ASSUME NEW s \in Slots, order'[s] # Null
             PROVE  index'[KeyOf(order'[s])] # Null /\ index'[KeyOf(order'[s])].oid.index = s
  BY <1>1, Zenon DEF ReachInv, EveryOrderReachable, KeyOf, Live
<1> DEFINE entry == [oid |-> Book!NextOrderId, tick |-> Book!PriceToTick(cmd.price),
                     side |-> cmd.side, internalId |-> cmd.id]
<1>2. /\ order' = [order EXCEPT ![freeHead] = cmd] /\ freeHead \in Slots /\ cmd \in Order
      /\ index' = [index EXCEPT ![KeyOf(cmd)] = entry] /\ pc # "idle"
  BY DEF Joins, Register, KeyOf
<1>3. KeyOf(cmd) \in Keys
  BY <1>2, Values DEF KeyOf, Keys
<1>4. entry # Null /\ entry.oid.index = freeHead
  <2>1. Book!NextOrderId \in [index: Slots, generation: 0..GenLimit-1]
    BY <1>2, IInvMeans, Shape DEF Book!NextOrderId
  <2>2. entry \in Locator
    BY <1>2, <2>1, Values DEF Locator, Joins
  <2> QED
    BY <2>2, MatchingEngineAssumption DEF Book!NextOrderId
<1> HIDE DEF entry
<1>5. CASE s = freeHead
  <2>1. order'[s] = cmd
    BY <1>2, <1>5, OrderTypes
  <2>2. index'[KeyOf(cmd)] = entry
    BY <1>2, <1>3, OrderTypes
  <2> QED
    BY <1>4, <1>5, <2>1, <2>2
<1>6. CASE s # freeHead
  <2>1. order'[s] = order[s] /\ Live(s)
    BY <1>2, <1>6, OrderTypes DEF Live
  <2>2. KeyOf(order[s]) # KeyOf(cmd) /\ KeyOf(order[s]) \in Keys
    BY <1>2, <2>1, OrderTypes DEF ReachInv, CommandApart
  <2>3. index'[KeyOf(order[s])] = index[KeyOf(order[s])]
    BY <1>2, <2>2, OrderTypes
  <2> QED
    BY <2>1, <2>3, ReachMeans DEF ReachInv
<1> QED
  BY <1>5, <1>6

\* The keys of two orders are different: the index has one slot for a key.
LEMMA LeavesReach ==
  ASSUME IInv, ReachInv, NEW side \in Sides, NEW tick \in Ticks, NEW i, Leaves(side, tick, i),
         \/ UNCHANGED <<pc, KeyOf(cmd)>>
         \/ pc' = "idle"
         \/ KeyOf(cmd') = KeyOf(order[queue[side][tick][i]])
  PROVE  ReachInv'
<1> DEFINE idx == queue[side][tick][i]
           o == order[idx]
<1>1. /\ idx \in Slots /\ o \in Order /\ order' = [order EXCEPT ![idx] = Null]
      /\ index' = [index EXCEPT ![KeyOf(o)] = Null]
  BY DEF Leaves, Resident, Deregister, KeyOf
<1>2. ASSUME NEW s \in Slots, order'[s] # Null
      PROVE  /\ order'[s] = order[s] /\ Live(s) /\ KeyOf(order[s]) # KeyOf(o)
             /\ index'[KeyOf(order[s])] = index[KeyOf(order[s])]
  <2>1. s # idx /\ order'[s] = order[s] /\ Live(s)
    BY <1>1, <1>2, OrderTypes DEF Live
  <2>2. Live(idx)
    BY <1>1, Values DEF Live
  <2>3. KeyOf(order[s]) # KeyOf(o)
    BY <1>1, <2>1, <2>2, ReachMeans DEF ReachInv
  <2> QED
    BY <1>1, <2>1, <2>3, OrderTypes
<1>3. EveryOrderReachable'
  <2> SUFFICES ASSUME NEW s \in Slots, order'[s] # Null
               PROVE  index'[KeyOf(order'[s])] # Null /\ index'[KeyOf(order'[s])].oid.index = s
    BY Zenon DEF EveryOrderReachable, KeyOf, Live
  <2> QED
    BY <1>2, ReachMeans DEF ReachInv
<1>4. CommandApart'
  <2> SUFFICES ASSUME pc' # "idle", NEW s \in Slots, order'[s] # Null
               PROVE  KeyOf(order'[s]) # KeyOf(cmd')
    BY DEF CommandApart, Live, KeyOf
  <2>1. CASE UNCHANGED <<pc, KeyOf(cmd)>>
    BY <1>2, <2>1 DEF ReachInv, CommandApart, KeyOf
  <2>2. CASE KeyOf(cmd') = KeyOf(o)
    BY <1>2, <2>2
  <2> QED
    BY <2>1, <2>2
<1> QED
  BY <1>3, <1>4 DEF ReachInv

LEMMA LosesReach ==
  ASSUME IInv, ReachInv, NEW side \in Sides, NEW tick \in Ticks, NEW i, NEW qty,
         Loses(side, tick, i, qty), UNCHANGED <<pc, KeyOf(cmd)>>
  PROVE  ReachInv'
<1> DEFINE idx == queue[side][tick][i]
<1>1. /\ idx \in Slots /\ order[idx] \in Order /\ qty \in 0..order[idx].leaves-1
      /\ order' = [order EXCEPT ![idx] = Book!Reduced(@, qty)] /\ index' = index
  BY DEF Loses, Resident
<1>2. ASSUME NEW s \in Slots, order'[s] # Null
      PROVE  Live(s) /\ KeyOf(order'[s]) = KeyOf(order[s])
  <2>1. CASE s = idx
    BY <1>1, <2>1, OrderTypes, ReducedFields, Values DEF Live, KeyOf
  <2>2. CASE s # idx
    BY <1>1, <1>2, <2>2, OrderTypes DEF Live
  <2> QED
    BY <2>1, <2>2
<1>3. EveryOrderReachable'
  <2> SUFFICES ASSUME NEW s \in Slots, order'[s] # Null
               PROVE  index'[KeyOf(order'[s])] # Null /\ index'[KeyOf(order'[s])].oid.index = s
    BY Zenon DEF EveryOrderReachable, KeyOf, Live
  <2> QED
    BY <1>1, <1>2, ReachMeans DEF ReachInv
<1>4. CommandApart'
  <2> SUFFICES ASSUME pc' # "idle", NEW s \in Slots, order'[s] # Null
               PROVE  KeyOf(order'[s]) # KeyOf(cmd')
    BY DEF CommandApart, Live, KeyOf
  <2> QED
    BY <1>2 DEF ReachInv, CommandApart, KeyOf
<1> QED
  BY <1>3, <1>4 DEF ReachInv

LEMMA StepReach == ~ReuseIds /\ IInv /\ ReachInv /\ [Next]_vars => ReachInv'
<1> SUFFICES ASSUME ~ReuseIds, IInv, ReachInv, [Next]_vars PROVE ReachInv'
  OBVIOUS
<1>1. CASE Idles
  BY <1>1 DEF Idles, ReachInv, EveryOrderReachable, CommandApart, Live, KeyOf
<1>2. CASE Ends
  BY <1>2 DEF Ends, ReachInv, EveryOrderReachable, CommandApart, Live, KeyOf
<1>3. CASE Joins
  BY <1>3, JoinsReach
<1>4. CASE MatchBest
  <2>1. /\ pc' = pc /\ cmd'.client = cmd.client /\ cmd'.cid = cmd.cid
        /\ Resident(Opposite(cmd.side), BestTick, 1)
        /\ \/ Leaves(Opposite(cmd.side), BestTick, 1)
           \/ \E qty : Loses(Opposite(cmd.side), BestTick, 1, qty)
    BY <1>4, MatchEffect
  <2>2. UNCHANGED <<pc, KeyOf(cmd)>> /\ Opposite(cmd.side) \in Sides /\ BestTick \in Ticks
    BY <2>1 DEF KeyOf, Resident
  <2> QED
    BY <2>1, <2>2, LeavesReach, LosesReach
<1>5. ASSUME NEW c \in Clients, NEW k \in ClientOrders, NEW side, NEW price, NEW quantity,
             PlaceAccepted(c, k, side, price, quantity)
      PROVE  ReachInv'
  <2>1. /\ UNCHANGED <<order, index>> /\ cmd'.client = c /\ cmd'.cid = k
        /\ \A s \in Slots : Live(s) => order[s].client # c \/ order[s].cid # k
    BY <1>5 DEF PlaceAccepted, IdFree, bookVars, Live
  <2>2. CommandApart'
    <3> SUFFICES ASSUME NEW s \in Slots, order[s] # Null
                 PROVE  KeyOf(order[s]) # KeyOf(cmd')
      BY <2>1 DEF CommandApart, Live, KeyOf
    <3> QED
      BY <2>1 DEF KeyOf, Live
  <2> QED
    BY <2>1, <2>2 DEF ReachInv, EveryOrderReachable, Live
<1>6. ASSUME NEW c \in Clients, NEW k \in ClientOrders, Cancel(c, k)
      PROVE  ReachInv'
  BY <1>6, CancelEffect, LeavesReach DEF KeyOf
<1>7. ASSUME NEW c \in Clients, NEW k \in ClientOrders, NEW newPrice \in NewPrices,
             NEW newQty \in NewQtys, ModifyRemove(c, k, newPrice, newQty)
      PROVE  ReachInv'
  <2>1. PICK side \in Sides, tick \in Ticks : \E i \in 1..Len(queue[side][tick]) :
          /\ Leaves(side, tick, i)
          /\ KeyOf(cmd') = KeyOf(order[queue[side][tick][i]])
    BY <1>7, ModifyRemoveEffect DEF KeyOf
  <2> QED
    BY <2>1, LeavesReach
<1>8. ASSUME NEW c \in Clients, NEW k \in ClientOrders, NEW newPrice \in NewPrices,
             NEW newQty \in NewQtys, ModifyInPlace(c, k, newPrice, newQty)
      PROVE  ReachInv'
  <2>1. PICK side \in Sides, tick \in Ticks : \E i \in 1..Len(queue[side][tick]) :
          \E qty : Loses(side, tick, i, qty)
    BY <1>8, ModifyInPlaceEffect
  <2>2. UNCHANGED <<pc, KeyOf(cmd)>>
    BY <1>8, ModifyInPlaceEffect DEF KeyOf
  <2> QED
    BY <2>1, <2>2, LosesReach
<1> QED
  BY <1>1, <1>2, <1>3, <1>4, <1>5, <1>6, <1>7, <1>8, StepKinds

LEMMA InitReach == Init => ReachInv
BY DEF Init, Book!Init, ReachInv, EveryOrderReachable, CommandApart, Live, Slots

\* process_cancel and process_modify can reach every order of a client that
\* does not reuse the id of an order that rests: none is left in the arena
\* without its entry in the OrderIndex, however orders are filled and moved.
THEOREM SpecEveryOrderReachable == ~ReuseIds => (Spec => []EveryOrderReachable)
<1> SUFFICES ASSUME ~ReuseIds PROVE Spec => []EveryOrderReachable
  OBVIOUS
<1>1. ReachInv => EveryOrderReachable
  BY DEF ReachInv
<1>2. IInv /\ ReachInv /\ [Next]_vars => ReachInv'
  BY StepReach
<1> QED
  BY <1>1, <1>2, InitReach, SpecIInv, PTL DEF Spec

-----------------------------------------------------------------------------
(* Prices.  The engine compares an aggressor with the price of the best tick. *)
(* The orders there have that price if every price is one of a tick, and      *)
(* otherwise one that rounds down to it.                                      *)

\* The conversion to a tick and back loses nothing.
Exact(price) ==
  Book!PriceToTick(price) # Null => Book!TickToPrice(Book!PriceToTick(price)) = price

\* What the clients name are prices of ticks.
OnGrid == \A price \in (Prices \cup NewPrices) \ {Null} : Exact(price)

\* The orders in the book and the one of the command.
PricesExact ==
  /\ \A s \in Slots : Live(s) => Exact(order[s].price)
  /\ pc # "idle" /\ cmd.price # Null => Exact(cmd.price)

\* Every caller of the engine in the repository passes a tick of one.
LEMMA TickOfOne == TickSize = 1 => OnGrid
<1> SUFFICES ASSUME TickSize = 1, NEW price \in Nat, Book!PriceToTick(price) # Null
             PROVE  Book!TickToPrice(Book!PriceToTick(price)) = price
  BY MatchingEngineAssumption DEF OnGrid, Exact
<1>1. price >= BasePrice /\ Book!PriceToTick(price) = (price - BasePrice) \div 1
  BY DEF Book!PriceToTick
<1>2. (price - BasePrice) \div 1 = price - BasePrice
  BY <1>1, MatchingEngineAssumption
<1> QED
  BY <1>1, <1>2, MatchingEngineAssumption DEF Book!TickToPrice

\* A higher tick has a higher price.
LEMMA TickPrices ==
  /\ \A t \in Ticks : Book!TickToPrice(t) \in Int
  /\ \A t1, t2 \in Ticks : t1 <= t2 <=> Book!TickToPrice(t1) <= Book!TickToPrice(t2)
<1>1. \A a, b \in Nat : a < b => a * TickSize < b * TickSize
  <2> SUFFICES ASSUME NEW a \in Nat, NEW b \in Nat, a < b PROVE a * TickSize < b * TickSize
    OBVIOUS
  <2>1. b - a \in Nat \ {0} /\ TickSize \in Nat \ {0}
    BY MatchingEngineAssumption
  <2>2. \A m, n \in Nat \ {0} : m * n \in Nat \ {0}
    OBVIOUS
  <2>3. (b - a) * TickSize \in Nat \ {0}
    BY <2>1, <2>2
  <2>4. b * TickSize = a * TickSize + (b - a) * TickSize /\ a * TickSize \in Nat
    BY <2>1
  <2> QED
    BY <2>3, <2>4
<1>2. \A t \in Ticks : t \in Nat /\ t * TickSize \in Int
  BY Values, MatchingEngineAssumption
<1>3. ASSUME NEW t1 \in Ticks, NEW t2 \in Ticks
      PROVE  t1 <= t2 <=> t1 * TickSize <= t2 * TickSize
  BY <1>1, <1>2
<1> QED
  BY <1>2, <1>3, MatchingEngineAssumption DEF Book!TickToPrice

\* A price is less than a tick above the price of its tick.
LEMMA RoundsDown ==
  ASSUME NEW price \in Nat, NEW t \in Ticks, Book!PriceToTick(price) = t
  PROVE  /\ Book!TickToPrice(t) <= price
         /\ price <= Book!TickToPrice(t) + (TickSize - 1)
<1>1. /\ t \in Nat /\ t # Null /\ TickSize \in Nat \ {0} /\ BasePrice \in Nat
  BY Values, MatchingEngineAssumption
<1>2. price >= BasePrice /\ t = (price - BasePrice) \div TickSize
  BY <1>1 DEF Book!PriceToTick
<1>3. \A n \in Nat, d \in Nat \ {0} : (n \div d) * d <= n /\ n <= (n \div d) * d + (d - 1)
  OBVIOUS
<1>4. price - BasePrice \in Nat
  BY <1>1, <1>2
<1>5. t * TickSize <= price - BasePrice /\ price - BasePrice <= t * TickSize + (TickSize - 1)
  BY <1>1, <1>2, <1>3, <1>4
<1>6. t * TickSize \in Nat
  BY <1>1
<1> QED
  BY <1>1, <1>2, <1>5, <1>6 DEF Book!TickToPrice

\* What becomes of the orders in the slots, whichever way the queues change.
LEMMA LeavesOrders ==
  ASSUME IInv, NEW side \in Sides, NEW tick \in Ticks, NEW i, Leaves(side, tick, i)
  PROVE  \A s \in Slots : order'[s] = IF s = queue[side][tick][i] THEN Null ELSE order[s]
BY OrderTypes DEF Leaves, Resident

LEMMA LosesOrders ==
  ASSUME IInv, NEW side \in Sides, NEW tick \in Ticks, NEW i, NEW qty, Loses(side, tick, i, qty)
  PROVE  \A s \in Slots :
           /\ s # queue[side][tick][i] => order'[s] = order[s]
           /\ s = queue[side][tick][i] =>
                /\ Live(s) /\ order'[s] \in Order
                /\ order'[s].id = order[s].id /\ order'[s].price = order[s].price
                /\ order'[s].side = order[s].side /\ order'[s].leaves = order[s].leaves - qty
<1> DEFINE idx == queue[side][tick][i]
<1>1. /\ idx \in Slots /\ order[idx] \in Order /\ qty \in 0..order[idx].leaves-1
      /\ order' = [order EXCEPT ![idx] = Book!Reduced(@, qty)]
  BY DEF Loses, Resident
<1> QED
  BY SMTT(30), <1>1, OrderTypes, ReducedFields, Values DEF Live

LEMMA JoinsOrders ==
  ASSUME IInv, Joins
  PROVE  \A s \in Slots : order'[s] = IF s = freeHead THEN cmd ELSE order[s]
BY OrderTypes DEF Joins

LEMMA StepExact == OnGrid /\ IInv /\ PricesExact /\ [Next]_vars => PricesExact'
<1> SUFFICES ASSUME OnGrid, IInv, PricesExact, [Next]_vars PROVE PricesExact'
  OBVIOUS
<1> USE DEF Live
<1>1. CASE Idles
  BY <1>1 DEF Idles, PricesExact, Exact
<1>2. CASE Ends
  BY <1>2 DEF Ends, PricesExact, Exact
<1>3. CASE Joins
  <2>1. pc # "idle" /\ pc' = "idle" /\ cmd \in Order /\ cmd.price # Null
    BY <1>3, MatchingEngineAssumption, Values DEF Joins
  <2> QED
    BY <1>3, <2>1, JoinsOrders DEF PricesExact, Exact
<1>4. ASSUME NEW side \in Sides, NEW tick \in Ticks, NEW i, Leaves(side, tick, i),
             pc' # "idle" /\ cmd'.price # Null => Exact(cmd'.price)
      PROVE  PricesExact'
  BY <1>4, LeavesOrders DEF PricesExact, Exact
<1>5. ASSUME NEW side \in Sides, NEW tick \in Ticks, NEW i, NEW qty, Loses(side, tick, i, qty),
             pc' # "idle" /\ cmd'.price # Null => Exact(cmd'.price)
      PROVE  PricesExact'
  <2>1. \A s \in Slots : order'[s] # Null => Live(s) /\ order'[s].price = order[s].price
    BY <1>5, LosesOrders
  <2> QED
    BY <1>5, <2>1 DEF PricesExact, Exact
<1>6. CASE MatchBest
  <2>1. /\ pc = "match" /\ cmd'.price = cmd.price
        /\ Resident(Opposite(cmd.side), BestTick, 1)
        /\ \/ Leaves(Opposite(cmd.side), BestTick, 1)
           \/ \E qty : Loses(Opposite(cmd.side), BestTick, 1, qty)
    BY <1>6, MatchEffect
  <2>2. cmd'.price # Null => Exact(cmd'.price)
    BY <2>1 DEF PricesExact, Exact
  <2>3. Opposite(cmd.side) \in Sides /\ BestTick \in Ticks
    BY <2>1 DEF Resident
  <2> QED
    BY <1>4, <1>5, <2>1, <2>2, <2>3
<1>7. ASSUME NEW c \in Clients, NEW k \in ClientOrders, NEW side, NEW price \in Prices \cup {Null},
             NEW quantity, PlaceAccepted(c, k, side, price, quantity)
      PROVE  PricesExact'
  <2>1. order' = order /\ cmd'.price = price
    BY <1>7 DEF PlaceAccepted, bookVars
  <2> QED
    BY <2>1 DEF OnGrid, PricesExact, Exact
<1>8. ASSUME NEW c \in Clients, NEW k \in ClientOrders, Cancel(c, k)
      PROVE  PricesExact'
  BY <1>4, <1>8, CancelEffect
<1>9. ASSUME NEW c \in Clients, NEW k \in ClientOrders, NEW newPrice \in NewPrices,
             NEW newQty \in NewQtys, ModifyRemove(c, k, newPrice, newQty)
      PROVE  PricesExact'
  <2>1. PICK side \in Sides, tick \in Ticks : \E i \in 1..Len(queue[side][tick]) :
          /\ Leaves(side, tick, i)
          /\ cmd'.price = TargetPrice(order[queue[side][tick][i]], newPrice)
    BY <1>9, ModifyRemoveEffect
  <2>2. PICK i \in 1..Len(queue[side][tick]) :
          /\ Leaves(side, tick, i)
          /\ cmd'.price = TargetPrice(order[queue[side][tick][i]], newPrice)
    BY <2>1
  <2>3. Exact(order[queue[side][tick][i]].price)
    BY <2>2, Values DEF Leaves, Resident, PricesExact
  <2>4. cmd'.price # Null => Exact(cmd'.price)
    BY <2>2, <2>3 DEF TargetPrice, OnGrid
  <2> QED
    BY <1>4, <2>2, <2>4
<1>10. ASSUME NEW c \in Clients, NEW k \in ClientOrders, NEW newPrice \in NewPrices,
              NEW newQty \in NewQtys, ModifyInPlace(c, k, newPrice, newQty)
       PROVE  PricesExact'
  <2>1. PICK side \in Sides, tick \in Ticks : \E i \in 1..Len(queue[side][tick]) :
          \E qty : Loses(side, tick, i, qty)
    BY <1>10, ModifyInPlaceEffect
  <2>2. pc' = "idle"
    BY <1>10, ModifyInPlaceEffect
  <2> QED
    BY <1>5, <2>1, <2>2
<1> QED
  BY <1>1, <1>2, <1>3, <1>6, <1>7, <1>8, <1>9, <1>10, StepKinds

LEMMA InitExact == Init => PricesExact
BY DEF Init, Book!Init, PricesExact, Live, Slots

\* The place of a resting order, and what its price is to the price of its level.
LEMMA RestsAt ==
  ASSUME IInv, NEW s \in Slots, Live(s)
  PROVE  \E side \in Sides, t \in Ticks :
           /\ \E i \in 1..Len(queue[side][t]) : queue[side][t][i] = s
           /\ Len(queue[side][t]) > 0
           /\ order[s] \in Order /\ order[s].side = side
           /\ Book!TickToPrice(t) <= order[s].price
           /\ order[s].price <= Book!TickToPrice(t) + (TickSize - 1)
<1>1. PICK side \in Sides, t \in Ticks : \E i \in 1..Len(queue[side][t]) : queue[side][t][i] = s
  BY IInvMeans, Shape DEF Live
<1>2. PICK i \in 1..Len(queue[side][t]) : queue[side][t][i] = s
  BY <1>1
<1>3. order[s].side = side /\ Book!PriceToTick(order[s].price) = t
  BY <1>2 DEF IInv, AtItsLevel
<1>4. order[s] \in Order /\ order[s].price \in Nat /\ Len(queue[side][t]) \in Nat
  BY Values, OrderTypes, IInvMeans, Shape
<1>5. /\ Book!TickToPrice(t) <= order[s].price
      /\ order[s].price <= Book!TickToPrice(t) + (TickSize - 1)
  BY <1>3, <1>4, RoundsDown
<1>6. Len(queue[side][t]) > 0
  BY <1>2, <1>4
<1> QED
  BY <1>2, <1>3, <1>4, <1>5, <1>6

LEMMA StepCrosses ==
  ASSUME IInv, [Next]_vars
  PROVE  /\ MatchBest => CouldTrade(order[RestingSlot], TickSize - 1, 0)
         /\ pc = "match" /\ pc' = "idle" /\ cmd.leaves > 0 =>
              \A s \in Slots : order'[s] # Null => ~CouldTrade(order'[s], 0, TickSize - 1)
<1>1. ASSUME MatchBest
      PROVE  CouldTrade(order[RestingSlot], TickSize - 1, 0)
  <2> DEFINE o == order[RestingSlot]
  <2>1. /\ cmd \in Command /\ Resident(Opposite(cmd.side), BestTick, 1)
        /\ RestingSlot = queue[Opposite(cmd.side)][BestTick][1] /\ Crosses(BestTick)
    BY <1>1, MatchEffect DEF MatchBest, CanMatch
  <2>2. o.side = Opposite(cmd.side) /\ Book!PriceToTick(o.price) = BestTick
    BY <2>1 DEF Resident, IInv, AtItsLevel
  <2>3. BestTick \in Ticks /\ o \in Order
    BY <2>1 DEF Resident
  <2>4. cmd.side \in Sides /\ cmd.price \in Nat \cup {Null} /\ o.price \in Nat
    BY <2>1, <2>3, CommandFields, Values
  <2>5. Book!TickToPrice(BestTick) <= o.price /\ o.price <= Book!TickToPrice(BestTick) + (TickSize - 1)
    BY <2>2, <2>3, <2>4, RoundsDown
  <2>6. Book!TickToPrice(BestTick) \in Int /\ TickSize \in Nat
    BY <2>3, TickPrices, MatchingEngineAssumption
  <2> QED
    BY <2>1, <2>2, <2>4, <2>5, <2>6 DEF CouldTrade, Crosses, Sides
<1>2. ASSUME pc = "match", pc' = "idle", cmd.leaves > 0, NEW s \in Slots, order'[s] # Null
      PROVE  ~CouldTrade(order'[s], 0, TickSize - 1)
  <2>1. cmd \in Command /\ cmd.side \in Sides /\ cmd.price \in Nat \cup {Null}
    BY <1>2, IInvMeans, CommandFields DEF EngineTyped
  <2>2. Ends \/ Joins
    BY <1>2, StepKinds, MatchEffect, CancelEffect, ModifyRemoveEffect, ModifyInPlaceEffect
       DEF Idles, PlaceAccepted
  <2>3. BestTick = Null \/ ~Crosses(BestTick)
    BY <1>2, <2>1, <2>2, IInvMeans, CanMatchMeans DEF Ends, Joins
  <2>4. CASE order'[s] = order[s]
    <3>1. PICK side \in Sides, t \in Ticks :
            /\ Len(queue[side][t]) > 0
            /\ order[s] \in Order /\ order[s].side = side
            /\ Book!TickToPrice(t) <= order[s].price
            /\ order[s].price <= Book!TickToPrice(t) + (TickSize - 1)
      BY <1>2, <2>4, RestsAt DEF Live
    <3> SUFFICES ASSUME side = Opposite(cmd.side), CouldTrade(order[s], 0, TickSize - 1)
                 PROVE  FALSE
      BY <2>4, <3>1 DEF CouldTrade
    <3>2. /\ BestTick # Null /\ BestTick \in Ticks
          /\ IF cmd.side = "BUY" THEN BestTick <= t ELSE BestTick >= t
      <4>1. ~\A t0 \in Ticks : Len(queue[Opposite(cmd.side)][t0]) = 0
        BY <3>1
      <4>2. BookP!IInv
        BY IInvMeans
      <4> QED
        BY <2>1, <3>1, <4>1, <4>2, BestTickFound
    <3>3. ~Crosses(BestTick)
      BY <2>3, <3>2
    <3>4. /\ Book!TickToPrice(t) \in Int /\ Book!TickToPrice(BestTick) \in Int
          /\ BestTick \in Nat /\ t \in Nat /\ TickSize \in Nat /\ order[s].price \in Nat
          /\ BestTick <= t => Book!TickToPrice(BestTick) <= Book!TickToPrice(t)
          /\ t <= BestTick => Book!TickToPrice(t) <= Book!TickToPrice(BestTick)
      BY <3>1, <3>2, TickPrices, Values, MatchingEngineAssumption
    <3> QED
      BY SMTT(30), <2>1, <3>1, <3>2, <3>3, <3>4 DEF CouldTrade, Crosses, Sides
  <2>5. CASE order'[s] = cmd
    BY <2>1, <2>5 DEF CouldTrade, Opposite, Sides
  <2> QED
    BY <2>2, <2>4, <2>5, JoinsOrders DEF Ends
<1> QED
  BY <1>1, <1>2

\* match_aggressor executes only orders within the limit of the aggressor, and
\* leaves none behind that it could have traded with, up to the prices that
\* share a tick: exactly, if the tick size is 1.
THEOREM SpecFillsCross == Spec => FillsCross
<1>1. IInv /\ [Next]_vars =>
        [/\ MatchBest => CouldTrade(order[RestingSlot], TickSize - 1, 0)
         /\ pc = "match" /\ pc' = "idle" /\ cmd.leaves > 0 =>
              \A s \in Slots : order'[s] # Null => ~CouldTrade(order'[s], 0, TickSize - 1)]_vars
  BY StepCrosses
<1> QED
  BY <1>1, SpecIInv, PTL DEF Spec, FillsCross

-----------------------------------------------------------------------------
(* Ids: no two orders of the book and the command have the same.             *)

IdsApart ==
  /\ \A s \in Slots : Live(s) => order[s].id < nextOrderId
  /\ \A s1, s2 \in Slots : Live(s1) /\ Live(s2) /\ order[s1].id = order[s2].id => s1 = s2
  /\ pc # "idle" => cmd.id < nextOrderId /\ \A s \in Slots : Live(s) => order[s].id # cmd.id

\* Of a step that gives no id and puts no order into the book.
LEMMA FewerIds ==
  ASSUME IInv, IdsApart, UNCHANGED nextOrderId, pc' = "idle" \/ (UNCHANGED pc /\ cmd'.id = cmd.id),
         \A s \in Slots : order'[s] # Null => Live(s) /\ order'[s].id = order[s].id
  PROVE  IdsApart'
BY DEF IdsApart, Live

LEMMA StepIds == IInv /\ IdsApart /\ [Next]_vars => IdsApart'
<1> SUFFICES ASSUME IInv, IdsApart, [Next]_vars PROVE IdsApart'
  OBVIOUS
<1>0. nextOrderId \in Nat /\ \A o \in Order : o.id \in Nat
  BY IInvMeans, Values, MatchingEngineAssumption DEF EngineTyped, OrderIds
<1>1. CASE Idles
  <2>1. nextOrderId <= nextOrderId' /\ UNCHANGED <<order, pc, cmd>>
    BY <1>0, <1>1 DEF Idles
  <2>2. \A s \in Slots : Live(s) => order[s].id \in Nat
    BY <1>0, OrderTypes
  <2>3. pc # "idle" => cmd.id \in Nat
    BY IInvMeans, CommandFields DEF EngineTyped, OrderIds
  <2>4. nextOrderId' \in Nat
    BY <1>0, <1>1 DEF Idles
  <2> QED
    BY <1>0, <2>1, <2>2, <2>3, <2>4 DEF IdsApart, Live
<1>2. CASE Ends
  <2>1. UNCHANGED <<order, nextOrderId>> /\ pc' = "idle"
    BY <1>2 DEF Ends
  <2> QED
    BY <2>1, FewerIds DEF Live
<1>3. CASE Joins
  <2>1. /\ nextOrderId' = nextOrderId /\ pc # "idle" /\ pc' = "idle"
        /\ \A s \in Slots : order'[s] = IF s = freeHead THEN cmd ELSE order[s]
    BY <1>3, JoinsOrders DEF Joins
  <2> QED
    BY <2>1 DEF IdsApart, Live
<1>4. ASSUME NEW side \in Sides, NEW tick \in Ticks, NEW i, Leaves(side, tick, i),
             pc' = "idle" \/ (UNCHANGED pc /\ cmd'.id = cmd.id)
      PROVE  IdsApart'
  BY <1>4, LeavesOrders, FewerIds DEF Leaves, Live
<1>5. ASSUME NEW side \in Sides, NEW tick \in Ticks, NEW i, NEW qty, Loses(side, tick, i, qty),
             pc' = "idle" \/ (UNCHANGED pc /\ cmd'.id = cmd.id)
      PROVE  IdsApart'
  <2>1. \A s \in Slots : order'[s] # Null => Live(s) /\ order'[s].id = order[s].id
    BY <1>5, LosesOrders DEF Live
  <2> QED
    BY <1>5, <2>1, FewerIds DEF Loses
<1>6. CASE MatchBest
  <2>1. /\ pc' = pc /\ cmd'.id = cmd.id
        /\ Resident(Opposite(cmd.side), BestTick, 1)
        /\ \/ Leaves(Opposite(cmd.side), BestTick, 1)
           \/ \E qty : Loses(Opposite(cmd.side), BestTick, 1, qty)
    BY <1>6, MatchEffect
  <2>2. Opposite(cmd.side) \in Sides /\ BestTick \in Ticks
    BY <2>1 DEF Resident
  <2> QED
    BY <1>4, <1>5, <2>1, <2>2
<1>7. ASSUME NEW c \in Clients, NEW k \in ClientOrders, NEW side, NEW price, NEW quantity,
             PlaceAccepted(c, k, side, price, quantity)
      PROVE  IdsApart'
  <2>1. order' = order /\ cmd'.id = nextOrderId /\ nextOrderId' = nextOrderId + 1
    BY <1>7 DEF PlaceAccepted, bookVars
  <2>2. \A s \in Slots : Live(s) => order[s].id \in Nat
    BY <1>0, OrderTypes
  <2> QED
    BY <1>0, <2>1, <2>2 DEF IdsApart, Live
<1>8. ASSUME NEW c \in Clients, NEW k \in ClientOrders, Cancel(c, k)
      PROVE  IdsApart'
  BY <1>4, <1>8, CancelEffect
<1>9. ASSUME NEW c \in Clients, NEW k \in ClientOrders, NEW newPrice \in NewPrices,
             NEW newQty \in NewQtys, ModifyRemove(c, k, newPrice, newQty)
      PROVE  IdsApart'
  <2>1. PICK side \in Sides, tick \in Ticks : \E i \in 1..Len(queue[side][tick]) :
          /\ Leaves(side, tick, i)
          /\ cmd'.id = order[queue[side][tick][i]].id
    BY <1>9, ModifyRemoveEffect
  <2>2. PICK i \in 1..Len(queue[side][tick]) :
          /\ Leaves(side, tick, i)
          /\ cmd'.id = order[queue[side][tick][i]].id
    BY <2>1
  <2> DEFINE idx == queue[side][tick][i]
  <2>3. \A s \in Slots : order'[s] = IF s = idx THEN Null ELSE order[s]
    BY <2>2, LeavesOrders
  <2>4. idx \in Slots /\ order[idx] # Null /\ nextOrderId' = nextOrderId
    BY <2>2, Values DEF Leaves, Resident
  <2>5. cmd'.id = order[idx].id
    BY <2>2
  <2> HIDE DEF idx
  <2>6. \A s \in Slots : order'[s] # Null => s # idx /\ order[s] # Null /\ order'[s] = order[s]
    BY <2>3
  <2>7. \A s \in Slots : order'[s] # Null =>
          order'[s].id # cmd'.id /\ order'[s].id < nextOrderId'
    BY <2>4, <2>5, <2>6 DEF IdsApart, Live
  <2>8. cmd'.id < nextOrderId'
    BY <2>4, <2>5 DEF IdsApart, Live
  <2>9. \A s1, s2 \in Slots :
          order'[s1] # Null /\ order'[s2] # Null /\ order'[s1].id = order'[s2].id => s1 = s2
    BY <2>6 DEF IdsApart, Live
  <2> QED
    BY <2>7, <2>8, <2>9 DEF IdsApart, Live
<1>10. ASSUME NEW c \in Clients, NEW k \in ClientOrders, NEW newPrice \in NewPrices,
              NEW newQty \in NewQtys, ModifyInPlace(c, k, newPrice, newQty)
       PROVE  IdsApart'
  <2>1. PICK side \in Sides, tick \in Ticks : \E i \in 1..Len(queue[side][tick]) :
          \E qty : Loses(side, tick, i, qty)
    BY <1>10, ModifyInPlaceEffect
  <2>2. pc' = "idle"
    BY <1>10, ModifyInPlaceEffect
  <2> QED
    BY <1>5, <2>1, <2>2
<1> QED
  BY <1>1, <1>2, <1>3, <1>6, <1>7, <1>8, <1>9, <1>10, StepKinds

LEMMA InitIds == Init => IdsApart
BY DEF Init, Book!Init, IdsApart, Live, Slots

-----------------------------------------------------------------------------
(* The output events.  A reader knows the book as long as the array has room  *)
(* for what there is to tell, and no modify names a price without a tick.     *)

\* The next event of the command, if there is one, is not dropped.
RoomToTell == pc = "idle" \/ cmd.leaves > 0 => ArrayHasRoom

\* What is told of a resting order is true, and nothing is told of an order
\* that is gone, but of the one that a modify holds.
ToldOf(o) == [price |-> o.price, leaves |-> o.leaves]

ToldRight ==
  /\ \A s \in Slots : Live(s) => told[order[s].id] = ToldOf(order[s])
  /\ \A id \in OrderIds : told[id] # Null =>
       \/ \E s \in Slots : Live(s) /\ order[s].id = id
       \/ pc = "reinsert" /\ cmd.id = id

LEMMA ToldMeans == ToldRight => StreamTellsBook
BY DEF ToldRight, ToldOf, StreamTellsBook

LEMMA Heard ==
  ASSUME IInv, NEW id \in OrderIds
  PROVE  /\ \A j \in OrderIds : HeardGone(id)[j] = IF j = id THEN Null ELSE told[j]
         /\ \A price, leaves : \A j \in OrderIds :
              HeardRests(id, price, leaves)[j] =
                IF j = id THEN [price |-> price, leaves |-> leaves] ELSE told[j]
         /\ \A o \in Order, qty \in Nat : told[id] = ToldOf(o) =>
              \A j \in OrderIds :
                HeardFill(id, qty)[j] =
                  IF j # id THEN told[j]
                  ELSE IF o.leaves > qty THEN [price |-> o.price, leaves |-> o.leaves - qty]
                  ELSE Null
<1>1. told \in [OrderIds -> Told \cup {Null}]
  BY OrderTypes
<1>2. ASSUME NEW o \in Order, NEW qty \in Nat, told[id] = ToldOf(o), NEW j \in OrderIds
      PROVE  HeardFill(id, qty)[j] =
               IF j # id THEN told[j]
               ELSE IF o.leaves > qty THEN [price |-> o.price, leaves |-> o.leaves - qty]
               ELSE Null
  <2>1. ToldOf(o) \in Told /\ ToldOf(o).price = o.price /\ ToldOf(o).leaves = o.leaves
    BY Values DEF ToldOf, Told
  <2>2. told[id] # Null
    BY <1>2, <2>1, MatchingEngineAssumption DEF Told
  <2>3. HeardFill(id, qty) = [told EXCEPT ![id] =
          IF told[id].leaves > qty
          THEN [price |-> told[id].price, leaves |-> told[id].leaves - qty] ELSE Null]
    BY <2>2 DEF HeardFill
  <2> QED
    BY <1>1, <1>2, <2>1, <2>3
<1> QED
  BY <1>1, <1>2 DEF HeardGone, HeardRests

\* An order leaves the book, and the reader hears of it or a modify holds it.
LEMMA LeavesTold ==
  ASSUME IInv, IdsApart, ToldRight, pc # "reinsert",
         NEW side \in Sides, NEW tick \in Ticks, NEW i, Leaves(side, tick, i),
         \A j \in OrderIds : j # order[queue[side][tick][i]].id => told'[j] = told[j],
         \/ told'[order[queue[side][tick][i]].id] = Null
         \/ pc' = "reinsert" /\ cmd'.id = order[queue[side][tick][i]].id
  PROVE  ToldRight'
<1> DEFINE idx == queue[side][tick][i]
<1>1. /\ idx \in Slots /\ Live(idx) /\ order[idx].id \in OrderIds
  BY Values DEF Leaves, Resident, Live
<1>2. \A s \in Slots : order'[s] = IF s = idx THEN Null ELSE order[s]
  BY LeavesOrders
<1>3. /\ \A j \in OrderIds : j # order[idx].id => told'[j] = told[j]
      /\ told'[order[idx].id] = Null \/ (pc' = "reinsert" /\ cmd'.id = order[idx].id)
  OBVIOUS
<1> HIDE DEF idx
<1>4. ASSUME NEW s \in Slots, order'[s] # Null
      PROVE  told'[order'[s].id] = ToldOf(order'[s])
  <2>1. s # idx /\ Live(s) /\ order'[s] = order[s] /\ order[s].id \in OrderIds
    BY <1>2, <1>4, OrderTypes DEF Live
  <2>2. order[s].id # order[idx].id
    BY <1>1, <2>1 DEF IdsApart
  <2> QED
    BY <1>3, <2>1, <2>2 DEF ToldRight
<1>5. ASSUME NEW id \in OrderIds, told'[id] # Null
      PROVE  \/ \E s \in Slots : order'[s] # Null /\ order'[s].id = id
             \/ pc' = "reinsert" /\ cmd'.id = id
  <2>1. CASE id = order[idx].id
    BY <1>3, <1>5, <2>1
  <2>2. CASE id # order[idx].id
    <3>1. PICK s \in Slots : Live(s) /\ order[s].id = id
      BY <1>3, <1>5, <2>2 DEF ToldRight
    <3>2. order'[s] = order[s]
      BY <1>2, <2>2, <3>1
    <3> QED
      BY <3>1, <3>2 DEF Live
  <2> QED
    BY <2>1, <2>2
<1> QED
  BY <1>4, <1>5 DEF ToldRight, Live, ToldOf

\* An order loses qty, and the reader hears of it.
LEMMA LosesTold ==
  ASSUME IInv, IdsApart, ToldRight, pc # "reinsert",
         NEW side \in Sides, NEW tick \in Ticks, NEW i, NEW qty, Loses(side, tick, i, qty),
         \A j \in OrderIds : j # order[queue[side][tick][i]].id => told'[j] = told[j],
         told'[order[queue[side][tick][i]].id] =
           [price |-> order[queue[side][tick][i]].price,
            leaves |-> order[queue[side][tick][i]].leaves - qty]
  PROVE  ToldRight'
<1> DEFINE idx == queue[side][tick][i]
           o == order[idx]
<1>1. /\ idx \in Slots /\ Live(idx) /\ o.id \in OrderIds
  BY Values DEF Loses, Resident, Live
<1>2. \A s \in Slots :
        /\ s # idx => order'[s] = order[s]
        /\ s = idx => /\ order'[s] \in Order /\ order'[s].id = o.id /\ order'[s].price = o.price
                      /\ order'[s].leaves = o.leaves - qty
  BY SMTT(30), LosesOrders
<1>3. /\ \A j \in OrderIds : j # o.id => told'[j] = told[j]
      /\ told'[o.id] = [price |-> o.price, leaves |-> o.leaves - qty]
  OBVIOUS
<1> HIDE DEF idx
<1>4. ASSUME NEW s \in Slots, order'[s] # Null
      PROVE  told'[order'[s].id] = ToldOf(order'[s])
  <2>1. CASE s = idx
    BY <1>2, <1>3, <2>1 DEF ToldOf
  <2>2. CASE s # idx
    <3>1. Live(s) /\ order'[s] = order[s] /\ order[s].id \in OrderIds
      BY <1>2, <1>4, <2>2, OrderTypes DEF Live
    <3>2. order[s].id # order[idx].id
      BY <1>1, <2>2, <3>1 DEF IdsApart
    <3> QED
      BY <1>3, <3>1, <3>2 DEF ToldRight
  <2> QED
    BY <2>1, <2>2
<1>5. ASSUME NEW id \in OrderIds, told'[id] # Null
      PROVE  \E s \in Slots : order'[s] # Null /\ order'[s].id = id
  <2>1. CASE id = o.id
    <3>1. order'[idx] # Null /\ order'[idx].id = id
      BY <1>1, <1>2, <2>1, Values
    <3> QED
      BY <1>1, <3>1
  <2>2. CASE id # o.id
    <3>1. PICK s \in Slots : Live(s) /\ order[s].id = id
      BY <1>3, <1>5, <2>2 DEF ToldRight
    <3>2. order'[s] = order[s]
      BY <1>2, <2>2, <3>1
    <3> QED
      BY <3>1, <3>2 DEF Live
  <2> QED
    BY <2>1, <2>2
<1> QED
  BY <1>4, <1>5 DEF ToldRight, Live, ToldOf

LEMMA JoinsTold == IInv /\ IdsApart /\ ToldRight /\ RoomToTell /\ Joins => ToldRight'
<1> SUFFICES ASSUME IInv, IdsApart, ToldRight, RoomToTell, Joins PROVE ToldRight'
  OBVIOUS
<1>1. /\ cmd \in Order /\ cmd.id \in OrderIds /\ freeHead \in Slots /\ order[freeHead] = Null
      /\ cmd # Null /\ pc # "idle" /\ pc' = "idle"
      /\ Emit(HeardRests(cmd.id, cmd.price, cmd.leaves))
  BY Values DEF Joins
<1>2. told' = HeardRests(cmd.id, cmd.price, cmd.leaves)
  <2>1. cmd.leaves > 0
    BY <1>1, Values
  <2> QED
    BY <1>1, <2>1 DEF RoomToTell, Emit
<1>3. \A j \in OrderIds : told'[j] = IF j = cmd.id THEN ToldOf(cmd) ELSE told[j]
  BY <1>1, <1>2, Heard DEF ToldOf
<1>4. \A s \in Slots : order'[s] = IF s = freeHead THEN cmd ELSE order[s]
  BY JoinsOrders
<1>5. ASSUME NEW s \in Slots, order'[s] # Null
      PROVE  told'[order'[s].id] = ToldOf(order'[s])
  <2>1. CASE s = freeHead
    BY <1>1, <1>3, <1>4, <2>1
  <2>2. CASE s # freeHead
    <3>1. Live(s) /\ order'[s] = order[s] /\ order[s].id \in OrderIds
      BY <1>4, <1>5, <2>2, OrderTypes DEF Live
    <3>2. order[s].id # cmd.id
      BY <1>1, <3>1 DEF IdsApart
    <3> QED
      BY <1>3, <3>1, <3>2 DEF ToldRight
  <2> QED
    BY <2>1, <2>2
<1>6. ASSUME NEW id \in OrderIds, told'[id] # Null
      PROVE  \E s \in Slots : order'[s] # Null /\ order'[s].id = id
  <2>1. CASE id = cmd.id
    BY <1>1, <1>4, <2>1
  <2>2. CASE id # cmd.id
    <3>1. PICK s \in Slots : Live(s) /\ order[s].id = id
      BY <1>3, <1>6, <2>2 DEF ToldRight
    <3>2. order'[s] = order[s] /\ order'[s] # Null
      BY <1>1, <1>4, <3>1 DEF Live
    <3> QED
      BY <3>1, <3>2
  <2> QED
    BY <2>1, <2>2
<1> QED
  BY <1>5, <1>6 DEF ToldRight, Live, ToldOf

LEMMA MatchTold == IInv /\ IdsApart /\ ToldRight /\ RoomToTell /\ MatchBest => ToldRight'
<1> SUFFICES ASSUME IInv, IdsApart, ToldRight, RoomToTell, MatchBest PROVE ToldRight'
  OBVIOUS
<1> DEFINE side == Opposite(cmd.side)
           tick == BestTick
           slot == queue[side][tick][1]
           o == order[slot]
           qty == Book!Min({cmd.leaves, o.leaves})
<1>1. /\ pc = "match" /\ Resident(side, tick, 1) /\ RestingSlot = slot
      /\ qty \in Nat \ {0} /\ Emit(HeardFill(o.id, qty))
      /\ IF qty = o.leaves THEN Leaves(side, tick, 1) ELSE Loses(side, tick, 1, qty)
  BY MatchEffect
<1>2. side \in Sides /\ tick \in Ticks /\ slot \in Slots /\ Live(slot) /\ o \in Order
  BY <1>1, Values DEF Resident, Live
<1> HIDE DEF qty, side, tick
<1>3. o.id \in OrderIds /\ o.leaves \in Nat \ {0} /\ told[o.id] = ToldOf(o)
  BY <1>2, Values DEF ToldRight
<1>4. told' = HeardFill(o.id, qty)
  BY <1>1 DEF RoomToTell, Emit, MatchBest, CanMatch
<1>5. \A j \in OrderIds :
        told'[j] = IF j # o.id THEN told[j]
                   ELSE IF o.leaves > qty THEN [price |-> o.price, leaves |-> o.leaves - qty]
                   ELSE Null
  <2>1. o \in Order /\ o.id \in OrderIds /\ qty \in Nat /\ told[o.id] = ToldOf(o)
    BY <1>1, <1>2, <1>3
  <2> HIDE DEF o
  <2>2. \A j \in OrderIds :
          HeardFill(o.id, qty)[j] =
            IF j # o.id THEN told[j]
            ELSE IF o.leaves > qty THEN [price |-> o.price, leaves |-> o.leaves - qty]
            ELSE Null
    BY <2>1, Heard
  <2> QED
    BY <1>4, <2>2
<1>6. CASE qty = o.leaves
  <2>1. told'[o.id] = Null
    <3>1. o.id \in OrderIds /\ ~(o.leaves > qty)
      BY <1>3, <1>6
    <3> HIDE DEF o
    <3> QED
      BY <1>5, <3>1
  <2>2. Leaves(side, tick, 1)
    BY <1>1, <1>6
  <2>3. \A j \in OrderIds : j # o.id => told'[j] = told[j]
    BY <1>5
  <2>4. pc # "reinsert"
    BY <1>1
  <2> QED
    BY <1>2, <2>1, <2>2, <2>3, <2>4, LeavesTold
<1>7. CASE qty # o.leaves
  <2>1. Loses(side, tick, 1, qty) /\ qty \in 0..o.leaves-1
    BY <1>1, <1>7 DEF Loses
  <2>2. o.leaves > qty
    BY <1>3, <2>1
  <2>3. told'[o.id] = [price |-> o.price, leaves |-> o.leaves - qty]
    BY <1>3, <1>5, <2>2
  <2>4. \A j \in OrderIds : j # o.id => told'[j] = told[j]
    BY <1>5
  <2>5. pc # "reinsert"
    BY <1>1
  <2> QED
    BY <1>2, <2>1, <2>3, <2>4, <2>5, LosesTold
<1> QED
  BY <1>6, <1>7

LEMMA StepTold ==
  IInv /\ IdsApart /\ ToldRight /\ RoomToTell /\ ~ModifyDropped /\ [Next]_vars => ToldRight'
<1> SUFFICES ASSUME IInv, IdsApart, ToldRight, RoomToTell, ~ModifyDropped, [Next]_vars
             PROVE  ToldRight'
  OBVIOUS
<1>1. CASE Idles
  BY <1>1 DEF Idles, ToldRight, ToldOf, Live
<1>2. CASE Ends
  <2>1. order' = order /\ pc = "match" /\ pc' = "idle" /\ cmd \in Command
    BY <1>2, IInvMeans DEF Ends, EngineTyped
  <2>2. cmd.id \in OrderIds
    BY <2>1, CommandFields
  <2>3. told[cmd.id] = Null
    BY <2>1, <2>2 DEF ToldRight, IdsApart
  <2>4. told' = told \/ told' = HeardGone(cmd.id)
    BY <1>2 DEF Ends, Emit
  <2>5. \A j \in OrderIds : told'[j] = told[j]
    BY <2>2, <2>3, <2>4, Heard
  <2>6. \A s \in Slots : Live(s) => order[s].id \in OrderIds
    BY OrderTypes
  <2> QED
    BY <2>1, <2>5, <2>6 DEF ToldRight, ToldOf, Live
<1>3. CASE Joins
  BY <1>3, JoinsTold
<1>4. CASE MatchBest
  BY <1>4, MatchTold
<1>5. ASSUME NEW c, NEW k, NEW side, NEW price, NEW quantity,
             PlaceAccepted(c, k, side, price, quantity)
      PROVE  ToldRight'
  <2>1. UNCHANGED <<order, told>> /\ pc = "idle"
    BY <1>5 DEF PlaceAccepted, bookVars
  <2> QED
    BY <2>1 DEF ToldRight, ToldOf, Live
<1>6. ASSUME NEW c \in Clients, NEW k \in ClientOrders, Cancel(c, k)
      PROVE  ToldRight'
  <2>1. PICK side \in Sides, tick \in Ticks : \E i \in 1..Len(queue[side][tick]) :
          Leaves(side, tick, i) /\ Emit(HeardGone(order[queue[side][tick][i]].id))
    BY <1>6, CancelEffect
  <2>2. PICK i \in 1..Len(queue[side][tick]) :
          Leaves(side, tick, i) /\ Emit(HeardGone(order[queue[side][tick][i]].id))
    BY <2>1
  <2>3. pc = "idle"
    BY <1>6, CancelEffect
  <2> DEFINE id == order[queue[side][tick][i]].id
  <2>4. id \in OrderIds /\ told' = HeardGone(id)
    BY <2>2, <2>3, Values DEF Leaves, Resident, RoomToTell, Emit
  <2>5. \A j \in OrderIds : told'[j] = IF j = id THEN Null ELSE told[j]
    BY <2>4, Heard
  <2> QED
    BY <2>2, <2>3, <2>4, <2>5, LeavesTold
<1>7. ASSUME NEW c \in Clients, NEW k \in ClientOrders, NEW newPrice \in NewPrices,
             NEW newQty \in NewQtys, ModifyRemove(c, k, newPrice, newQty)
      PROVE  ToldRight'
  <2>1. PICK side \in Sides, tick \in Ticks : \E i \in 1..Len(queue[side][tick]) :
          Leaves(side, tick, i) /\ cmd'.id = order[queue[side][tick][i]].id
    BY <1>7, ModifyRemoveEffect
  <2>2. pc = "idle" /\ pc' = "reinsert" /\ told' = told
    BY <1>7, ModifyRemoveEffect
  <2> QED
    BY <2>1, <2>2, LeavesTold
<1>8. ASSUME NEW c \in Clients, NEW k \in ClientOrders, NEW newPrice \in NewPrices,
             NEW newQty \in NewQtys, ModifyInPlace(c, k, newPrice, newQty)
      PROVE  ToldRight'
  <2>1. PICK side \in Sides, tick \in Ticks : \E i \in 1..Len(queue[side][tick]) :
          LET o == order[queue[side][tick][i]]
          IN \E qty \in 0..o.leaves-1 :
               Loses(side, tick, i, qty) /\ Emit(HeardRests(o.id, o.price, o.leaves - qty))
    BY <1>8, ModifyInPlaceEffect
  <2>2. PICK i \in 1..Len(queue[side][tick]) :
          LET o == order[queue[side][tick][i]]
          IN \E qty \in 0..o.leaves-1 :
               Loses(side, tick, i, qty) /\ Emit(HeardRests(o.id, o.price, o.leaves - qty))
    BY <2>1
  <2> DEFINE o == order[queue[side][tick][i]]
  <2>3. PICK qty \in 0..o.leaves-1 :
          Loses(side, tick, i, qty) /\ Emit(HeardRests(o.id, o.price, o.leaves - qty))
    BY <2>2
  <2>4. pc = "idle"
    BY <1>8, ModifyInPlaceEffect
  <2>5. o.id \in OrderIds /\ told' = HeardRests(o.id, o.price, o.leaves - qty)
    BY <2>3, <2>4, Values DEF Loses, Resident, RoomToTell, Emit
  <2>6. \A j \in OrderIds :
          told'[j] = IF j = o.id THEN [price |-> o.price, leaves |-> o.leaves - qty] ELSE told[j]
    <3> HIDE DEF o
    <3>1. \A j \in OrderIds :
            HeardRests(o.id, o.price, o.leaves - qty)[j] =
              IF j = o.id THEN [price |-> o.price, leaves |-> o.leaves - qty] ELSE told[j]
      BY <2>5, Heard
    <3> QED
      BY <2>5, <3>1
  <2> QED
    BY <2>3, <2>4, <2>5, <2>6, LosesTold
<1> QED
  BY <1>1, <1>2, <1>3, <1>4, <1>5, <1>6, <1>7, <1>8, StepKinds

LEMMA InitTold == Init => ToldRight
BY DEF Init, Book!Init, ToldRight, Live, Slots

\* A reader who only follows the output events knows after every command which
\* orders rest, at what price and with what left, in every run of the engine
\* in which the event array has room for what there is to tell and no modify
\* loses its order for want of a tick.
THEOREM SpecStreamTellsBook ==
  Spec /\ []RoomToTell /\ [][~ModifyDropped]_vars => []StreamTellsBook
<1>1. IInv /\ IdsApart /\ ToldRight /\ RoomToTell /\ [Next]_vars /\ [~ModifyDropped]_vars
        => ToldRight'
  <2>1. CASE UNCHANGED vars
    BY <2>1 DEF vars, ToldRight, ToldOf, Live
  <2>2. CASE ~UNCHANGED vars
    BY <2>2, StepTold
  <2> QED
    BY <2>1, <2>2
<1>2. IInv /\ IdsApart /\ [Next]_vars => IdsApart'
  BY StepIds
<1>3. ToldRight => StreamTellsBook
  BY ToldMeans
<1> QED
  BY <1>1, <1>2, <1>3, InitTold, InitIds, SpecIInv, PTL DEF Spec

\* No place asks for more than the array can tell fill by fill, and a modify
\* names prices that have a tick.
FewFills   == EventBufferLen > 0 /\ \A quantity \in Quantities : quantity <= EventBufferLen
TicksNamed == \A price \in NewPrices \ {Null} : HasTick(price)

EventsFit ==
  /\ pc = "match" => emitted + cmd.leaves <= EventBufferLen
  /\ pc # "match" => emitted = 0
  /\ pc = "reinsert" => HasTick(cmd.price)

LEMMA EventsFitMeans == FewFills /\ IInv /\ EventsFit => RoomToTell /\ ~ModifyDropped
<1> SUFFICES ASSUME FewFills, IInv, EventsFit PROVE RoomToTell /\ ~ModifyDropped
  OBVIOUS
<1>1. emitted \in Nat /\ EventBufferLen \in Nat /\ (pc # "idle" => cmd.leaves \in Nat)
  BY IInvMeans, CommandFields, MatchingEngineAssumption DEF EngineTyped
<1>2. RoomToTell
  BY <1>1 DEF FewFills, EventsFit, RoomToTell, ArrayHasRoom
<1>3. pc = "reinsert" => Book!PriceToTick(cmd.price) # Null /\ ~Book!ArenaFull
  BY DEF EventsFit, HasTick, IInv, ReinsertHasRoom
<1> QED
  BY <1>2, <1>3 DEF ModifyDropped

LEMMA StepFits == FewFills /\ TicksNamed /\ IInv /\ EventsFit /\ [Next]_vars => EventsFit'
<1> SUFFICES ASSUME FewFills, TicksNamed, IInv, EventsFit, [Next]_vars PROVE EventsFit'
  OBVIOUS
<1>1. CASE Idles
  BY <1>1 DEF Idles, EventsFit, HasTick
<1>2. CASE Ends \/ Joins
  BY <1>2 DEF Ends, Joins, EventsFit
<1>3. CASE MatchBest
  <2>1. PICK qty \in Nat \ {0} :
          /\ pc = "match" /\ pc' = "match" /\ cmd \in Command
          /\ cmd'.leaves = cmd.leaves - qty /\ qty <= cmd.leaves /\ emitted' = Counted
    BY <1>3, MatchEffect
  <2>2. cmd.leaves \in Nat /\ emitted \in Nat /\ EventBufferLen \in Nat
    BY <2>1, IInvMeans, CommandFields, MatchingEngineAssumption DEF EngineTyped
  <2> QED
    BY <2>1, <2>2 DEF EventsFit, Counted
<1>4. ASSUME NEW c, NEW k, NEW side, NEW price, NEW quantity \in Quantities,
             PlaceAccepted(c, k, side, price, quantity)
      PROVE  EventsFit'
  <2>1. pc = "idle" /\ pc' = "match" /\ cmd'.leaves = quantity /\ emitted' = emitted
    BY <1>4 DEF PlaceAccepted
  <2> QED
    BY <2>1, MatchingEngineAssumption DEF EventsFit, FewFills
<1>5. ASSUME NEW c \in Clients, NEW k \in ClientOrders, Cancel(c, k)
      PROVE  EventsFit'
  BY <1>5, CancelEffect DEF EventsFit
<1>6. ASSUME NEW c \in Clients, NEW k \in ClientOrders, NEW newPrice \in NewPrices,
             NEW newQty \in NewQtys, ModifyRemove(c, k, newPrice, newQty)
      PROVE  EventsFit'
  <2>1. PICK side \in Sides, tick \in Ticks : \E i \in 1..Len(queue[side][tick]) :
          /\ Leaves(side, tick, i)
          /\ cmd'.price = TargetPrice(order[queue[side][tick][i]], newPrice)
    BY <1>6, ModifyRemoveEffect
  <2>2. PICK i \in 1..Len(queue[side][tick]) :
          /\ Leaves(side, tick, i)
          /\ cmd'.price = TargetPrice(order[queue[side][tick][i]], newPrice)
    BY <2>1
  <2>3. HasTick(order[queue[side][tick][i]].price)
    <3>1. order[queue[side][tick][i]] \in Order
      BY <2>2 DEF Leaves, Resident
    <3>2. order[queue[side][tick][i]].price \in Nat /\ tick # Null
      BY <3>1, Values
    <3>3. Book!PriceToTick(order[queue[side][tick][i]].price) = tick
      BY <2>2 DEF IInv, AtItsLevel
    <3> QED
      BY <3>2, <3>3, MatchingEngineAssumption DEF HasTick
  <2>4. HasTick(cmd'.price)
    BY <2>2, <2>3 DEF TargetPrice, TicksNamed
  <2>5. pc = "idle" /\ pc' = "reinsert" /\ emitted' = emitted
    BY <1>6, ModifyRemoveEffect
  <2> QED
    BY <2>4, <2>5 DEF EventsFit, HasTick
<1>7. ASSUME NEW c \in Clients, NEW k \in ClientOrders, NEW newPrice \in NewPrices,
             NEW newQty \in NewQtys, ModifyInPlace(c, k, newPrice, newQty)
      PROVE  EventsFit'
  BY <1>7, ModifyInPlaceEffect DEF EventsFit
<1> QED
  BY <1>1, <1>2, <1>3, <1>4, <1>5, <1>6, <1>7, StepKinds

LEMMA InitFits == Init => EventsFit
BY DEF Init, EventsFit

\* So it is when no command asks for more units than the array has places,
\* 16, and no modify names a price outside the radix: then every command is
\* told of in full, whatever the history.
THEOREM SmallOrdersAreTold == FewFills /\ TicksNamed => (Spec => []StreamTellsBook)
<1> SUFFICES ASSUME FewFills, TicksNamed PROVE Spec => []StreamTellsBook
  OBVIOUS
<1>1. IInv /\ EventsFit /\ [Next]_vars => EventsFit'
  BY StepFits
<1>2. IInv /\ EventsFit => RoomToTell /\ ~ModifyDropped
  BY EventsFitMeans
<1>3. IInv /\ EventsFit /\ [Next]_vars => [~ModifyDropped]_vars
  BY <1>2
<1> QED
  BY <1>1, <1>2, <1>3, InitFits, SpecIInv, SpecStreamTellsBook, PTL DEF Spec

-----------------------------------------------------------------------------
(* Price-time priority.  The queues of the book, seen as queues of orders, do *)
(* what PriceTimePriority lets them do.  First the queues alone.             *)

Item(s) == [id |-> order[s].id, leaves |-> order[s].leaves]
Entry   == [id: OrderIds, leaves: Nat \ {0}]

LEMMA FunctionIsSeq ==
  ASSUME NEW S, NEW n \in Nat, NEW q, q \in [1..n -> S]
  PROVE  q \in Seq(S) /\ Len(q) = n
<1>1. q \in Seq(S)
  BY SeqDef
<1>2. DOMAIN q = 1..n /\ DOMAIN q = 1..Len(q) /\ Len(q) \in Nat
  BY <1>1, LenProperties
<1> QED
  BY <1>1, <1>2, BookP!IntervalEnd

LEMMA RestingMeans ==
  ASSUME IInv
  PROVE  /\ Resting \in [Sides -> [Ticks -> Seq(Entry)]]
         /\ \A side \in Sides, t \in Ticks :
              /\ Len(Resting[side][t]) = Len(queue[side][t])
              /\ Len(queue[side][t]) \in Nat
              /\ \A i \in 1..Len(queue[side][t]) : Resting[side][t][i] = Item(queue[side][t][i])
<1>1. ASSUME NEW side \in Sides, NEW t \in Ticks
      PROVE  /\ Resting[side][t] = [i \in 1..Len(queue[side][t]) |-> Item(queue[side][t][i])]
             /\ Len(queue[side][t]) \in Nat
             /\ \A i \in 1..Len(queue[side][t]) : Item(queue[side][t][i]) \in Entry
  <2>1. Len(queue[side][t]) \in Nat
    BY IInvMeans, Shape
  <2>2. ASSUME NEW i \in 1..Len(queue[side][t])
        PROVE  Item(queue[side][t][i]) \in Entry
    <3>1. queue[side][t][i] \in Slots /\ order[queue[side][t][i]] # Null
      BY IInvMeans, Shape
    <3>2. order[queue[side][t][i]] \in Order
      BY <3>1, OrderTypes DEF Live
    <3> QED
      BY <3>2, Values DEF Item, Entry
  <2> QED
    BY <2>1, <2>2 DEF Resting, Item
<1>2. ASSUME NEW side \in Sides, NEW t \in Ticks
      PROVE  Resting[side][t] \in Seq(Entry) /\ Len(Resting[side][t]) = Len(queue[side][t])
  <2> DEFINE r == Resting[side][t]
             n == Len(queue[side][t])
  <2>1. n \in Nat /\ r \in [1..n -> Entry]
    BY <1>1
  <2> HIDE DEF r, n
  <2>2. r \in Seq(Entry) /\ Len(r) = n
    BY <2>1, FunctionIsSeq
  <2> QED
    BY <2>2 DEF r, n
<1>3. Resting \in [Sides -> [Ticks -> Seq(Entry)]]
  BY <1>2 DEF Resting
<1>4. ASSUME NEW side \in Sides, NEW t \in Ticks
      PROVE  /\ Len(Resting[side][t]) = Len(queue[side][t])
             /\ Len(queue[side][t]) \in Nat
             /\ \A i \in 1..Len(queue[side][t]) : Resting[side][t][i] = Item(queue[side][t][i])
  <2>1. Resting[side][t] = [i \in 1..Len(queue[side][t]) |-> Item(queue[side][t][i])]
    BY <1>1
  <2>2. \A i \in 1..Len(queue[side][t]) : Resting[side][t][i] = Item(queue[side][t][i])
    BY <2>1
  <2>3. Len(Resting[side][t]) = Len(queue[side][t]) /\ Len(queue[side][t]) \in Nat
    BY <1>1, <1>2
  <2> QED
    BY <2>2, <2>3
<1> QED
  BY <1>3, <1>4

\* A change of one queue.
LEMMA OneQueue ==
  ASSUME NEW side \in Sides, NEW tick \in Ticks, NEW new, Resting'[side][tick] = new,
         \A side2 \in Sides, t2 \in Ticks :
           side2 # side \/ t2 # tick => Resting'[side2][t2] = Resting[side2][t2]
  PROVE  Resting' = [Resting EXCEPT ![side][tick] = new]
<1> DEFINE result == [Resting EXCEPT ![side][tick] = new]
<1>1. /\ Resting = [side2 \in Sides |-> [t2 \in Ticks |-> Resting[side2][t2]]]
      /\ Resting' = [side2 \in Sides |-> [t2 \in Ticks |-> Resting'[side2][t2]]]
  BY DEF Resting
<1>2. result = [side2 \in Sides |-> [t2 \in Ticks |->
                  IF side2 = side /\ t2 = tick THEN new ELSE Resting[side2][t2]]]
  BY SMTT(30), <1>1
<1>3. \A side2 \in Sides, t2 \in Ticks :
        Resting'[side2][t2] = IF side2 = side /\ t2 = tick THEN new ELSE Resting[side2][t2]
  OBVIOUS
<1> HIDE DEF result
<1>4. Resting' = result
  BY <1>1, <1>2, <1>3
<1> QED
  BY <1>4 DEF result

\* RemoveAt, element by element.
LEMMA RemoveAtMeans ==
  ASSUME NEW S, NEW q \in Seq(S), NEW k \in 1..Len(q)
  PROVE  PriceTime!RemoveAt(q, k) =
           [i \in 1..Len(q)-1 |-> IF i < k THEN q[i] ELSE q[i + 1]]
<1> DEFINE n == Len(q)
           front == SubSeq(q, 1, k-1)
           back == SubSeq(q, k+1, n)
           new == [i \in 1..n-1 |-> IF i < k THEN q[i] ELSE q[i + 1]]
<1>1. n \in Nat /\ k \in 1..n /\ \A i \in 1..n : q[i] \in S
  BY LenProperties, ElementOfSeq
<1> HIDE DEF n
<1>2. /\ front \in Seq(S) /\ Len(front) = k - 1
      /\ \A i \in 1..k-1 : front[i] = q[i]
  <2>1. k-1 \in Int /\ 1 \in Int /\ \A i \in 1..k-1 : q[i] \in S
    BY <1>1
  <2>2. /\ front \in Seq(S) /\ Len(front) = IF 1 <= k-1 THEN (k-1)-1+1 ELSE 0
        /\ \A i \in 1..(k-1)-1+1 : front[i] = q[1+i-1]
    BY <2>1, SubSeqProperties
  <2> QED
    BY <1>1, <2>2
<1>3. /\ back \in Seq(S) /\ Len(back) = n - k
      /\ \A i \in 1..n-k : back[i] = q[k + i]
  <2>1. k+1 \in Int /\ n \in Int /\ \A i \in (k+1)..n : q[i] \in S
    BY <1>1
  <2>2. /\ back \in Seq(S) /\ Len(back) = IF k+1 <= n THEN n-(k+1)+1 ELSE 0
        /\ \A i \in 1..n-(k+1)+1 : back[i] = q[(k+1)+i-1]
    BY <2>1, SubSeqProperties
  <2> QED
    BY <1>1, <2>2
<1> HIDE DEF front, back
<1>4. /\ front \o back \in Seq(S) /\ Len(front \o back) = n - 1
      /\ \A i \in 1..n-1 : (front \o back)[i] = IF i < k THEN q[i] ELSE q[i + 1]
  <2>1. /\ front \o back \in Seq(S) /\ Len(front \o back) = Len(front) + Len(back)
        /\ \A i \in 1..Len(front) + Len(back) :
             (front \o back)[i] = IF i <= Len(front) THEN front[i] ELSE back[i - Len(front)]
    BY <1>2, <1>3, ConcatProperties
  <2>2. Len(front) + Len(back) = n - 1
    BY <1>1, <1>2, <1>3
  <2>3. ASSUME NEW i \in 1..n-1
        PROVE  (front \o back)[i] = IF i < k THEN q[i] ELSE q[i + 1]
    <3>1. (front \o back)[i] = IF i <= k - 1 THEN front[i] ELSE back[i - (k - 1)]
      BY <1>2, <2>1, <2>2
    <3>2. CASE i < k
      <4>1. i \in 1..k-1
        BY <1>1, <3>2
      <4> QED
        BY <1>1, <1>2, <3>1, <3>2, <4>1
    <3>3. CASE ~(i < k)
      <4>1. i - (k - 1) \in 1..n-k /\ k + (i - (k - 1)) = i + 1 /\ ~(i <= k - 1)
        BY <1>1, <3>3
      <4> QED
        BY <1>3, <3>1, <3>3, <4>1
    <3> QED
      BY <3>2, <3>3
  <2> QED
    BY <2>1, <2>2, <2>3
<1>5. new \in Seq(S) /\ Len(new) = n - 1
  <2>1. n - 1 \in Nat /\ new \in [1..n-1 -> S]
    BY <1>1
  <2> HIDE DEF new
  <2> QED
    BY <2>1, FunctionIsSeq
<1>6. \A i \in 1..Len(front \o back) : (front \o back)[i] = new[i]
  BY <1>4
<1>7. front \o back = new
  BY <1>4, <1>5, <1>6, SeqEqual
<1> QED
  BY <1>7 DEF PriceTime!RemoveAt, front, back, n

LEMMA RestingSame == UNCHANGED <<order, queue>> => Resting' = Resting
BY DEF Resting

\* A slot is in one place of one queue.
LEMMA OnePlace ==
  ASSUME IInv, NEW side \in Sides, NEW tick \in Ticks, NEW i \in 1..Len(queue[side][tick])
  PROVE  \A side2 \in Sides, t2 \in Ticks : \A j \in 1..Len(queue[side2][t2]) :
           /\ queue[side2][t2][j] \in Slots
           /\ queue[side2][t2][j] = queue[side][tick][i] => side2 = side /\ t2 = tick /\ j = i
<1>1. BookP!IInv
  BY IInvMeans
<1> TAKE side2 \in Sides, t2 \in Ticks
<1> TAKE j \in 1..Len(queue[side2][t2])
<1>2. queue[side2][t2][j] \in Slots
  BY <1>1, Shape
<1>3. queue[side2][t2][j] = queue[side][tick][i] => side2 = side /\ t2 = tick /\ j = i
  BY <1>1, Shape
<1> QED
  BY <1>2, <1>3

LEMMA LeavesMaps ==
  ASSUME IInv, NEW side \in Sides, NEW tick \in Ticks, NEW i, Leaves(side, tick, i)
  PROVE  Resting' = [Resting EXCEPT ![side][tick] = PriceTime!RemoveAt(@, i)]
<1> DEFINE q == queue[side][tick]
           new == [j \in 1..Len(q)-1 |-> IF j < i THEN Resting[side][tick][j]
                                        ELSE Resting[side][tick][j + 1]]
<1>1. /\ i \in 1..Len(q) /\ queue' = [queue EXCEPT ![side][tick] = BookP!Without(@, i)]
      /\ q \in Seq(Slots) /\ Len(q) \in Nat /\ queue \in [Sides -> [Ticks -> Seq(Slots)]]
  BY IInvMeans, Shape DEF Leaves, Resident
<1>2. /\ \A s \in Slots : s # q[i] => order'[s] = order[s]
      /\ \A side2 \in Sides, t2 \in Ticks : \A j \in 1..Len(queue[side2][t2]) :
           /\ queue[side2][t2][j] \in Slots
           /\ queue[side2][t2][j] = q[i] => side2 = side /\ t2 = tick /\ j = i
  <2>1. \A s \in Slots : s # q[i] => order'[s] = order[s]
    BY <1>1, LeavesOrders
  <2>2. i \in 1..Len(queue[side][tick])
    BY <1>1
  <2> QED
    BY <2>1, <2>2, OnePlace
<1>3. \A side2 \in Sides, t2 \in Ticks :
        side2 # side \/ t2 # tick => Resting'[side2][t2] = Resting[side2][t2]
  <2> SUFFICES ASSUME NEW side2 \in Sides, NEW t2 \in Ticks, side2 # side \/ t2 # tick
               PROVE  Resting'[side2][t2] = Resting[side2][t2]
    OBVIOUS
  <2>1. queue'[side2][t2] = queue[side2][t2]
    BY <1>1
  <2>2. \A j \in 1..Len(queue[side2][t2]) : order'[queue[side2][t2][j]] = order[queue[side2][t2][j]]
    BY <1>2
  <2> QED
    BY <2>1, <2>2 DEF Resting
<1>4. Resting'[side][tick] = new
  <2>1. queue'[side][tick] = BookP!Without(q, i)
    BY <1>1
  <2>2. /\ Len(BookP!Without(q, i)) = Len(q) - 1
        /\ \A j \in 1..Len(q)-1 : BookP!Without(q, i)[j] = IF j < i THEN q[j] ELSE q[j + 1]
    BY <1>1, WithoutOne
  <2>3. Resting'[side][tick] =
          [j \in 1..Len(q)-1 |-> [id |-> order'[BookP!Without(q, i)[j]].id,
                                  leaves |-> order'[BookP!Without(q, i)[j]].leaves]]
    BY <2>1, <2>2 DEF Resting
  <2>4. ASSUME NEW j \in 1..Len(q)-1
        PROVE  [id |-> order'[BookP!Without(q, i)[j]].id,
                leaves |-> order'[BookP!Without(q, i)[j]].leaves]
                 = IF j < i THEN Resting[side][tick][j] ELSE Resting[side][tick][j + 1]
    <3>1. /\ j \in 1..Len(q) /\ j + 1 \in 1..Len(q)
      BY <1>1
    <3>2. ASSUME NEW m \in 1..Len(q), m # i
          PROVE  order'[q[m]] = order[q[m]]
      <4>1. q[m] \in Slots /\ q[m] # q[i]
        BY <1>2, <3>2
      <4> QED
        BY <1>2, <4>1
    <3>3. /\ Resting[side][tick][j] = Item(q[j])
          /\ Resting[side][tick][j + 1] = Item(q[j + 1])
      BY <3>1, RestingMeans
    <3>4. CASE j < i
      <4>1. BookP!Without(q, i)[j] = q[j] /\ order'[q[j]] = order[q[j]]
        BY <2>2, <3>1, <3>2, <3>4
      <4> QED
        BY <3>3, <3>4, <4>1 DEF Item
    <3>5. CASE ~(j < i)
      <4>1. j + 1 # i
        BY <1>1, <3>5
      <4>2. BookP!Without(q, i)[j] = q[j + 1] /\ order'[q[j + 1]] = order[q[j + 1]]
        BY <2>2, <3>1, <3>2, <3>5, <4>1
      <4> QED
        BY <3>3, <3>5, <4>2 DEF Item
    <3> QED
      BY <3>4, <3>5
  <2> QED
    BY <2>3, <2>4
<1>5. PriceTime!RemoveAt(Resting[side][tick], i) = new
  <2> DEFINE r == Resting[side][tick]
  <2>1. r \in Seq(Entry) /\ Len(r) = Len(q)
    BY RestingMeans
  <2> HIDE DEF r
  <2>2. PriceTime!RemoveAt(r, i) = [j \in 1..Len(r)-1 |-> IF j < i THEN r[j] ELSE r[j + 1]]
    BY <1>1, <2>1, RemoveAtMeans
  <2> QED
    BY <2>1, <2>2 DEF r
<1> HIDE DEF new
<1>6. Resting' = [Resting EXCEPT ![side][tick] = new]
  BY <1>3, <1>4, OneQueue
<1> QED
  BY <1>5, <1>6

LEMMA LosesMaps ==
  ASSUME IInv, NEW side \in Sides, NEW tick \in Ticks, NEW i, NEW qty, Loses(side, tick, i, qty)
  PROVE  Resting' = [Resting EXCEPT ![side][tick] =
                       [@ EXCEPT ![i] = [id |-> Resting[side][tick][i].id,
                                         leaves |-> Resting[side][tick][i].leaves - qty]]]
<1> DEFINE q == queue[side][tick]
           less == [id |-> Resting[side][tick][i].id,
                    leaves |-> Resting[side][tick][i].leaves - qty]
           new == [Resting[side][tick] EXCEPT ![i] = less]
<1>1. /\ i \in 1..Len(q) /\ queue' = queue /\ q \in Seq(Slots) /\ Len(q) \in Nat
      /\ q[i] \in Slots
  BY IInvMeans, Shape DEF Loses, Resident
<1>2. /\ \A s \in Slots : s # q[i] => order'[s] = order[s]
      /\ order'[q[i]].id = order[q[i]].id /\ order'[q[i]].leaves = order[q[i]].leaves - qty
      /\ \A side2 \in Sides, t2 \in Ticks : \A j \in 1..Len(queue[side2][t2]) :
           /\ queue[side2][t2][j] \in Slots
           /\ queue[side2][t2][j] = q[i] => side2 = side /\ t2 = tick /\ j = i
  <2>1. /\ \A s \in Slots : s # q[i] => order'[s] = order[s]
        /\ order'[q[i]].id = order[q[i]].id /\ order'[q[i]].leaves = order[q[i]].leaves - qty
    BY <1>1, LosesOrders
  <2> QED
    BY <1>1, <2>1, OnePlace
<1>3. \A side2 \in Sides, t2 \in Ticks :
        side2 # side \/ t2 # tick => Resting'[side2][t2] = Resting[side2][t2]
  <2> SUFFICES ASSUME NEW side2 \in Sides, NEW t2 \in Ticks, side2 # side \/ t2 # tick
               PROVE  Resting'[side2][t2] = Resting[side2][t2]
    OBVIOUS
  <2>1. \A j \in 1..Len(queue[side2][t2]) : order'[queue[side2][t2][j]] = order[queue[side2][t2][j]]
    BY <1>2
  <2> QED
    BY <1>1, <2>1 DEF Resting
<1>4. Resting'[side][tick] = new
  <2>1. Resting'[side][tick] =
          [j \in 1..Len(q) |-> [id |-> order'[q[j]].id, leaves |-> order'[q[j]].leaves]]
    BY <1>1 DEF Resting
  <2>2. /\ Resting[side][tick] = [j \in 1..Len(q) |-> Item(q[j])]
        /\ Resting[side][tick][i] = Item(q[i])
    BY <1>1 DEF Resting, Item
  <2>3. less = [id |-> order'[q[i]].id, leaves |-> order'[q[i]].leaves]
    <3>1. Item(q[i]).id = order[q[i]].id /\ Item(q[i]).leaves = order[q[i]].leaves
      BY DEF Item
    <3>2. Resting[side][tick][i].id = order'[q[i]].id
      BY <1>2, <2>2, <3>1
    <3>3. Resting[side][tick][i].leaves - qty = order'[q[i]].leaves
      BY <1>2, <2>2, <3>1
    <3> QED
      BY <3>2, <3>3
  <2>4. \A j \in 1..Len(q) : j # i => order'[q[j]] = order[q[j]]
    BY <1>1, <1>2
  <2> HIDE DEF less
  <2>5. new = [j \in 1..Len(q) |-> IF j = i THEN less ELSE Item(q[j])]
    BY <1>1, <2>2
  <2>6. \A j \in 1..Len(q) : [id |-> order'[q[j]].id, leaves |-> order'[q[j]].leaves]
                               = IF j = i THEN less ELSE Item(q[j])
    BY <2>3, <2>4 DEF Item
  <2> QED
    BY <2>1, <2>5, <2>6
<1> HIDE DEF new
<1>5. Resting' = [Resting EXCEPT ![side][tick] = new]
  BY <1>3, <1>4, OneQueue
<1> QED
  BY <1>5 DEF new

LEMMA JoinsMaps ==
  ASSUME IInv, Joins
  PROVE  Resting' = [Resting EXCEPT ![cmd.side][Book!PriceToTick(cmd.price)] =
                       Append(@, [id |-> cmd.id, leaves |-> cmd.leaves])]
<1> DEFINE side == cmd.side
           tick == Book!PriceToTick(cmd.price)
           q == queue[side][tick]
           last == [id |-> cmd.id, leaves |-> cmd.leaves]
           new == Append(Resting[side][tick], last)
<1>1. /\ side \in Sides /\ tick \in Ticks /\ cmd \in Order
      /\ freeHead \in Slots /\ order[freeHead] = Null
      /\ queue' = [queue EXCEPT ![side][tick] = Append(@, freeHead)]
  BY Values DEF Joins
<1>2. /\ \A s \in Slots : order'[s] = IF s = freeHead THEN cmd ELSE order[s]
      /\ q \in Seq(Slots) /\ Len(q) \in Nat /\ queue \in [Sides -> [Ticks -> Seq(Slots)]]
      /\ \A side2 \in Sides, t2 \in Ticks : \A j \in 1..Len(queue[side2][t2]) :
           queue[side2][t2][j] \in Slots /\ queue[side2][t2][j] # freeHead
  BY <1>1, JoinsOrders, IInvMeans, Shape
<1> HIDE DEF side, tick
<1>3. \A side2 \in Sides, t2 \in Ticks :
        side2 # side \/ t2 # tick => Resting'[side2][t2] = Resting[side2][t2]
  <2> SUFFICES ASSUME NEW side2 \in Sides, NEW t2 \in Ticks, side2 # side \/ t2 # tick
               PROVE  Resting'[side2][t2] = Resting[side2][t2]
    OBVIOUS
  <2>1. queue'[side2][t2] = queue[side2][t2]
    BY <1>1, <1>2
  <2>2. \A j \in 1..Len(queue[side2][t2]) : order'[queue[side2][t2][j]] = order[queue[side2][t2][j]]
    BY <1>2
  <2> QED
    BY <2>1, <2>2 DEF Resting
<1>4. Resting'[side][tick] = new
  <2>1. queue'[side][tick] = Append(q, freeHead)
    BY <1>1, <1>2
  <2>2. /\ Len(Append(q, freeHead)) = Len(q) + 1 /\ Append(q, freeHead)[Len(q) + 1] = freeHead
        /\ \A j \in 1..Len(q) : Append(q, freeHead)[j] = q[j]
    BY <1>1, <1>2, AppendProperties
  <2>3. Resting'[side][tick] =
          [j \in 1..Len(q)+1 |-> [id |-> order'[Append(q, freeHead)[j]].id,
                                  leaves |-> order'[Append(q, freeHead)[j]].leaves]]
    BY <1>1, <2>1, <2>2 DEF Resting
  <2>4. /\ Resting[side][tick] \in Seq(Entry) /\ Len(Resting[side][tick]) = Len(q)
        /\ \A j \in 1..Len(q) : Resting[side][tick][j] = Item(q[j])
    BY <1>1, RestingMeans
  <2>5. last \in Entry
    BY <1>1, Values DEF Entry
  <2> HIDE DEF last
  <2>6. /\ new \in Seq(Entry) /\ Len(new) = Len(q) + 1 /\ new[Len(q) + 1] = last
        /\ \A j \in 1..Len(q) : new[j] = Item(q[j])
    BY <2>4, <2>5, AppendProperties
  <2>7. new = [j \in 1..Len(q)+1 |-> new[j]]
    BY <2>6, SeqDef
  <2> HIDE DEF new, q
  <2>8. ASSUME NEW j \in 1..Len(q)+1
        PROVE  [id |-> order'[Append(q, freeHead)[j]].id,
                leaves |-> order'[Append(q, freeHead)[j]].leaves] = new[j]
    <3>1. CASE j = Len(q) + 1
      BY <1>1, <1>2, <2>2, <2>6, <3>1 DEF last
    <3>2. CASE j # Len(q) + 1
      <4>1. j \in 1..Len(q)
        BY <1>2, <3>2
      <4>2. order'[q[j]] = order[q[j]]
        BY <1>1, <1>2, <4>1 DEF q
      <4> QED
        BY <2>2, <2>6, <4>1, <4>2 DEF Item
    <3> QED
      BY <3>1, <3>2
  <2> QED
    BY <2>3, <2>7, <2>8
<1> HIDE DEF new
<1>5. Resting' = [Resting EXCEPT ![side][tick] = new]
  BY <1>1, <1>3, <1>4, OneQueue
<1> QED
  BY <1>5 DEF new, side, tick

\* The command, as an incoming order.
ExecutingShape ==
  /\ pc = "idle" => Executing = Null
  /\ pc # "idle" =>
       /\ Executing = [id |-> cmd.id, side |-> cmd.side,
                       limit |-> IF cmd.price = Null THEN Null ELSE Book!PriceToTick(cmd.price),
                       leaves |-> cmd.leaves, trading |-> pc = "match"]
       /\ Executing # Null
       /\ Executing.trading <=> pc = "match"

LEMMA ExecutingMeans == IInv => ExecutingShape
<1> SUFFICES ASSUME IInv, pc # "idle"
             PROVE  Executing # Null /\ (Executing.trading <=> pc = "match")
  BY DEF Executing, ExecutingShape
<1> DEFINE limit == IF cmd.price = Null THEN Null ELSE Book!PriceToTick(cmd.price)
           trading == pc = "match"
           executing == [id |-> cmd.id, side |-> cmd.side, limit |-> limit,
                         leaves |-> cmd.leaves, trading |-> trading]
<1>1. cmd.id \in OrderIds /\ cmd.side \in Sides /\ cmd.leaves \in Nat
  BY IInvMeans, CommandFields DEF EngineTyped
<1>2. limit \in Int \cup {Null}
  <2>1. \A t \in Book!Ticks : t \in Int
    BY Values DEF Ticks
  <2> QED
    BY <2>1 DEF Book!PriceToTick
<1>3. trading \in BOOLEAN
  BY Zenon
<1>4. Executing = executing
  BY DEF Executing
<1> HIDE DEF limit, trading
<1>5. Executing.trading = trading
  BY <1>4
<1>6. Executing.trading <=> pc = "match"
  BY <1>5, Zenon DEF trading
<1>7. executing \in [id: OrderIds, side: Sides, limit: Int \cup {Null}, leaves: Nat,
                     trading: BOOLEAN]
  BY <1>1, <1>2, <1>3
<1> HIDE DEF executing
<1> QED
  BY <1>4, <1>6, <1>7, MatchingEngineAssumption

\* The best level of the other side, as the bitmap has it and by its queues.
LEMMA BestLevel ==
  ASSUME IInv, pc # "idle"
  PROVE  LET other == Opposite(cmd.side)
         IN /\ other \in Sides /\ PriceTime!Opposite(cmd.side) = other
            /\ PriceTime!InUse(other) # {} <=> BestTick # Null
            /\ BestTick # Null => PriceTime!Best(other) = BestTick
<1> DEFINE other == Opposite(cmd.side)
           InUse == PriceTime!InUse(other)
<1>1. cmd.side \in Sides
  BY IInvMeans, CommandFields DEF EngineTyped
<1>2. /\ other \in Sides
      /\ BestTick = Null => \A t \in Ticks : Len(queue[other][t]) = 0
      /\ BestTick # Null =>
           /\ BestTick \in Ticks /\ Len(queue[other][BestTick]) > 0
           /\ \A t \in Ticks : Len(queue[other][t]) > 0 =>
                IF cmd.side = "BUY" THEN BestTick <= t ELSE BestTick >= t
  BY <1>1, IInvMeans, BestTickFound
<1>3. PriceTime!Opposite(cmd.side) = other
  BY <1>1 DEF PriceTime!Opposite, PriceTime!Sides, Opposite, Sides
<1>4. InUse = {t \in Ticks : Len(queue[other][t]) > 0}
  <2>1. ASSUME NEW t \in Ticks
        PROVE  Resting[other][t] # << >> <=> Len(queue[other][t]) > 0
    <3>1. /\ Resting[other][t] \in Seq(Entry) /\ Len(queue[other][t]) \in Nat
          /\ Len(Resting[other][t]) = Len(queue[other][t])
      BY <1>2, RestingMeans
    <3> QED
      BY <3>1, EmptySeq
  <2> QED
    BY <2>1 DEF PriceTime!InUse
<1>5. InUse # {} <=> BestTick # Null
  <2>1. \A t \in Ticks : Len(queue[other][t]) \in Nat
    BY <1>2, RestingMeans
  <2> QED
    BY <1>2, <1>4, <2>1
<1>6. ASSUME BestTick # Null PROVE PriceTime!Best(other) = BestTick
  <2>1. /\ BestTick \in InUse /\ \A t \in InUse : t \in Nat
        /\ \A t \in InUse : IF cmd.side = "BUY" THEN BestTick <= t ELSE BestTick >= t
    BY <1>2, <1>4, <1>6, Values
  <2> HIDE DEF InUse
  <2>2. CASE cmd.side = "BUY"
    <3>1. PriceTime!Min(InUse) = BestTick
      <4>1. \A x \in InUse : (\A y \in InUse : x =< y) => x = BestTick
        BY <2>1, <2>2
      <4> QED
        BY <2>1, <2>2, <4>1 DEF PriceTime!Min
    <3> QED
      BY <2>2, <3>1 DEF PriceTime!Best, InUse, Opposite
  <2>3. CASE cmd.side = "SELL"
    <3>1. PriceTime!Max(InUse) = BestTick
      <4>1. \A x \in InUse : (\A y \in InUse : x >= y) => x = BestTick
        BY <2>1, <2>3
      <4> QED
        BY <2>1, <2>3, <4>1 DEF PriceTime!Max
    <3> QED
      BY <2>3, <3>1 DEF PriceTime!Best, InUse, Opposite
  <2> QED
    BY <1>1, <2>2, <2>3 DEF Sides
<1> QED
  BY <1>2, <1>3, <1>5, <1>6

\* match_aggressor's loop goes on exactly while the incoming order can trade.
LEMMA CanTradeMeans ==
  ASSUME IInv, PricesExact, pc # "idle"
  PROVE  PriceTime!CanTrade <=> pc = "match" /\ CanMatch
<1> DEFINE other == Opposite(cmd.side)
           limit == IF cmd.price = Null THEN Null ELSE Book!PriceToTick(cmd.price)
<1>1. /\ Executing.side = cmd.side /\ Executing.limit = limit /\ Executing.leaves = cmd.leaves
  BY DEF Executing
<1>2. cmd.side \in Sides /\ cmd.leaves \in Nat /\ cmd.price \in Nat \cup {Null}
  BY IInvMeans, CommandFields DEF EngineTyped
<1>3. CanMatch <=> cmd.leaves > 0 /\ BestTick # Null /\ Crosses(BestTick)
  BY <1>2, IInvMeans, CanMatchMeans
<1>4. PriceTime!CanTrade <=>
        pc = "match" /\ cmd.leaves > 0 /\ BestTick # Null
        /\ PriceTime!Within(limit, cmd.side, BestTick)
  <2>1. /\ PriceTime!Opposite(Executing.side) = other
        /\ PriceTime!InUse(other) # {} <=> BestTick # Null
        /\ BestTick # Null => PriceTime!Best(other) = BestTick
    BY <1>1, BestLevel
  <2>2. Executing.trading <=> pc = "match"
    BY ExecutingMeans DEF ExecutingShape
  <2> QED
    BY <1>1, <2>1, <2>2, Zenon DEF PriceTime!CanTrade
<1>5. ASSUME pc = "match", BestTick # Null
      PROVE  PriceTime!Within(limit, cmd.side, BestTick) <=> Crosses(BestTick)
  <2>1. CASE cmd.price = Null
    BY <2>1 DEF PriceTime!Within, Crosses
  <2>2. CASE cmd.price # Null
    <3>1. limit # Null /\ limit \in Ticks /\ Book!TickToPrice(limit) = cmd.price
      BY <1>5, <2>2 DEF IInv, CommandAt, HasTick, PricesExact, Exact, Book!PriceToTick, Ticks
    <3>2. BestTick \in Ticks
      BY <1>2, <1>5, IInvMeans, BestTickFound
    <3>3. /\ limit <= BestTick <=> cmd.price <= Book!TickToPrice(BestTick)
          /\ BestTick <= limit <=> Book!TickToPrice(BestTick) <= cmd.price
          /\ Book!TickToPrice(BestTick) \in Int /\ limit \in Nat /\ BestTick \in Nat
      BY <3>1, <3>2, TickPrices, Values
    <3> HIDE DEF limit
    <3> QED
      BY <1>2, <2>2, <3>1, <3>3 DEF PriceTime!Within, Crosses, Sides
  <2> QED
    BY <2>1, <2>2
<1> QED
  BY <1>3, <1>4, <1>5

\* Two places that hold one slot are one place.
LEMMA PlacesApart ==
  ASSUME IInv, NEW side1 \in Sides, NEW t1 \in Ticks, NEW i \in 1..Len(queue[side1][t1]),
         NEW side2 \in Sides, NEW t2 \in Ticks, NEW j \in 1..Len(queue[side2][t2]),
         queue[side1][t1][i] = queue[side2][t2][j]
  PROVE  side1 = side2 /\ t1 = t2 /\ i = j
BY OnePlace

\* The places of the queues and the slots of the arena are as many.
LEMMA FullMeans == IInv => (PriceTime!Full <=> Book!ArenaFull)
<1> SUFFICES ASSUME IInv PROVE PriceTime!Full <=> Book!ArenaFull
  OBVIOUS
<1> DEFINE P == {place \in Sides \X Ticks \X (1..Capacity) :
                   place[3] <= Len(Resting[place[1]][place[2]])}
           at == [place \in P |-> queue[place[1]][place[2]][place[3]]]
<1>1. PriceTime!Full <=> Cardinality(P) = Capacity
  <2>1. \A S : PriceTime!Cardinality(S) = Cardinality(S)
    BY Zenon DEF PriceTime!Cardinality, Cardinality
  <2> QED
    BY <2>1 DEF PriceTime!Full, PriceTime!Sides, Sides
<1>2. \A place \in P : /\ place[1] \in Sides /\ place[2] \in Ticks
                       /\ place[3] \in 1..Len(queue[place[1]][place[2]])
                       /\ place = <<place[1], place[2], place[3]>>
  BY RestingMeans
<1>3. at \in Injection(P, Slots)
  <2>1. at \in [P -> Slots]
    BY <1>2, IInvMeans, Shape
  <2>2. ASSUME NEW p1 \in P, NEW p2 \in P, at[p1] = at[p2]
        PROVE  p1 = p2
    <3>1. queue[p1[1]][p1[2]][p1[3]] = queue[p2[1]][p2[2]][p2[3]]
      BY <2>2
    <3>2. p1[1] = p2[1] /\ p1[2] = p2[2] /\ p1[3] = p2[3]
      <4> HIDE DEF P
      <4> QED
        BY <1>2, <3>1, PlacesApart
    <3> HIDE DEF P
    <3> QED
      BY <1>2, <3>2
  <2> QED
    BY <2>1, <2>2 DEF Injection, IsInjective
<1>4. IsFiniteSet(Slots) /\ Cardinality(Slots) = Capacity
  BY FS_Interval, MatchingEngineAssumption DEF Slots, Book!Slots
<1>5. Cardinality(P) = Capacity <=> at \in Surjection(P, Slots)
  <2> HIDE DEF at, P
  <2> QED
    BY <1>3, <1>4, FS_Injection
<1>6. at \in Surjection(P, Slots) <=> \A s \in Slots : order[s] # Null
  <2>1. ASSUME at \in Surjection(P, Slots), NEW s \in Slots
        PROVE  order[s] # Null
    <3>1. PICK place \in P : at[place] = s
      BY <2>1 DEF Surjection
    <3>2. /\ place[1] \in Sides /\ place[2] \in Ticks
          /\ place[3] \in 1..Len(queue[place[1]][place[2]])
          /\ queue[place[1]][place[2]][place[3]] = s
      BY <1>2, <3>1
    <3> QED
      BY <3>2, IInvMeans, Shape
  <2>2. ASSUME \A s \in Slots : order[s] # Null, NEW s \in Slots
        PROVE  \E place \in P : at[place] = s
    <3>1. PICK side \in Sides, t \in Ticks : \E i \in 1..Len(queue[side][t]) : queue[side][t][i] = s
      BY <2>2, IInvMeans, Shape
    <3>2. PICK i \in 1..Len(queue[side][t]) : queue[side][t][i] = s
      BY <3>1
    <3>3. Len(queue[side][t]) <= Capacity
      <4>1. queue[side][t] \in Seq(Slots) /\ Len(queue[side][t]) \in Nat
        BY IInvMeans, Shape
      <4>2. \A j, k \in 1..Len(queue[side][t]) : queue[side][t][j] = queue[side][t][k] => j = k
        BY IInvMeans, Shape
      <4>3. DOMAIN queue[side][t] = 1..Len(queue[side][t])
        BY <4>1, LenProperties
      <4>4. BookP!IsInjective(queue[side][t])
        BY <4>2, <4>3 DEF BookP!IsInjective
      <4> QED
        BY <4>1, <4>4, BookP!ListFits, BookAssumption DEF Slots, Book!Slots, BookP!Slots
    <3>4. <<side, t, i>> \in P
      BY <3>2, <3>3, RestingMeans, MatchingEngineAssumption
    <3> QED
      BY <3>2, <3>4
  <2>3. at \in [P -> Slots]
    BY <1>3 DEF Injection
  <2> HIDE DEF at, P
  <2> QED
    BY <2>1, <2>2, <2>3 DEF Surjection
<1>7. Book!ArenaFull <=> \A s \in Slots : order[s] # Null
  BY IInvMeans, BookP!FullMeans, BookAssumption
     DEF Book!ArenaFull, BookP!ArenaFull, Slots, Book!Slots, BookP!Slots
<1> QED
  BY <1>1, <1>5, <1>6, <1>7

-----------------------------------------------------------------------------
(* The steps, one lemma for each kind.                                      *)

LEMMA ExecutingNext == IInv' => ExecutingShape'
BY ExecutingMeans, PTL

\* An incoming order with something left is one of PriceTimePriority's.
ExecutingFits == pc # "idle" /\ cmd.leaves > 0 => Executing \in PriceTime!Incoming

LEMMA ExecutingTyped == IInv => ExecutingFits
<1> SUFFICES ASSUME IInv, pc # "idle", cmd.leaves > 0 PROVE Executing \in PriceTime!Incoming
  BY DEF ExecutingFits
<1> DEFINE limit == IF cmd.price = Null THEN Null ELSE Book!PriceToTick(cmd.price)
           trading == pc = "match"
<1>1. cmd.id \in OrderIds /\ cmd.side \in Sides /\ cmd.leaves \in Nat
  BY IInvMeans, CommandFields DEF EngineTyped
<1>2. limit \in Ticks \cup {Null}
  BY DEF Book!PriceToTick, Ticks
<1>3. trading \in BOOLEAN
  BY Zenon
<1>4. Executing = [id |-> cmd.id, side |-> cmd.side, limit |-> limit, leaves |-> cmd.leaves,
                   trading |-> trading]
  BY DEF Executing
<1> HIDE DEF limit, trading
<1> QED
  BY <1>1, <1>2, <1>3, <1>4 DEF PriceTime!Incoming, PriceTime!Sides, Sides

LEMMA ExecutingTypedNext ==
  ASSUME IInv', pc' # "idle", cmd'.leaves > 0
  PROVE  Executing' \in PriceTime!Incoming
<1>1. IInv' => ExecutingFits'
  BY ExecutingTyped, PTL
<1> QED
  BY <1>1 DEF ExecutingFits, PriceTime!Incoming

LEMMA PlaceEnters ==
  ASSUME IInv, IInv', NEW c, NEW k, NEW side, NEW price, NEW quantity \in Quantities,
         PlaceAccepted(c, k, side, price, quantity)
  PROVE  PriceTime!Enter
<1>1. /\ pc = "idle" /\ pc' = "match" /\ UNCHANGED <<order, queue>>
      /\ cmd'.leaves = quantity /\ quantity # 0
  BY DEF PlaceAccepted, bookVars
<1>2. Executing = Null /\ (Executing'.trading <=> pc' = "match")
  BY <1>1, ExecutingMeans, ExecutingNext DEF ExecutingShape
<1>3. cmd'.leaves > 0
  BY <1>1, MatchingEngineAssumption
<1>4. Executing' \in PriceTime!Incoming
  BY <1>1, <1>3, ExecutingTypedNext
<1> QED
  BY <1>1, <1>2, <1>4, RestingSame, Zenon DEF PriceTime!Enter

LEMMA JoinsRests == IInv /\ IInv' /\ PricesExact /\ Joins => PriceTime!Rest
<1> SUFFICES ASSUME IInv, IInv', PricesExact, Joins PROVE PriceTime!Rest
  OBVIOUS
<1>1. /\ pc # "idle" /\ (pc = "match" => ~CanMatch) /\ pc' = "idle" /\ cmd \in Order
      /\ Book!PriceToTick(cmd.price) \in Ticks /\ freeHead \in Slots
  BY DEF Joins
<1>2. ~PriceTime!CanTrade
  BY <1>1, CanTradeMeans
<1>3. /\ Executing # Null /\ Executing' = Null
      /\ Executing.id = cmd.id /\ Executing.side = cmd.side /\ Executing.leaves = cmd.leaves
      /\ Executing.limit = Book!PriceToTick(cmd.price)
  <2>1. cmd.price # Null
    BY <1>1, Values, MatchingEngineAssumption
  <2> QED
    BY <1>1, <2>1, ExecutingMeans, ExecutingNext DEF ExecutingShape
<1>4. ~PriceTime!Full
  BY <1>1, FullMeans, Values DEF Book!ArenaFull
<1>5. Executing.leaves > 0 /\ Executing.limit # Null
  BY <1>1, <1>3, Values
<1>6. Resting' = [Resting EXCEPT ![Executing.side][Executing.limit] =
                    Append(@, [id |-> Executing.id, leaves |-> Executing.leaves])]
  BY <1>3, JoinsMaps
<1> QED
  BY <1>2, <1>3, <1>4, <1>5, <1>6 DEF PriceTime!Rest

LEMMA EndsLeaves == IInv /\ IInv' /\ PricesExact /\ Ends => PriceTime!Leave
<1> SUFFICES ASSUME IInv, IInv', PricesExact, Ends PROVE PriceTime!Leave
  OBVIOUS
<1>1. /\ pc # "idle" /\ (pc = "match" => ~CanMatch) /\ pc' = "idle" /\ UNCHANGED <<order, queue>>
      /\ \/ cmd.leaves = 0 \/ cmd.price = Null
         \/ Book!PriceToTick(cmd.price) = Null \/ Book!ArenaFull
  BY DEF Ends
<1>2. ~PriceTime!CanTrade
  BY <1>1, CanTradeMeans
<1>3. /\ Executing # Null /\ Executing' = Null /\ Executing.leaves = cmd.leaves
      /\ Executing.limit = IF cmd.price = Null THEN Null ELSE Book!PriceToTick(cmd.price)
  BY <1>1, ExecutingMeans, ExecutingNext DEF ExecutingShape
<1>4. Executing.leaves = 0 \/ Executing.limit = Null \/ PriceTime!Full
  BY <1>1, <1>3, FullMeans
<1> QED
  BY <1>1, <1>2, <1>3, <1>4, RestingSame DEF PriceTime!Leave

\* The first order of a queue, and the queue without it or with less of it.
LEMMA FirstOfQueue ==
  ASSUME NEW q \in Seq(Entry), Len(q) > 0
  PROVE  /\ Head(q) = q[1] /\ Tail(q) = PriceTime!RemoveAt(q, 1)
         /\ \A qty : [q EXCEPT ![1].leaves = @ - qty]
                      = [q EXCEPT ![1] = [id |-> q[1].id, leaves |-> q[1].leaves - qty]]
<1>1. Len(q) \in Nat /\ 1 \in 1..Len(q) /\ q # << >>
  BY LenProperties, EmptySeq
<1>2. Tail(q) = PriceTime!RemoveAt(q, 1)
  <2> DEFINE new == [j \in 1..Len(q)-1 |-> IF j < 1 THEN q[j] ELSE q[j + 1]]
  <2>1. /\ Tail(q) \in Seq(Entry) /\ Len(Tail(q)) = Len(q) - 1
        /\ \A j \in 1..Len(q)-1 : Tail(q)[j] = q[j + 1]
    BY <1>1, HeadTailProperties
  <2>2. new \in Seq(Entry) /\ Len(new) = Len(q) - 1
    <3>1. Len(q) - 1 \in Nat /\ \A j \in 1..Len(q) : q[j] \in Entry
      BY <1>1, ElementOfSeq
    <3>2. new \in [1..Len(q)-1 -> Entry]
      BY <1>1, <3>1
    <3> QED
      BY <3>1, <3>2, SeqDef
  <2>3. Tail(q) = new
    <3>1. \A j \in 1..Len(Tail(q)) : Tail(q)[j] = new[j]
      BY <1>1, <2>1
    <3> HIDE DEF new
    <3> QED
      BY <2>1, <2>2, <3>1, SeqEqual
  <2> QED
    BY <1>1, <2>3, RemoveAtMeans
<1>3. Head(q) = q[1]
  BY <1>1
<1>4. ASSUME NEW qty
      PROVE  [q EXCEPT ![1].leaves = @ - qty]
               = [q EXCEPT ![1] = [id |-> q[1].id, leaves |-> q[1].leaves - qty]]
  <2>1. q[1] \in Entry
    BY <1>1, ElementOfSeq
  <2>2. [q[1] EXCEPT !.leaves = @ - qty] = [id |-> q[1].id, leaves |-> q[1].leaves - qty]
    BY <2>1 DEF Entry
  <2> QED
    BY <2>2
<1> QED
  BY <1>2, <1>3, <1>4

LEMMA MatchTrades == IInv /\ IInv' /\ PricesExact /\ MatchBest => PriceTime!Trade
<1> SUFFICES ASSUME IInv, IInv', PricesExact, MatchBest PROVE PriceTime!Trade
  OBVIOUS
<1> DEFINE other == Opposite(cmd.side)
           tick == BestTick
           slot == RestingSlot
           qty == Book!Min({cmd.leaves, order[slot].leaves})
           q == Resting[other][tick]
           limit == IF cmd.price = Null THEN Null ELSE Book!PriceToTick(cmd.price)
           trading(at) == at = "match"
<1>1. /\ pc = "match" /\ pc' = pc /\ CanMatch
      /\ cmd'.id = cmd.id /\ cmd'.side = cmd.side /\ cmd'.price = cmd.price
      /\ cmd'.leaves = cmd.leaves - qty
      /\ Resident(other, tick, 1) /\ slot = queue[other][tick][1]
      /\ IF qty = order[slot].leaves THEN Leaves(other, tick, 1) ELSE Loses(other, tick, 1, qty)
  BY MatchEffect DEF MatchBest
<1>2. Executing # Null /\ PriceTime!CanTrade
  BY <1>1, ExecutingMeans, CanTradeMeans DEF ExecutingShape
<1>3. /\ Executing = [id |-> cmd.id, side |-> cmd.side, limit |-> limit, leaves |-> cmd.leaves,
                      trading |-> trading(pc)]
      /\ Executing' = [id |-> cmd.id, side |-> cmd.side, limit |-> limit,
                       leaves |-> cmd.leaves - qty, trading |-> trading(pc)]
  BY <1>1, ExecutingMeans, ExecutingNext DEF ExecutingShape
<1>4. PriceTime!Opposite(Executing.side) = other /\ PriceTime!Best(other) = tick
  <2>1. Executing.side = cmd.side
    BY <1>3
  <2>2. tick # Null
    BY <1>1 DEF CanMatch
  <2> QED
    BY <1>1, <2>1, <2>2, BestLevel
<1>5. /\ other \in Sides /\ tick \in Ticks /\ q \in Seq(Entry) /\ Len(q) > 0
      /\ q[1].id = order[slot].id /\ q[1].leaves = order[slot].leaves
  <2>1. other \in Sides /\ tick \in Ticks /\ 1 \in 1..Len(queue[other][tick])
    BY <1>1 DEF Resident
  <2> HIDE DEF other, tick, slot
  <2>2. /\ q \in Seq(Entry) /\ Len(q) = Len(queue[other][tick]) /\ Len(q) \in Nat
        /\ q[1] = Item(slot)
    BY <1>1, <2>1, RestingMeans
  <2>3. Len(q) > 0
    BY <2>1, <2>2
  <2> HIDE DEF q
  <2> QED
    BY <2>1, <2>2, <2>3 DEF Item
<1>6. Head(q).leaves = order[slot].leaves
  BY <1>5, FirstOfQueue
<1>7. PriceTime!Min({Executing.leaves, Head(q).leaves}) = qty
  <2>1. Executing.leaves = cmd.leaves
    BY <1>3
  <2> QED
    BY <1>6, <2>1 DEF PriceTime!Min, Book!Min
<1>8. Executing' = [Executing EXCEPT !.leaves = @ - qty]
  <2> HIDE DEF limit, trading, qty
  <2> QED
    BY <1>3
<1>9. Resting' = [Resting EXCEPT ![other][tick] =
                    IF qty = Head(q).leaves THEN Tail(q) ELSE [q EXCEPT ![1].leaves = @ - qty]]
  <2> HIDE DEF other, tick, qty, slot
  <2>1. CASE qty = order[slot].leaves
    <3>1. Resting' = [Resting EXCEPT ![other][tick] = PriceTime!RemoveAt(@, 1)]
      BY <1>1, <1>5, <2>1, LeavesMaps
    <3>2. Tail(q) = PriceTime!RemoveAt(q, 1)
      BY <1>5, FirstOfQueue
    <3> QED
      BY <1>6, <2>1, <3>1, <3>2
  <2>2. CASE qty # order[slot].leaves
    <3>1. Resting' = [Resting EXCEPT ![other][tick] =
                        [@ EXCEPT ![1] = [id |-> q[1].id, leaves |-> q[1].leaves - qty]]]
      BY <1>1, <1>5, <2>2, LosesMaps
    <3>2. [q EXCEPT ![1].leaves = @ - qty]
            = [q EXCEPT ![1] = [id |-> q[1].id, leaves |-> q[1].leaves - qty]]
      BY <1>5, FirstOfQueue
    <3> QED
      BY <1>6, <2>2, <3>1, <3>2
  <2> QED
    BY <2>1, <2>2
<1> HIDE DEF other, tick, qty, slot, limit, trading
<1> QED
  BY <1>2, <1>4, <1>7, <1>8, <1>9 DEF PriceTime!Trade

LEMMA CancelWithdraws ==
  ASSUME IInv, IInv', NEW c \in Clients, NEW k \in ClientOrders, Cancel(c, k)
  PROVE  PriceTime!Next
<1>1. PICK side \in Sides, tick \in Ticks : \E i \in 1..Len(queue[side][tick]) :
        Leaves(side, tick, i)
  BY CancelEffect
<1>2. PICK i \in 1..Len(queue[side][tick]) : Leaves(side, tick, i)
  BY <1>1
<1>3. Executing = Null /\ Executing' = Null
  BY CancelEffect, ExecutingMeans, ExecutingNext DEF ExecutingShape
<1>4. PriceTime!Withdraw(side, tick, i)
  BY <1>2, <1>3, LeavesMaps DEF PriceTime!Withdraw
<1>5. i \in 1..Len(Resting[side][tick])
  BY RestingMeans
<1> QED
  BY <1>4, <1>5 DEF PriceTime!Next, PriceTime!Sides, Sides

LEMMA ModifyWithdraws ==
  ASSUME IInv, IInv', NEW c \in Clients, NEW k \in ClientOrders, NEW newPrice \in NewPrices,
         NEW newQty \in NewQtys, ModifyRemove(c, k, newPrice, newQty)
  PROVE  PriceTime!Next
<1>1. PICK side \in Sides, tick \in Ticks : \E i \in 1..Len(queue[side][tick]) :
        LET o == order[queue[side][tick][i]]
        IN Leaves(side, tick, i) /\ o.side = side /\ cmd'.id = o.id /\ cmd'.side = o.side
  BY ModifyRemoveEffect
<1>2. PICK i \in 1..Len(queue[side][tick]) :
        LET o == order[queue[side][tick][i]]
        IN Leaves(side, tick, i) /\ o.side = side /\ cmd'.id = o.id /\ cmd'.side = o.side
  BY <1>1
<1>3. pc = "idle" /\ pc' = "reinsert" /\ cmd'.leaves \in Nat \ {0}
  BY ModifyRemoveEffect
<1>4. Executing = Null
  BY <1>3, ExecutingMeans DEF ExecutingShape
<1>5. Executing'.id = cmd'.id /\ Executing'.side = cmd'.side
  BY <1>3, ExecutingNext DEF ExecutingShape
<1>6. ~Executing'.trading
  BY <1>3, ExecutingNext, Zenon DEF ExecutingShape
<1>7. Executing' \in PriceTime!Incoming
  BY <1>3, ExecutingTypedNext
<1>8. i \in 1..Len(Resting[side][tick]) /\ Resting[side][tick][i].id = order[queue[side][tick][i]].id
  <2>1. i \in 1..Len(Resting[side][tick]) /\ Resting[side][tick][i] = Item(queue[side][tick][i])
    BY RestingMeans
  <2> QED
    BY <2>1 DEF Item
<1>9. Resting' = [Resting EXCEPT ![side][tick] = PriceTime!RemoveAt(@, i)]
  BY <1>2, LeavesMaps
<1>10. Executing'.id = Resting[side][tick][i].id /\ Executing'.side = side
  BY <1>2, <1>5, <1>8
<1>11. PriceTime!Withdraw(side, tick, i)
  BY <1>4, <1>6, <1>7, <1>9, <1>10, Zenon DEF PriceTime!Withdraw
<1> QED
  BY <1>8, <1>11 DEF PriceTime!Next, PriceTime!Sides, Sides

LEMMA ModifyShrinks ==
  ASSUME IInv, IInv', NEW c \in Clients, NEW k \in ClientOrders, NEW newPrice \in NewPrices,
         NEW newQty \in NewQtys, ModifyInPlace(c, k, newPrice, newQty)
  PROVE  PriceTime!Next
<1>1. PICK side \in Sides, tick \in Ticks : \E i \in 1..Len(queue[side][tick]) :
        \E qty \in 0..order[queue[side][tick][i]].leaves-1 : Loses(side, tick, i, qty)
  BY ModifyInPlaceEffect
<1>2. PICK i \in 1..Len(queue[side][tick]) :
        \E qty \in 0..order[queue[side][tick][i]].leaves-1 : Loses(side, tick, i, qty)
  BY <1>1
<1>3. PICK qty \in 0..order[queue[side][tick][i]].leaves-1 : Loses(side, tick, i, qty)
  BY <1>2
<1>4. Executing = Null /\ Executing' = Executing
  BY ModifyInPlaceEffect, ExecutingMeans, ExecutingNext DEF ExecutingShape
<1> DEFINE r == Resting[side][tick][i]
           left == r.leaves - qty
<1>5. i \in 1..Len(Resting[side][tick]) /\ r.leaves = order[queue[side][tick][i]].leaves
  <2>1. i \in 1..Len(Resting[side][tick]) /\ r = Item(queue[side][tick][i])
    BY RestingMeans
  <2> QED
    BY <2>1 DEF Item
<1>6. r \in Entry
  BY <1>5, RestingMeans, ElementOfSeq
<1>7. r.leaves \in Nat \ {0}
  BY <1>6 DEF Entry
<1>8. left \in 1..r.leaves
  BY SMTT(30), <1>5, <1>7
<1>9. Resting' = [Resting EXCEPT ![side][tick][i].leaves = left]
  <2>1. Resting' = [Resting EXCEPT ![side][tick] = [@ EXCEPT ![i] = [id |-> r.id, leaves |-> left]]]
    BY <1>3, LosesMaps
  <2> HIDE DEF left
  <2>2. [r EXCEPT !.leaves = left] = [id |-> r.id, leaves |-> left]
    BY <1>6 DEF Entry
  <2> QED
    BY <2>1, <2>2
<1>10. PriceTime!Shrink(side, tick, i)
  BY <1>4, <1>8, <1>9 DEF PriceTime!Shrink
<1> QED
  BY <1>5, <1>10 DEF PriceTime!Next, PriceTime!Sides, Sides

LEMMA StepPriceTime ==
  IInv /\ IInv' /\ PricesExact /\ [Next]_vars => [PriceTime!Next]_(PriceTime!bookVars)
<1> SUFFICES ASSUME IInv, IInv', PricesExact, [Next]_vars
             PROVE  PriceTime!Next \/ (Resting' = Resting /\ Executing' = Executing)
  BY DEF PriceTime!bookVars
<1>1. CASE Idles
  <2>1. Executing' = Executing
    BY <1>1 DEF Idles, Executing
  <2> QED
    BY <1>1, <2>1, RestingSame DEF Idles
<1>2. CASE Ends
  BY <1>2, EndsLeaves DEF PriceTime!Next
<1>3. CASE Joins
  BY <1>3, JoinsRests DEF PriceTime!Next
<1>4. CASE MatchBest
  BY <1>4, MatchTrades DEF PriceTime!Next
<1>5. ASSUME NEW c, NEW k, NEW side, NEW price, NEW quantity \in Quantities,
             PlaceAccepted(c, k, side, price, quantity)
      PROVE  PriceTime!Next
  BY <1>5, PlaceEnters DEF PriceTime!Next
<1> QED
  BY <1>1, <1>2, <1>3, <1>4, <1>5, CancelWithdraws, ModifyWithdraws, ModifyShrinks, StepKinds

LEMMA InitPriceTime == Init => PriceTime!Init
BY DEF Init, Book!Init, PriceTime!Init, Resting, Executing, PriceTime!Sides, Sides, Book!Sides, Ticks

\* Arena, lists, bitmaps and index come to what PriceTimePriority promises:
\* every step of the engine is one of its steps or changes nothing of it, if
\* every price a client names is the price of a tick.
THEOREM SpecPriceTime == OnGrid => (Spec => PriceTime!Spec)
<1> SUFFICES ASSUME OnGrid PROVE Spec => PriceTime!Spec
  OBVIOUS
<1>1. IInv /\ PricesExact /\ [Next]_vars => PricesExact'
  BY StepExact
<1> QED
  BY <1>1, InitExact, InitPriceTime, StepPriceTime, SpecIInv, PTL DEF Spec, PriceTime!Spec

=============================================================================
