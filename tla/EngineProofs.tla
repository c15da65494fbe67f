----------------------------- MODULE EngineProofs -----------------------------
(***************************************************************************)
(* Whatever the clients send, the order index, the accounts and the book     *)
(* agree, because every handler changes them together.  BookP gives the      *)
(* lemmas about the book; the "Same" lemmas say that what they speak about   *)
(* is what Book speaks about.                                               *)
(***************************************************************************)
EXTENDS MatchingEngine, FiniteSetTheorems, SequenceTheorems, TLAPS

BookP == INSTANCE OrderBookProofs WITH
  Orders    <- Order,
  UsedTicks <- 0..Radix*Radix*Radix-1

LEMMA BookAssumption == BookP!OrderBookAssumption /\ BookP!BitmapOpsAssumption
<1>1. ASSUME NEW ord \in Order, NEW qty \in 1..ord.leaves-1
      PROVE  BookP!Reduced(ord, qty) \in Order
  <2>1. ord.leaves - qty \in Nat \ {0} /\ ord.filled + qty \in Nat
    BY DEF Order
  <2>2. BookP!Reduced(ord, qty) =
          [id |-> ord.id, client |-> ord.client, cid |-> ord.cid, side |-> ord.side,
           price |-> ord.price, leaves |-> ord.leaves - qty, filled |-> ord.filled + qty]
    <3>1. ord = [id |-> ord.id, client |-> ord.client, cid |-> ord.cid, side |-> ord.side,
                 price |-> ord.price, leaves |-> ord.leaves, filled |-> ord.filled]
      BY DEF Order
    <3>2. BookP!Reduced(ord, qty) =
            [[ord EXCEPT !.leaves = ord.leaves - qty] EXCEPT !.filled = ord.filled + qty]
      BY <3>1 DEF BookP!Reduced
    <3> QED
      BY <3>1, <3>2
  <2> QED
    BY <2>1, <2>2 DEF Order
<1>2. \A ord \in Order : /\ {"leaves", "filled"} \subseteq DOMAIN ord
                         /\ ord.leaves \in Nat \ {0} /\ ord.filled \in Nat
  BY DEF Order
<1>3. Null \notin BookP!PriceLevel
  BY MatchingEngineAssumption
     DEF Book!PriceLevel, BookP!PriceLevel, Book!Slots, BookP!Slots
<1> QED
  BY <1>1, <1>2, <1>3, MatchingEngineAssumption
     DEF BookP!OrderBookAssumption, BookP!BitmapOpsAssumption, BookP!Ticks

LEMMA SameNames ==
  /\ Slots = BookP!Slots /\ Ticks = BookP!Ticks /\ Sides = BookP!Sides
  /\ Book!BestAsk(bitmap["SELL"]) = BookP!BestAsk(bitmap["SELL"])
  /\ Book!BestBid(bitmap["BUY"]) = BookP!BestBid(bitmap["BUY"])
BY DEF Slots, Book!Slots, BookP!Slots, Ticks, Book!Ticks, BookP!Ticks, Sides, BookP!Sides,
       Book!BestAsk, BookP!BestAsk, Book!BestBid, BookP!BestBid,
       Book!Lowest, BookP!Lowest, Book!Highest, BookP!Highest, Book!Join, BookP!Join

LEMMA SameAdd ==
  \A side, tick, ord : Book!AddOrder(side, tick, ord) <=> BookP!AddOrder(side, tick, ord)
BY DEF Book!AddOrder, BookP!AddOrder, Book!ArenaFull, BookP!ArenaFull,
       Book!NewLevel, BookP!NewLevel, Book!LinkAtTail, BookP!LinkAtTail,
       Book!Relinked, BookP!Relinked, Book!Occupied, BookP!Occupied,
       Book!LevelWith, BookP!LevelWith, Book!PopFree, BookP!PopFree,
       Book!SetBit, BookP!SetBit, Book!WordOf, BookP!WordOf, Book!L0Bit, BookP!L0Bit,
       Book!L1Bit, BookP!L1Bit, Book!L2Bit, BookP!L2Bit

LEMMA SameRemoveFirst ==
  \A list, e : Book!RemoveFirst(list, e) = BookP!RemoveFirst(list, e)
BY DEF Book!RemoveFirst, BookP!RemoveFirst, Book!RemoveAt, BookP!RemoveAt,
       Book!SelectInSeq, BookP!SelectInSeq, Book!Min, BookP!Min

LEMMA SameRemove ==
  \A side, tick, idx : Book!RemoveOrder(side, tick, idx) <=> BookP!RemoveOrder(side, tick, idx)
<1>1. \A level, idx : Book!LevelWithout(level, idx) = BookP!LevelWithout(level, idx)
  BY DEF Book!LevelWithout, BookP!LevelWithout, Book!Monus, BookP!Monus
<1>2. \A bm, n : Book!ClearBit(bm, n) = BookP!ClearBit(bm, n)
  BY DEF Book!ClearBit, BookP!ClearBit, Book!WordOf, BookP!WordOf,
         Book!L0Bit, BookP!L0Bit, Book!L1Bit, BookP!L1Bit, Book!L2Bit, BookP!L2Bit
<1>3. \A side, tick, last :
        Book!BitmapWithout(side, tick, last) = BookP!BitmapWithout(side, tick, last)
  BY <1>2 DEF Book!BitmapWithout, BookP!BitmapWithout
<1>4. \A idx : Book!Unlink(idx) <=> BookP!Unlink(idx)
  BY DEF Book!Unlink, BookP!Unlink, Book!Relinked, BookP!Relinked,
         Book!Occupied, BookP!Occupied
<1>5. \A idx : /\ Book!PushFree(idx) <=> BookP!PushFree(idx)
               /\ Book!Occupied(idx) <=> BookP!Occupied(idx)
  BY DEF Book!PushFree, BookP!PushFree, Book!Occupied, BookP!Occupied
<1> TAKE side, tick, idx
<1> DEFINE level == Book!LevelWithout(levels[side][tick], idx)
           last  == level.orderCount = 0
           Changes(bm) ==
             /\ levels[side][tick] # Null /\ Book!Occupied(idx)
             /\ levels' = [levels EXCEPT ![side][tick] = IF last THEN Null ELSE level]
             /\ bitmap' = bm
             /\ Book!Unlink(idx)
             /\ order' = [order EXCEPT ![idx] = Null]
             /\ generation' = [generation EXCEPT ![idx] = (@ + 1) % GenLimit]
             /\ Book!PushFree(idx)
             /\ orderCount' = orderCount - 1
             /\ queue' = [queue EXCEPT ![side][tick] = Book!RemoveFirst(@, idx)]
             /\ freeList' = <<idx>> \o freeList
<1>6. Book!RemoveOrder(side, tick, idx) <=> Changes(Book!BitmapWithout(side, tick, last))
  BY DEF Book!RemoveOrder
<1>7. BookP!RemoveOrder(side, tick, idx) <=> Changes(BookP!BitmapWithout(side, tick, last))
  BY <1>1, <1>4, <1>5, SameRemoveFirst DEF BookP!RemoveOrder
<1> QED
  BY <1>3, <1>6, <1>7

LEMMA SameReduce ==
  \A side, tick, idx, qty :
    Book!ReduceOrder(side, tick, idx, qty) <=> BookP!ReduceOrder(side, tick, idx, qty)
BY DEF Book!ReduceOrder, BookP!ReduceOrder, Book!Occupied, BookP!Occupied,
       Book!Reduced, BookP!Reduced, Book!LevelReduced, BookP!LevelReduced,
       Book!Monus, BookP!Monus

LEMMA SameInit == Book!Init <=> BookP!Init
BY DEF Book!Init, BookP!Init, Book!Slots, BookP!Slots, Book!Ticks, BookP!Ticks,
       Book!Sides, BookP!Sides, Book!NewBitmap, BookP!NewBitmap, Book!Bits, BookP!Bits,
       Book!Words, BookP!Words

LEMMA SameTypeOK == Book!TypeOK <=> BookP!TypeOK
BY DEF Book!TypeOK, BookP!TypeOK, Book!Slots, BookP!Slots, Book!Ticks, BookP!Ticks,
       Book!Sides, BookP!Sides, Book!PriceLevel, BookP!PriceLevel, Book!Bitmap, BookP!Bitmap,
       Book!Bits, BookP!Bits, Book!Words, BookP!Words

-----------------------------------------------------------------------------
(* What the engine relies on in the book.                                   *)

LEMMA Shape ==
  ASSUME BookP!IInv
  PROVE  /\ order \in [Slots -> Order \cup {Null}]
         /\ generation \in [Slots -> 0..GenLimit-1]
         /\ freeHead \in Slots \cup {Null}
         /\ freeHead # Null => order[freeHead] = Null
         /\ queue \in [Sides -> [Ticks -> Seq(Slots)]]
         /\ \A side \in Sides, t \in Ticks :
              /\ Len(queue[side][t]) \in Nat
              /\ levels[side][t] = Null <=> Len(queue[side][t]) = 0
              /\ levels[side][t] # Null => levels[side][t].head = queue[side][t][1]
              /\ \A i \in 1..Len(queue[side][t]) :
                   /\ queue[side][t][i] \in Slots
                   /\ order[queue[side][t][i]] # Null
                   /\ \A side2 \in Sides, t2 \in Ticks : \A j \in 1..Len(queue[side2][t2]) :
                        queue[side][t][i] = queue[side2][t2][j] => side = side2 /\ t = t2 /\ i = j
         /\ \A s \in Slots : order[s] # Null =>
              \E side \in Sides, t \in Ticks : \E i \in 1..Len(queue[side][t]) : queue[side][t][i] = s
BY BookAssumption, SameNames, BookP!Shape

\* A slot is no Null, and what a client can name is a number.
LEMMA Values ==
  /\ \A s \in Slots : s # Null
  /\ Ticks = 0..Radix*Radix*Radix-1 /\ Radix \in Nat \ {0}
  /\ \A t \in Ticks : t \in Nat /\ t # Null
  /\ \A o \in Order : /\ o # Null /\ o.id \in OrderIds /\ o.client \in Clients
                      /\ o.cid \in ClientOrders /\ o.side \in Sides /\ o.price \in Nat
                      /\ o.leaves \in Nat \ {0} /\ o.filled \in Nat
<1>1. Radix*Radix*Radix \in Int
  BY MatchingEngineAssumption
<1> QED
  BY <1>1, MatchingEngineAssumption DEF Slots, Book!Slots, Ticks, Book!Ticks, Order

LEMMA AddEffect ==
  ASSUME BookP!IInv, NEW side0 \in Sides, NEW tick0 \in Ticks, NEW ord \in Order,
         Book!AddOrder(side0, tick0, ord)
  PROVE  /\ BookP!IInv'
         /\ freeHead \in Slots /\ order[freeHead] = Null
         /\ order' = [order EXCEPT ![freeHead] = ord]
         /\ generation' = generation
         /\ queue' = [queue EXCEPT ![side0][tick0] = Append(@, freeHead)]
<1>1. BookP!AddOrder(side0, tick0, ord) /\ side0 \in BookP!Sides
  BY SameAdd, SameNames
<1>2. tick0 \in 0..Radix*Radix*Radix-1
  BY Values
<1>3. /\ BookP!IInv' /\ freeHead \in BookP!Slots
      /\ order' = [order EXCEPT ![freeHead] = ord]
      /\ generation' = generation
      /\ queue' = [queue EXCEPT ![side0][tick0] = Append(@, freeHead)]
  BY <1>1, <1>2, BookAssumption, BookP!AddEffect
<1> QED
  BY <1>3, Shape, Values, SameNames

LEMMA RemoveEffect ==
  ASSUME BookP!IInv, NEW side0 \in Sides, NEW tick0 \in Ticks,
         NEW k \in 1..Len(queue[side0][tick0]),
         Book!RemoveOrder(side0, tick0, queue[side0][tick0][k])
  PROVE  /\ BookP!IInv'
         /\ order' = [order EXCEPT ![queue[side0][tick0][k]] = Null]
         /\ generation' = [generation EXCEPT ![queue[side0][tick0][k]] = (@ + 1) % GenLimit]
         /\ freeHead' = queue[side0][tick0][k]
         /\ queue' = [queue EXCEPT ![side0][tick0] = BookP!Without(@, k)]
<1>1. BookP!RemoveOrder(side0, tick0, queue[side0][tick0][k]) /\ side0 \in BookP!Sides
  BY SameRemove, SameNames
<1>2. tick0 \in 0..Radix*Radix*Radix-1
  BY Values
<1> QED
  BY SMTT(30), <1>1, <1>2, BookAssumption, BookP!RemoveEffect

LEMMA Unchanged == BookP!IInv /\ UNCHANGED bookVars => BookP!IInv'
<1>1. UNCHANGED bookVars => UNCHANGED BookP!vars
  BY DEF bookVars, BookP!vars
<1> QED
  BY <1>1, BookAssumption, BookP!NextIInv

\* A modify that asks for what there is reduces by nothing.
LEMMA ReduceByNothing ==
  ASSUME BookP!IInv, NEW side0 \in Sides, NEW tick0 \in Ticks, NEW idx \in Slots,
         Book!ReduceOrder(side0, tick0, idx, 0)
  PROVE  UNCHANGED bookVars /\ Book!Reduced(order[idx], 0) = order[idx]
<1>1. /\ order \in [Slots -> Order \cup {Null}]
      /\ levels \in [Sides -> [Ticks -> Book!PriceLevel \cup {Null}]]
  BY SameTypeOK, SameNames
     DEF BookP!IInv, BookP!TypeOK, BookP!PriceLevel, Book!PriceLevel, Book!Slots, BookP!Slots
<1>2. order[idx] \in Order
  BY <1>1 DEF Book!ReduceOrder, Book!Occupied
<1>3. Book!Reduced(order[idx], 0) = order[idx]
  <2>1. order[idx].leaves - 0 = order[idx].leaves /\ order[idx].filled + 0 = order[idx].filled
    BY <1>2 DEF Order
  <2>2. order[idx] \in Order => DOMAIN order[idx] = {"id", "client", "cid", "side", "price", "leaves", "filled"}
    BY DEF Order
  <2> QED
    BY <1>2, <2>1, <2>2 DEF Book!Reduced, Order
<1>4. order' = order
  BY <1>1, <1>3 DEF Book!ReduceOrder
<1>5. \A level \in Book!PriceLevel : Book!LevelReduced(level, 0) = level
  BY DEF Book!LevelReduced, Book!PriceLevel, Book!Monus
<1>6. levels' = levels
  BY <1>1, <1>5 DEF Book!ReduceOrder
<1> QED
  BY <1>3, <1>4, <1>6 DEF Book!ReduceOrder, bookVars

\* A reduction changes nothing of an order but its two quantities.
LEMMA ReduceEffect ==
  ASSUME BookP!IInv, NEW side0 \in Sides, NEW tick0 \in Ticks,
         NEW k \in 1..Len(queue[side0][tick0]),
         NEW qty \in 0..order[queue[side0][tick0][k]].leaves-1,
         Book!ReduceOrder(side0, tick0, queue[side0][tick0][k], qty)
  PROVE  /\ BookP!IInv'
         /\ order' = [order EXCEPT ![queue[side0][tick0][k]] = Book!Reduced(@, qty)]
         /\ UNCHANGED <<generation, queue, freeHead>>
<1> DEFINE idx == queue[side0][tick0][k]
<1>1. BookP!ReduceOrder(side0, tick0, idx, qty) /\ side0 \in BookP!Sides
  BY SameReduce, SameNames
<1>2. tick0 \in 0..Radix*Radix*Radix-1 /\ idx \in Slots /\ order[idx] \in Order
  <2>1. tick0 \in 0..Radix*Radix*Radix-1
    BY Values
  <2>2. idx \in Slots /\ order[idx] # Null /\ order \in [Slots -> Order \cup {Null}]
    BY Shape
  <2> QED
    BY <2>1, <2>2
<1>3. Book!Reduced(order[idx], qty) = BookP!Reduced(order[idx], qty)
  BY DEF Book!Reduced, BookP!Reduced
<1>4. CASE qty = 0
  BY <1>2, <1>4, ReduceByNothing, Unchanged, Shape DEF bookVars
<1>5. CASE qty # 0
  <2>1. qty \in 1..order[idx].leaves-1
    BY <1>2, <1>5, Values
  <2> QED
    BY <1>1, <1>2, <1>3, <2>1, BookAssumption, BookP!ReduceEffect
<1> QED
  BY <1>4, <1>5

-----------------------------------------------------------------------------
(* match_aggressor's look at the book.                                      *)

LEMMA BestTickFound ==
  ASSUME BookP!IInv, cmd.side \in Sides
  PROVE  LET q(t) == queue[Opposite(cmd.side)][t]
         IN /\ Opposite(cmd.side) \in Sides /\ Opposite(cmd.side) # cmd.side
            /\ BestTick = Null => \A t \in Ticks : Len(q(t)) = 0
            /\ BestTick # Null =>
                 /\ BestTick \in Ticks /\ Len(q(BestTick)) > 0
                 /\ levels[Opposite(cmd.side)][BestTick] # Null
                 /\ RestingSlot = q(BestTick)[1] /\ Book!Occupied(RestingSlot)
                 /\ \A t \in Ticks : Len(q(t)) > 0 =>
                      IF cmd.side = "BUY" THEN BestTick <= t ELSE BestTick >= t
<1> DEFINE other == Opposite(cmd.side)
           q(t) == queue[other][t]
           InUse == {t \in Ticks : levels[other][t] # Null}
<1>1. other \in Sides /\ other # cmd.side
  BY DEF Opposite, Sides
<1>2. \A t \in Ticks : /\ t \in InUse <=> Len(q(t)) > 0
                       /\ Len(q(t)) \in Nat
  BY <1>1, Shape
<1>3. InUse = BookP!TicksInUse(other)
  BY SameNames DEF BookP!TicksInUse
<1>4. IF cmd.side = "BUY" THEN BookP!IsLeast(BestTick, InUse)
                          ELSE BookP!IsGreatest(BestTick, InUse)
  <2>1. BookP!BestLevelsFound
    BY BookAssumption, BookP!BestFound
  <2>2. /\ BookP!IsLeast(BookP!BestAsk(bitmap["SELL"]), BookP!TicksInUse("SELL"))
        /\ BookP!IsGreatest(BookP!BestBid(bitmap["BUY"]), BookP!TicksInUse("BUY"))
    BY <2>1, SameNames DEF BookP!BestLevelsFound, Sides
  <2>3. CASE cmd.side = "BUY"
    <3>1. other = "SELL" /\ BestTick = BookP!BestAsk(bitmap["SELL"])
      BY <2>3, SameNames DEF Opposite, BestTick
    <3> QED
      BY <2>2, <2>3, <3>1, <1>3
  <2>4. CASE cmd.side # "BUY"
    <3>1. other = "BUY" /\ BestTick = BookP!BestBid(bitmap["BUY"])
      BY <2>4, SameNames DEF Opposite, BestTick
    <3> QED
      BY <2>2, <2>4, <3>1, <1>3
  <2> QED
    BY <2>3, <2>4
<1>5. CASE InUse = {}
  <2>1. BestTick = Null
    BY <1>4, <1>5 DEF BookP!IsLeast, BookP!IsGreatest
  <2> QED
    BY <1>1, <1>2, <1>5, <2>1
<1>6. CASE InUse # {}
  <2>1. /\ BestTick \in InUse
        /\ \A t \in InUse : IF cmd.side = "BUY" THEN BestTick <= t ELSE BestTick >= t
    BY <1>4, <1>6 DEF BookP!IsLeast, BookP!IsGreatest
  <2>2. BestTick \in Ticks /\ BestTick # Null /\ Len(q(BestTick)) > 0
    BY <1>2, <2>1, Values
  <2>3. levels[other][BestTick] # Null
    BY <2>1
  <2>4. RestingSlot = q(BestTick)[1]
    BY <1>1, <2>2, <2>3, Shape DEF RestingSlot
  <2>5. q(BestTick)[1] \in Slots /\ order[q(BestTick)[1]] # Null
    BY <1>1, <1>2, <2>2, Shape
  <2>6. Book!Occupied(RestingSlot)
    BY <2>4, <2>5, Values DEF Book!Occupied
  <2> QED
    BY <1>1, <1>2, <2>1, <2>2, <2>3, <2>4, <2>6
<1> QED
  BY <1>5, <1>6

\* The loop goes on as long as there is something left to trade and a level
\* within the limit: its other breaks are never taken.
LEMMA CanMatchMeans ==
  ASSUME BookP!IInv, cmd.side \in Sides
  PROVE  CanMatch <=> cmd.leaves > 0 /\ BestTick # Null /\ Crosses(BestTick)
BY BestTickFound DEF CanMatch

LEMMA MinOfTwo ==
  \A a, b \in Nat : Book!Min({a, b}) = IF a <= b THEN a ELSE b
<1> TAKE a, b \in Nat
<1> DEFINE m == IF a <= b THEN a ELSE b
<1>1. m \in {a, b} /\ \A y \in {a, b} : m =< y
  OBVIOUS
<1>2. \A x \in {a, b} : (\A y \in {a, b} : x =< y) => x = m
  OBVIOUS
<1> QED
  BY <1>1, <1>2 DEF Book!Min

-----------------------------------------------------------------------------
(* The inductive invariant: the book's, the properties, and what an order     *)
(* brings into the loop and into the book.                                  *)

\* A place entered the loop under the limit of open orders, with a tick for
\* its price.
CommandAt ==
  pc = "match" =>
    /\ openOrders[cmd.client] < MaxOpenOrders
    /\ cmd.price # Null => HasTick(cmd.price)

\* An order rests on its side, at the level of its price.
AtItsLevel ==
  \A side \in Sides, t \in Ticks : \A i \in 1..Len(queue[side][t]) :
    LET o == order[queue[side][t][i]]
    IN o.side = side /\ Book!PriceToTick(o.price) = t

IInv ==
  /\ BookP!IInv /\ TypeOK /\ CommandAt /\ AtItsLevel
  /\ IndexSound /\ OpenOrdersCounted /\ ReinsertHasRoom

\* What the index and the levels say of the orders.
OrdersPlaced == AtItsLevel /\ IndexSound

-----------------------------------------------------------------------------
(* The book and the index under the four kinds of steps.                    *)

\* What IndexSound says of one entry, of any orders, generations and queues.
EntrySound(key, locator, ords, gens, qs) ==
  LET slot == locator.oid.index
  IN /\ slot \in Slots /\ gens[slot] = locator.oid.generation /\ ords[slot] # Null
     /\ <<ords[slot].client, ords[slot].cid>> = key
     /\ ords[slot].id = locator.internalId /\ ords[slot].side = locator.side
     /\ \E i \in 1..Len(qs[locator.side][locator.tick]) : qs[locator.side][locator.tick][i] = slot

LEMMA IndexSoundMeans ==
  IndexSound <=> \A key \in Keys : index[key] # Null =>
                   EntrySound(key, index[key], order, generation, queue)
BY DEF IndexSound, EntrySound, Validates, Contains

LEMMA IndexSoundNext ==
  IndexSound' <=> \A key \in Keys : index'[key] # Null =>
                    EntrySound(key, index'[key], order', generation', queue')
BY DEF IndexSound, EntrySound, Validates, Contains

LEMMA KeepPlaced ==
  ASSUME OrdersPlaced, UNCHANGED <<order, generation, queue, index>>
  PROVE  OrdersPlaced'
BY DEF OrdersPlaced, AtItsLevel, IndexSound, Validates

\* The slot of a new order is not in use, so no entry of the index speaks of it.
LEMMA AddPlaced ==
  ASSUME BookP!IInv, OrdersPlaced, index \in [Keys -> Locator \cup {Null}],
         NEW tick0 \in Ticks, NEW ord \in Order, Book!PriceToTick(ord.price) = tick0,
         Book!AddOrder(ord.side, tick0, ord),
         index' = Register(ord, Book!NextOrderId, tick0)
  PROVE  OrdersPlaced'
<1> DEFINE side0 == ord.side
           q(side, t) == queue[side][t]
           new(side, t) == queue'[side][t]
           key0 == <<ord.client, ord.cid>>
<1>1. /\ side0 \in Sides /\ freeHead \in Slots /\ order[freeHead] = Null
      /\ order' = [order EXCEPT ![freeHead] = ord]
      /\ generation' = generation
      /\ queue' = [queue EXCEPT ![side0][tick0] = Append(@, freeHead)]
  BY Values, AddEffect
<1>2. /\ order \in [Slots -> Order \cup {Null}] /\ generation \in [Slots -> 0..GenLimit-1]
      /\ queue \in [Sides -> [Ticks -> Seq(Slots)]]
      /\ \A side \in Sides, t \in Ticks : \A i \in 1..Len(q(side, t)) :
           q(side, t)[i] \in Slots /\ order[q(side, t)[i]] # Null
  BY Shape
<1>3. /\ order'[freeHead] = ord /\ ord # Null
      /\ \A s \in Slots : s # freeHead => order'[s] = order[s]
  BY <1>1, <1>2, Values
<1>4. ASSUME NEW side \in Sides, NEW t \in Ticks
      PROVE  IF side = side0 /\ t = tick0
             THEN /\ Len(new(side, t)) = Len(q(side, t)) + 1
                  /\ \A i \in 1..Len(q(side, t)) : new(side, t)[i] = q(side, t)[i]
                  /\ new(side, t)[Len(q(side, t)) + 1] = freeHead
                  /\ Len(q(side, t)) \in Nat
             ELSE new(side, t) = q(side, t)
  <2>1. q(side, t) \in Seq(Slots)
    BY <1>2
  <2>2. CASE side = side0 /\ t = tick0
    <3>1. new(side, t) = Append(q(side, t), freeHead)
      BY <1>1, <1>2, <2>2
    <3> QED
      BY <1>1, <2>1, <2>2, <3>1, AppendProperties, LenProperties
  <2>3. CASE ~(side = side0 /\ t = tick0)
    BY <1>1, <1>2, <2>3
  <2> QED
    BY <2>2, <2>3
<1>5. AtItsLevel'
  <2> SUFFICES ASSUME NEW side \in Sides, NEW t \in Ticks, NEW i \in 1..Len(new(side, t))
               PROVE  /\ order'[new(side, t)[i]].side = side
                      /\ Book!PriceToTick(order'[new(side, t)[i]].price) = t
    BY Zenon DEF AtItsLevel
  <2>1. CASE i \in 1..Len(q(side, t)) /\ new(side, t)[i] = q(side, t)[i]
    <3>1. q(side, t)[i] \in Slots /\ order[q(side, t)[i]] # Null
      BY <1>2, <2>1
    <3>2. order'[new(side, t)[i]] = order[q(side, t)[i]]
      BY <1>1, <1>3, <2>1, <3>1
    <3> QED
      BY <2>1, <3>2 DEF OrdersPlaced, AtItsLevel
  <2>2. CASE side = side0 /\ t = tick0 /\ i = Len(q(side, t)) + 1
    <3>1. order'[new(side, t)[i]] = ord
      BY <1>3, <1>4, <2>2
    <3> QED
      BY <2>2, <3>1
  <2> QED
    BY SMTT(30), <1>4, <2>1, <2>2
<1>6. IndexSound'
  <2> SUFFICES ASSUME NEW key \in Keys, index'[key] # Null
               PROVE  EntrySound(key, index'[key], order', generation', queue')
    BY IndexSoundNext
  <2>1. CASE key = key0
    <3>1. index'[key] = [oid |-> [index |-> freeHead, generation |-> generation[freeHead]],
                         tick |-> tick0, side |-> side0, internalId |-> ord.id]
      BY <2>1 DEF Register, Book!NextOrderId
    <3>2. \E i \in 1..Len(new(side0, tick0)) : new(side0, tick0)[i] = freeHead
      <4>1. Len(new(side0, tick0)) = Len(q(side0, tick0)) + 1 /\ Len(q(side0, tick0)) \in Nat
        BY <1>1, <1>4
      <4>2. new(side0, tick0)[Len(q(side0, tick0)) + 1] = freeHead
        BY <1>1, <1>4
      <4> QED
        BY <4>1, <4>2
    <3> QED
      BY <1>1, <1>3, <2>1, <3>1, <3>2 DEF EntrySound
  <2>2. CASE key # key0
    <3> DEFINE locator == index[key]
               slot == locator.oid.index
    <3>1. index'[key] = locator /\ locator # Null /\ locator \in Locator
      BY <2>2 DEF Register
    <3>2. EntrySound(key, locator, order, generation, queue)
      BY <3>1, IndexSoundMeans DEF OrdersPlaced
    <3>3. slot \in Slots /\ slot # freeHead /\ order'[slot] = order[slot]
      BY <1>1, <1>3, <3>2 DEF EntrySound
    <3>4. locator.side \in Sides /\ locator.tick \in Ticks
      BY <3>1 DEF Locator
    <3>5. PICK i \in 1..Len(q(locator.side, locator.tick)) : q(locator.side, locator.tick)[i] = slot
      BY <3>2 DEF EntrySound
    <3>6. \E j \in 1..Len(new(locator.side, locator.tick)) : new(locator.side, locator.tick)[j] = slot
      <4> DEFINE side == locator.side
                 t == locator.tick
      <4>1. /\ i \in 1..Len(new(side, t)) /\ new(side, t)[i] = q(side, t)[i]
        <5>1. CASE side = side0 /\ t = tick0
          BY <1>4, <3>4, <5>1
        <5>2. CASE ~(side = side0 /\ t = tick0)
          BY <1>4, <3>4, <5>2
        <5> QED
          BY <5>1, <5>2
      <4> QED
        BY <3>5, <4>1
    <3> QED
      BY <1>1, <3>1, <3>2, <3>3, <3>6 DEF EntrySound
  <2> QED
    BY <2>1, <2>2
<1> QED
  BY <1>5, <1>6 DEF OrdersPlaced

LEMMA WithoutOne ==
  ASSUME NEW list \in Seq(Slots), NEW k \in 1..Len(list)
  PROVE  /\ Len(list) \in Nat /\ Len(BookP!Without(list, k)) = Len(list) - 1
         /\ \A i \in 1..Len(list)-1 :
              BookP!Without(list, k)[i] = IF i < k THEN list[i] ELSE list[i + 1]
         /\ \A i \in 1..Len(list) : i # k =>
              \E j \in 1..Len(list)-1 : BookP!Without(list, k)[j] = list[i]
<1>1. Len(list) \in Nat /\ Len(list) >= 1
  BY LenProperties
<1>2. /\ Len(BookP!Without(list, k)) = Len(list) - 1
      /\ \A i \in 1..Len(list)-1 :
           BookP!Without(list, k)[i] = IF i < k THEN list[i] ELSE list[i + 1]
  BY <1>1 DEF BookP!Without
<1>3. ASSUME NEW i \in 1..Len(list), i # k
      PROVE  \E j \in 1..Len(list)-1 : BookP!Without(list, k)[j] = list[i]
  <2>1. CASE i < k
    <3>1. i \in 1..Len(list)-1 /\ BookP!Without(list, k)[i] = list[i]
      BY <1>1, <1>2, <2>1
    <3> QED
      BY <3>1
  <2>2. CASE ~(i < k)
    <3>1. i - 1 \in 1..Len(list)-1 /\ ~(i - 1 < k) /\ (i - 1) + 1 = i
      BY <1>1, <1>3, <2>2
    <3>2. BookP!Without(list, k)[i - 1] = list[i]
      BY <1>2, <3>1
    <3> QED
      BY <3>1, <3>2
  <2> QED
    BY <2>1, <2>2
<1> QED
  BY <1>1, <1>2, <1>3

\* The order that leaves takes the entry of its own id with it, and no other
\* entry speaks of its slot.
LEMMA RemovePlaced ==
  ASSUME BookP!IInv, OrdersPlaced, index \in [Keys -> Locator \cup {Null}],
         NEW side0 \in Sides, NEW tick0 \in Ticks, NEW k \in 1..Len(queue[side0][tick0]),
         Book!RemoveOrder(side0, tick0, queue[side0][tick0][k]),
         index' = Deregister(order[queue[side0][tick0][k]])
  PROVE  OrdersPlaced'
<1> DEFINE q(side, t) == queue[side][t]
           new(side, t) == queue'[side][t]
           idx == queue[side0][tick0][k]
           key0 == <<order[idx].client, order[idx].cid>>
<1>1. /\ order' = [order EXCEPT ![idx] = Null]
      /\ generation' = [generation EXCEPT ![idx] = (@ + 1) % GenLimit]
      /\ queue' = [queue EXCEPT ![side0][tick0] = BookP!Without(@, k)]
  BY RemoveEffect
<1>2. /\ order \in [Slots -> Order \cup {Null}] /\ generation \in [Slots -> 0..GenLimit-1]
      /\ queue \in [Sides -> [Ticks -> Seq(Slots)]]
      /\ \A side \in Sides, t \in Ticks : \A i \in 1..Len(q(side, t)) :
           /\ q(side, t)[i] \in Slots /\ order[q(side, t)[i]] # Null
           /\ q(side, t)[i] = idx => side = side0 /\ t = tick0 /\ i = k
  <2>1. /\ order \in [Slots -> Order \cup {Null}] /\ generation \in [Slots -> 0..GenLimit-1]
        /\ queue \in [Sides -> [Ticks -> Seq(Slots)]]
    BY Shape
  <2>2. ASSUME NEW side \in Sides, NEW t \in Ticks, NEW i \in 1..Len(q(side, t))
        PROVE  /\ q(side, t)[i] \in Slots /\ order[q(side, t)[i]] # Null
               /\ q(side, t)[i] = idx => side = side0 /\ t = tick0 /\ i = k
    BY Shape
  <2> QED
    BY <2>1, <2>2
<1>3. /\ idx \in Slots
      /\ \A s \in Slots : s # idx => order'[s] = order[s] /\ generation'[s] = generation[s]
  BY <1>1, <1>2
<1>4. ASSUME NEW side \in Sides, NEW t \in Ticks
      PROVE  /\ \A i \in 1..Len(new(side, t)) : \E j \in 1..Len(q(side, t)) :
                  new(side, t)[i] = q(side, t)[j] /\ q(side, t)[j] # idx
             /\ \A j \in 1..Len(q(side, t)) : q(side, t)[j] # idx =>
                  \E i \in 1..Len(new(side, t)) : new(side, t)[i] = q(side, t)[j]
  <2>1. q(side, t) \in Seq(Slots)
    BY <1>2
  <2>2. CASE side = side0 /\ t = tick0
    <3>1. new(side, t) = BookP!Without(q(side, t), k) /\ k \in 1..Len(q(side, t))
      BY <1>1, <1>2, <2>2
    <3>2. /\ Len(q(side, t)) \in Nat /\ Len(new(side, t)) = Len(q(side, t)) - 1
          /\ \A i \in 1..Len(q(side, t))-1 :
               new(side, t)[i] = IF i < k THEN q(side, t)[i] ELSE q(side, t)[i + 1]
          /\ \A i \in 1..Len(q(side, t)) : i # k =>
               \E j \in 1..Len(q(side, t))-1 : new(side, t)[j] = q(side, t)[i]
      <4> DEFINE list == q(side, t)
      <4>1. list \in Seq(Slots) /\ k \in 1..Len(list) /\ new(side, t) = BookP!Without(list, k)
        BY <2>1, <3>1
      <4> HIDE DEF list
      <4>2. /\ Len(list) \in Nat /\ Len(BookP!Without(list, k)) = Len(list) - 1
            /\ \A i \in 1..Len(list)-1 :
                 BookP!Without(list, k)[i] = IF i < k THEN list[i] ELSE list[i + 1]
            /\ \A i \in 1..Len(list) : i # k =>
                 \E j \in 1..Len(list)-1 : BookP!Without(list, k)[j] = list[i]
        BY <4>1, WithoutOne
      <4> QED
        BY <4>1, <4>2 DEF list
    <3>3. ASSUME NEW i \in 1..Len(new(side, t))
          PROVE  \E j \in 1..Len(q(side, t)) :
                   new(side, t)[i] = q(side, t)[j] /\ q(side, t)[j] # idx
      <4>1. i \in 1..Len(q(side, t))-1 /\ Len(q(side, t)) \in Nat
        BY <3>2
      <4> DEFINE j == IF i < k THEN i ELSE i + 1
      <4>2. j \in 1..Len(q(side, t)) /\ j # k
        BY <3>1, <4>1
      <4>3. new(side, t)[i] = q(side, t)[j]
        BY <3>2, <4>1
      <4> HIDE DEF j
      <4>4. q(side, t)[j] # q(side, t)[k]
        BY <1>2, <2>2, <3>1, <4>2
      <4>5. q(side, t)[k] = idx
        BY <2>2
      <4> QED
        BY <4>2, <4>3, <4>4, <4>5
    <3>4. ASSUME NEW j \in 1..Len(q(side, t)), q(side, t)[j] # idx
          PROVE  \E i \in 1..Len(new(side, t)) : new(side, t)[i] = q(side, t)[j]
      <4>1. j # k
        BY <2>2, <3>4
      <4> QED
        BY <3>2, <4>1
    <3> QED
      BY <3>3, <3>4
  <2>3. CASE ~(side = side0 /\ t = tick0)
    <3>1. new(side, t) = q(side, t)
      BY <1>1, <1>2, <2>3
    <3>2. \A i \in 1..Len(q(side, t)) : q(side, t)[i] # idx
      BY <1>2, <2>3
    <3> QED
      BY <3>1, <3>2
  <2> QED
    BY <2>2, <2>3
<1>5. AtItsLevel'
  <2> SUFFICES ASSUME NEW side \in Sides, NEW t \in Ticks, NEW i \in 1..Len(new(side, t))
               PROVE  /\ order'[new(side, t)[i]].side = side
                      /\ Book!PriceToTick(order'[new(side, t)[i]].price) = t
    BY Zenon DEF AtItsLevel
  <2>1. PICK j \in 1..Len(q(side, t)) : new(side, t)[i] = q(side, t)[j] /\ q(side, t)[j] # idx
    BY <1>4
  <2>2. order'[new(side, t)[i]] = order[q(side, t)[j]]
    BY <1>2, <1>3, <2>1
  <2> QED
    BY <2>2 DEF OrdersPlaced, AtItsLevel
<1>6. IndexSound'
  <2> SUFFICES ASSUME NEW key \in Keys, index'[key] # Null
               PROVE  EntrySound(key, index'[key], order', generation', queue')
    BY IndexSoundNext
  <2> DEFINE locator == index[key]
             slot == locator.oid.index
  <2>1. key # key0 /\ index'[key] = locator /\ locator # Null /\ locator \in Locator
    BY DEF Deregister
  <2>2. EntrySound(key, locator, order, generation, queue)
    BY <2>1, IndexSoundMeans DEF OrdersPlaced
  <2>3. slot \in Slots /\ slot # idx
    BY <2>1, <2>2 DEF EntrySound
  <2>4. order'[slot] = order[slot] /\ generation'[slot] = generation[slot]
    BY <1>3, <2>3
  <2>5. locator.side \in Sides /\ locator.tick \in Ticks
    BY <2>1 DEF Locator
  <2>6. PICK j \in 1..Len(q(locator.side, locator.tick)) : q(locator.side, locator.tick)[j] = slot
    BY <2>2 DEF EntrySound
  <2>7. \E i \in 1..Len(new(locator.side, locator.tick)) : new(locator.side, locator.tick)[i] = slot
    <3>1. \A jj \in 1..Len(q(locator.side, locator.tick)) : q(locator.side, locator.tick)[jj] # idx =>
            \E i \in 1..Len(new(locator.side, locator.tick)) :
              new(locator.side, locator.tick)[i] = q(locator.side, locator.tick)[jj]
      BY <1>4, <2>5
    <3> QED
      BY <2>3, <2>6, <3>1
  <2> QED
    BY <2>1, <2>2, <2>4, <2>7 DEF EntrySound
<1> QED
  BY <1>5, <1>6 DEF OrdersPlaced

\* What a reduction leaves of an order.
LEMMA ReducedFields ==
  ASSUME NEW o \in Order, NEW qty \in 0..o.leaves-1
  PROVE  /\ Book!Reduced(o, qty) \in Order
         /\ Book!Reduced(o, qty).id = o.id /\ Book!Reduced(o, qty).client = o.client
         /\ Book!Reduced(o, qty).cid = o.cid /\ Book!Reduced(o, qty).side = o.side
         /\ Book!Reduced(o, qty).price = o.price
         /\ Book!Reduced(o, qty).leaves = o.leaves - qty
<1>1. /\ o.leaves - qty \in Nat \ {0} /\ o.filled + qty \in Nat
      /\ o = [id |-> o.id, client |-> o.client, cid |-> o.cid, side |-> o.side,
              price |-> o.price, leaves |-> o.leaves, filled |-> o.filled]
  BY DEF Order
<1>2. Book!Reduced(o, qty) =
        [[o EXCEPT !.leaves = o.leaves - qty] EXCEPT !.filled = o.filled + qty]
  BY <1>1 DEF Book!Reduced
<1>3. Book!Reduced(o, qty) =
        [id |-> o.id, client |-> o.client, cid |-> o.cid, side |-> o.side,
         price |-> o.price, leaves |-> o.leaves - qty, filled |-> o.filled + qty]
  BY <1>1, <1>2
<1> QED
  BY <1>1, <1>3 DEF Order

LEMMA ReducePlaced ==
  ASSUME BookP!IInv, OrdersPlaced, UNCHANGED index,
         NEW side0 \in Sides, NEW tick0 \in Ticks, NEW k \in 1..Len(queue[side0][tick0]),
         NEW qty \in 0..order[queue[side0][tick0][k]].leaves-1,
         Book!ReduceOrder(side0, tick0, queue[side0][tick0][k], qty)
  PROVE  OrdersPlaced'
<1> DEFINE idx == queue[side0][tick0][k]
<1>1. /\ order' = [order EXCEPT ![idx] = Book!Reduced(@, qty)]
      /\ UNCHANGED <<generation, queue>>
  BY ReduceEffect
<1>2. /\ order \in [Slots -> Order \cup {Null}] /\ idx \in Slots /\ order[idx] \in Order
      /\ \A side \in Sides, t \in Ticks : \A i \in 1..Len(queue[side][t]) :
           queue[side][t][i] \in Slots /\ order[queue[side][t][i]] # Null
  <2>1. order \in [Slots -> Order \cup {Null}] /\ idx \in Slots /\ order[idx] # Null
    BY Shape
  <2>2. \A side \in Sides, t \in Ticks : \A i \in 1..Len(queue[side][t]) :
          queue[side][t][i] \in Slots /\ order[queue[side][t][i]] # Null
    BY Shape
  <2> QED
    BY <2>1, <2>2
<1>3. ASSUME NEW s \in Slots, order[s] # Null
      PROVE  /\ order'[s] # Null
             /\ order'[s].id = order[s].id /\ order'[s].client = order[s].client
             /\ order'[s].cid = order[s].cid /\ order'[s].side = order[s].side
             /\ order'[s].price = order[s].price
  <2>1. CASE s = idx
    <3>1. order'[s] = Book!Reduced(order[idx], qty)
      BY <1>1, <1>2, <2>1
    <3> QED
      BY SMTT(30), <1>2, <2>1, <3>1, ReducedFields, Values
  <2>2. CASE s # idx
    BY <1>1, <1>2, <1>3, <2>2
  <2> QED
    BY <2>1, <2>2
<1>4. AtItsLevel'
  BY SMTT(30), <1>1, <1>2, <1>3 DEF OrdersPlaced, AtItsLevel
<1>5. IndexSound'
  <2> SUFFICES ASSUME NEW key \in Keys, index'[key] # Null
               PROVE  EntrySound(key, index'[key], order', generation', queue')
    BY IndexSoundNext
  <2> DEFINE locator == index[key]
  <2>1. EntrySound(key, locator, order, generation, queue)
    BY IndexSoundMeans DEF OrdersPlaced
  <2>2. UNCHANGED <<generation, queue>> /\ index'[key] = locator
    BY <1>1
  <2> HIDE DEF locator
  <2>3. EntrySound(key, locator, order', generation', queue')
    BY <1>3, <2>1, <2>2 DEF EntrySound
  <2> QED
    BY <2>2, <2>3
<1> QED
  BY <1>4, <1>5 DEF OrdersPlaced

-----------------------------------------------------------------------------
(* The orders of a client.                                                  *)

Owned(c) == {s \in Slots : Live(s) /\ order[s].client = c}

LEMMA OwnedFinite == \A c : IsFiniteSet(Owned(c)) /\ Cardinality(Owned(c)) \in Nat
<1>1. IsFiniteSet(Slots)
  BY MatchingEngineAssumption, FS_Interval DEF Slots, Book!Slots
<1>2. \A c : Owned(c) \subseteq Slots
  BY DEF Owned
<1> QED
  BY <1>1, <1>2, FS_Subset, FS_CardinalityType

LEMMA AddOwned ==
  ASSUME order \in [Slots -> Order \cup {Null}], NEW idx \in Slots, order[idx] = Null,
         NEW ord \in Order, order' = [order EXCEPT ![idx] = ord], NEW c
  PROVE  Cardinality(Owned(c)') = Cardinality(Owned(c)) + (IF ord.client = c THEN 1 ELSE 0)
<1>1. ord # Null /\ order'[idx] = ord /\ \A s \in Slots : s # idx => order'[s] = order[s]
  BY Values
<1>2. idx \notin Owned(c)
  BY DEF Owned, Live
<1>3. CASE ord.client = c
  <2>1. Owned(c)' = Owned(c) \cup {idx}
    BY <1>1, <1>3 DEF Owned, Live
  <2> QED
    BY <1>2, <1>3, <2>1, OwnedFinite, FS_AddElement
<1>4. CASE ord.client # c
  <2>1. Owned(c)' = Owned(c)
    BY <1>1, <1>2, <1>4 DEF Owned, Live
  <2> QED
    BY <1>4, <2>1, OwnedFinite
<1> QED
  BY <1>3, <1>4

LEMMA RemoveOwned ==
  ASSUME order \in [Slots -> Order \cup {Null}], NEW idx \in Slots, order[idx] # Null,
         order' = [order EXCEPT ![idx] = Null], NEW c
  PROVE  /\ Cardinality(Owned(c)') = Cardinality(Owned(c)) - (IF order[idx].client = c THEN 1 ELSE 0)
         /\ order[idx].client = c => Cardinality(Owned(c)) >= 1
<1>1. order'[idx] = Null /\ \A s \in Slots : s # idx => order'[s] = order[s]
  OBVIOUS
<1>2. CASE order[idx].client = c
  <2>1. Owned(c)' = Owned(c) \ {idx} /\ idx \in Owned(c)
    BY <1>1, <1>2 DEF Owned, Live
  <2>2. Cardinality(Owned(c)') = Cardinality(Owned(c)) - 1
    BY <2>1, OwnedFinite, FS_RemoveElement
  <2>3. Cardinality(Owned(c)) # 0
    BY <2>1, OwnedFinite, FS_EmptySet
  <2> QED
    BY <1>2, <2>2, <2>3, OwnedFinite
<1>3. CASE order[idx].client # c
  <2>1. Owned(c)' = Owned(c)
    BY <1>1, <1>3 DEF Owned, Live
  <2> QED
    BY <1>3, <2>1, OwnedFinite
<1> QED
  BY <1>2, <1>3

LEMMA ReduceOwned ==
  ASSUME order \in [Slots -> Order \cup {Null}], NEW idx \in Slots, order[idx] # Null,
         NEW qty \in 0..order[idx].leaves-1,
         order' = [order EXCEPT ![idx] = Book!Reduced(@, qty)], NEW c
  PROVE  Owned(c)' = Owned(c)
<1>1. order[idx] \in Order
  OBVIOUS
<1>2. /\ order'[idx] # Null /\ order'[idx].client = order[idx].client
      /\ \A s \in Slots : s # idx => order'[s] = order[s]
  BY <1>1, ReducedFields, Values
<1> QED
  BY <1>2 DEF Owned, Live

-----------------------------------------------------------------------------
(* What a reader of the events has been told.                               *)

Told == [price: Nat, leaves: Nat \ {0}]

LEMMA ToldTypes ==
  ASSUME told \in [OrderIds -> Told \cup {Null}], NEW id \in OrderIds
  PROVE  /\ HeardGone(id) \in [OrderIds -> Told \cup {Null}]
         /\ \A price \in Nat, leaves \in Nat \ {0} :
              HeardRests(id, price, leaves) \in [OrderIds -> Told \cup {Null}]
         /\ \A qty \in Nat : HeardFill(id, qty) \in [OrderIds -> Told \cup {Null}]
<1>1. HeardGone(id) \in [OrderIds -> Told \cup {Null}]
  BY DEF HeardGone
<1>2. ASSUME NEW price \in Nat, NEW leaves \in Nat \ {0}
      PROVE  HeardRests(id, price, leaves) \in [OrderIds -> Told \cup {Null}]
  <2>1. [price |-> price, leaves |-> leaves] \in Told
    BY DEF Told
  <2> QED
    BY <2>1 DEF HeardRests
<1>3. ASSUME NEW qty \in Nat
      PROVE  HeardFill(id, qty) \in [OrderIds -> Told \cup {Null}]
  <2>1. CASE told[id] = Null
    BY <2>1 DEF HeardFill
  <2>2. CASE told[id] # Null
    <3> DEFINE t == IF told[id].leaves > qty
                    THEN [price |-> told[id].price, leaves |-> told[id].leaves - qty]
                    ELSE Null
    <3>1. told[id] \in Told
      BY <2>2
    <3>2. t \in Told \cup {Null}
      BY <3>1 DEF Told
    <3>3. HeardFill(id, qty) = [told EXCEPT ![id] = t]
      BY <2>2 DEF HeardFill
    <3> QED
      BY <3>2, <3>3
  <2> QED
    BY <2>1, <2>2
<1> QED
  BY <1>1, <1>2, <1>3

LEMMA EmitTypes ==
  ASSUME told \in [OrderIds -> Told \cup {Null}],
         NEW heard \in [OrderIds -> Told \cup {Null}], Emit(heard)
  PROVE  told' \in [OrderIds -> Told \cup {Null}]
BY DEF Emit

-----------------------------------------------------------------------------
(* The steps, one lemma for each action.                                    *)

Command == [id: OrderIds, client: Clients, cid: ClientOrders, side: Sides,
            price: Nat \cup {Null}, leaves: Nat, filled: Nat]

\* The types of the engine's own variables.
EngineTyped ==
  /\ index \in [Keys -> Locator \cup {Null}]
  /\ openOrders \in [Clients -> Nat]
  /\ nextOrderId \in 1..MaxOrderId+1
  /\ pc \in {"idle", "match", "reinsert"}
  /\ pc = "idle" => cmd = Null
  /\ pc # "idle" => cmd \in Command
  /\ pc = "reinsert" => cmd.price # Null /\ cmd.leaves > 0
  /\ emitted \in 0..EventBufferLen
  /\ told \in [OrderIds -> Told \cup {Null}]

LEMMA TypeOKMeans == BookP!IInv => (TypeOK <=> EngineTyped)
BY SameTypeOK DEF BookP!IInv, TypeOK, EngineTyped, Command, Told

\* The accounts, without the set of each client's orders.
Counted0 ==
  \A c \in Clients :
    /\ openOrders[c] = Cardinality(Owned(c)) + (IF pc = "reinsert" /\ cmd.client = c THEN 1 ELSE 0)
    /\ openOrders[c] <= MaxOpenOrders

\* There is a slot for the order that a modify holds out of the book.
Room == pc = "reinsert" => freeHead # Null

LEMMA IInvMeans ==
  IInv <=> BookP!IInv /\ EngineTyped /\ CommandAt /\ OrdersPlaced /\ Counted0 /\ Room
BY TypeOKMeans DEF IInv, OrdersPlaced, OpenOrdersCounted, Counted0, Owned, ReinsertHasRoom, Room,
                   Book!ArenaFull

LEMMA IInvNext ==
  IInv' <=> BookP!IInv' /\ EngineTyped' /\ CommandAt' /\ OrdersPlaced' /\ Counted0' /\ Room'
BY IInvMeans, PTL

LEMMA CommandFields ==
  \A o \in Command : /\ o.id \in OrderIds /\ o.client \in Clients /\ o.cid \in ClientOrders
                     /\ o.side \in Sides /\ o.price \in Nat \cup {Null}
                     /\ o.leaves \in Nat /\ o.filled \in Nat
                     /\ o.price # Null /\ o.leaves > 0 => o \in Order
BY DEF Command, Order

\* A step that leaves book, index and accounts alone.
LEMMA AloneKeeps ==
  ASSUME IInv, UNCHANGED <<bookVars, index>>
  PROVE  /\ BookP!IInv' /\ OrdersPlaced' /\ freeHead' = freeHead
         /\ \A c \in Clients : Cardinality(Owned(c)') = Cardinality(Owned(c))
<1>1. BookP!IInv' /\ UNCHANGED <<order, generation, queue, index, freeHead>>
  BY Unchanged DEF IInv, bookVars
<1> QED
  BY <1>1, KeepPlaced DEF IInv, OrdersPlaced, Owned, Live

\* The locator is that of an order of the client under that id.
FoundAt(locator, c, k) ==
  LET slot == locator.oid.index
  IN /\ locator.side \in Sides /\ locator.tick \in Ticks /\ locator.internalId \in OrderIds
     /\ slot \in Slots /\ order[slot] \in Order /\ order[slot] # Null
     /\ order[slot].client = c /\ order[slot].cid = k
     /\ order[slot].id = locator.internalId /\ order[slot].side = locator.side
     /\ \E i \in 1..Len(queue[locator.side][locator.tick]) :
          queue[locator.side][locator.tick][i] = slot

\* What the guards of cancel and modify find is the client's order.
LEMMA FoundOrder ==
  ASSUME IInv, NEW c \in Clients, NEW k \in ClientOrders, Found(c, k)
  PROVE  FoundAt(index[<<c, k>>], c, k)
<1> DEFINE locator == index[<<c, k>>]
<1>1. locator # Null /\ <<c, k>> \in Keys
  BY DEF Found, Keys
<1>2. locator \in Locator
  BY <1>1, IInvMeans DEF EngineTyped
<1>3. locator.side \in Sides /\ locator.tick \in Ticks /\ locator.internalId \in OrderIds
  BY <1>2 DEF Locator
<1>4. EntrySound(<<c, k>>, locator, order, generation, queue)
  BY <1>1, IndexSoundMeans DEF IInv
<1>5. order \in [Slots -> Order \cup {Null}]
  BY Shape DEF IInv
<1> HIDE DEF locator
<1>6. FoundAt(locator, c, k)
  BY <1>3, <1>4, <1>5 DEF EntrySound, FoundAt
<1> QED
  BY <1>6 DEF locator

\* No entry of the index is stale: what is not found is not there.
LEMMA NotFoundMeans ==
  ASSUME IInv, NEW c \in Clients, NEW k \in ClientOrders, ~Found(c, k)
  PROVE  index[<<c, k>>] = Null
<1>1. <<c, k>> \in Keys
  BY DEF Keys
<1>2. index[<<c, k>>] # Null => EntrySound(<<c, k>>, index[<<c, k>>], order, generation, queue)
  BY <1>1, IndexSoundMeans DEF IInv
<1> QED
  BY <1>2 DEF Found, Validates, EntrySound

LEMMA PlaceRejectedIInv ==
  ASSUME IInv, NEW c \in Clients, NEW k \in ClientOrders, NEW quantity, PlaceRejected(c, k, quantity)
  PROVE  IInv'
<1>1. /\ BookP!IInv' /\ OrdersPlaced' /\ freeHead' = freeHead
      /\ \A cc \in Clients : Cardinality(Owned(cc)') = Cardinality(Owned(cc))
  BY AloneKeeps DEF PlaceRejected
<1>2. UNCHANGED <<index, openOrders, nextOrderId, pc, cmd, emitted, told>>
  BY DEF PlaceRejected, Emit
<1> QED
  BY <1>1, <1>2, IInvMeans, IInvNext DEF EngineTyped, CommandAt, Counted0, Room

LEMMA PlaceInvalidIInv ==
  ASSUME IInv, NEW c \in Clients, NEW k \in ClientOrders, NEW price, NEW quantity,
         PlaceInvalid(c, k, price, quantity)
  PROVE  IInv'
<1>1. /\ BookP!IInv' /\ OrdersPlaced' /\ freeHead' = freeHead
      /\ \A cc \in Clients : Cardinality(Owned(cc)') = Cardinality(Owned(cc))
  BY AloneKeeps DEF PlaceInvalid
<1>2. UNCHANGED <<index, openOrders, pc, cmd, emitted, told>>
  BY DEF PlaceInvalid, Emit
<1>3. nextOrderId' \in 1..MaxOrderId+1
  BY MatchingEngineAssumption DEF PlaceInvalid, OrderIds
<1> QED
  BY <1>1, <1>2, <1>3, IInvMeans, IInvNext DEF EngineTyped, CommandAt, Counted0, Room

LEMMA PlaceAcceptedIInv ==
  ASSUME IInv, NEW c \in Clients, NEW k \in ClientOrders, NEW side \in Sides,
         NEW price \in Prices \cup {Null}, NEW quantity \in Quantities,
         PlaceAccepted(c, k, side, price, quantity)
  PROVE  IInv'
<1>1. /\ BookP!IInv' /\ OrdersPlaced' /\ freeHead' = freeHead
      /\ \A cc \in Clients : Cardinality(Owned(cc)') = Cardinality(Owned(cc))
  BY AloneKeeps DEF PlaceAccepted
<1>2. /\ UNCHANGED <<index, openOrders, emitted, told>> /\ pc = "idle" /\ pc' = "match"
      /\ cmd' = [id |-> nextOrderId, client |-> c, cid |-> k, side |-> side, price |-> price,
                 leaves |-> quantity, filled |-> 0]
  BY DEF PlaceAccepted
<1>3. nextOrderId' \in 1..MaxOrderId+1
  BY MatchingEngineAssumption DEF PlaceAccepted, OrderIds
<1>4. cmd' \in Command
  <2>1. price \in Nat \cup {Null} /\ quantity \in Nat /\ nextOrderId \in OrderIds
    BY MatchingEngineAssumption DEF PlaceAccepted
  <2> QED
    BY <1>2, <2>1 DEF Command
<1>5. CommandAt'
  <2>1. openOrders[c] \in Nat /\ ~(openOrders[c] >= MaxOpenOrders)
    BY IInvMeans DEF EngineTyped, PlaceAccepted, OverLimit
  <2>2. price # Null => HasTick(price)
    BY DEF PlaceAccepted
  <2> QED
    BY <1>2, <2>1, <2>2, MatchingEngineAssumption DEF CommandAt, HasTick, Book!PriceToTick, Book!Ticks
<1>6. EngineTyped'
  BY <1>2, <1>3, <1>4, IInvMeans DEF EngineTyped
<1>7. Counted0'
  BY <1>1, <1>2, IInvMeans DEF Counted0
<1> QED
  BY <1>1, <1>2, <1>5, <1>6, <1>7, IInvNext DEF Room

\* The array's events are published: what holds between two commands.
LEMMA EndKeeps ==
  ASSUME IInv, pc = "match", EndCommand, UNCHANGED <<bookVars, index, openOrders, nextOrderId>>,
         told' \in [OrderIds -> Told \cup {Null}]
  PROVE  IInv'
<1>1. /\ BookP!IInv' /\ OrdersPlaced' /\ freeHead' = freeHead
      /\ \A c \in Clients : Cardinality(Owned(c)') = Cardinality(Owned(c))
  BY AloneKeeps
<1>2. pc' = "idle" /\ cmd' = Null /\ emitted' = 0 /\ UNCHANGED <<index, openOrders, nextOrderId>>
  BY DEF EndCommand
<1> QED
  BY <1>1, <1>2, IInvMeans, IInvNext, MatchingEngineAssumption
     DEF EngineTyped, CommandAt, Counted0, Room

LEMMA ExecutedIInv == IInv /\ Executed => IInv'
<1> SUFFICES ASSUME IInv, Executed PROVE IInv'
  OBVIOUS
<1>1. told' \in [OrderIds -> Told \cup {Null}]
  BY IInvMeans DEF EngineTyped, Executed
<1> QED
  BY <1>1, EndKeeps DEF Executed

LEMMA CancelResidualIInv == IInv /\ CancelResidual => IInv'
<1> SUFFICES ASSUME IInv, CancelResidual PROVE IInv'
  OBVIOUS
<1>1. told \in [OrderIds -> Told \cup {Null}] /\ cmd.id \in OrderIds
  BY IInvMeans, CommandFields DEF EngineTyped, CancelResidual
<1>2. told' \in [OrderIds -> Told \cup {Null}]
  BY <1>1, ToldTypes, EmitTypes DEF CancelResidual
<1> QED
  BY <1>2, EndKeeps DEF CancelResidual

LEMMA RestRejectedIInv == IInv /\ RestRejected => IInv'
<1> SUFFICES ASSUME IInv, RestRejected PROVE IInv'
  OBVIOUS
<1>1. told' \in [OrderIds -> Told \cup {Null}]
  BY IInvMeans DEF EngineTyped, RestRejected, Emit
<1> QED
  BY <1>1, EndKeeps DEF RestRejected

LEMMA NotFoundIInv ==
  ASSUME IInv, NEW c \in Clients, NEW k \in ClientOrders, NotFound(c, k)
  PROVE  IInv'
<1>1. UNCHANGED <<bookVars, index, openOrders, nextOrderId, pc, cmd, emitted, told>>
  BY NotFoundMeans DEF NotFound, WithoutStale, Emit
<1>2. /\ BookP!IInv' /\ OrdersPlaced' /\ freeHead' = freeHead
      /\ \A cc \in Clients : Cardinality(Owned(cc)') = Cardinality(Owned(cc))
  BY <1>1, AloneKeeps
<1> QED
  BY <1>1, <1>2, IInvMeans, IInvNext DEF EngineTyped, CommandAt, Counted0, Room

LEMMA ModifyRejectedIInv ==
  ASSUME IInv, NEW c \in Clients, NEW k \in ClientOrders, NEW newQty, ModifyRejected(c, k, newQty)
  PROVE  IInv'
<1>1. CASE NotFound(c, k)
  BY <1>1, NotFoundIInv
<1>2. CASE ~NotFound(c, k)
  <2>1. UNCHANGED <<bookVars, index, openOrders, nextOrderId, pc, cmd, emitted, told>>
    BY <1>2 DEF ModifyRejected, Emit
  <2>2. /\ BookP!IInv' /\ OrdersPlaced' /\ freeHead' = freeHead
        /\ \A cc \in Clients : Cardinality(Owned(cc)') = Cardinality(Owned(cc))
    BY <2>1, AloneKeeps
  <2> QED
    BY <2>1, <2>2, IInvMeans, IInvNext DEF EngineTyped, CommandAt, Counted0, Room
<1> QED
  BY <1>1, <1>2

\* The account gives up the order that the book has given up before.
LEMMA ModifyDroppedIInv == IInv /\ ModifyDropped => IInv'
<1> SUFFICES ASSUME IInv, ModifyDropped PROVE IInv'
  OBVIOUS
<1>1. /\ BookP!IInv' /\ OrdersPlaced' /\ freeHead' = freeHead
      /\ \A c \in Clients : Cardinality(Owned(c)') = Cardinality(Owned(c))
  BY AloneKeeps DEF ModifyDropped
<1>2. /\ pc = "reinsert" /\ pc' = "idle" /\ cmd' = Null /\ emitted' = 0
      /\ UNCHANGED <<index, nextOrderId, told>>
      /\ openOrders' = [openOrders EXCEPT ![cmd.client] = Book!Monus(@, 1)]
  BY DEF ModifyDropped, EndCommand, Emit, OneLess
<1>3. openOrders \in [Clients -> Nat] /\ cmd.client \in Clients
  BY <1>2, IInvMeans, CommandFields DEF EngineTyped
<1>4. openOrders' \in [Clients -> Nat]
  BY <1>2, <1>3 DEF Book!Monus
<1>5. Counted0'
  <2> SUFFICES ASSUME NEW c \in Clients
               PROVE  openOrders'[c] = Cardinality(Owned(c)') + 0 /\ openOrders'[c] <= MaxOpenOrders
    BY <1>2 DEF Counted0
  <2>1. /\ openOrders[c] = Cardinality(Owned(c)) + (IF cmd.client = c THEN 1 ELSE 0)
        /\ openOrders[c] <= MaxOpenOrders /\ Cardinality(Owned(c)) \in Nat
    BY <1>2, IInvMeans, OwnedFinite DEF Counted0
  <2>2. openOrders'[c] = IF cmd.client = c THEN Book!Monus(openOrders[c], 1) ELSE openOrders[c]
    BY <1>2, <1>3
  <2> QED
    BY <1>1, <2>1, <2>2, MatchingEngineAssumption DEF Book!Monus
<1>6. EngineTyped'
  BY <1>2, <1>4, IInvMeans, MatchingEngineAssumption DEF EngineTyped
<1> QED
  BY <1>1, <1>2, <1>5, <1>6, IInvNext DEF CommandAt, Room

\* The two steps that put the command's order into the book: Rest counts it,
\* ModifyReinsert has not stopped counting it.
LEMMA JoinsBook ==
  ASSUME IInv, pc # "idle", cmd.price # Null, cmd.leaves > 0,
         Book!PriceToTick(cmd.price) # Null,
         Book!AddOrder(cmd.side, Book!PriceToTick(cmd.price), cmd),
         index' = Register(cmd, Book!NextOrderId, Book!PriceToTick(cmd.price)),
         Emit(HeardRests(cmd.id, cmd.price, cmd.leaves)), EndCommand, UNCHANGED nextOrderId,
         openOrders' = IF pc = "match" THEN OneMore(cmd.client) ELSE openOrders
  PROVE  IInv'
<1> DEFINE tick0 == Book!PriceToTick(cmd.price)
           idx == freeHead
<1>1. cmd \in Order /\ cmd.client \in Clients /\ cmd.id \in OrderIds /\ cmd.side \in Sides
  BY IInvMeans, CommandFields DEF EngineTyped
<1>2. tick0 \in Ticks
  BY DEF Book!PriceToTick, Ticks
<1>3. /\ BookP!IInv /\ OrdersPlaced /\ index \in [Keys -> Locator \cup {Null}]
      /\ openOrders \in [Clients -> Nat] /\ told \in [OrderIds -> Told \cup {Null}]
  BY IInvMeans DEF EngineTyped
<1>4. /\ BookP!IInv' /\ idx \in Slots /\ order[idx] = Null
      /\ order' = [order EXCEPT ![idx] = cmd]
  BY <1>1, <1>2, <1>3, AddEffect
<1>5. OrdersPlaced'
  BY <1>1, <1>2, <1>3, AddPlaced
<1>6. \A c \in Clients : Cardinality(Owned(c)') = Cardinality(Owned(c)) + (IF cmd.client = c THEN 1 ELSE 0)
  <2>1. order \in [Slots -> Order \cup {Null}]
    BY <1>3, Shape
  <2> QED
    BY <1>1, <1>4, <2>1, AddOwned
<1>7. pc' = "idle" /\ cmd' = Null /\ emitted' = 0
  BY DEF EndCommand
<1>8. told' \in [OrderIds -> Told \cup {Null}]
  <2>1. HeardRests(cmd.id, cmd.price, cmd.leaves) \in [OrderIds -> Told \cup {Null}]
    BY <1>1, <1>3, ToldTypes, Values
  <2> QED
    BY <1>3, <2>1, EmitTypes
<1>9. index' \in [Keys -> Locator \cup {Null}]
  <2>1. Book!NextOrderId \in [index: Slots, generation: 0..GenLimit-1]
    BY <1>3, <1>4, Shape DEF Book!NextOrderId
  <2>2. [oid |-> Book!NextOrderId, tick |-> tick0, side |-> cmd.side, internalId |-> cmd.id] \in Locator
    BY <1>1, <1>2, <2>1 DEF Locator
  <2> QED
    BY <1>3, <2>2 DEF Register
<1>10. openOrders' \in [Clients -> Nat]
  BY <1>1, <1>3 DEF OneMore
<1>11. Counted0'
  <2> SUFFICES ASSUME NEW c \in Clients
               PROVE  openOrders'[c] = Cardinality(Owned(c)') + 0 /\ openOrders'[c] <= MaxOpenOrders
    BY <1>7 DEF Counted0
  <2>1. /\ openOrders[c] = Cardinality(Owned(c)) + (IF pc = "reinsert" /\ cmd.client = c THEN 1 ELSE 0)
        /\ openOrders[c] <= MaxOpenOrders /\ Cardinality(Owned(c)) \in Nat
        /\ pc = "match" => openOrders[cmd.client] < MaxOpenOrders
        /\ pc \in {"match", "reinsert"}
    BY IInvMeans, OwnedFinite DEF Counted0, CommandAt, EngineTyped
  <2>2. openOrders'[c] = IF pc = "match" /\ cmd.client = c THEN openOrders[c] + 1 ELSE openOrders[c]
    BY <1>1, <1>3 DEF OneMore
  <2> QED
    BY <1>1, <1>3, <1>6, <2>1, <2>2, MatchingEngineAssumption
<1>12. EngineTyped'
  BY <1>7, <1>8, <1>9, <1>10, IInvMeans, MatchingEngineAssumption DEF EngineTyped
<1> QED
  BY <1>4, <1>5, <1>7, <1>11, <1>12, IInvNext DEF CommandAt, Room

LEMMA RestIInv == IInv /\ Rest => IInv'
<1> SUFFICES ASSUME IInv, Rest PROVE IInv'
  OBVIOUS
<1>1. Book!PriceToTick(cmd.price) # Null
  BY IInvMeans DEF CommandAt, HasTick, Rest
<1> QED
  BY <1>1, JoinsBook DEF Rest

LEMMA ModifyReinsertIInv == IInv /\ ModifyReinsert => IInv'
<1> SUFFICES ASSUME IInv, ModifyReinsert PROVE IInv'
  OBVIOUS
<1>1. cmd.price # Null /\ cmd.leaves > 0
  BY IInvMeans DEF EngineTyped, ModifyReinsert
<1> QED
  BY <1>1, JoinsBook DEF ModifyReinsert

\* An order leaves the book and, but for the order a modify holds, its account.
LEMMA LeavesBook ==
  ASSUME IInv, pc # "reinsert",
         NEW side0 \in Sides, NEW tick0 \in Ticks, NEW k \in 1..Len(queue[side0][tick0]),
         Book!RemoveOrder(side0, tick0, queue[side0][tick0][k]),
         index' = Deregister(order[queue[side0][tick0][k]]),
         \/ /\ pc' # "reinsert"
            /\ openOrders' = OneLess(order[queue[side0][tick0][k]].client)
         \/ /\ pc' = "reinsert" /\ openOrders' = openOrders
            /\ cmd'.client = order[queue[side0][tick0][k]].client
  PROVE  /\ BookP!IInv' /\ OrdersPlaced' /\ Counted0' /\ freeHead' # Null
         /\ index' \in [Keys -> Locator \cup {Null}] /\ openOrders' \in [Clients -> Nat]
         /\ \A c \in Clients : openOrders'[c] <= openOrders[c]
<1> DEFINE idx == queue[side0][tick0][k]
           o == order[idx]
<1>1. /\ BookP!IInv /\ OrdersPlaced /\ index \in [Keys -> Locator \cup {Null}]
      /\ openOrders \in [Clients -> Nat]
  BY IInvMeans DEF EngineTyped
<1>2. idx \in Slots /\ order \in [Slots -> Order \cup {Null}] /\ o # Null /\ o \in Order
  <2>1. idx \in Slots /\ order[idx] # Null /\ order \in [Slots -> Order \cup {Null}]
    BY <1>1, Shape
  <2> QED
    BY <2>1
<1>3. o.client \in Clients /\ o.cid \in ClientOrders
  BY <1>2, Values
<1>4. BookP!IInv' /\ freeHead' = idx /\ order' = [order EXCEPT ![idx] = Null]
  BY <1>1, RemoveEffect
<1>5. OrdersPlaced'
  BY <1>1, RemovePlaced
<1>6. index' \in [Keys -> Locator \cup {Null}]
  BY <1>1 DEF Deregister
<1>7. openOrders' \in [Clients -> Nat] /\ \A c \in Clients : openOrders'[c] <= openOrders[c]
  <2>1. CASE openOrders' = OneLess(o.client)
    <3>1. \A c \in Clients : openOrders[c] \in Nat
      BY <1>1
    <3>2. ASSUME NEW c \in Clients
          PROVE  Book!Monus(openOrders[c], 1) \in Nat /\ Book!Monus(openOrders[c], 1) <= openOrders[c]
      <4>1. openOrders[c] \in Nat
        BY <3>1
      <4> QED
        BY <4>1 DEF Book!Monus
    <3>3. openOrders' = [openOrders EXCEPT ![o.client] = Book!Monus(@, 1)]
      BY <2>1 DEF OneLess
    <3>4. \A c \in Clients : openOrders'[c] = IF o.client = c THEN Book!Monus(openOrders[c], 1)
                                              ELSE openOrders[c]
      BY <1>1, <3>3
    <3>5. \A c \in Clients : openOrders'[c] \in Nat /\ openOrders'[c] <= openOrders[c]
      BY <3>1, <3>2, <3>4
    <3>6. openOrders' = [c \in Clients |-> openOrders'[c]]
      BY <1>1, <3>3
    <3> QED
      BY <3>5, <3>6
  <2>2. CASE openOrders' = openOrders
    BY <1>1, <2>2
  <2> QED
    BY <2>1, <2>2
<1>8. ASSUME NEW c \in Clients
      PROVE  /\ Cardinality(Owned(c)') = Cardinality(Owned(c)) - (IF o.client = c THEN 1 ELSE 0)
             /\ o.client = c => Cardinality(Owned(c)) >= 1
             /\ openOrders[c] = Cardinality(Owned(c)) /\ openOrders[c] <= MaxOpenOrders
  <2>1. openOrders[c] = Cardinality(Owned(c)) + 0 /\ openOrders[c] <= MaxOpenOrders
    BY IInvMeans DEF Counted0
  <2>2. /\ Cardinality(Owned(c)') = Cardinality(Owned(c)) - (IF o.client = c THEN 1 ELSE 0)
        /\ o.client = c => Cardinality(Owned(c)) >= 1
    BY <1>2, <1>4, RemoveOwned
  <2> QED
    BY <2>1, <2>2, OwnedFinite
<1>9. Counted0'
  <2> SUFFICES ASSUME NEW c \in Clients
               PROVE  /\ openOrders'[c] = Cardinality(Owned(c)')
                                           + (IF pc' = "reinsert" /\ cmd'.client = c THEN 1 ELSE 0)
                      /\ openOrders'[c] <= MaxOpenOrders
    BY DEF Counted0
  <2>1. CASE openOrders' = OneLess(o.client) /\ pc' # "reinsert"
    <3>1. openOrders'[c] = IF o.client = c THEN Book!Monus(openOrders[c], 1) ELSE openOrders[c]
      BY <1>1, <1>3, <2>1 DEF OneLess
    <3>2. openOrders[c] \in Nat /\ MaxOpenOrders \in Nat
      BY <1>1, MatchingEngineAssumption
    <3>3. openOrders'[c] = openOrders[c] - (IF o.client = c THEN 1 ELSE 0)
      <4>1. o.client = c => openOrders[c] >= 1
        BY <1>8
      <4> QED
        BY <3>1, <3>2, <4>1 DEF Book!Monus
    <3>4. openOrders'[c] <= MaxOpenOrders
      BY <1>7, <1>8, <3>2
    <3>5. openOrders'[c] = Cardinality(Owned(c)')
      BY <1>8, <3>3
    <3>6. openOrders'[c] \in Nat
      BY <1>7
    <3> QED
      BY <2>1, <3>4, <3>5, <3>6
  <2>2. CASE openOrders' = openOrders /\ pc' = "reinsert" /\ cmd'.client = o.client
    BY <1>1, <1>8, <2>2
  <2> QED
    BY <2>1, <2>2
<1> QED
  BY <1>2, <1>4, <1>5, <1>6, <1>7, <1>9, Values

\* What a fill leaves of the command.
LEMMA CommandFilled ==
  ASSUME NEW o \in Command, NEW qty \in 0..o.leaves
  PROVE  LET after == [o EXCEPT !.leaves = @ - qty, !.filled = @ + qty]
         IN /\ after \in Command /\ after.client = o.client /\ after.price = o.price
            /\ after.id = o.id /\ after.cid = o.cid /\ after.side = o.side
            /\ after.leaves = o.leaves - qty
<1> DEFINE after == [o EXCEPT !.leaves = @ - qty, !.filled = @ + qty]
<1>1. /\ o.leaves - qty \in Nat /\ o.filled + qty \in Nat
      /\ o = [id |-> o.id, client |-> o.client, cid |-> o.cid, side |-> o.side,
              price |-> o.price, leaves |-> o.leaves, filled |-> o.filled]
  BY DEF Command
<1>2. after = [[o EXCEPT !.leaves = o.leaves - qty] EXCEPT !.filled = o.filled + qty]
  BY <1>1
<1> HIDE DEF after
<1>3. after = [id |-> o.id, client |-> o.client, cid |-> o.cid, side |-> o.side,
               price |-> o.price, leaves |-> o.leaves - qty, filled |-> o.filled + qty]
  BY <1>1, <1>2
<1>4. /\ after \in Command /\ after.client = o.client /\ after.price = o.price
      /\ after.id = o.id /\ after.cid = o.cid /\ after.side = o.side
      /\ after.leaves = o.leaves - qty
  BY <1>1, <1>3 DEF Command
<1> QED
  BY <1>4 DEF after

\* The smaller of the two rests.
LEMMA MatchQuantity ==
  ASSUME IInv, pc = "match", CanMatch
  PROVE  LET other == Opposite(cmd.side)
             resting == order[RestingSlot]
             qty == Book!Min({cmd.leaves, resting.leaves})
         IN /\ other \in Sides /\ BestTick \in Ticks
            /\ 1 \in 1..Len(queue[other][BestTick]) /\ RestingSlot = queue[other][BestTick][1]
            /\ resting \in Order
            /\ qty \in Nat \ {0} /\ qty <= cmd.leaves
            /\ qty # resting.leaves => qty \in 0..resting.leaves-1
            /\ cmd \in Command
            /\ [cmd EXCEPT !.leaves = @ - qty, !.filled = @ + qty] \in Command
            /\ [cmd EXCEPT !.leaves = @ - qty, !.filled = @ + qty].client = cmd.client
            /\ [cmd EXCEPT !.leaves = @ - qty, !.filled = @ + qty].price = cmd.price
<1> DEFINE other == Opposite(cmd.side)
           resting == order[RestingSlot]
           qty == Book!Min({cmd.leaves, resting.leaves})
           after == [cmd EXCEPT !.leaves = @ - qty, !.filled = @ + qty]
<1>1. cmd \in Command /\ BookP!IInv
  BY IInvMeans DEF EngineTyped
<1>2. cmd.side \in Sides /\ cmd.leaves \in Nat \ {0} /\ cmd.filled \in Nat
  BY <1>1, CommandFields DEF CanMatch
<1>3. /\ other \in Sides /\ BestTick \in Ticks /\ Len(queue[other][BestTick]) > 0
      /\ RestingSlot = queue[other][BestTick][1]
  BY <1>1, <1>2, BestTickFound DEF CanMatch
<1>4. 1 \in 1..Len(queue[other][BestTick]) /\ RestingSlot \in Slots /\ resting \in Order
  <2>1. Len(queue[other][BestTick]) \in Nat /\ order \in [Slots -> Order \cup {Null}]
    BY <1>1, <1>3, Shape
  <2>2. 1 \in 1..Len(queue[other][BestTick])
    BY <1>3, <2>1
  <2>3. RestingSlot \in Slots /\ order[RestingSlot] # Null
    BY <1>1, <1>3, <2>2, Shape
  <2> QED
    BY <2>1, <2>2, <2>3
<1>5. resting.leaves \in Nat \ {0}
  BY <1>4, Values
<1>6. /\ qty \in Nat \ {0} /\ qty <= cmd.leaves
      /\ qty # resting.leaves => qty \in 0..resting.leaves-1
  BY <1>2, <1>5, MinOfTwo
<1> HIDE DEF qty
<1>7. after \in Command /\ after.client = cmd.client /\ after.price = cmd.price
  <2>1. qty \in 0..cmd.leaves
    BY <1>2, <1>6
  <2> QED
    BY <1>1, <2>1, CommandFilled
<1> HIDE DEF after
<1> QED
  BY <1>1, <1>3, <1>4, <1>6, <1>7 DEF qty, after

LEMMA MatchBestIInv == IInv /\ MatchBest => IInv'
<1> SUFFICES ASSUME IInv, MatchBest PROVE IInv'
  OBVIOUS
<1> DEFINE other == Opposite(cmd.side)
           tick == BestTick
           slot == RestingSlot
           resting == order[slot]
           qty == Book!Min({cmd.leaves, resting.leaves})
           after == [cmd EXCEPT !.leaves = @ - qty, !.filled = @ + qty]
<1>1. pc = "match" /\ CanMatch
  BY DEF MatchBest
<1>2. /\ other \in Sides /\ tick \in Ticks
      /\ 1 \in 1..Len(queue[other][tick]) /\ slot = queue[other][tick][1]
      /\ resting \in Order
      /\ qty \in Nat \ {0} /\ qty <= cmd.leaves
      /\ qty # resting.leaves => qty \in 0..resting.leaves-1
      /\ cmd \in Command
      /\ after \in Command /\ after.client = cmd.client /\ after.price = cmd.price
  BY <1>1, MatchQuantity
<1>3. /\ Emit(HeardFill(resting.id, qty)) /\ emitted' = Counted /\ cmd' = after
      /\ pc' = "match" /\ UNCHANGED nextOrderId
  BY <1>1 DEF MatchBest
<1>4. IF qty = resting.leaves
      THEN /\ Book!RemoveOrder(other, tick, slot)
           /\ index' = Deregister(resting)
           /\ openOrders' = OneLess(resting.client)
      ELSE Book!ReduceOrder(other, tick, slot, qty) /\ UNCHANGED <<index, openOrders>>
  BY DEF MatchBest
<1> HIDE DEF other, tick, slot, qty, after
<1>5. /\ BookP!IInv /\ OrdersPlaced /\ EngineTyped /\ CommandAt /\ Counted0
      /\ resting.id \in OrderIds
  BY <1>2, IInvMeans, Values
<1>6. told' \in [OrderIds -> Told \cup {Null}]
  <2>1. told \in [OrderIds -> Told \cup {Null}]
    BY <1>5 DEF EngineTyped
  <2>2. HeardFill(resting.id, qty) \in [OrderIds -> Told \cup {Null}]
    BY <1>2, <1>5, <2>1, ToldTypes
  <2> QED
    BY <1>3, <2>1, <2>2, EmitTypes
<1>7. emitted' \in 0..EventBufferLen
  BY <1>3, <1>5, MatchingEngineAssumption DEF EngineTyped, Counted, ArrayHasRoom
<1>8. CASE qty = resting.leaves
  <2>1. /\ Book!RemoveOrder(other, tick, queue[other][tick][1])
        /\ index' = Deregister(order[queue[other][tick][1]])
        /\ openOrders' = OneLess(order[queue[other][tick][1]].client)
    BY <1>2, <1>4, <1>8
  <2>2. /\ BookP!IInv' /\ OrdersPlaced' /\ Counted0'
        /\ index' \in [Keys -> Locator \cup {Null}] /\ openOrders' \in [Clients -> Nat]
        /\ \A c \in Clients : openOrders'[c] <= openOrders[c]
    BY <1>1, <1>2, <1>3, <2>1, LeavesBook
  <2>3. EngineTyped'
    BY <1>2, <1>3, <1>5, <1>6, <1>7, <2>2 DEF EngineTyped
  <2>4. CommandAt'
    <3>1. cmd.client \in Clients /\ openOrders \in [Clients -> Nat]
      BY <1>2, <1>5, CommandFields DEF EngineTyped
    <3> QED
      BY SMTT(30), <1>1, <1>2, <1>3, <1>5, <2>2, <3>1, MatchingEngineAssumption DEF CommandAt, HasTick
  <2> QED
    BY <1>3, <2>2, <2>3, <2>4, IInvNext DEF Room
<1>9. CASE qty # resting.leaves
  <2>1. /\ Book!ReduceOrder(other, tick, queue[other][tick][1], qty)
        /\ qty \in 0..order[queue[other][tick][1]].leaves-1
        /\ UNCHANGED <<index, openOrders>>
    BY <1>2, <1>4, <1>9
  <2>2. BookP!IInv' /\ order' = [order EXCEPT ![queue[other][tick][1]] = Book!Reduced(@, qty)]
    BY <1>2, <1>5, <2>1, ReduceEffect
  <2>3. OrdersPlaced'
    BY <1>2, <1>5, <2>1, ReducePlaced
  <2>4. \A c : Owned(c)' = Owned(c)
    <3>1. /\ queue[other][tick][1] \in Slots /\ order[queue[other][tick][1]] # Null
          /\ order \in [Slots -> Order \cup {Null}]
      BY <1>2, <1>5, Shape
    <3> QED
      BY <2>1, <2>2, <3>1, ReduceOwned
  <2>5. Counted0'
    BY <1>1, <1>3, <1>5, <2>1, <2>4 DEF Counted0
  <2>6. EngineTyped'
    BY <1>2, <1>3, <1>5, <1>6, <1>7, <2>1 DEF EngineTyped
  <2>7. CommandAt'
    BY <1>1, <1>2, <1>3, <1>5, <2>1 DEF CommandAt, HasTick
  <2> QED
    BY <1>3, <2>2, <2>3, <2>5, <2>6, <2>7, IInvNext DEF Room
<1> QED
  BY <1>8, <1>9

LEMMA CancelIInv ==
  ASSUME IInv, NEW c \in Clients, NEW k \in ClientOrders, Cancel(c, k)
  PROVE  IInv'
<1> DEFINE locator == index[<<c, k>>]
           side == locator.side
           tick == locator.tick
           slot == locator.oid.index
<1>1. pc = "idle" /\ Found(c, k) /\ UNCHANGED <<nextOrderId, pc, cmd, emitted>>
  BY DEF Cancel
<1>2. /\ Emit(HeardGone(locator.internalId)) /\ Book!RemoveOrder(side, tick, slot)
      /\ index' = [index EXCEPT ![<<c, k>>] = Null] /\ openOrders' = OneLess(c)
  BY DEF Cancel
<1>3. /\ side \in Sides /\ tick \in Ticks /\ locator.internalId \in OrderIds
      /\ order[slot].client = c /\ order[slot].cid = k
      /\ \E i \in 1..Len(queue[side][tick]) : queue[side][tick][i] = slot
  <2>1. FoundAt(locator, c, k)
    BY <1>1, FoundOrder
  <2> HIDE DEF locator
  <2> QED
    BY <2>1 DEF FoundAt
<1> HIDE DEF locator
<1>4. PICK i \in 1..Len(queue[side][tick]) : queue[side][tick][i] = slot
  BY <1>3
<1>5. /\ BookP!IInv' /\ OrdersPlaced' /\ Counted0'
      /\ index' \in [Keys -> Locator \cup {Null}] /\ openOrders' \in [Clients -> Nat]
  <2>1. /\ Book!RemoveOrder(side, tick, queue[side][tick][i])
        /\ index' = Deregister(order[queue[side][tick][i]])
        /\ openOrders' = OneLess(order[queue[side][tick][i]].client)
    BY <1>2, <1>3, <1>4 DEF Deregister
  <2> QED
    BY <1>1, <1>3, <2>1, LeavesBook
<1>6. told' \in [OrderIds -> Told \cup {Null}]
  <2>1. told \in [OrderIds -> Told \cup {Null}]
    BY IInvMeans DEF EngineTyped
  <2> QED
    BY <1>2, <1>3, <2>1, ToldTypes, EmitTypes
<1>7. EngineTyped'
  BY <1>1, <1>5, <1>6, IInvMeans DEF EngineTyped
<1> QED
  BY <1>1, <1>5, <1>7, IInvNext DEF CommandAt, Room

LEMMA TargetTypes ==
  ASSUME NEW o \in Order, NEW newPrice \in NewPrices, NEW newQty \in NewQtys, newQty # 0
  PROVE  TargetPrice(o, newPrice) \in Nat /\ TargetLeaves(o, newQty) \in Nat \ {0}
<1>1. newPrice \in Nat \cup {Null} /\ newQty \in Nat \cup {Null}
  BY MatchingEngineAssumption
<1> QED
  BY <1>1, Values DEF TargetPrice, TargetLeaves

\* The order that a modify holds is one that may rest.
LEMMA CommandTaken ==
  \A o \in Order, id \in OrderIds, c \in Clients, k \in ClientOrders, price \in Nat,
     leaves \in Nat \ {0} :
    /\ NewOrder(o, id, c, k, price, leaves) \in Command
    /\ NewOrder(o, id, c, k, price, leaves).id = id
    /\ NewOrder(o, id, c, k, price, leaves).client = c
    /\ NewOrder(o, id, c, k, price, leaves).cid = k
    /\ NewOrder(o, id, c, k, price, leaves).side = o.side
    /\ NewOrder(o, id, c, k, price, leaves).price = price
    /\ NewOrder(o, id, c, k, price, leaves).leaves = leaves
<1> TAKE o \in Order, id \in OrderIds, c \in Clients, k \in ClientOrders, price \in Nat,
         leaves \in Nat \ {0}
<1>1. o = [id |-> o.id, client |-> o.client, cid |-> o.cid, side |-> o.side,
           price |-> o.price, leaves |-> o.leaves, filled |-> o.filled]
  BY DEF Order
<1>2. NewOrder(o, id, c, k, price, leaves) =
        [[[[[o EXCEPT !.id = id] EXCEPT !.client = c] EXCEPT !.cid = k]
           EXCEPT !.price = price] EXCEPT !.leaves = leaves]
  BY <1>1 DEF NewOrder
<1>3. NewOrder(o, id, c, k, price, leaves) =
        [id |-> id, client |-> c, cid |-> k, side |-> o.side,
         price |-> price, leaves |-> leaves, filled |-> o.filled]
  BY <1>1, <1>2
<1> QED
  BY <1>1, <1>3, Values DEF Command

LEMMA ModifyRemoveIInv ==
  ASSUME IInv, NEW c \in Clients, NEW k \in ClientOrders, NEW newPrice \in NewPrices,
         NEW newQty \in NewQtys, ModifyRemove(c, k, newPrice, newQty)
  PROVE  IInv'
<1> DEFINE locator == index[<<c, k>>]
           side == locator.side
           tick == locator.tick
           slot == locator.oid.index
           o == order[slot]
           taken == NewOrder(o, locator.internalId, c, k, TargetPrice(o, newPrice),
                             TargetLeaves(o, newQty))
<1>1. /\ pc = "idle" /\ Found(c, k) /\ newQty # 0 /\ pc' = "reinsert" /\ cmd' = taken
      /\ UNCHANGED <<openOrders, nextOrderId, emitted, told>>
  BY DEF ModifyRemove
<1>2. Book!RemoveOrder(side, tick, slot) /\ index' = [index EXCEPT ![<<c, k>>] = Null]
  BY DEF ModifyRemove
<1>3. /\ side \in Sides /\ tick \in Ticks /\ locator.internalId \in OrderIds
      /\ o \in Order /\ o.client = c /\ o.cid = k
      /\ \E i \in 1..Len(queue[side][tick]) : queue[side][tick][i] = slot
  <2>1. FoundAt(locator, c, k)
    BY <1>1, FoundOrder
  <2> HIDE DEF locator
  <2> QED
    BY <2>1 DEF FoundAt
<1>4. taken \in Command /\ taken.client = c /\ taken.price \in Nat /\ taken.leaves \in Nat \ {0}
  <2>1. TargetPrice(o, newPrice) \in Nat /\ TargetLeaves(o, newQty) \in Nat \ {0}
    BY <1>1, <1>3, TargetTypes
  <2>2. o \in Order /\ locator.internalId \in OrderIds
    BY <1>3
  <2> HIDE DEF locator, o
  <2> QED
    BY <2>1, <2>2, CommandTaken
<1> HIDE DEF locator, taken
<1>5. PICK i \in 1..Len(queue[side][tick]) : queue[side][tick][i] = slot
  BY <1>3
<1>6. /\ BookP!IInv' /\ OrdersPlaced' /\ Counted0' /\ freeHead' # Null
      /\ index' \in [Keys -> Locator \cup {Null}] /\ openOrders' \in [Clients -> Nat]
  <2>1. /\ Book!RemoveOrder(side, tick, queue[side][tick][i])
        /\ index' = Deregister(order[queue[side][tick][i]])
        /\ cmd'.client = order[queue[side][tick][i]].client
    BY <1>1, <1>2, <1>3, <1>4, <1>5 DEF Deregister
  <2> QED
    BY <1>1, <1>3, <2>1, LeavesBook
<1>7. EngineTyped'
  <2>1. cmd'.price # Null /\ cmd'.leaves > 0
    BY SMTT(30), <1>1, <1>4, MatchingEngineAssumption
  <2> QED
    BY <1>1, <1>4, <1>6, <2>1, IInvMeans DEF EngineTyped
<1> QED
  BY <1>1, <1>6, <1>7, IInvNext DEF CommandAt, Room

LEMMA ModifyInPlaceIInv ==
  ASSUME IInv, NEW c \in Clients, NEW k \in ClientOrders, NEW newPrice \in NewPrices,
         NEW newQty \in NewQtys, ModifyInPlace(c, k, newPrice, newQty)
  PROVE  IInv'
<1> DEFINE locator == index[<<c, k>>]
           side == locator.side
           tick == locator.tick
           slot == locator.oid.index
           o == order[slot]
           target == TargetLeaves(o, newQty)
           qty == o.leaves - target
<1>1. /\ pc = "idle" /\ Found(c, k) /\ newQty # 0
      /\ UNCHANGED <<index, openOrders, nextOrderId, pc, cmd, emitted>>
  BY DEF ModifyInPlace
<1>2. /\ target <= o.leaves /\ Book!ReduceOrder(side, tick, slot, qty)
      /\ Emit(HeardRests(locator.internalId, o.price, target))
  BY DEF ModifyInPlace, KeepsPlace
<1>3. /\ side \in Sides /\ tick \in Ticks /\ locator.internalId \in OrderIds
      /\ o \in Order /\ o.client = c /\ o.cid = k
      /\ \E i \in 1..Len(queue[side][tick]) : queue[side][tick][i] = slot
  <2>1. FoundAt(locator, c, k)
    BY <1>1, FoundOrder
  <2> HIDE DEF locator
  <2> QED
    BY <2>1 DEF FoundAt
<1>4. target \in Nat \ {0} /\ qty \in 0..o.leaves-1 /\ o.price \in Nat
  <2>1. target \in Nat \ {0}
    BY <1>1, <1>3, TargetTypes
  <2>2. o.leaves \in Nat /\ o.price \in Nat /\ target <= o.leaves
    BY <1>2, <1>3, Values
  <2> HIDE DEF target
  <2> QED
    BY <2>1, <2>2
<1> HIDE DEF locator, target, qty
<1>5. PICK i \in 1..Len(queue[side][tick]) : queue[side][tick][i] = slot
  BY <1>3
<1>6. /\ Book!ReduceOrder(side, tick, queue[side][tick][i], qty)
      /\ qty \in 0..order[queue[side][tick][i]].leaves-1
  BY <1>2, <1>4, <1>5
<1>7. /\ BookP!IInv /\ OrdersPlaced /\ Counted0 /\ EngineTyped
      /\ told \in [OrderIds -> Told \cup {Null}]
  BY IInvMeans DEF EngineTyped
<1>8. BookP!IInv' /\ order' = [order EXCEPT ![queue[side][tick][i]] = Book!Reduced(@, qty)]
  <2>1. side \in Sides /\ tick \in Ticks
    BY <1>3
  <2> HIDE DEF side, tick
  <2> QED
    BY <1>6, <1>7, <2>1, ReduceEffect
<1>9. OrdersPlaced'
  BY <1>1, <1>3, <1>6, <1>7, ReducePlaced
<1>10. \A cc : Owned(cc)' = Owned(cc)
  <2>1. /\ queue[side][tick][i] \in Slots /\ order[queue[side][tick][i]] # Null
        /\ order \in [Slots -> Order \cup {Null}]
    <3>1. side \in Sides /\ tick \in Ticks
      BY <1>3
    <3> HIDE DEF side, tick
    <3> QED
      BY <1>7, <3>1, Shape
  <2> QED
    BY <1>6, <1>8, <2>1, ReduceOwned
<1>11. told' \in [OrderIds -> Told \cup {Null}]
  BY <1>2, <1>3, <1>4, <1>7, ToldTypes, EmitTypes
<1>12. EngineTyped'
  BY <1>1, <1>7, <1>11 DEF EngineTyped
<1>13. Counted0'
  BY <1>1, <1>7, <1>10 DEF Counted0
<1> QED
  BY <1>1, <1>8, <1>9, <1>12, <1>13, IInvNext DEF CommandAt, Room

-----------------------------------------------------------------------------
(* The invariant and the theorems.                                          *)

LEMMA InitIInv == Init => IInv
<1> SUFFICES ASSUME Init PROVE IInv
  OBVIOUS
<1>1. BookP!IInv
  BY BookAssumption, SameInit, BookP!InitIInv DEF Init
<1>2. /\ pc = "idle" /\ cmd = Null /\ nextOrderId = 1 /\ emitted = 0
      /\ index = [key \in Keys |-> Null] /\ openOrders = [c \in Clients |-> 0]
      /\ told = [id \in OrderIds |-> Null]
      /\ order = [s \in Slots |-> Null]
      /\ queue = [side \in Sides |-> [t \in Ticks |-> << >>]]
  BY DEF Init, Book!Init, Slots, Ticks, Sides, Book!Sides
<1>3. EngineTyped /\ CommandAt /\ Room
  BY <1>2, MatchingEngineAssumption DEF EngineTyped, CommandAt, Room
<1>4. OrdersPlaced
  <2>1. \A side \in Sides, t \in Ticks : 1..Len(queue[side][t]) = {}
    BY <1>2
  <2>2. AtItsLevel
    BY <2>1 DEF AtItsLevel
  <2>3. IndexSound
    BY <1>2 DEF IndexSound
  <2> QED
    BY <2>2, <2>3 DEF OrdersPlaced
<1>5. Counted0
  <2> SUFFICES ASSUME NEW c \in Clients
               PROVE  openOrders[c] = Cardinality(Owned(c)) + 0 /\ openOrders[c] <= MaxOpenOrders
    BY <1>2 DEF Counted0
  <2>1. Owned(c) = {}
    BY <1>2 DEF Owned, Live
  <2>2. Cardinality(Owned(c)) = 0
    BY <2>1, FS_EmptySet
  <2> QED
    BY <1>2, <2>2, MatchingEngineAssumption
<1> QED
  BY <1>1, <1>3, <1>4, <1>5, IInvMeans

LEMMA StutterIInv == IInv /\ UNCHANGED vars => IInv'
<1> SUFFICES ASSUME IInv, UNCHANGED vars PROVE IInv'
  OBVIOUS
<1>1. UNCHANGED <<bookVars, index, openOrders, nextOrderId, pc, cmd, emitted, told>>
  BY DEF vars, bookVars
<1>2. /\ BookP!IInv' /\ OrdersPlaced' /\ freeHead' = freeHead
      /\ \A cc \in Clients : Cardinality(Owned(cc)') = Cardinality(Owned(cc))
  BY <1>1, AloneKeeps
<1> QED
  BY <1>1, <1>2, IInvMeans, IInvNext DEF EngineTyped, CommandAt, Counted0, Room

LEMMA NextIInv == IInv /\ [Next]_vars => IInv'
<1> SUFFICES ASSUME IInv, [Next]_vars PROVE IInv'
  OBVIOUS
<1>1. CASE Finish
  BY <1>1, MatchBestIInv, ExecutedIInv, CancelResidualIInv, RestIInv, RestRejectedIInv,
     ModifyReinsertIInv, ModifyDroppedIInv DEF Finish
<1>2. ASSUME NEW c \in Clients, NEW k \in ClientOrders, Place(c, k)
      PROVE  IInv'
  <2>1. PICK quantity \in Quantities :
          \/ PlaceRejected(c, k, quantity)
          \/ \E price \in Prices \cup {Null} : PlaceInvalid(c, k, price, quantity)
          \/ \E side \in Sides, price \in Prices \cup {Null} :
               PlaceAccepted(c, k, side, price, quantity)
    BY <1>2 DEF Place
  <2> QED
    BY <2>1, PlaceRejectedIInv, PlaceInvalidIInv, PlaceAcceptedIInv
<1>3. ASSUME NEW c \in Clients, NEW k \in ClientOrders, Cancel(c, k) \/ CancelRejected(c, k)
      PROVE  IInv'
  BY <1>3, CancelIInv, NotFoundIInv DEF CancelRejected
<1>4. ASSUME NEW c \in Clients, NEW k \in ClientOrders, Modify(c, k)
      PROVE  IInv'
  <2>1. PICK newQty \in NewQtys :
          \/ ModifyRejected(c, k, newQty)
          \/ \E newPrice \in NewPrices :
               ModifyInPlace(c, k, newPrice, newQty) \/ ModifyRemove(c, k, newPrice, newQty)
    BY <1>4 DEF Modify
  <2> QED
    BY <2>1, ModifyRejectedIInv, ModifyInPlaceIInv, ModifyRemoveIInv
<1> QED
  BY <1>1, <1>2, <1>3, <1>4, StutterIInv DEF Next

LEMMA SpecIInv == Spec => []IInv
BY InitIInv, NextIInv, PTL DEF Spec

\* The handlers keep book, index, accounts and command in their types, and the
\* count of events never passes the end of the array (handlers.rs, matching.rs).
THEOREM SpecTypeOK == Spec => []TypeOK
<1>1. IInv => TypeOK
  BY DEF IInv
<1> QED
  BY <1>1, SpecIInv, PTL

\* Whatever process_cancel and process_modify find in the OrderIndex is the
\* order the client means: the generation check of Arena::validate never has
\* to catch a stale locator, whatever was filled, cancelled or moved before.
THEOREM SpecIndexSound == Spec => []IndexSound
<1>1. IInv => IndexSound
  BY DEF IInv
<1> QED
  BY <1>1, SpecIInv, PTL

\* open_orders of a ClientAccount is the number of the client's orders in the
\* arena, with the one a modify holds, and stays within MAX_OPEN_ORDERS.
THEOREM SpecOpenOrdersCounted == Spec => []OpenOrdersCounted
<1>1. IInv => OpenOrdersCounted
  BY DEF IInv
<1> QED
  BY <1>1, SpecIInv, PTL

\* The ArenaFull branch of process_modify is dead: its own remove_order has
\* freed the slot that its add_order takes.
THEOREM SpecReinsertHasRoom == Spec => []ReinsertHasRoom
<1>1. IInv => ReinsertHasRoom
  BY DEF IInv
<1> QED
  BY <1>1, SpecIInv, PTL

=============================================================================
