-------------------------- MODULE PriceTimePriority --------------------------
(***************************************************************************)
(* What a matching engine promises, with no arena, lists, bitmap or index:   *)
(* one queue of orders per side and price level, and one incoming order at   *)
(* a time, which trades with the oldest order of the best opposite level as  *)
(* long as its limit allows and then rests, or leaves.  An order taken out   *)
(* to be moved (trading = FALSE) joins its new level without trading.        *)
(***************************************************************************)
EXTENDS Integers, Sequences, SequencesExt, FiniteSetsExt

CONSTANTS
  Ids,       \* order ids
  Levels,    \* price levels: a set of integers
  Capacity,  \* how many orders may rest
  Null

Sides == {"BUY", "SELL"}

VARIABLES
  resting,  \* side -> level -> queue of [id, leaves]
  incoming  \* the order being executed or moved, or Null

bookVars == <<resting, incoming>>

Incoming == [id: Ids, side: Sides, limit: Levels \cup {Null}, leaves: Nat \ {0},
             trading: BOOLEAN]

Opposite(side) == CHOOSE other \in Sides : other # side

InUse(side) == {level \in Levels : resting[side][level] # << >>}
Best(side)  == IF side = "BUY" THEN Max(InUse(side)) ELSE Min(InUse(side))

\* Within the limit of an order; Null is the limit of a market order.
Within(limit, side, level) ==
  \/ limit = Null
  \/ side = "BUY" /\ level <= limit
  \/ side = "SELL" /\ level >= limit

CanTrade ==
  LET other == Opposite(incoming.side)
  IN /\ incoming.trading /\ incoming.leaves > 0
     /\ InUse(other) # {}
     /\ Within(incoming.limit, incoming.side, Best(other))

\* Every place of a resting order, the longest queue having Capacity of them.
Full ==
  Cardinality({place \in Sides \X Levels \X (1..Capacity) :
                 place[3] <= Len(resting[place[1]][place[2]])}) = Capacity

-----------------------------------------------------------------------------
Init ==
  /\ resting = [side \in Sides |-> [level \in Levels |-> << >>]]
  /\ incoming = Null

Enter ==
  /\ incoming = Null
  /\ incoming' \in Incoming
  /\ incoming'.trading
  /\ UNCHANGED resting

\* Price priority, then time priority, at the price of the resting order.
Trade ==
  /\ incoming # Null /\ CanTrade
  /\ LET other == Opposite(incoming.side)
         queue == resting[other][Best(other)]
         qty   == Min({incoming.leaves, Head(queue).leaves})
     IN /\ incoming' = [incoming EXCEPT !.leaves = @ - qty]
        /\ resting' = [resting EXCEPT ![other][Best(other)] =
                         IF qty = Head(queue).leaves THEN Tail(queue)
                         ELSE [queue EXCEPT ![1].leaves = @ - qty]]

\* What is left rests behind the orders of its level.  An order that came to
\* trade rests only when nothing within its limit is left.
Rest ==
  /\ incoming # Null /\ ~CanTrade
  /\ incoming.leaves > 0 /\ incoming.limit # Null /\ ~Full
  /\ resting' = [resting EXCEPT ![incoming.side][incoming.limit] =
                   Append(@, [id |-> incoming.id, leaves |-> incoming.leaves])]
  /\ incoming' = Null

\* Executed, a market order's residual, or no room.
Leave ==
  /\ incoming # Null /\ ~CanTrade
  /\ incoming.leaves = 0 \/ incoming.limit = Null \/ Full
  /\ incoming' = Null
  /\ UNCHANGED resting

\* A cancel, or the first half of a move: the others keep their order.
Withdraw(side, level, i) ==
  /\ incoming = Null
  /\ resting' = [resting EXCEPT ![side][level] = RemoveAt(@, i)]
  /\ \/ incoming' = Null
     \/ /\ incoming' \in Incoming
        /\ incoming'.id = resting[side][level][i].id
        /\ incoming'.side = side
        /\ ~incoming'.trading

\* A reduction in place keeps the order's priority.
Shrink(side, level, i) ==
  /\ incoming = Null
  /\ \E leaves \in 1..resting[side][level][i].leaves :
       resting' = [resting EXCEPT ![side][level][i].leaves = leaves]
  /\ UNCHANGED incoming

Next ==
  \/ Enter \/ Trade \/ Rest \/ Leave
  \/ \E side \in Sides, level \in Levels : \E i \in 1..Len(resting[side][level]) :
       Withdraw(side, level, i) \/ Shrink(side, level, i)

Spec == Init /\ [][Next]_bookVars

\* No order is executed for ever.
Executes == (incoming # Null) ~> (incoming = Null)

FairSpec == Spec /\ Executes

=============================================================================
