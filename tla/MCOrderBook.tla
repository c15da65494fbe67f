----------------------------- MODULE MCOrderBook -----------------------------
(***************************************************************************)
(* Orders of up to two units, in every state of execution.                  *)
(***************************************************************************)
EXTENDS OrderBook

SmallOrders == {ord \in [leaves: 1..2, filled: 0..1] : ord.leaves + ord.filled <= 2}

=============================================================================
