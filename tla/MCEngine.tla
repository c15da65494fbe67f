------------------------------ MODULE MCEngine ------------------------------
(***************************************************************************)
(* Clients, and the ids they give their orders, are compared for equality    *)
(* only: any permutation of them is a symmetry of the engine.                *)
(***************************************************************************)
EXTENDS MatchingEngine

Symmetry == Permutations(Clients) \cup Permutations(ClientOrders)

=============================================================================
