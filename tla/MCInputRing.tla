----------------------------- MODULE MCInputRing -----------------------------
(* Values of the constants of InputRing for TLC. *)
EXTENDS InputRing

AllReaders == {"journal", "replicator"}
AllDeps    == <<"unmarshaller", "replicator", "journal">>

=============================================================================
