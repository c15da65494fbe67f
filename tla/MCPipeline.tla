----------------------------- MODULE MCPipeline -----------------------------
(* Values of the constants of Pipeline for TLC. *)
EXTENDS Pipeline

\* The wiring of main.rs: the unmarshaller is the only first-stage thread.
NoReader == {}
MainDeps == <<"unmarshaller">>

=============================================================================
