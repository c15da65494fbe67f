----------------------------- MODULE MCBenchmark -----------------------------
(* Benchmark for TLC, with the wiring of main.rs as in MCPipeline.           *)
EXTENDS Benchmark, MCPipeline

=============================================================================
