------------------------------ MODULE Benchmark ------------------------------
(***************************************************************************)
(* The pipeline under benchmark_full_pipeline_throughput_and_latency: one    *)
(* thread reads the clock before each publish, waits for the BLP and then    *)
(* takes a latency from every output slot.  There is no OutputConsumer; the  *)
(* output ring is large enough for all events.  The other three full-        *)
(* pipeline benchmarks send, wait and collect in the same way.               *)
(*                                                                          *)
(* A timestamp of Pipeline names the message; stamps says when publish read  *)
(* the clock for it.                                                       *)
(***************************************************************************)
EXTENDS Pipeline

CONSTANT MaxNow  \* bound: how far the clock runs

VARIABLES
  now,        \* the clock behind util::time::now_ns
  sendTimes,  \* send_times
  stamps,     \* timestamp_ns of the input slots, message by message
  latencies,  \* latencies_ns, with the output sequence each was taken from
  benchPc,    \* "send", "publish", "collect" or "done"
  shown       \* history: when each event became visible in the output ring

clockVars == <<now, sendTimes, stamps, latencies, benchPc, shown>>
benchVars == <<pipeVars, clockVars>>

\* The reading that starts the clock is 0, and the threads get time to start.
BenchInit ==
  /\ OutCapacity >= Total * MaxEmitted /\ ~Draining
  /\ Init
  /\ now = 1
  /\ sendTimes = <<>> /\ stamps = <<>> /\ latencies = <<>> /\ shown = <<>>
  /\ benchPc = "send"

-----------------------------------------------------------------------------
Tick ==
  /\ now < MaxNow
  /\ now' = now + 1
  /\ UNCHANGED <<pipeVars, sendTimes, stamps, latencies, benchPc, shown>>

\* send_times[i] = now_ns(), then the call of publish.
Send ==
  /\ benchPc = "send" /\ Len(sendTimes) < Total
  /\ sendTimes' = Append(sendTimes, now)
  /\ benchPc' = "publish"
  /\ UNCHANGED <<pipeVars, now, stamps, latencies, shown>>

\* publish waits for its slot, and only then reads the clock for it.
PublishStep ==
  /\ benchPc = "publish"
  /\ \/ (In!ClaimNext \/ In!StoreCursor) /\ UNCHANGED <<stamps, benchPc>>
     \/ /\ \E m \in Messages : In!WriteSlot(m)
        /\ stamps' = Append(stamps, now)
        /\ UNCHANGED benchPc
     \/ In!Publish /\ benchPc' = "send" /\ UNCHANGED stamps
  /\ UNCHANGED <<outVars, now, sendTimes, latencies, shown>>

\* The unmarshaller and the BLP.
PipelineStep ==
  /\ (In!UnmarshallerStep /\ UNCHANGED outVars) \/ BlpStep
  /\ shown' = IF outputSequence' # outputSequence THEN Append(shown, now) ELSE shown
  /\ UNCHANGED <<now, sendTimes, stamps, latencies, benchPc>>

\* wait_until the BLP has stored its last input sequence.  Sleeping on "to let
\* last output events flush" gives no order between two threads.
WaitUntil ==
  /\ benchPc = "send" /\ Len(sendTimes) = Total
  /\ seq[In!Blp] >= Total - 1
  /\ benchPc' = "collect"
  /\ UNCHANGED <<pipeVars, now, sendTimes, stamps, latencies, shown>>

\* timestamp_ns of an output slot.
StampAt(n) == stamps[outSlots[Out!Idx(n)].timestamp + 1]

\* A sample for every output sequence that is also an index of send_times.
Collect ==
  /\ benchPc = "collect"
  /\ LET sampled == {n \in 0..outputSequence : n < Total /\ StampAt(n) >= sendTimes[n + 1]}
     IN latencies' = [n \in sampled |-> StampAt(n) - sendTimes[n + 1]]
  /\ benchPc' = "done"
  /\ UNCHANGED <<pipeVars, now, sendTimes, stamps, shown>>

BenchNext == Tick \/ Send \/ PublishStep \/ PipelineStep \/ WaitUntil \/ Collect

BenchSpec == BenchInit /\ [][BenchNext]_benchVars

-----------------------------------------------------------------------------
\* README.md:190 and 267 give the samples as the latency of the "full
\* pipeline": the time from the client's call until the event is in the output
\* ring.
LatencyOfThePipeline ==
  benchPc = "done" =>
    \A n \in DOMAIN latencies :
      latencies[n] = shown[n + 1] - sendTimes[outSlots[Out!Idx(n)].event.of + 1]

=============================================================================
