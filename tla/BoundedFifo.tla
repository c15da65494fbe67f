----------------------------- MODULE BoundedFifo -----------------------------
(***************************************************************************)
(* What a ring with one publisher and a gating consumer promises, with no   *)
(* slots, laps or sequence numbers: a lossless first-in-first-out queue     *)
(* that never holds more than Capacity elements.  Both rings of the         *)
(* pipeline implement it.                                                   *)
(***************************************************************************)
EXTENDS Integers, Sequences

CONSTANTS Values, Capacity

VARIABLES
  sent,      \* everything published so far, oldest first
  received   \* everything the last consumer has finished with, oldest first

fifoVars == <<sent, received>>

Init == sent = <<>> /\ received = <<>>

Send(v) ==
  /\ Len(sent) - Len(received) < Capacity
  /\ sent' = Append(sent, v)
  /\ UNCHANGED received

Receive ==
  /\ Len(received) < Len(sent)
  /\ received' = Append(received, sent[Len(received) + 1])
  /\ UNCHANGED sent

Next == Receive \/ \E v \in Values : Send(v)

Spec == Init /\ [][Next]_fifoVars

\* An element once sent is received: the consumer is never abandoned.
FairSpec == Spec /\ WF_fifoVars(Receive)

=============================================================================
