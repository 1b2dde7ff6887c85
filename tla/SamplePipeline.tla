---------------------------- MODULE SamplePipeline --------------------------
(***************************************************************************)
(* What the asynchronous recipe promises about its samples, whatever its   *)
(* coroutines do: a sample moves from the data loader through the rollout  *)
(* and the message queue to the trainer, in this direction only, and is    *)
(* trained on at most once.  It is lost only where the queue overflows, or *)
(* in a rollout that raises.  Training takes whole batches, and nothing is *)
(* delivered after the finish signal.                                      *)
(***************************************************************************)
EXTENDS Naturals, FiniteSets

CONSTANTS
  Samples,    \* the samples of the run
  Capacity,   \* the most the queue holds
  BatchSize,  \* samples of a training step
  Faulty      \* whether a rollout may raise

VARIABLES
  stage,      \* where every sample is
  closed      \* the finish signal has been sent

vars == <<stage, closed>>

At(p) == {s \in Samples : stage[s] = p}

Move(S, p) == stage' = [s \in Samples |-> IF s \in S THEN p ELSE stage[s]]

Init == stage = [s \in Samples |-> "waiting"] /\ closed = FALSE

Start ==
  /\ ~closed
  /\ \E s \in At("waiting") : Move({s}, "rollout")
  /\ UNCHANGED closed

Deliver ==
  /\ ~closed
  /\ Cardinality(At("queued")) < Capacity
  /\ \E s \in At("rollout") : Move({s}, "queued")
  /\ UNCHANGED closed

Overflow ==
  /\ ~closed
  /\ Cardinality(At("queued")) = Capacity
  /\ \E s \in At("rollout"), t \in At("queued") :
       stage' = [stage EXCEPT ![s] = "queued", ![t] = "lost"]
  /\ UNCHANGED closed

\* The finish signal needs a place in the queue as well.
Close ==
  /\ ~closed
  /\ closed' = TRUE
  /\ IF Cardinality(At("queued")) < Capacity
     THEN UNCHANGED stage
     ELSE \E t \in At("queued") : Move({t}, "lost")

Take ==
  /\ Cardinality(At("taken")) < BatchSize
  /\ \E s \in At("queued") : Move({s}, "taken")
  /\ UNCHANGED closed

Train ==
  /\ Cardinality(At("taken")) = BatchSize
  /\ Move(At("taken"), "trained")
  /\ UNCHANGED closed

Break ==
  /\ Faulty
  /\ \E s \in At("rollout") : Move({s}, "lost")
  /\ UNCHANGED closed

Next == Start \/ Deliver \/ Overflow \/ Close \/ Take \/ Train \/ Break

Spec == Init /\ [][Next]_vars
=============================================================================
