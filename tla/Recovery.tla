------------------------------ MODULE Recovery ------------------------------
(***************************************************************************)
(* What checkpoints promise: a run that crashes goes on from the last step *)
(* made durable, which is never more than Interval steps behind, and only  *)
(* a crash in the very moment a step is made durable can end it for good.  *)
(***************************************************************************)
EXTENDS Integers

CONSTANT Interval  \* most steps between two checkpoints

VARIABLES
  phase,   \* "down", "up" or "stuck"
  step,    \* steps trained by the run
  durable  \* the step a new run starts from

vars == <<phase, step, durable>>

Init == phase = "down" /\ step = 0 /\ durable = 0

Start == phase = "down" /\ phase' = "up" /\ step' = durable /\ UNCHANGED durable

Train ==
  /\ phase = "up" /\ step < durable + Interval
  /\ step' = step + 1
  /\ UNCHANGED <<phase, durable>>

Persist ==
  /\ phase = "up" /\ step > durable
  /\ durable' = step
  /\ UNCHANGED <<phase, step>>

Crash == phase = "up" /\ phase' = "down" /\ step' = durable /\ UNCHANGED durable

Break ==
  /\ phase = "up" /\ step = durable
  /\ phase' = "stuck" /\ step' = 0 /\ durable' = 0

Next == Start \/ Train \/ Persist \/ Crash \/ Break

Spec == Init /\ [][Next]_vars
=============================================================================
