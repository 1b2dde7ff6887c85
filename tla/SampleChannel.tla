---------------------------- MODULE SampleChannel ---------------------------
(***************************************************************************)
(* What the fully asynchronous recipe needs of its queue, and nothing of   *)
(* how it works: samples are numbered as they are sent, any of them may be *)
(* lost, and those that are delivered are delivered in the order they were *)
(* sent, each at most once.                                                *)
(***************************************************************************)
EXTENDS Naturals

VARIABLES
  sent,       \* number of samples sent
  delivered,  \* the number of the last sample delivered, 0 if none was
  count       \* how many samples were delivered

vars == <<sent, delivered, count>>

Init == sent = 0 /\ delivered = 0 /\ count = 0

Send == sent' = sent + 1 /\ UNCHANGED <<delivered, count>>

\* Deliver a sample that was sent after the last one delivered; the ones in
\* between are lost.
Deliver ==
  /\ delivered' \in (delivered + 1)..sent
  /\ count' = count + 1
  /\ UNCHANGED sent

Next == Send \/ Deliver

Spec == Init /\ [][Next]_vars
=============================================================================
