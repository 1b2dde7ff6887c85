----------------------------- MODULE VersionSync ----------------------------
(***************************************************************************)
(* What a parameter synchronization promises.  The trainer makes a version *)
(* only when the last one is installed on the rollout workers; new weights *)
(* are installed only when the result of the installed version is          *)
(* published; the rollouter's version label never runs ahead of the        *)
(* weights; and every version's result is published once, in order.        *)
(***************************************************************************)
EXTENDS Naturals, Sequences

VARIABLES
  newest,     \* the version the trainer has reached
  installed,  \* the version of the rollout workers' weights
  announced,  \* the version the rollouter labels its samples with
  published,  \* the version of the last result sent to the trainer
  results     \* the versions of the results the trainer has not read

vars == <<newest, installed, announced, published, results>>

Init ==
  /\ newest = 0 /\ installed = 0 /\ announced = 0 /\ published = 0
  /\ results = <<0>>

Advance ==
  /\ newest = installed
  /\ newest' = newest + 1
  /\ UNCHANGED <<installed, announced, published, results>>

Install ==
  /\ installed < newest
  /\ published = installed
  /\ installed' = newest
  /\ UNCHANGED <<newest, announced, published, results>>

Announce ==
  /\ announced < installed
  /\ announced' = installed
  /\ UNCHANGED <<newest, installed, published, results>>

Publish ==
  /\ published < announced
  /\ published' = announced
  /\ results' = Append(results, announced)
  /\ UNCHANGED <<newest, installed, announced>>

Read ==
  /\ results # <<>>
  /\ results' = Tail(results)
  /\ UNCHANGED <<newest, installed, announced, published>>

Next == Advance \/ Install \/ Announce \/ Publish \/ Read

Spec == Init /\ [][Next]_vars
=============================================================================
