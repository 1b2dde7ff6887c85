------------------------------- MODULE Trainer ------------------------------
(***************************************************************************)
(* The FullyAsyncTrainer actor (fully_async_trainer.py) together with the  *)
(* ParameterSynchronizer actor it calls (param_sync.py).  Every one of the *)
(* trainer's calls is a blocking ray.get, so the two are one thread of     *)
(* control; what runs beside it is the tail of a synchronization, the      *)
(* rollouter's update_param_version and resume, which sync_weights starts  *)
(* and does not wait for.                                                  *)
(***************************************************************************)
EXTENDS Rollouter

VARIABLES
  tpc,      \* where the trainer is
  batch,    \* the samples collected for the next training step
  trained,  \* ids of the samples trained on
  tversion, \* the trainer's current_param_version
  local,    \* local_trigger_step
  valData,  \* val_data: <<>> for None, or <<result>>
  last,     \* the synchronization under way is the final one
  weights   \* version of the weights the rollout workers hold

trainerVars == <<tpc, batch, trained, tversion, local, valData, last, weights>>

\* _get_samples_from_queue: a sample at a time until the batch is complete.
\* On the finish signal the incomplete batch is given up (it stays in batch,
\* where nothing reads it) and the training loop ends.
Collected ==
  IF reply'["trainer"] = Finish
  THEN tpc' = "final" /\ UNCHANGED batch
  ELSE /\ batch' = Append(batch, reply'["trainer"])
       /\ tpc' = IF Len(batch) + 1 < RequiredSamples THEN "collect" ELSE "train"

TrainerGet ==
  /\ tpc = "collect"
  /\ MQ!GetSample("trainer") \/ MQ!GetResume("trainer")
  /\ IF call'["trainer"] = "idle" THEN Collected ELSE UNCHANGED <<tpc, batch>>
  /\ UNCHANGED <<trained, tversion, local, valData, last, weights,
                 rollouterVars>>

\* _process_batch_common, and _trigger_parameter_sync_after_step up to its
\* first call: every trigger_parameter_sync_step-th step starts a new version.
TrainerStep ==
  /\ tpc = "train"
  /\ trained' = trained \cup {batch[i].id : i \in DOMAIN batch}
  /\ batch' = <<>>
  /\ IF local < TriggerSteps
     THEN local' = local + 1 /\ tpc' = "getval" /\ UNCHANGED tversion
     ELSE local' = 1 /\ tpc' = "waitvalid" /\ tversion' = tversion + 1
  /\ UNCHANGED <<valData, last, weights, rollouterVars, queueVars>>

\* Mutant: wait_last_valid is not called.
LastSyncIgnored == TRUE

LastSyncOver == updatePc = "done" /\ resumePc = "done"

\* wait_last_valid() returns and sync_weights() calls pause().
SyncPause ==
  /\ tpc = "waitvalid"
  /\ LastSyncOver
  /\ pausePc' = "called"
  /\ tpc' = "pausing"
  /\ UNCHANGED <<batch, trained, tversion, local, valData, last, weights,
                 loopVars,
                 updatePc, updateArgs, resumePc, queueVars>>

\* pause() is back: tell the queue the version, and start the transfer.
SyncQueue ==
  /\ tpc = "pausing"
  /\ pausePc = "done"
  /\ pausePc' = "idle"
  /\ MQ!UpdateParamVersion(tversion)
  /\ tpc' = "transfer"
  /\ UNCHANGED <<batch, trained, tversion, local, valData, last, weights,
                 loopVars,
                 updatePc, updateArgs, resumePc>>

\* The transfer is over; update_param_version and resume are on their way.
SyncWeights ==
  /\ tpc = "transfer"
  /\ weights' = tversion
  /\ updatePc' = "called"
  /\ updateArgs' = [version |-> tversion, validate |-> last, sum |-> 0]
  /\ resumePc' = "called"
  /\ tpc' = IF last THEN "lastvalid" ELSE "getval"
  /\ UNCHANGED <<batch, trained, tversion, local, valData, last, loopVars,
                 pausePc,
                 queueVars>>

\* get_validate_sync(): None when no result is there yet.
ReadValidation ==
  \/ val_queue = <<>> /\ valData' = <<>> /\ UNCHANGED queueVars
  \/ MQ!GetValidate /\ valData' = <<Head(val_queue)>>

TrainerGetValidate ==
  /\ tpc = "getval"
  /\ ReadValidation
  /\ tpc' = "collect"
  /\ UNCHANGED <<batch, trained, tversion, local, last, weights, rollouterVars>>

\* The end of the loop: synchronize and validate once more unless the last
\* step has read a result with metrics.
TrainerFinal ==
  /\ tpc = "final"
  /\ IF valData = <<>> \/ ~valData[1].metrics
     THEN /\ last' = TRUE /\ tversion' = tversion + 1 /\ local' = 1
          /\ tpc' = "waitvalid"
     ELSE tpc' = "done" /\ UNCHANGED <<last, tversion, local>>
  /\ UNCHANGED <<batch, trained, valData, weights, rollouterVars, queueVars>>

TrainerLastValid ==
  /\ tpc = "lastvalid"
  /\ LastSyncOver
  /\ ReadValidation
  /\ tpc' = "done"
  /\ UNCHANGED <<batch, trained, tversion, local, last, weights, rollouterVars>>

TrainerInit ==
  /\ tpc = "getval" /\ batch = <<>> /\ trained = {}
  /\ tversion = 0 /\ local = 1 /\ valData = <<>> /\ last = FALSE
  /\ weights = 0

TrainerNext ==
  /\ \/ TrainerGet \/ TrainerStep
     \/ SyncPause \/ SyncQueue \/ SyncWeights
     \/ TrainerGetValidate \/ TrainerFinal \/ TrainerLastValid
  /\ UNCHANGED partial_rollout
=============================================================================
