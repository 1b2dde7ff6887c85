----------------------------- MODULE FullyAsync -----------------------------
(***************************************************************************)
(* The fully asynchronous training recipe as a whole: rollouter, message   *)
(* queue, trainer and parameter synchronizer, started together by          *)
(* fully_async_main.py after the initial synchronization.                  *)
(***************************************************************************)
EXTENDS Trainer

CONSTANT ValBeforeTrain  \* values of trainer.val_before_train

ASSUME FullyAsyncAssumption == ValBeforeTrain \subseteq BOOLEAN /\ ValBeforeTrain # {}

vars == <<partial_rollout, rollouterVars, trainerVars, queueVars>>

Init ==
  /\ RollouterInit
  /\ TrainerInit
  /\ queue = <<>> /\ running = TRUE
  /\ total_produced = 0 /\ total_consumed = 0
  /\ dropped_samples = 0 /\ cleared = 0
  /\ current_param_version = 0
  /\ val_queue \in {<<[version |-> 0, metrics |-> m]>> : m \in ValBeforeTrain}
  /\ call = [c \in {"trainer"} |-> "idle"]
  /\ reply = [c \in {"trainer"} |-> Finish]
  /\ put_ok = TRUE

-----------------------------------------------------------------------------
\* The coroutines of the rollouter, beside a trainer that does not move.
trainerFrame == <<trainerVars, partial_rollout>>

Processor == ProcessorNext /\ UNCHANGED trainerFrame
Tasks ==
  /\ \/ \E s \in ready : TaskStart(s)
     \/ \E s \in generating : TaskFinish(s) \/ TaskCancel(s) \/ TaskFail(s)
  /\ UNCHANGED trainerFrame
Feeder   == Feed /\ UNCHANGED trainerFrame
Consumer == (ConsumerTake \/ ConsumerPut) /\ UNCHANGED trainerFrame
Main     == (MainStep \/ MainFinish \/ MainStop) /\ UNCHANGED trainerFrame
Monitor  == (MonitorTick \/ MonitorLocked) /\ UNCHANGED trainerFrame
Pause    == PauseNext /\ UNCHANGED trainerFrame
Update   == UpdateNext /\ UNCHANGED trainerFrame
Resume   == ResumeNext /\ UNCHANGED trainerFrame

Next ==
  \/ Processor \/ Tasks \/ Feeder \/ Consumer \/ Main \/ Monitor
  \/ Pause \/ Update \/ Resume
  \/ TrainerNext

Spec == Init /\ [][Next]_vars

\* asyncio runs every coroutine that can go on, its locks are first come,
\* first served, every generation ends, and so does every remote call.
Fairness ==
  /\ WF_vars(Processor) /\ WF_vars(Tasks) /\ WF_vars(Feeder)
  /\ WF_vars(Consumer) /\ WF_vars(Main) /\ WF_vars(Monitor)
  /\ WF_vars(Pause) /\ WF_vars(Update) /\ WF_vars(Resume)
  /\ WF_vars(TrainerNext)

FairSpec == Spec /\ Fairness
-----------------------------------------------------------------------------
Versions == 0..(TotalRolloutSteps + 1)
Samples  == 1..TotalRolloutSteps

\* A sample before its first task, in rollout, and after its generation.
NewSample  == [id : Samples, start : {-1}, end : {-1}]
PartSample == [id : Samples, start : Versions, end : {-1}]
DoneSample == [id : Samples, start : Versions, end : Versions]

(***************************************************************************)
(* Every variable has its type: the samples a queue holds are as far as    *)
(* that queue is in the rollout (an interrupted one has a start version    *)
(* and no end version, a delivered one has both), and the line at the lock *)
(* never holds a coroutine twice.                                          *)
(***************************************************************************)
TypeOK ==
  /\ fed \in 0..DoneItem
  /\ pending \in Seq(1..DoneItem) /\ Len(pending) <= PendingCap
  /\ cancelQ \in Seq(PartSample)
  /\ resultQ \in Seq(DoneSample)
  /\ ready \subseteq (NewSample \cup PartSample)
  /\ generating \subseteq PartSample
  /\ finished \in Nat /\ failed \in Nat
  /\ ppc \in {"top", "get", "lock", "wait", "pauseLock", "idle", "idleWoken",
              "idleLock", "submitLock", "submitIdle", "submitWoken", "exited",
              "crashed"}
  /\ loop \in {"none", "drain", "limit", "done"} /\ bound \in BOOLEAN
  /\ held \in Seq(NewSample \cup PartSample) /\ Len(held) <= 1
  /\ csample \in Seq(DoneSample) /\ Len(csample) <= 1
  /\ consumer \in {"live", "dead"}
  /\ mpc \in {"feed", "proc", "join", "finish", "stop", "stopLock", "end"}
  /\ active \in BOOLEAN
  /\ monitor \in {"sleep", "wakeLock", "topLock", "exit"}
  /\ lockq \in Seq({"proc", "pause", "update", "resume", "monitor", "main"})
  /\ \A i, j \in DOMAIN lockq : i # j => lockq[i] # lockq[j]
  /\ paused \in BOOLEAN /\ trigger \in BOOLEAN /\ serverPaused \in BOOLEAN
  /\ staleness \in Nat /\ version \in Versions
  /\ pausePc \in {"idle", "called", "lock", "cancel", "gather", "reset", "done"}
  /\ updatePc \in {"called", "lock", "qsize", "assign", "validate", "done"}
  /\ updateArgs \in [version : Versions, validate : BOOLEAN, sum : Nat]
  /\ resumePc \in {"called", "lock", "servers", "done"}
  /\ tpc \in {"collect", "train", "waitvalid", "pausing", "transfer", "getval",
              "final", "lastvalid", "done"}
  /\ batch \in Seq(DoneSample) /\ Len(batch) <= RequiredSamples
  /\ trained \subseteq Samples
  /\ tversion \in Versions /\ weights \in Versions
  /\ local \in 1..TriggerSteps /\ last \in BOOLEAN
  /\ valData \in Seq([version : Versions, metrics : BOOLEAN]) /\ Len(valData) <= 1
  /\ queue \in Seq(DoneSample \cup {Finish})

-----------------------------------------------------------------------------
\* Where the samples are.
IdsOf(q) == {q[i].id : i \in DOMAIN q}
SetIds(S) == {s.id : s \in S}

InTasks == SetIds(ready) \cup SetIds(generating)
InRollout == InTasks \cup IdsOf(held) \cup IdsOf(cancelQ) \cup IdsOf(resultQ)
                     \cup IdsOf(csample)
InQueue == IdsOf(queue) \ {Finish.id}

\* Not yet taken out of pending_queue.
Waiting == (Samples \ (1..fed)) \cup ({pending[i] : i \in DOMAIN pending} \ {DoneItem})

Lost == Samples \ (Waiting \cup InRollout \cup InQueue \cup IdsOf(batch) \cup trained)

FinishSent == mpc \in {"stop", "stopLock", "end"}

\* The trainer's thread and the synchronizer's calls are between two
\* synchronizations.
SyncUnderWay == tpc \in {"pausing", "transfer"} \/ ~LastSyncOver

-----------------------------------------------------------------------------
\* The pipeline: the first stage that applies, so that a sample in two places
\* at once would show as one that moves back or twice.
Stages ==
  LET waiting == Waiting
      rollout == InRollout
  IN  [k \in Samples |->
         CASE k \in waiting      -> "waiting"
           [] k \in rollout      -> "rollout"
           [] k \in InQueue      -> "queued"
           [] k \in IdsOf(batch) -> "taken"
           [] k \in trained      -> "trained"
           [] OTHER              -> "lost"]

Pipeline == INSTANCE SamplePipeline WITH
  Samples <- Samples, Capacity <- MaxRequired, BatchSize <- RequiredSamples,
  Faulty <- Failures # {}, closed <- FinishSent,
  stage <- Stages

(***************************************************************************)
(* Rollouter, queue and trainer together implement the sample pipeline:    *)
(* through every pause, interruption, resubmission and crash a sample is   *)
(* in one place, only moves forward, is lost only by an overflow of the    *)
(* message queue (put_sample) or by a task that raises, and nothing        *)
(* follows the finish signal.                                              *)
(***************************************************************************)
ImplementsPipeline == Pipeline!Spec

Sync == INSTANCE VersionSync WITH
  newest <- tversion, installed <- weights, announced <- version,
  published <- IF updatePc = "done" THEN weights ELSE weights - 1,
  results <- [i \in DOMAIN val_queue |-> val_queue[i].version]

(***************************************************************************)
(* _trigger_parameter_sync_after_step, sync_weights and                    *)
(* update_param_version implement the version handshake, although          *)
(* sync_weights returns before the rollouter knows the version: the weights*)
(* are never replaced before the result of the version they replace is in  *)
(* the queue, and results come once for each version and in order.         *)
(***************************************************************************)
ImplementsVersionSync == Sync!Spec

-----------------------------------------------------------------------------
(***************************************************************************)
(* With staleness_threshold = 0 training is synchronous (README.md:129 of  *)
(* the recipe): every sample of a batch was started and completed with the *)
(* weights of the version being trained.                                   *)
(***************************************************************************)
OnPolicy ==
  tpc \in {"collect", "train"} =>
    \A i \in DOMAIN batch : batch[i].start = tversion /\ batch[i].end = tversion

(***************************************************************************)
(* partial_rollout only takes effect when staleness_threshold > 0          *)
(* (README.md:146): a synchronous run never interrupts a generation,       *)
(* although pause() pauses the servers every time, unless a generation has *)
(* raised and the trainer synchronizes with the rest of a broken rollout.  *)
(***************************************************************************)
NothingInterrupted == ppc # "crashed" => cancelQ = <<>>

(***************************************************************************)
(* Between two synchronizations staleness_samples covers every sample that *)
(* is in rollout or in the message queue, so that the limit on it is a     *)
(* limit on the samples ahead of the trainer (as long as the processor is  *)
(* there to obey it).                                                      *)
(***************************************************************************)
StalenessCovers ==
  ~SyncUnderWay /\ ppc # "crashed" =>
    Cardinality(InRollout) + Cardinality(InQueue) <= staleness

(***************************************************************************)
(* "When triggering parameter synchronization, if Rollouter has ongoing    *)
(* tasks, it will wait for the tasks to complete and not add new tasks"    *)
(* (README.md:203 of the recipe): pause() has waited for every task, and   *)
(* none is there while the weights are transferred.                        *)
(***************************************************************************)
QuietTransfer == tpc = "transfer" => InTasks = {}

(***************************************************************************)
(* With partial rollout the weights are never replaced under a generation: *)
(* while they are transferred, the servers are paused or generate nothing. *)
(* (Without it the monitor can let tasks in, see the run quiet_transfer.)  *)
(***************************************************************************)
NoGenerationInTransfer ==
  partial_rollout /\ tpc = "transfer" => serverPaused \/ generating = {}

(***************************************************************************)
(* With partial rollout, while the servers generate, the version with      *)
(* which tasks label their samples (current_param_version) is that of the  *)
(* weights installed, although the trainer installs them and the rollouter *)
(* is told later.  (TaskStart labels a sample and sends its request in one *)
(* step; for a request that is under way longer see                        *)
(* PartialGeneration!LabelsBracket.)                                       *)
(***************************************************************************)
AnnouncedIsInstalled ==
  partial_rollout /\ generating # {} /\ ~serverPaused => version = weights

(***************************************************************************)
(* The tasks never outnumber max_concurrent_samples, although the check    *)
(* (line 383) and create_task (line 398) are two steps with a wait for the *)
(* lock or for the end of a pause between them.                            *)
(***************************************************************************)
ConcurrencyBound == NumActive <= MaxConcurrent

(***************************************************************************)
(* When the processor has left its loop and the finish signal is sent, no  *)
(* sample is left in the rollout: the last tasks are waited for, then the  *)
(* result queue is joined, and the put_sample under way precedes None.     *)
(* (With partial rollout, a sample interrupted after the processor has     *)
(* taken DONE is left in cancel_queue, against README.md:211-212 of the    *)
(* recipe; nothing else is.)                                               *)
(***************************************************************************)
Drained ==
  FinishSent /\ ppc = "exited" /\ consumer = "live" =>
    InRollout = IF partial_rollout THEN IdsOf(cancelQ) ELSE {}

(***************************************************************************)
(* No sample disappears without being counted: the samples fed that are    *)
(* nowhere any more are as many as dropped_samples says.                   *)
(***************************************************************************)
LossIsCounted == Cardinality(Lost) = dropped_samples

(***************************************************************************)
(* A synchronization that the trainer starts always completes: no pause,   *)
(* interruption, notification or wait for tasks under the lock can keep    *)
(* pause(), update_param_version() and resume() from it for ever.          *)
(***************************************************************************)
SyncCompletes == tpc = "waitvalid" ~> tpc \in {"getval", "done"}

\* What main can wait for in vain (lines 476-484): the result queue of a dead
\* consumer, and a feeder with more to feed than pending_queue holds when the
\* processor is dead.  The trainer is then left waiting in get_sample.
Stranded ==
  /\ ~FinishSent
  /\ \/ consumer = "dead"
     \/ ppc = "crashed" /\ fed < DoneItem /\ Len(pending) = PendingCap

(***************************************************************************)
(* A run ends, the rollouter stopped and the trainer out of its loop, with *)
(* an incomplete last batch too, unless what has raised leaves main        *)
(* stranded.  A generation that raises when the feeder is through, or has  *)
(* room for the rest, ends the processor, and the run ends as well: the    *)
(* finish signal is sent past whatever is left in the queues.              *)
(***************************************************************************)
Termination == <>[]((mpc = "end" /\ tpc = "done") \/ Stranded)

-----------------------------------------------------------------------------
(***************************************************************************)
(* "After acquiring the lock, the number of active_tasks may change, need  *)
(* to be verified again" (fully_async_rollouter.py:346): the verification  *)
(* is what keeps the processor alive as long as no task raises.            *)
(***************************************************************************)
ProcessorSurvives == Failures = {} => ppc # "crashed"

(***************************************************************************)
(* "Since it's a streaming system, rollout continues to generate and       *)
(* trainer continues to consume" (README.md:139 of the recipe): the        *)
(* rollouter does not wait for a new version to lower staleness_samples    *)
(* while the trainer waits for the samples a new version takes.            *)
(***************************************************************************)
NoStandoff ==
  ~ /\ call["trainer"] = "waiting" /\ queue = <<>> /\ ~SyncUnderWay
    /\ ppc = "idle" /\ ShouldPause
    /\ InTasks = {} /\ resultQ = <<>> /\ csample = <<>>

(***************************************************************************)
(* "Send a finish signal" (fully_async_rollouter.py:498), after a finally  *)
(* that follows any exception (line 487): a rollouter that fails ends too. *)
(* It does not when main waits for what a dead coroutine has left undone   *)
(* (Stranded): the merged samples of the consumer, or the room the feeder  *)
(* needs in pending_queue.                                                 *)
(***************************************************************************)
FinishIsSent == <>FinishSent
=============================================================================
