------------------------------ MODULE Rollouter -----------------------------
(***************************************************************************)
(* The FullyAsyncRollouter actor of recipe/fully_async_policy/             *)
(* fully_async_rollouter.py: one asyncio event loop that runs the feeder,  *)
(* the processor, one task per sample in generation, the consumer, the     *)
(* main coroutine, the monitor, and the pause / update_param_version /     *)
(* resume calls of the parameter synchronizer.                             *)
(*                                                                         *)
(* Coroutines interleave only where one of them suspends, so an action is  *)
(* the code between two suspensions.  The processor's loop often reaches   *)
(* its top without suspending: while ppc = "top" it owns the event loop    *)
(* and nothing else of the rollouter moves (LoopFree).                     *)
(*                                                                         *)
(* asyncio.Lock is first come, first served: lockq is the line, its head   *)
(* owns the lock.  A coroutine that finds the line empty takes the lock    *)
(* without suspending; it appears in lockq only if it suspends there.      *)
(*                                                                         *)
(* The message queue is the module MessageQueue, with samples for numbers. *)
(***************************************************************************)
EXTENDS Integers, Sequences, FiniteSets

CONSTANTS
  TotalRolloutSteps,   \* samples to roll out
  PendingCap,          \* pending_queue's maxsize (128)
  ServerCap,           \* concurrency the servers allow: 16 per server
  RequiredSamples,     \* samples of one training step
  TriggerSteps,        \* trigger_parameter_sync_step
  StaleNum, StaleDen,  \* staleness_threshold = StaleNum / StaleDen
  TestFreq,            \* rollout.test_freq, 0 for never
  PartialModes,        \* values of async_training.partial_rollout
  Failures             \* which of "generate", "merge" may raise

ASSUME RollouterAssumption ==
  /\ TotalRolloutSteps \in Nat \ {0}
  /\ PendingCap \in Nat \ {0}
  /\ ServerCap \in Nat \ {0}
  /\ RequiredSamples \in Nat \ {0}
  /\ TriggerSteps \in Nat \ {0}
  /\ StaleNum \in Nat
  /\ StaleDen \in Nat \ {0}
  /\ TestFreq \in Nat
  /\ PartialModes \subseteq BOOLEAN /\ PartialModes # {}
  /\ Failures \subseteq {"generate", "merge"}

VARIABLE partial_rollout  \* what the run is started with

VARIABLES
  fed,         \* items put in pending_queue; item TotalRolloutSteps+1 is DONE
  pending,     \* pending_queue, as item numbers
  cancelQ,     \* cancel_queue
  resultQ,     \* result_queue
  ready,       \* active_tasks created and not started, as their samples
  generating,  \* active_tasks waiting for the generation, as their samples
  finished,    \* completed tasks still in active_tasks
  failed,      \* tasks still in active_tasks that ended in an exception
  ppc,         \* where the processor is
  loop,        \* which of its three asyncio.wait loops it is in
  bound,       \* its local done_tasks is assigned
  held,        \* the sample it popped and has not submitted: <<>> or <<s>>
  csample,     \* the sample the consumer's put_sample is sending
  consumer,    \* "live", or "dead" after an exception in merge_rollout_sample
  mpc,         \* where _streaming_generation_main is
  active,      \* self.running
  monitor,     \* where _async_monitor_loop is
  lockq,       \* the line at self.lock
  paused,      \* self.paused
  trigger,     \* self.monitor_loop_trigger
  staleness,   \* self.staleness_samples
  version,     \* self.current_param_version
  pausePc,     \* the pause call
  updatePc,    \* the update_param_version call
  updateArgs,  \* its arguments version and validate, and the sum so far
  resumePc,    \* the resume call
  serverPaused \* vLLMHttpServerForPartial.paused, on every server

\* The message queue, with its one consumer.
VARIABLES queue, running, total_produced, total_consumed, dropped_samples,
          cleared, current_param_version, val_queue, call, reply, put_ok

queueVars == <<queue, running, total_produced, total_consumed, dropped_samples,
               cleared, current_param_version, val_queue, call, reply, put_ok>>

SetMaxRequired ==
  (RequiredSamples * TriggerSteps * (StaleNum + StaleDen)) \div StaleDen

MaxRequired == SetMaxRequired  \* max_required_samples, and max_queue_size too

MaxConcurrent == IF ServerCap < MaxRequired THEN ServerCap ELSE MaxRequired

MQ == INSTANCE MessageQueue WITH
        Consumers <- {"trainer"}, MaxQueueSize <- MaxRequired,
        MaxConcurrency <- 20, MaxPut <- TotalRolloutSteps + 1,
        MaxVersion <- TotalRolloutSteps + 1, MaxVal <- TotalRolloutSteps + 2

procVars == <<ppc, loop, bound, held>>
taskVars == <<ready, generating, finished, failed>>
mainVars == <<fed, mpc, active>>
consumerVars == <<csample, consumer>>
callVars == <<pausePc, updatePc, updateArgs, resumePc>>
flagVars == <<paused, trigger, staleness, version>>
localQueues == <<pending, cancelQ, resultQ>>

\* All of the rollouter but the calls of the synchronizer, and all of it.
loopVars == <<mainVars, localQueues, taskVars, procVars, consumerVars, monitor,
              lockq, flagVars, serverPaused>>
rollouterVars == <<loopVars, callVars>>

\* What the processor, a task, the monitor and a call never change.
procFrame == <<mainVars, resultQ, generating, consumerVars, monitor, trigger,
               version, callVars, serverPaused, queueVars>>
taskFrame == <<mainVars, pending, procVars, consumerVars, monitor, lockq,
               flagVars, callVars, serverPaused, queueVars>>
monitorFrame == <<mainVars, localQueues, taskVars, loop, bound, held,
                  consumerVars, trigger, staleness, version, callVars,
                  serverPaused, queueVars>>
callFrame == <<mainVars, localQueues, ready, generating, loop, bound, held,
               consumerVars, monitor>>

-----------------------------------------------------------------------------
\* A RolloutSample: its id, and the parameter versions current when its
\* generation first started and when it completed (-1: not yet).
Fresh(k) == [id |-> k, start |-> -1, end |-> -1]

\* What the queue carries when the rollouter is done: put_sample(None).
Finish == Fresh(0)

DoneItem == TotalRolloutSteps + 1

LoopFree == ppc # "top"

NumActive == Cardinality(ready) + Cardinality(generating) + finished + failed

Owns(who) == lockq # <<>> /\ Head(lockq) = who

\* Mutants: staleness_samples is not looked at; or let one more through.
ShouldPauseOnFull == Len(queue) >= MaxRequired
ShouldPauseLate == Len(queue) >= MaxRequired \/ staleness > MaxRequired

ShouldPause == Len(queue) >= MaxRequired \/ staleness >= MaxRequired

-----------------------------------------------------------------------------
\* The processor, cut at its suspensions.  In the operators below q is the
\* line at the lock without the processor, n the number of active tasks, p
\* whether the rollouter is paused.

\* Take the lock and wait there for a task, or get in line for the lock.
WaitOrQueue(which, q) ==
  /\ loop' = which
  /\ IF q = <<>> THEN lockq' = <<"proc">> /\ ppc' = "wait"
                 ELSE lockq' = Append(q, "proc") /\ ppc' = "lock"

\* Sleep in the condition while paused; otherwise back to the top.
IdleUntilResumed(q, p) ==
  /\ loop' = "none"
  /\ IF q = <<>> THEN lockq' = <<>> /\ ppc' = IF p THEN "idle" ELSE "top"
                 ELSE lockq' = Append(q, "proc") /\ ppc' = "idleLock"

DrainThenIdle(q, n, p) ==
  IF n = 0 THEN IdleUntilResumed(q, p) ELSE WaitOrQueue("drain", q)

DrainThenExit(q, n) ==
  IF n = 0 THEN ppc' = "exited" /\ loop' = "none" /\ lockq' = q
           ELSE WaitOrQueue("done", q)

\* Mutant: a sample that meets a pause here is not kept for the end of it.
CreateTaskOrForget(s, q) ==
  /\ loop' = "none" /\ ppc' = "top" /\ held' = <<>> /\ lockq' = q
  /\ ready' = IF paused THEN ready ELSE ready \cup {s}

\* Holding the lock: create the task, or wait for the pause to end.
CreateTask(s, q) ==
  /\ loop' = "none"
  /\ lockq' = q
  /\ IF paused THEN ppc' = "submitIdle" /\ held' = <<s>> /\ UNCHANGED ready
               ELSE ppc' = "top" /\ held' = <<>> /\ ready' = ready \cup {s}

\* Mutant: > for >=.
AboveLimit(n) == n > MaxConcurrent

AtLimit(n) == n >= MaxConcurrent

SubmitSample(s, q, n) ==
  \/ /\ AtLimit(n)
     /\ WaitOrQueue("limit", q)
     /\ held' = <<s>>
     /\ UNCHANGED ready
  \/ /\ ~AtLimit(n)
     /\ q = <<>>
     /\ CreateTask(s, q)
  \/ /\ ~AtLimit(n)
     /\ q # <<>>
     /\ ppc' = "submitLock" /\ loop' = "none" /\ lockq' = Append(q, "proc")
     /\ held' = <<s>>
     /\ UNCHANGED ready

\* Mutant: what is taken is not counted.
Uncounted == UNCHANGED staleness

CountTaken == staleness' = staleness + 1

\* Pop the oldest pending item: it counts as a sample of this version, the
\* end signal too.
TakePending ==
  /\ pending # <<>>
  /\ pending' = Tail(pending)
  /\ CountTaken
  /\ \/ /\ Head(pending) = DoneItem
        /\ DrainThenExit(lockq, NumActive)
        /\ UNCHANGED <<held, ready>>
     \/ /\ Head(pending) # DoneItem
        /\ SubmitSample(Fresh(Head(pending)), lockq, NumActive)
  /\ UNCHANGED <<cancelQ, paused, bound>>

GoPause ==
  /\ \/ /\ lockq = <<>>
        /\ paused' = TRUE
        /\ DrainThenIdle(<<>>, NumActive, TRUE)
     \/ /\ lockq # <<>>
        /\ ppc' = "pauseLock"
        /\ lockq' = Append(lockq, "proc")
        /\ UNCHANGED <<paused, loop>>
  /\ UNCHANGED <<pending, cancelQ, staleness, held, ready, bound>>

ProcessorTop ==
  /\ ppc = "top"
  /\ \/ /\ paused \/ ShouldPause
        /\ GoPause
     \/ /\ ~paused /\ ~ShouldPause
        /\ cancelQ # <<>>
        /\ cancelQ' = Tail(cancelQ)
        /\ SubmitSample(Head(cancelQ), lockq, NumActive)
        /\ UNCHANGED <<pending, staleness, paused, bound>>
     \/ /\ ~paused /\ ~ShouldPause
        /\ cancelQ = <<>>
        /\ TakePending
     \/ /\ ~paused /\ ~ShouldPause
        /\ cancelQ = <<>> /\ pending = <<>>
        /\ ppc' = "get"
        /\ UNCHANGED <<pending, cancelQ, staleness, paused, loop, bound, held,
                       ready, lockq>>
  /\ UNCHANGED <<procFrame, finished, failed>>

\* pending_queue.get() returns.
ProcessorGet ==
  /\ ppc = "get"
  /\ TakePending
  /\ UNCHANGED <<procFrame, finished, failed>>

\* The processor gets the lock it was in line for, with the active tasks
\* possibly cleared by pause() in the meantime.  Then there is nothing to
\* wait for, and the loop over done_tasks raises UnboundLocalError if no
\* asyncio.wait has assigned done_tasks before.
ProcessorLocked ==
  /\ Owns("proc")
  /\ \/ /\ ppc = "pauseLock"
        /\ paused' = TRUE
        /\ DrainThenIdle(Tail(lockq), NumActive, TRUE)
        /\ UNCHANGED <<held, ready>>
     \/ /\ ppc = "idleLock"
        /\ loop' = "none"
        /\ lockq' = Tail(lockq)
        /\ ppc' = IF paused THEN "idle" ELSE "top"
        /\ UNCHANGED <<paused, held, ready>>
     \/ /\ ppc = "submitLock"
        /\ CreateTask(Head(held), Tail(lockq))
        /\ UNCHANGED paused
     \/ /\ ppc = "lock" /\ NumActive > 0
        /\ ppc' = "wait"
        /\ UNCHANGED <<paused, held, ready, loop, lockq>>
     \/ /\ ppc = "lock" /\ NumActive = 0 /\ ~bound
        /\ ppc' = "crashed" /\ loop' = "none" /\ lockq' = Tail(lockq)
        /\ UNCHANGED <<paused, held, ready>>
     \/ /\ ppc = "lock" /\ NumActive = 0 /\ bound
        /\ UNCHANGED paused
        /\ \/ /\ loop = "drain"
              /\ IdleUntilResumed(Tail(lockq), paused)
              /\ UNCHANGED <<held, ready>>
           \/ /\ loop = "limit"
              /\ SubmitSample(Head(held), Tail(lockq), 0)
           \/ /\ loop = "done"
              /\ DrainThenExit(Tail(lockq), 0)
              /\ UNCHANGED <<held, ready>>
  /\ UNCHANGED <<procFrame, pending, cancelQ, finished, failed, bound,
                 staleness>>

\* asyncio.wait(active_tasks, FIRST_COMPLETED) returns: active_tasks keeps the
\* others, and awaiting the done ones re-raises what they raised.
ProcessorWaited ==
  /\ ppc = "wait"
  /\ finished + failed > 0
  /\ finished' = 0 /\ failed' = 0
  /\ bound' = TRUE
  /\ LET q == Tail(lockq)
         n == Cardinality(ready) + Cardinality(generating)
     IN  \/ /\ failed > 0
            /\ ppc' = "crashed" /\ loop' = "none" /\ lockq' = q
            /\ UNCHANGED <<held, ready>>
         \/ /\ failed = 0 /\ loop = "drain"
            /\ DrainThenIdle(q, n, paused)
            /\ UNCHANGED <<held, ready>>
         \/ /\ failed = 0 /\ loop = "limit"
            /\ SubmitSample(Head(held), q, n)
         \/ /\ failed = 0 /\ loop = "done"
            /\ DrainThenExit(q, n)
            /\ UNCHANGED <<held, ready>>
  /\ UNCHANGED <<procFrame, pending, cancelQ, staleness, paused>>

\* Notified in the condition, the processor needs the lock back.
ProcessorWoken ==
  /\ ppc \in {"idleWoken", "submitWoken"}
  /\ LoopFree
  /\ \/ /\ lockq # <<>>
        /\ lockq' = Append(lockq, "proc")
        /\ ppc' = IF ppc = "idleWoken" THEN "idleLock" ELSE "submitLock"
        /\ UNCHANGED <<held, ready, loop>>
     \/ /\ lockq = <<>> /\ ppc = "idleWoken"
        /\ ppc' = IF paused THEN "idle" ELSE "top"
        /\ UNCHANGED <<held, ready, loop, lockq>>
     \/ /\ lockq = <<>> /\ ppc = "submitWoken"
        /\ CreateTask(Head(held), <<>>)
  /\ UNCHANGED <<procFrame, pending, cancelQ, finished, failed, bound,
                 staleness, paused>>

-----------------------------------------------------------------------------
\* Mutant: no label.
Unlabelled(s) == s

\* The label of a task that starts, and the end of one that is interrupted.
Labelled(s) == [s EXCEPT !.start = IF @ = -1 THEN version ELSE @]
Interrupt(s) == cancelQ' = Append(cancelQ, s)

\* _process_single_sample_streaming, one task per sample.  A request that
\* reaches a paused server comes back cancelled at once.
TaskStart(s) ==
  /\ LoopFree
  /\ s \in ready
  /\ ready' = ready \ {s}
  /\ LET t == Labelled(s)
     IN  \/ /\ serverPaused
            /\ Interrupt(t)
            /\ finished' = finished + 1
            /\ UNCHANGED generating
         \/ /\ ~serverPaused
            /\ generating' = generating \cup {t}
            /\ UNCHANGED <<cancelQ, finished>>
  /\ UNCHANGED <<taskFrame, resultQ, failed>>

TaskFinish(s) ==
  /\ LoopFree
  /\ s \in generating
  /\ generating' = generating \ {s}
  /\ resultQ' = Append(resultQ, [s EXCEPT !.end = version])
  /\ finished' = finished + 1
  /\ UNCHANGED <<taskFrame, cancelQ, ready, failed>>

TaskCancel(s) ==
  /\ LoopFree
  /\ s \in generating
  /\ serverPaused
  /\ generating' = generating \ {s}
  /\ Interrupt(s)
  /\ finished' = finished + 1
  /\ UNCHANGED <<taskFrame, resultQ, ready, failed>>

TaskFail(s) ==
  /\ "generate" \in Failures
  /\ LoopFree
  /\ s \in generating
  /\ generating' = generating \ {s}
  /\ failed' = failed + 1
  /\ UNCHANGED <<taskFrame, cancelQ, resultQ, ready, finished>>

-----------------------------------------------------------------------------
\* _feed_samples runs until pending_queue is full or everything is in it.
Feed ==
  /\ LoopFree
  /\ fed < DoneItem
  /\ Len(pending) < PendingCap
  /\ LET room == PendingCap - Len(pending)
         k    == IF room < DoneItem - fed THEN room ELSE DoneItem - fed
     IN  /\ pending' = pending \o [i \in 1..k |-> fed + i]
         /\ fed' = fed + k
  /\ UNCHANGED <<mpc, active, cancelQ, resultQ, taskVars, procVars,
                 consumerVars,
                 monitor, lockq, flagVars, callVars, serverPaused, queueVars>>

\* _consumer_worker: the sample is merged and its put_sample sent in one go.
ConsumerTake ==
  /\ LoopFree
  /\ consumer = "live" /\ mpc \in {"feed", "proc", "join"}
  /\ csample = <<>> /\ resultQ # <<>>
  /\ resultQ' = Tail(resultQ)
  /\ \/ csample' = <<Head(resultQ)>> /\ UNCHANGED consumer
     \/ "merge" \in Failures /\ consumer' = "dead" /\ UNCHANGED csample
  /\ UNCHANGED <<mainVars, pending, cancelQ, taskVars, procVars, monitor, lockq,
                 flagVars, callVars, serverPaused, queueVars>>

ConsumerPut ==
  /\ csample # <<>>
  /\ MQ!PutSample(Head(csample))
  /\ csample' = <<>>
  /\ UNCHANGED <<mainVars, localQueues, consumer, taskVars, procVars, monitor,
                 lockq, flagVars, callVars,
                 serverPaused>>

\* Mutants: the result queue is not joined; the processor's exception is not
\* handled.
Unjoined == NumActive = 0
Uncaught == ppc = "exited"

ResultsJoined == resultQ = <<>> /\ csample = <<>> /\ consumer = "live"
ProcessorOver == ppc \in {"exited", "crashed"}
PutsSent == csample = <<>>

\* _streaming_generation_main: the feeder, the processor and the result queue
\* are awaited in this order, so a dead processor is noticed only once the
\* feeder is through; the consumer is not awaited at all.
MainStep ==
  /\ LoopFree
  /\ \/ /\ mpc = "feed" /\ fed = DoneItem
        /\ mpc' = "proc"
     \/ /\ mpc = "proc" /\ ProcessorOver
        /\ mpc' = IF ppc = "exited" THEN "join" ELSE "finish"
     \/ mpc = "join" /\ ResultsJoined /\ mpc' = "finish"
  /\ UNCHANGED <<fed, active, localQueues, consumerVars, taskVars, procVars,
                 monitor,
                 lockq, flagVars, callVars, serverPaused, queueVars>>

\* The finish signal, behind a put_sample that is still under way.
MainFinish ==
  /\ mpc = "finish"
  /\ PutsSent
  /\ MQ!PutSample(Finish)
  /\ mpc' = "stop"
  /\ UNCHANGED <<fed, active, localQueues, consumerVars, taskVars, procVars,
                 monitor,
                 lockq, flagVars, callVars, serverPaused>>

\* async with self.lock: self.running = False
MainStop ==
  /\ LoopFree
  /\ \/ /\ mpc = "stop" /\ lockq # <<>>
        /\ mpc' = "stopLock" /\ lockq' = Append(lockq, "main")
        /\ UNCHANGED active
     \/ /\ \/ mpc = "stop" /\ lockq = <<>> /\ UNCHANGED lockq
           \/ mpc = "stopLock" /\ Owns("main") /\ lockq' = Tail(lockq)
        /\ mpc' = "end" /\ active' = FALSE
  /\ UNCHANGED <<fed, localQueues, consumerVars, taskVars, procVars, monitor,
                 flagVars, callVars, serverPaused, queueVars>>

-----------------------------------------------------------------------------
\* condition.notify_all(): only the processor ever waits there.
Notified == CASE ppc = "idle" -> "idleWoken"
              [] ppc = "submitIdle" -> "submitWoken"
              [] OTHER -> ppc

\* The top of the monitor's loop: take the lock, look at running, sleep.
MonitorTop(q) ==
  IF q = <<>> THEN lockq' = <<>> /\ monitor' = IF active THEN "sleep" ELSE "exit"
              ELSE lockq' = Append(q, "monitor") /\ monitor' = "topLock"

Unpause(q) == paused' = FALSE /\ ppc' = Notified /\ MonitorTop(q)

\* The end of the monitor's sleep: the trigger and the need to pause are read
\* BEFORE the lock is there to act on them.
MonitorTick ==
  /\ monitor = "sleep"
  /\ LoopFree
  /\ \/ /\ trigger /\ ~ShouldPause /\ lockq = <<>>
        /\ Unpause(<<>>)
     \/ /\ trigger /\ ~ShouldPause /\ lockq # <<>>
        /\ lockq' = Append(lockq, "monitor") /\ monitor' = "wakeLock"
        /\ UNCHANGED <<paused, ppc>>
     \/ /\ ~trigger \/ ShouldPause
        /\ MonitorTop(lockq)
        /\ UNCHANGED <<paused, ppc>>
  /\ UNCHANGED <<monitorFrame>>

MonitorLocked ==
  /\ LoopFree
  /\ Owns("monitor")
  /\ \/ /\ monitor = "wakeLock"
        /\ Unpause(Tail(lockq))
     \/ /\ monitor = "topLock"
        /\ lockq' = Tail(lockq)
        /\ monitor' = IF active THEN "sleep" ELSE "exit"
        /\ UNCHANGED <<paused, ppc>>
  /\ UNCHANGED <<monitorFrame>>

-----------------------------------------------------------------------------
\* Mutants: a call returns with the lock; pause() does not cancel;
\* current_param_version is not assigned.
Unreleased == UNCHANGED lockq
Uncancelled(next) == next
VersionForgotten == UNCHANGED version

Release == lockq' = Tail(lockq)
CancelFirst(next) == IF partial_rollout THEN "cancel" ELSE next
Gathered == ready = {} /\ generating = {}
AdoptVersion == version' = updateArgs.version

\* pause(): once the lock is there, cancel the servers (partial rollout), wait
\* for the active tasks, whatever they raise, and forget them.
GatherNext == IF NumActive > 0 THEN "gather" ELSE "reset"

PauseBegin ==
  /\ LoopFree
  /\ \/ /\ pausePc = "called" /\ lockq # <<>>
        /\ pausePc' = "lock" /\ lockq' = Append(lockq, "pause")
        /\ UNCHANGED paused
     \/ /\ \/ pausePc = "called" /\ lockq = <<>> /\ lockq' = <<"pause">>
           \/ pausePc = "lock" /\ Owns("pause") /\ UNCHANGED lockq
        /\ paused' = TRUE
        /\ pausePc' = CancelFirst(GatherNext)
  /\ UNCHANGED <<callFrame, queueVars, finished, failed, ppc, trigger,
                 staleness,
                 version, updatePc, updateArgs, resumePc, serverPaused>>

PauseCancel ==
  /\ pausePc = "cancel"
  /\ LoopFree
  /\ serverPaused' = TRUE
  /\ pausePc' = GatherNext
  /\ UNCHANGED <<callFrame, queueVars, finished, failed, ppc, lockq, flagVars,
                 updatePc, updateArgs, resumePc>>

PauseGather ==
  /\ pausePc = "gather"
  /\ LoopFree
  /\ Gathered
  /\ finished' = 0 /\ failed' = 0
  /\ pausePc' = "reset"
  /\ UNCHANGED <<callFrame, queueVars, ppc, lockq, flagVars, updatePc,
                 updateArgs, resumePc,
                 serverPaused>>

\* reset_prefix_cache() is back.
PauseEnd ==
  /\ pausePc = "reset"
  /\ LoopFree
  /\ trigger' = FALSE
  /\ Release
  /\ pausePc' = "done"
  /\ UNCHANGED <<callFrame, queueVars, finished, failed, ppc, paused, staleness,
                 version, updatePc, updateArgs, resumePc, serverPaused>>

\* update_param_version(): the local queues are measured before the await of
\* get_queue_size, the message queue during it, and the sum is assigned after.
UpdateBegin ==
  /\ LoopFree
  /\ \/ /\ updatePc = "called" /\ lockq # <<>>
        /\ updatePc' = "lock" /\ lockq' = Append(lockq, "update")
        /\ UNCHANGED <<version, updateArgs>>
     \/ /\ \/ updatePc = "called" /\ lockq = <<>> /\ lockq' = <<"update">>
           \/ updatePc = "lock" /\ Owns("update") /\ UNCHANGED lockq
        /\ AdoptVersion
        /\ updateArgs' = [updateArgs EXCEPT !.sum =
                            NumActive + Len(resultQ) + Len(cancelQ)]
        /\ updatePc' = "qsize"
  /\ UNCHANGED <<callFrame, queueVars, finished, failed, ppc, paused, trigger,
                 staleness, pausePc, resumePc, serverPaused>>

UpdateMeasure ==
  /\ updatePc = "qsize"
  /\ updateArgs' = [updateArgs EXCEPT !.sum = @ + Len(queue)]
  /\ updatePc' = "assign"
  /\ UNCHANGED <<callFrame, queueVars, finished, failed, ppc, lockq, flagVars,
                 pausePc, resumePc, serverPaused>>

UpdateAssign ==
  /\ updatePc = "assign"
  /\ LoopFree
  /\ staleness' = updateArgs.sum
  /\ updatePc' = "validate"
  /\ UNCHANGED <<callFrame, queueVars, finished, failed, ppc, paused, trigger,
                 lockq, version, updateArgs, pausePc, resumePc, serverPaused>>

\* Whether this version is validated, so that its result carries metrics.
Validates(v, validate) ==
  validate \/ (TestFreq > 0 /\ v > 0 /\ v % TestFreq = 0)

UpdateEnd ==
  /\ updatePc = "validate"
  /\ LoopFree
  /\ MQ!PutValidate([version |-> updateArgs.version,
                     metrics |-> Validates(updateArgs.version, updateArgs.validate)])
  /\ Release
  /\ updatePc' = "done"
  /\ updateArgs' = [updateArgs EXCEPT !.sum = 0]
  /\ UNCHANGED <<callFrame, finished, failed, ppc, flagVars, pausePc, resumePc,
                 serverPaused>>

\* resume(wait_last_update): Ray starts it when the update has returned.
ResumeBegin ==
  /\ LoopFree
  /\ \/ /\ resumePc = "called" /\ updatePc = "done" /\ lockq # <<>>
        /\ resumePc' = "lock" /\ lockq' = Append(lockq, "resume")
        /\ UNCHANGED <<paused, trigger, ppc>>
     \/ /\ \/ /\ resumePc = "called" /\ updatePc = "done" /\ lockq = <<>>
              /\ lockq' = IF partial_rollout THEN <<"resume">> ELSE <<>>
           \/ /\ resumePc = "lock" /\ Owns("resume")
              /\ lockq' = IF partial_rollout THEN lockq ELSE Tail(lockq)
        /\ paused' = FALSE
        /\ trigger' = TRUE
        /\ ppc' = Notified
        /\ resumePc' = IF partial_rollout THEN "servers" ELSE "done"
  /\ UNCHANGED <<callFrame, queueVars, finished, failed, staleness, version,
                 pausePc, updatePc, updateArgs, serverPaused>>

ResumeServers ==
  /\ resumePc = "servers"
  /\ LoopFree
  /\ serverPaused' = FALSE
  /\ Release
  /\ resumePc' = "done"
  /\ UNCHANGED <<callFrame, queueVars, finished, failed, ppc, flagVars, pausePc,
                 updatePc, updateArgs>>

-----------------------------------------------------------------------------
\* The start of fit(): the main has initialised every component and made the
\* initial synchronization, version 0, whose result is in val_queue.  Of the
\* coroutines fit() creates, the feeder runs first.
RollouterInit ==
  /\ partial_rollout \in PartialModes
  /\ fed = IF PendingCap < DoneItem THEN PendingCap ELSE DoneItem
  /\ pending = [i \in 1..fed |-> i]
  /\ cancelQ = <<>>
  /\ resultQ = <<>>
  /\ ready = {} /\ generating = {} /\ finished = 0 /\ failed = 0
  /\ ppc = "top" /\ loop = "none" /\ bound = FALSE /\ held = <<>>
  /\ csample = <<>> /\ consumer = "live"
  /\ mpc = "feed" /\ active = TRUE
  /\ monitor = "sleep"
  /\ lockq = <<>>
  /\ paused = FALSE /\ trigger = TRUE
  /\ staleness = 0 /\ version = 0
  /\ pausePc = "idle" /\ updatePc = "done" /\ resumePc = "done"
  /\ updateArgs = [version |-> 0, validate |-> FALSE, sum |-> 0]
  /\ serverPaused = FALSE

ProcessorNext ==
  \/ ProcessorTop \/ ProcessorGet \/ ProcessorLocked
  \/ ProcessorWaited \/ ProcessorWoken

PauseNext  == PauseBegin \/ PauseCancel \/ PauseGather \/ PauseEnd
UpdateNext == UpdateBegin \/ UpdateMeasure \/ UpdateAssign \/ UpdateEnd
ResumeNext == ResumeBegin \/ ResumeServers
=============================================================================
