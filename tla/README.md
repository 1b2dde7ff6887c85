# A verification of verl's training control

TLA+ models, TLC runs and TLAPS proofs for the parts of verl in which actors,
coroutines and crashes interleave:

- the fully asynchronous recipe, `recipe/fully_async_policy`: a rollouter that
  generates samples and a trainer that consumes them run side by side, joined by
  a bounded message queue and by weight synchronizations that pause the
  rollouter, interrupt generations and resume them;
- the training drivers (PPO, the one-step-off-policy recipe, DAPO) with the
  checkpoints they write, rotate and resume from, and crashes at any moment;
- the rollouts of the agent loop framework: a batch is repeated, padded and cut
  over workers whose conversations, with tools and simulated users, share
  rollout servers that are woken up with new weights for each batch.

All paths below are relative to `src/verl/`.

`PROJECT.json` lists the runs, the lines each definition translates, the
hazards and the findings; this file says what they mean.

## 1. Inventory

verl is a library of RL trainers for language models. Most of its 98 thousand
lines are numerics on tensors, wrappers of inference and training engines, and
model definitions. What can be checked here is its control: who may run when,
what is read before a wait and used after it, what a crash leaves on disk, and
in which order rows, samples and versions arrive.

| Component | State | Operations | Hard behaviour | What makes it correct |
|---|---|---|---|---|
| `MessageQueue` actor (`message_queue.py`) | `queue` (deque), counters, `val_queue`, `running`, a lock with a condition | `put_sample`, `get_sample`, `clear_queue`, `update_param_version`, `put_validate`, `get_validate`, `shutdown` | blocked consumers, overflow, shutdown with waiters | keeps the newest samples in order, counts what it drops, loses no wakeup |
| `FullyAsyncRollouter` (`fully_async_rollouter.py`) | three asyncio queues, `active_tasks`, `paused`, `monitor_loop_trigger`, `staleness_samples`, one lock with a condition | feeder, processor, a task per sample, consumer, main, monitor; `pause`, `update_param_version`, `resume` called from outside | nine coroutines interleaving around one FIFO lock, tests made before a wait and used after it, exceptions in background tasks | no sample lost or doubled, tasks bounded, nothing generated while weights move, synchronizations complete, the run ends |
| `FullyAsyncTrainer` (`fully_async_trainer.py`) | version, `local_trigger_step`, batch under collection | collect a batch, train, trigger a synchronization, read validations, final synchronization | a blocking thread against an event loop, an incomplete last batch, results that arrive late | trains on samples as fresh as configured, ends with the rollouter |
| `ParameterSynchronizer` (`param_sync.py`) | the two calls it left running | `sync_weights`, `wait_last_valid` | returns before `update_param_version` and `resume` are over | one synchronization at a time, versions announced once and in order |
| Partial-rollout server (`vllm_rollout/vllm_async_server.py`) | `paused`, `cancel_event` and `req_output` per request, a lock | `generate_for_partial`, `cancel`, `resume`, `reset_prefix_cache` | a generation that ends while it is cancelled, a request that arrives after the cancel | interrupts everything, generates nothing while paused, returns all it generated |
| Agent loop (`agent_loop/`) | the partial output of each sequence | fan-out, merge of partial outputs | several interruptions of some sequences and not of others | sequences are merged without a seam under true version labels |
| Driver (`fully_async_main.py`) | handles | builds the actors, makes the initial synchronization, starts both `fit` | | |
| Training drivers (`verl/trainer/ppo/ray_trainer.py`, `recipe/one_step_off_policy/ray_trainer.py`, `recipe/dapo/dapo_ray_trainer.py`) | `global_steps`, the dataloader's place, weights of actor and critic; the generation ahead (one step off); the prompts gathered so far (DAPO) | load, validate, generate, train, save, end of an epoch and of the data | crash and restart, an iterator that runs ahead of the training it is saved with, a step made of several generations, the last step | every batch once and in order across restarts, weights of the right age, the run ends with what it has trained on disk |
| Checkpoint managers (`verl/utils/checkpoint`) | `previous_saved_paths`; on disk: a shard per role and rank, `data.pt`, the tracker file | rotate, save, load | several processes writing several files, a crash between any two | the tracker names a checkpoint that loads and is of one step |
| Agent loop framework (`verl/experimental/agent_loop/agent_loop.py`) | a manager, its workers, per worker a heap of server loads and an LRU map from conversations to servers | `generate_sequences`: wake up, chunk, gather, concat, sleep; `_choose_server` | concurrent conversations, rows that are matched by position alone, batches the workers do not divide, an exception in one conversation | answers return to their rows, from current weights, each conversation on one server |
| Tool agent loop (`tool_agent_loop.py`), single-turn loop | the tokens, mask and logprobs of a conversation, its state and turns | a handler per state; tools, interactions | limits on length and turns met at any of four places | mask and logprobs fit the tokens, the score falls on a sampled token, the conversation ends |
| Hybrid workers and rollout servers (`fsdp_workers.py`, `vllm_async_server.py`) | which servers are awake, and their weights | `rollout_mode`, `trainer_mode`, `wake_up`, `sleep`, `generate` | weights of their own, in several replicas | no server answers asleep or with old weights |
| `DataProto` (`verl/protocol.py`) | none | repeat, pad, unpad, chunk, concat | index arithmetic | inverses are inverses |
| SFT trainers and `CheckpointHandler` | epoch, step, a data file per rank | train, save, resume | ranks that write files without a barrier before the tracker | not modelled (section 6) |
| Tools and their clients (`verl/tools`) | semaphores, token buckets | rate-limited calls | several threads at one bucket | not modelled (section 6) |
| The rest | | | | listed in `PROJECT.json` with the reason it is not modelled |

How the modelled parts interact: the rollouter's consumer calls `put_sample`;
the trainer blocks in `get_sample`. Every `trigger_parameter_sync_step` training
steps the trainer calls `sync_weights`, which waits for the previous
synchronization, calls the rollouter's `pause`, tells the queue the version,
transfers the weights, and starts `update_param_version` and `resume` without
waiting for them. `update_param_version` recomputes `staleness_samples`, from
which the processor decides to pause itself, and puts a validation result, which
the trainer reads. The monitor unpauses a rollouter that paused itself.

The drivers call the checkpoint managers of their worker groups, role by role,
then write the dataloader's state and the tracker themselves; a process that
starts again finds on disk what the one before left there. They hand a batch to
`AgentLoopManager`, which wakes the servers up, gives each worker a chunk,
waits for all of them and puts the servers to sleep; the workers' conversations
run concurrently against the servers; the trainer joins the answers to its rows
by position and updates the actor, whose weights the next wake-up sends out.

## 2. Modules

| Module | Models | Status |
|---|---|---|
| `SampleChannel` | abstract: a lossy channel that keeps the order | implemented by `MessageQueue` |
| `MessageQueue` | the queue actor, any number of consumers | complete |
| `MessageQueueProofs` | theorems about `MessageQueue` | all its safety properties and the refinement |
| `Rollouter` | every coroutine of the rollouter's event loop and the synchronizer's calls to it | complete |
| `Trainer` | the trainer's thread and the synchronizer | complete |
| `SamplePipeline` | abstract: what happens to a sample | implemented by `FullyAsync` |
| `VersionSync` | abstract: versions are installed, announced and validated in order | implemented by `FullyAsync` |
| `FullyAsync` | composes `Rollouter`, `Trainer` and `MessageQueue`; properties of the whole | complete |
| `FullyAsyncProofs` | theorems about `FullyAsync`: versions and pauses, the lock's line, forms, the limit of tasks, the end; the refinement of `VersionSync` | see section 4 |
| `PipelineProofs` | theorems about `FullyAsync`: where every sample is; the refinement of `SamplePipeline`, losses, `TypeOK` | see section 4 |
| `SynchronousProofs` | theorems about `FullyAsync` with `staleness_threshold = 0` | its synchronous properties |
| `PartialGeneration` | servers and agent loop under `partial_rollout`, request by request | complete |
| `PartialGenerationProofs` | theorems about `PartialGeneration` | all its safety properties |
| `Checkpoints` | the files of a run, and the steps in which they are written, rotated and read | complete for the FSDP manager |
| `Recovery` | abstract: what checkpoints promise | implemented by `Training` |
| `Training` | the drivers of PPO, one step off and DAPO, with crashes and restarts; extends `Checkpoints` | control complete, see below |
| `TrainingProofs` | theorems about `Training` | `LatestIsLoadable`, `AutoResume`, `TypeOK` |
| `RecoveryProofs` | theorems about `Training` | `PolicyLag`, `BatchesInOrder`, `KeptBounded`, the refinement of `Recovery` |
| `Batches` | `DataProto`'s functions on the rows of a batch | the five on the way to the workers |
| `AgentLoop` | a worker's conversations, the state machine of the tool agent, the choice of a server; extends `Batches` | complete |
| `AgentRollout` | the manager, the servers and the trainer around them; extends `AgentLoop` | complete |
| `MCAgentRollout` | the instance that TLC checks | |
| `AgentRolloutProofs` | theorems about `Batches` and `AgentRollout` | all safety properties of `AgentRollout` |

`Trainer` extends `Rollouter`, which instantiates `MessageQueue` with its own
variables and uses the queue's operators as the remote calls they are;
`FullyAsync` extends `Trainer` and adds `Init`, `Next`, fairness and properties.
The instantiation fixes what the recipe fixes: one consumer, and a
`max_queue_size` equal to `max_required_samples`.

### Correspondence to the code

*Actions.* The rollouter is one event loop, so its coroutines interleave only at
an `await` that suspends. An action is the code between two suspensions. Two
details follow asyncio closely, because the interesting interleavings hang on
them. (1) `asyncio.Lock` is first come, first served, and taking a free lock
does not suspend: `lockq` is the line at `self.lock`, whose head owns it, and a
coroutine that finds the line empty goes through in the same action. (2) The
processor's loop can run from top to top without suspending (`create_task` and a
`get` from a non-empty queue do not): while `ppc = "top"` it owns the loop and
no other coroutine of the rollouter moves (`LoopFree`); the queue actor, the
trainer and remote replies still do.

*Processor* (`_processor_worker`, lines 333-407). `ppc` is the suspension it is
in: `get`, one of four waits for the lock, `asyncio.wait`, or the condition. Its
three copies of "while active_tasks: async with lock: if active_tasks: wait" are
one piece of the model with a variable `loop` (`drain` before a pause, `done`
after the end signal, `limit` at the concurrency limit). `bound` says whether
the local `done_tasks` is assigned: it decides between an old value and an
`UnboundLocalError`. `held` is the sample it has taken and not submitted.

*Samples* are records of an id and the parameter versions at the first start and
at the end of the generation. `pending_queue` holds numbers; the number after
the last is the string `"DONE"`. The finish signal `put_sample(None)` is the
record `Finish`. Tasks are their samples: `ready` (created), `generating`, and
two counts of those that ended and were not reaped yet.

*Statistics* that steer nothing (`total_generated_samples`,
`dropped_stale_samples`, timings) are left out, and so are the contents of
training and validation: a validation result is its version and whether it
carries metrics. Bounded resources of the runs: `TotalRolloutSteps` (samples),
which bounds every counter, and `MaxPut`, `MaxVersion`, `MaxVal`, `MaxSyncs` in
the two modules with an open environment.

*Calls from outside.* `pausePc`, `updatePc` and `resumePc` are the three calls
of the synchronizer. Ray starts `resume` when the `update_param_version` passed
to it as a dependency has returned.

*PartialGeneration* follows a single sample in more detail than `Rollouter`
does: a request is sent, arrives, registers its event, generates, is woken by
its end or by the event, waits for the lock, returns and is merged. Any server
may get a request. The server's lock is held across a suspension by
`reset_prefix_cache` alone, so that only `resetting` is kept of it.

*Checkpoints* follow the disk file by file: removing a shard, opening it (which
empties it), writing it, opening and writing `data.pt`, opening and writing the
tracker are steps of their own, the ranks' in any order, and `Crash` may come
between any two. A rank's shard stands for its model, optimizer and extra
files. The weights of a model are the sequence of the places in the epoch of
the batches it was trained on, which is what tells checkpoints apart: two that
are equal have seen the same data in the same order. `saved` is
`previous_saved_paths`, lost with the process; `folders` remembers which
`global_step_k` exist, since rotation removes the role's folder below it and
leaves the one above. A rank other than 0 may make the new one before rank 0 has
rotated (`MakeFolder`).

*Training* has one variable `recipe` for which `fit()` is running. `pc` is the
place in it: `NextBatch` is the top of PPO's loop, `FirstGeneration` and
`TakeGenerated` the two calls of `_async_gen_next_batch`, `DynamicSampling` one
round of DAPO's generation loop, `DataEnds` what DAPO does behind its loops.
From `Train` on the three share their steps, which differ in when they save
(`MaySave`) and in whose weights a validation uses (`Seen`). A batch under way
is a sequence of generations, each with its place in the epoch and the number
of updates in the weights that generated it; DAPO's has several. What the filter
compares is not modelled: each round keeps any number of prompts, and `kept`
adds them up. `Load` is `_load_checkpoint` with `resume_mode = "auto"`.

*AgentLoop* has one record per conversation. A token is known by the server and
the weights it comes from; a prompt, a tool's answer, or what a user says, by
its length. A handler of the tool agent is an operator on the conversation;
its steps are the code between two awaits: `Request` up to the remote call,
`Respond` the answer and all that is decided on it. `counts` and `cache` are
the heap and the LRU map of a worker's `AsyncLLMServerManager`; any least used
server may come out of the heap.

*AgentRollout* adds `generate_sequences`: `WakeUp` and `Sleep` of a server one
by one, `Dispatch`, the workers' steps, `Gather` or `Fail`, and `Consume`, the
trainer's update. `Plan` says which batches are trained on and which validated.

### What is abstracted in the drivers and the rollouts

- `resume_mode = "auto"` with local folders; `resume_path`, HDFS,
  `del_local_ckpt_after_load` and `total_training_steps` are left out.
- The state of a `StatefulDataLoader` saved after the last batch of an epoch
  resumes at its end, so that the next epoch starts at once (the library is not
  in the repository; `PosAt` is where this assumption enters).
- DAPO's filter is switched on, and a generation batch keeps between none and
  all of its prompts; REMAX baselines are left out in all drivers.
- Exceptions of the dataset, which the one-step-off recipe takes for the end of
  the data, are left out.
- The servers run in hybrid mode, validation generates one answer per prompt,
  tools answer text and their release does not raise.

### What is abstracted in the composition

- A task labels its sample and reaches a server in one step (`TaskStart`);
  `PartialGeneration` has the request on its way in between.
- `cancel` and `resume` reach all servers at once in `Rollouter`, one by one in
  `PartialGeneration`.
- The queue is never shut down in the composition: nothing in the recipe calls
  `shutdown()`. The driver's `clear_queue` comes after both parts have ended.
- `get_statistics` in a finishing task and in the monitor is not a suspension of
  its own: what it reads is only logged.

## 3. Runs

All constants are in the `.cfg` files. Runs of `FullyAsync` name their
configuration by `TotalRolloutSteps` N, `PendingCap`, `ServerCap`,
`RequiredSamples` R, `TriggerSteps` T and staleness_threshold s.

| Run | Instance | States | Shows |
|---|---|---|---|
| `message_queue` | 2 consumers, queue of 2, 4 puts, `max_concurrency` 3 | 10^4 | `HoldsTheNewest`, `Accounting`, `NoLostWakeup`, `InOrder`, `ShutdownAnswers`; the queue implements `SampleChannel` |
| `synchronous` | N=5, R=2, T=2, s=0, partial rollout, `PendingCap` 2; generations and merges may raise | 270k | exactly on-policy batches, no interruption, a true staleness bound, bounded tasks, whatever raises; the run ends, with an incomplete last batch too, unless `main` is stranded by what has raised (`Stranded`) |
| `asynchronous` | N=3, R=1, T=1, s=1, with and without partial rollout | 435k | types, no generation under a transfer, the announced version is the installed one, nothing left behind, every loss counted, the two refinements, every synchronization completes |
| `partial_generation` | 2 sequences, 2 servers, 3 tokens, cut at 2, 2 synchronizations | 465k | seamless merging, completeness, labels, quiet servers, a pause that waits for no generation |
| `training` | the three drivers; actor and critic on 2 ranks, keep 2 and 3, 3 batches an epoch, 1 or 2 epochs, `save_freq` 2, warmup 2, an instance that may expire, 2 crashes; DAPO: 2 prompts a step, 0 to 2 kept of each generation, at most 2 generations | 779k | the tracker names a checkpoint that loads, checkpoints do not pile up, batches in order across restarts, the age of the weights that generate and validate, the run ends, recovery implements `Recovery` |
| `agent_loop` | 2 servers, a validation and two training batches, five combinations of agent, workers and rows; 4 tokens a response, answers up to 3, observations up to 2 | 164k | answers return to their rows, from the actor's weights, mask and logprobs fit, the score falls on a sampled token, conversations stay on their server, every batch comes back |
| `quiet_transfer`, `processor_survives`, `standoff`, `finish_signal`, `checkpoint_gap`, `stale_weights` | see section 5 | | what documents or comments say and the code does not do |

*Why the bounds are enough.* N is at least one batch more than the queue and the
tasks hold together, so that the queue fills, the processor pauses itself, is
resumed and pauses again; two to three synchronizations happen, so that one can
meet the tail of another. `PendingCap` 2 makes the feeder block and
`ServerCap` 2 makes the concurrency limit bind before the staleness limit does.
In `synchronous`, where generations may raise, that is less than the run, as the
code's 128 is less than a real one: a processor that dies early leaves the
feeder blocked for ever and `main`, which awaits the feeder first (line 476),
never sees the exception. `Termination` names this state and the one a dead
consumer leaves, together `Stranded`, as the only ones in which a run may stay;
the run is caught in both, and `finish_signal` shows the second. A processor that
dies when the feeder is through is noticed, and that run ends. `synchronous` says
nothing of the sum `update_param_version` makes, since nothing is under way then,
nor of a limit with a fraction: `standoff` has both. `asynchronous` has nothing
that raises: `ImplementsPipeline` with what raises is a theorem, and
`SyncCompletes` was also checked on the instance of `synchronous`.
`PartialGeneration` needs two sequences (one is interrupted, one complete), two
servers (one is cancelled, one not yet), and two synchronizations (one request
interrupted twice); `ResponseLength < MaxTokens` makes the cut happen.
In `training` three or six steps with `save_freq` 2 give periodic saves and, with
three, a last step that is not one of them; the expiring instance saves at any
other step, so that two checkpoints kept are rotated; two crashes make one
resume from what the other left, and a crash in a resumed save. Three batches an
epoch end an epoch in the middle of a run, and a resumed one-step-off run can
use its data up before its last step. DAPO's prompts per step and per
generation make it gather two generations, across the end of an epoch and into
the end of the data. `Training`, `AgentRollout` and `FullyAsync` were also
checked with constants other than the runs' (other save frequencies, epochs,
numbers of kept checkpoints, servers, rows and thresholds; of `FullyAsync` the
larger ones by searches that were not carried to their end), so that no property
is fitted to one instance; what was found that way is in the properties now. In
`agent_loop` two turns fill a response, one more than an answer leaves room for;
the five combinations have batches that need padding, that do not divide, more
conversations than servers, and users.

*Deadlock checking* is off where it is off because these systems stop: a run of
the recipe ends, the drivers and the rollouts end, the queue and the sample of
`PartialGeneration` reach their bounds. Where stopping would be wrong a liveness property says so.

*Fairness.* `FullyAsync` assumes weak fairness of each coroutine, of the tasks
together, and of the trainer: asyncio runs every ready coroutine, its locks are
FIFO, generations end (`max_tokens`) and Ray delivers replies. No strong
fairness is needed or used. `PartialGeneration` assumes nothing of the engine: a
generation may take for ever, which is the point of `PauseCompletes`.
`MessageQueue` owes only that a notified `get_sample` runs. `Training` assumes
that the driver goes on and that whoever started the job starts it again after a
crash; never that it crashes, or does not. `AgentRollout` assumes that servers
and conversations go on: one weak fairness for all of them, since no
conversation can turn in circles without becoming longer.

*Mutants.* Beside an operator the modules keep, under a comment "Mutant", the
wrong version a plausible slip would produce (a missing notify, an off-by-one, a
forgotten sample). For each property of each passing run there is one that
breaks it in that run's own instance.

### Where properties of the asynchronous mode stop

With s > 0 it is tempting to claim that a sample trained on is at most some
number of versions old. Simulation of larger instances (N = 8) reaches batches
whose samples were completed more than ceil(1 + s) versions earlier; no small
instance shows it. No such bound is claimed here. In synchronous mode `OnPolicy`
and `StalenessCovers` are exact.

## 4. Proofs

`MessageQueueProofs` proves, for every set of consumers and every value of the
bounds, from `MessageQueueAssumption` alone (no finiteness of the set of
consumers is assumed):

| Theorem | Says |
|---|---|
| `TypeCorrect` | `Spec => []TypeOK` |
| `NewestHeld` | `Spec => []HoldsTheNewest` |
| `Accounted` | `Spec => []Accounting` |
| `NoWakeupLost` | `Spec => []NoLostWakeup` |
| `DeliveredInOrder` | `Spec => InOrder`, an action property |
| `Inductive` | the invariant all of these rest on |
| `IsAChannel` | `Spec => ImplementsChannel`, provided `Consumers # {}` |

`TypeOK`, `HoldsTheNewest`, `Accounting` and `NoLostWakeup` together are already
inductive, since the contents of the queue are a function of `total_produced`
and its length. `InOrder` is not a consequence of them: nothing in them relates
what consumers were given to what is still queued. The invariant therefore adds
`DeliveredBelow`, that whatever was delivered is older than the oldest queued
sample; with it each of the eight actions is one step of the proof. The module
is written so that every action has its own lemma-sized step and the arithmetic
of sequence lengths is in leaves of its own.

`IsAChannel` maps a put to a send, the taking of the oldest sample to a delivery,
in which all that was dropped or cleared before shows as a gap, and everything
else to a stutter. It needs a consumer because the last sample delivered is the
newest of the consumers' replies.

`FullyAsyncProofs` and `PipelineProofs` prove about the composition, for any
number of samples, batch size, trigger, threshold, capacities, with and without
validation and partial rollout, and whatever raises, from
`RollouterAssumption` and `FullyAsyncAssumption`:

| Theorem | Says |
|---|---|
| `TransferIsQuiet` | `Spec => []NoGenerationInTransfer` |
| `LabelsAreOfTheWeights` | `Spec => []AnnouncedIsInstalled` |
| `ImplementsSync` | `Spec => ImplementsVersionSync` |
| `TasksAreBounded` | `Spec => []ConcurrencyBound` |
| `RolloutIsDrained` | `Spec => []Drained` |
| `ImplementsThePipeline` | `Spec => ImplementsPipeline` |
| `LossesAreCounted` | `Spec => []LossIsCounted`, provided `Failures = {}` |
| `TypeCorrect` | `Spec => []TypeOK` |
| `SyncInvariant`, `LineInvariant`, `FormsInvariant`, `ExitInvariant`, `PlacedInvariant`, `ProgressInvariant` | the invariants these rest on |

No single formula could be carried through the thirty steps of the system, so
the invariant is a tower whose floors are each inductive given those below.
`SyncInv` needs nothing else: which of the trainer's thread and the three remote
calls are under way together, how the trainer's version, the weights and the
rollouter's version differ at each of those places, and that the servers are
paused from the cancel of a pause to the end of the resume. The refinement of
`VersionSync` and the two properties of a transfer are corollaries. `Line` is
about the lock alone: who waits for it or holds it over a suspension is in the
line, once, and who holds it is first. That it excludes is then no assumption of
the model. `Forms` says what every queue, task, call and counter can hold, and
that no label is ahead of the rollouter's version. `Concurrency` strengthens
`ConcurrencyBound` by what the processor found when it last counted: between
that count and the submission, over an `await` for the lock and possibly a
pause, only the number of tasks may fall. `Exit` says what is over when the
coroutines that wait for one another have gone on. `Placed` is the heart of the
pipeline: no sample is in two of its ten places, or twice in one. Its proof
first sorts every step of the system by what it does with samples (`Kinds`:
`Within` moves one, `Collects` takes the oldest of the queue, `Delivers` may
push one out, `Breaks` loses one, ...); that each kind keeps samples apart, and
which abstract step it is, are then proved per kind and not per action.
`Progress` bounds the versions by the samples trained on, which is the one bound
in `TypeOK` that no type gives. `LossesAreCounted` has the condition the property
has in the run: what a raising generation or merge loses is counted nowhere in
the code. All of these invariants were also checked by TLC on a small instance.

`SynchronousProofs` adds what holds with `staleness_threshold = 0`, whatever the
other constants, `partial_rollout` and whatever raises included:

| Theorem | Says |
|---|---|
| `TrainingIsOnPolicy` | `Spec => []OnPolicy`, provided `StaleNum = 0` |
| `NoInterruption` | `Spec => []NothingInterrupted`, provided `StaleNum = 0` |
| `CountIsCovered` | `Spec => []StalenessCovers`, provided `StaleNum = 0` |
| `SynchronousInvariant` | the invariant of the three, `Synchronous`, under the same condition |
| `FinishInvariant`, `ServersInvariant` | two more floors, in either mode |

The condition is the mode the README of the recipe promises this of; with a
threshold above zero all three stop to hold. Until the finish signal, the
invariant counts. The samples ahead of the trainer (`Ahead`: from the task to the
batch) and those trained on since the last synchronization are no more than
`staleness_samples`, and that is no more than `max_required_samples` (`Quota`),
which is then exactly what one version takes (`OneVersion`). The step that
completes a version therefore finds the count at the limit and leaves nothing
ahead (`Empty`). From there to `resume()` the rollouter must stand still, and this
is where order matters. The processor takes nothing, because it is at the limit
until `update_param_version` resets the count, and paused from before that on.
The monitor must not end the pause. It reads `monitor_loop_trigger` and the
counts before it waits for the lock, so one that has read them in time may still
be in line when `pause()` is called. It is then in line before it
(`Order`), since the lock is first come first served and later reads find the
count at the limit, and from the end of `pause()` on the trigger is off (`Still`,
`Untriggered`). A processor that `resume()` wakes needs the lock, and gets it only
after the servers have been resumed (`Waking`), so that no task meets a paused
server. Hence the count starts again from what `update_param_version` finds,
and every label is of the present version (`Current`). At
the finish signal the argument changes: an orderly end has left nothing in the
rollout, and the signal is the last entry of the message queue, so nothing is
under way when the trainer takes it. `Synchronous` was checked by TLC on instances
of both modes of `partial_rollout`; the proof added that no synchronization is
due while `update_param_version` counts, and dropped a condition of `Exit` that
it does not need.

`PartialGenerationProofs` proves, for any set of sequences, any non-empty set of
servers and any lengths and number of synchronizations, from
`PartialGenerationAssumption`:

| Theorem | Says |
|---|---|
| `Quiet` | `Spec => []ServersQuiet` |
| `Seams` | `Spec => []Seamless` |
| `Completion` | `Spec => []CompleteWhenEnded` |
| `Labels` | `Spec => []LabelsBracket` |
| `Growth` | `Spec => GrowsAtTheEnd`, an action property |
| `Bounds` | `Spec => []TypeOK` |
| `TypesInvariant`, `CoordinationInvariant`, `AssemblyInvariant` | the invariants these rest on |

The argument has three layers, each inductive relative to the one before.
`Types` gives the variables their types, without the bounds of `TypeOK`.
`Coordination` is about control: which servers have answered the call of a
phase, that they stay paused from the gather to the resume, that a request
exists only while the task is active, that the task is over once the gather has
passed (unless it was created in the pause race, `raced`), and how `label`,
`version` and `weights` follow one another. `ServersQuiet` follows from it
alone. `Assembly` is about data: the i-th token of a request under way has the
position i behind the response, a version between the label and the weights, and
ends the generation only if it is the last one and the generation is over; a
merged output is its log probabilities cut at `response_length`, so that once
that length is reached only the log probabilities grow. A new token needs
`Coordination` for its version. `MergeFits` is the lemma the rest turns on:
merging what fits a sequence makes an output that fits, whichever way the
request ended; refused, interrupted and finished requests are three uses of it.
`Bounds` adds to the three layers that every position, those of the log
probabilities that are never cut among them, is one a request may generate
(`Within`): what a request adds begins behind the response as it was cut.
Both invariants were checked by TLC on the instance of the run before they were
proved.

`TrainingProofs` proves about `Training`, for any ranks, epochs, batches, save
frequency, warmup and number of crashes:

| Theorem | Says |
|---|---|
| `Loadable` | `Spec => []LatestIsLoadable`, provided `KeepActor # 1` and `KeepCritic # 1` |
| `Resumes` | `Spec => []AutoResume` under the same condition |
| `TrainingTypes` | `Spec => []TypeOK`, without it |

The condition is the code's: with one checkpoint to keep, rotation removes the
one the tracker names before there is another (finding 4), and the run
`checkpoint_gap` shows it. The invariant `IInv` says where the driver may be for
a value of the tracker (`Control`), that steps stay below the bound (`Bounded`),
that weights have as many updates as their step says (`Counted`, not for DAPO,
which may save a step it has not trained), which parts of the checkpoint being
written are there (`Progress`), and, what rotation hangs on, that the last path
a manager remembers is the checkpoint the tracker names, or the one being
written, and all others are older (`SavedInOrder`): with two kept, the victims
are strictly older than what the tracker names (`VictimsOld`).

`RecoveryProofs` adds

| Theorem | Says |
|---|---|
| `ImplementsThePromise` | `Spec => ImplementsRecovery` under the same condition |
| `LagIsBounded` | `Spec => []PolicyLag`, without it |
| `TrainedInOrder` | `Spec => []BatchesInOrder`, without it |
| `KeepsToItsLimit` | `Spec => []KeptBounded`, without it |

For the first the invariant is completed by `Near`: the step the tracker names is
not before the last multiple of `save_freq` the run has passed, and the tracker
is empty only between its opening and its writing, or for good. Each driver step
then maps to one step of `Recovery` or to none; that a training step never
carries the run more than `save_freq` past what is durable is the lemma `Marks`
on remainders. For the second, `Lag` says of every place in `fit()` how far the
weights of the generation ahead, of the batch and of the rollout workers are
behind the actor's; it does not depend on what is on disk. `Lag`, `Near` and the
parts of `IInv` they use hold on the instance of the run.

`TrainedInOrder` follows from `Order`, which has three sides. `InMemory`: what
the critic was trained on is in order, and the actor's weights end it. `Ahead`:
which place comes next, in `fit()` by place; for one step off, when a generation
runs ahead, it is the place of that generation, for DAPO the batch gathered so far
continues the weights. `OnDisk`: if everything of the checkpoint the tracker
names can be read, its weights are in order and its `data.pt` is the place that
belongs to them, which for one step off is one too far unless the data was at
its end. `Past` ties the three together: every step resumed from is behind, so
that what `resumed` and `cut` say of a step never changes once weights depend on
it. Because `OnDisk` speaks only of what can be read, no number of kept checkpoints
has to be excluded; with one kept, a restart may fail but never trains out of
order. `Order` holds on the run's instance, and on one that keeps one checkpoint.

For `KeepsToItsLimit` the whole checkpoints of a role are divided into those of
the run (what its manager remembers, and the one being written) and those
`LeftBehind`: the first are no more than are to be kept (`Capped`), because
rotation comes before the new path is remembered, and a crash turns at most that
many into the second, which no later run touches but by writing over them.
`TrainingTypes` needs the same list in the order of its steps, and that DAPO
gives up after `max_num_gen_batches`; its invariant `Ok` has a part for the disk,
the managers, the place in the data and the batch.

The proof of `ImplementsThePromise` found an
error in the model: two branches of the refinement mapping's `CASE`s
overlapped, for which TLA+ takes either value and TLC the first. They are
disjoint now.

`AgentRolloutProofs` first proves about `Batches` that the chunks of a batch,
concatenated, are the batch (`ChunksJoin`), and the lemmas on padding and
repetition the rollouts need; then, about `AgentRollout`, for any servers, any
configurations of workers, rows and copies, any lengths and any plan:

| Theorem | Says |
|---|---|
| `AnswersInOrder` | `Spec => []RowsAligned` |
| `ScoreOnSampled` | `Spec => []ScoredOnAction` |
| `FreshWeights` | `Spec => []OnPolicyRollout`, provided `FreeCacheEngine` |
| `RolloutTypes` | `Spec => []TypeOK` |
| `OneServer` | `Spec => []SessionsStick`, provided `Roomy` |

Without `FreeCacheEngine` the third is false (finding 5). `Roomy` says that the cache
of a worker has room for its share of a batch, which the code's 10000 is meant
to be; the run's instance satisfies it with nothing to spare. The invariant says of every
conversation that its mask and logprobs are those of its tokens and its sampled
tokens those of the actor's present weights (`Aligned`), and of its state
(`Placed`) that without users the response has room before every generation
and ends in a sampled token after it; of the conversations together that each
has the prompt of its place in the chunks (`ByPhase`); of the servers that those
awake have the actor's weights (`Asleep` and `Basics`). That the score falls on
a sampled token needs the strict `<` of the tool handler (line 367); `Fits`
with `<=` is the mutant that breaks it.

The last two rest on a second invariant, `Full`, and on what a step of a
conversation adds to its tokens (`Continues`: what it had, an observation, or
tokens of the server it waited for). `Full` says that a cache is in the order of
the batches its requests are of (`Sorted`), that those of the present batch are
of this worker's conversations (`Recent`), that no server has been given two
requests more than another (`Even`), and that weights are no newer than the
updates. For `OneServer`, every token of a conversation, and the server it waits
for, is in the cache of its worker (`AllRemembered`). That holds although a full
cache drops its first entry: were that of the present batch, so would be all the
others, and with the conversation that is asking for room there would be more of
them than the worker has (`OldestIsOld`, by the pigeonhole principle).

*Only model-checked:* all liveness (`ShutdownAnswers`, `SyncCompletes`,
`Termination`, `PauseCompletes`, both `Completes`), which needs fairness and is
out of the prover's reach. Every invariant, action property and refinement
that a run checks is also a theorem.

## 5. Findings

Each is a behaviour of the code, found while modelling, that contradicts a
comment or the recipe's README; TLC's trace is the evidence.

1. *Standoff* (`NoStandoff`). `update_param_version` adds four lengths, with an
   `await` before the last. A sample whose task has ended but was not reaped is
   counted in `active_tasks`, again in `result_queue`, and again in the message
   queue when the consumer puts it during the `await`. `staleness_samples` can
   reach `max_required_samples` with nothing outstanding: the rollouter waits for
   the next version, the trainer for the samples that make it, for ever.
2. *Monitor race* (`QuietTransfer`). The monitor decides to unpause before it has
   the lock. When `pause()` is ahead of it in line, the monitor then undoes that
   pause, and the processor adds tasks while the weights are transferred.
3. *Unbound local* (`ProcessorSurvives`). When `pause()` clears `active_tasks`
   while the processor waits for the lock, the processor skips
   `asyncio.wait` as intended and then iterates over `done_tasks`, which no
   earlier iteration may have assigned.
4. *Checkpoint gap* (`AutoResume`). `save_checkpoint` removes what exceeds
   `max_ckpt_to_keep` before the new checkpoint is written, and the tracker
   follows last. With one checkpoint kept, a crash in between leaves the tracker
   naming a folder without shards, and every restart raises.
5. *Stale weights* (`OnPolicyRollout`). `generate_sequences` wakes the servers up
   only if `free_cache_engine` is set, and nothing else sends them weights: with
   it off, every answer comes from the weights the engines were created with.
6. *No finish signal* (`FinishIsSent`). Nobody awaits the consumer's task. When
   `merge_rollout_sample` raises, `result_queue.join()` never returns, and the
   trainer blocks for ever.

Others were seen and have no run.

- `put_sample` returns False for a sample it has stored (its docstring says
  otherwise; only a statistic depends on it).
- The sample the processor holds is in none of the counts of
  `update_param_version`, so that a version can start with more samples under
  way than `staleness_threshold` allows for.
- After `"DONE"` the processor waits for its tasks and leaves; a sample
  interrupted then stays in `cancel_queue` (`Drained` excuses it).
- `get_validate` pops the oldest result and the trainer one per step, so what it
  reports in the end may belong to an earlier version.
- `LabelsBracket` would fail without its condition `~raced`: in the wake of
  finding 2 a request may be labelled with one version and generated by the next.
- A crash between the emptying and the writing of the tracker ends a run for
  good (`Completes` and `Recovery` name this gap).
- The one-step-off recipe saves the dataloader behind the batch it is
  generating: every resume skips one batch, and a resumed run may run out of
  data before its last step and then does not save (`BatchesInOrder` and
  `Completes` say exactly how far).
- With `val_before_train` a resumed run of the same recipe validates the initial
  weights: its rollout workers are given the loaded ones with the first
  generation only (`PolicyLag` says so).
- `main` awaits the feeder before the processor. When a generation raises with
  more left to feed than `pending_queue` holds, the processor is dead, the feeder
  blocks in `put`, and the exception, the `finally` and the finish signal behind
  them are never reached; the trainer blocks for ever. `Termination` names this
  state (`Stranded`) and would fail without it; `FinishIsSent` fails on it too,
  with `Failures = {"generate"}` and `PendingCap` 2 in `FinishSignal.cfg`.
- A request cancelled before its first token leaves its entries in
  `cancel_event` and `req_output` for good.
- An interaction may make a prompt as long as the model allows, upon which the
  next request raises, or end the conversation with a user's turn, whose last
  token is scored and masked (`ScoredOnAction` leaves interactive agents out).
- The workers shuffle the servers to spread first requests, but ties in the heap
  are ordered by a hash that is the same in all of them.
- The one-step-off recipe takes any exception of the dataset for the end of the
  data.
- DAPO, when the data ends in the middle of a step, saves a step it has not
  trained, and does not save if a crashed save has left a folder of that name.

## 6. Not modelled, and the plan

Not modelled, with reasons, in `PROJECT.json`. The map covers a small share of
the repository's 98 thousand lines, and a large share is out of reach in
principle: losses and advantages (`core_algos.py`), fused kernels, model
definitions, weight resharding and conversion are floating-point computations on
tensors; the engine wrappers (`sglang_rollout.py`, `vllm_rollout_spmd.py`, the
FSDP and Megatron engines) translate calls of libraries that are not in the
repository; the single controller is reflection over Ray; reward scoring is
string matching. The control of the trainers is short next to what it calls: a
`fit()` of 350 lines is a dozen actions.

- *PRIME, SPIN, SPPO.* Variants of the PPO driver with losses of their own. What
  is their own in the control follows from a few lines without an interleaving:
  PRIME increments `global_steps` before it compares it, so that the last step
  is not trained (`prime_ray_trainer.py:541`); SPIN's `_load_checkpoint` returns
  nothing, so that every resume counts from step 1 (`spin_trainer.py:850`, a
  listed hazard), and its reference update enters a temporary folder into the
  list that rotation works on (`spin_trainer.py:937`).
- *SFT trainers and `CheckpointHandler`.* Sequential, but for ranks that write
  their data files without a barrier before the tracker; two hazards are listed.
- *Tools and their clients.* A semaphore shared by name between three tools
  (`sandbox_fusion_tools.py:71`), and a token bucket that depends on real time
  and that never holds a whole token when its rate is below one a second
  (`mcp_clients/utils.py:36`). `AgentLoop` takes from them that a call answers
  or fails.
- *Megatron checkpoints.* Asynchronous saves whose last part nothing in the
  repository schedules.
- *Sequence-length balancing.* Recursive partitioning over data; what it
  computes for every input is beyond the prover, and unit tests compare it with
  its definition.

What is left of the plan:

1. *Abstract server.* `PartialGeneration` shown to implement what `Rollouter`
   assumes of a server.
2. *SFT drivers* with the handler's data files per rank, and the tools' shared
   limiter.
