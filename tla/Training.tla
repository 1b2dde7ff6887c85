------------------------------- MODULE Training -----------------------------
(***************************************************************************)
(* The driver of a training run between crashes: fit() of RayPPOTrainer    *)
(* (verl/trainer/ppo/ray_trainer.py), of OneStepOffRayTrainer (recipe/     *)
(* one_step_off_policy/ray_trainer.py), which generates the next batch     *)
(* while it trains on the last, and of RayDAPOTrainer (recipe/dapo/        *)
(* dapo_ray_trainer.py), which generates batches until enough prompts have *)
(* passed its filter, with the checkpoints they write and load.  A crash   *)
(* may come at any moment; a run that is down is started again with        *)
(* resume_mode = "auto".                                                   *)
(***************************************************************************)
EXTENDS Checkpoints

CONSTANTS
  BatchesPerEpoch,  \* len(train_dataloader)
  EpochChoices,     \* values of trainer.total_epochs
  SaveFreq,         \* trainer.save_freq
  TestFreq,         \* trainer.test_freq
  CriticWarmup,     \* trainer.critic_warmup
  PromptBatch,      \* data.train_batch_size, in prompts (dapo)
  GenBatch,         \* data.gen_batch_size, in prompts (dapo)
  MaxGenBatches,    \* algorithm.filter_groups.max_num_gen_batches, 0 for any
  Esi,              \* whether the instance may be about to expire
  MaxCrashes        \* bound on the crashes

ASSUME TrainingAssumption ==
  /\ BatchesPerEpoch \in Nat \ {0}
  /\ EpochChoices \subseteq Nat \ {0} /\ EpochChoices # {}
  /\ SaveFreq \in Nat \ {0}
  /\ TestFreq \in Nat
  /\ CriticWarmup \in Nat
  /\ PromptBatch \in Nat \ {0} /\ GenBatch \in Nat \ {0}
  /\ MaxGenBatches \in Nat
  /\ Esi \in BOOLEAN
  /\ MaxCrashes \in Nat
  /\ \A e \in EpochChoices : BatchesPerEpoch * e + MaxCrashes <= MaxStep

VARIABLES
  recipe,           \* "ppo", "one_step_off" or "dapo"
  total_epochs,
  pc,               \* where the driver is
  epoch,            \* the epoch of its loop
  batch,            \* the generations this step will train on
  kept,             \* dapo: prompts in them that have passed the filter
  closing,          \* dapo: whether the data has ended before the steps
  future,           \* one_step_off: <<>> or the batch being generated
  rollout,          \* one_step_off: actor updates in the weights of rollout_wg
  validated,        \* the last validation: actor updates then, and those it saw
  resumed,          \* the steps that were resumed from
  cut,              \* the steps at which the data has ended before the last
  crashes

configVars == <<recipe, total_epochs>>
loopVars == <<epoch, pos, batch, kept, closing, future, rollout>>
pastVars == <<resumed, cut, crashes>>
vars == <<configVars, saveVars, global_steps, weights, pc, loopVars, validated,
          pastVars>>

Total == BatchesPerEpoch * total_epochs
IsLastStep == global_steps >= Total
Updates == Len(weights["actor"])
Initial == [role \in AllRoles |-> <<>>]

\* What a process that starts has.
Volatile ==
  /\ global_steps' = 0 /\ weights' = Initial
  /\ epoch' = 0 /\ pos' = 0 /\ batch' = <<>> /\ future' = <<>> /\ rollout' = 0
  /\ kept' = 0 /\ closing' = FALSE
  /\ saved' = [role \in AllRoles |-> <<>>] /\ job' = NoJob

Init ==
  /\ CheckpointsInit
  /\ recipe \in {"ppo", "one_step_off", "dapo"} /\ total_epochs \in EpochChoices
  /\ global_steps = 0 /\ weights = Initial
  /\ epoch = 0 /\ pos = 0 /\ batch = <<>> /\ future = <<>> /\ rollout = 0
  /\ kept = 0 /\ closing = FALSE
  /\ pc = "down"
  /\ validated = [updates |-> 0, seen |-> 0, at |-> "start"]
  /\ resumed = {} /\ cut = {} /\ crashes = 0

-----------------------------------------------------------------------------
\* _load_checkpoint with resume_mode = "auto".  int() raises on an empty
\* tracker, torch.load on a file that is not whole; a run that raises here
\* raises every time it is started.
LoadNothing ==
  /\ tracker = Missing
  /\ pc' = "loaded"
  /\ UNCHANGED <<global_steps, weights, pos, resumed>>

\* Mutants: the place in the data is not restored; the step is that after.
FromTheStart(k) == 0
TheNext(k) == k + 1

RestoredPos(k) == PosAt(k)
RestoredStep(k) == k

LoadLatest ==
  /\ tracker \in Steps
  /\ IF Readable(tracker)
     THEN /\ \E r \in Ranks : weights' = WeightsAt(tracker, r)
          /\ global_steps' = RestoredStep(tracker)
          /\ pos' = RestoredPos(tracker)
          /\ resumed' = resumed \cup {tracker}
          /\ pc' = "loaded"
     ELSE /\ pc' = "broken"
          /\ UNCHANGED <<global_steps, weights, pos, resumed>>

LoadTorn ==
  /\ tracker = Torn
  /\ pc' = "broken"
  /\ UNCHANGED <<global_steps, weights, pos, resumed>>

Load ==
  /\ pc = "down"
  /\ LoadNothing \/ LoadLatest \/ LoadTorn
  /\ UNCHANGED <<configVars, saveVars, epoch, batch, kept, closing, future,
                 rollout, validated, cut, crashes>>

-----------------------------------------------------------------------------
\* _validate generates with the weights of actor_rollout_wg, which the one
\* step off recipe makes rollout_wg for the time of a validation.
Seen == IF recipe = "one_step_off" THEN rollout ELSE Updates

Validation ==
  validated' = [updates |-> Updates, seen |-> Seen,
                at |-> CASE pc = "loaded" -> "start"
                         [] pc # "loaded" /\ (IsLastStep \/ future = <<>>) -> "end"
                         [] OTHER -> "step"]

\* val_before_train, then "we start from step 1".
ValidateFirst ==
  /\ pc = "loaded"
  /\ Validation
  /\ global_steps' = global_steps + 1
  /\ pc' = IF recipe = "one_step_off" THEN "first" ELSE "next"
  /\ UNCHANGED <<configVars, saveVars, weights, loopVars, pastVars>>

\* The dataloader, epoch after epoch.
HasNext == pos < BatchesPerEpoch \/ epoch + 1 < total_epochs

\* Mutant: an epoch never ends.
PullOn == pos' = pos + 1 /\ UNCHANGED epoch

PullNext ==
  IF pos < BatchesPerEpoch THEN pos' = pos + 1 /\ UNCHANGED epoch
                           ELSE pos' = 1 /\ epoch' = epoch + 1

\* Mutant: the weights of rollout_wg are those of the step before.
NotSynced == rollout

\* The weights that generate the next batch: the hybrid engine's own, or those
\* sync_rollout_weights has just sent to rollout_wg.
Synced == Updates

Generated(p) == <<[pos |-> p, updates |-> Synced]>>

\* RayPPOTrainer.fit: a batch is read and generated at the top of the loop.
NextBatch ==
  /\ pc = "next" /\ recipe = "ppo"
  /\ \/ /\ HasNext
        /\ PullNext
        /\ batch' = Generated(pos')
        /\ pc' = "train"
     \/ /\ ~HasNext
        /\ pc' = "done"
        /\ UNCHANGED <<pos, epoch, batch>>
  /\ UNCHANGED <<configVars, saveVars, global_steps, weights, kept, closing,
                 future, rollout, validated, pastVars>>

Accumulated(p) == batch \o Generated(p)

\* RayDAPOTrainer.fit: n prompts of a generation pass the filter.  Too few
\* of them, and the loop goes on with the next batch, or gives up; too many,
\* and the batch is cut to its size.
DynamicSampling ==
  /\ pc = "next" /\ recipe = "dapo" /\ HasNext
  /\ PullNext
  /\ batch' = Accumulated(pos')
  /\ \E n \in 0..GenBatch :
        \/ /\ kept + n >= PromptBatch
           /\ kept' = PromptBatch
           /\ pc' = "train"
        \/ /\ kept + n < PromptBatch
           /\ kept' = kept + n
           /\ IF MaxGenBatches = 0 \/ Len(batch') < MaxGenBatches
              THEN pc' = "next" ELSE pc' = "failed"
  /\ UNCHANGED <<configVars, saveVars, global_steps, weights, closing, future,
                 rollout, validated, pastVars>>

\* The data has ended: what was generated last is left, and the step that was
\* not trained is saved as the last, unless there is a folder of this name.
DataEnds ==
  /\ pc = "next" /\ recipe = "dapo" /\ ~HasNext
  /\ closing' = TRUE
  /\ cut' = cut \cup {global_steps}
  /\ pc' = IF global_steps \in folders THEN "done" ELSE "save"
  /\ UNCHANGED <<configVars, saveVars, global_steps, weights, epoch, pos, batch,
                 kept, future, rollout, validated, resumed, crashes>>

\* _async_gen_next_batch of the one step off recipe.
AsyncGenNextBatch ==
  \/ /\ HasNext
     /\ PullNext
     /\ rollout' = Synced
     /\ future' = Generated(pos')
  \/ /\ ~HasNext
     /\ future' = <<>>
     /\ UNCHANGED <<pos, epoch, rollout>>

FirstGeneration ==
  /\ pc = "first"
  /\ AsyncGenNextBatch
  /\ pc' = "loop"
  /\ UNCHANGED <<configVars, saveVars, global_steps, weights, batch, kept,
                 closing, validated, pastVars>>

\* The batch generated is taken, and the next generation started, before the
\* step trains.
TakeGenerated ==
  /\ pc = "loop"
  /\ \/ /\ future # <<>>
        /\ batch' = future
        /\ pc' = "train"
        /\ \/ ~IsLastStep /\ AsyncGenNextBatch
           \/ IsLastStep /\ UNCHANGED <<pos, epoch, future, rollout>>
     \/ /\ future = <<>>
        /\ pc' = "done"
        /\ UNCHANGED <<epoch, pos, batch, future, rollout>>
  /\ UNCHANGED <<configVars, saveVars, global_steps, weights, kept, closing,
                 validated, pastVars>>

\* update_critic, and update_actor once the critic is warm.
Trains(role) ==
  \/ role = "critic" /\ UseCritic
  \/ role = "actor" /\ CriticWarmup <= global_steps

\* The places in the data a step trains on.
Places(generations) == [i \in DOMAIN generations |-> generations[i].pos]

Train ==
  /\ pc = "train"
  /\ weights' = [role \in AllRoles |->
                   IF Trains(role) THEN weights[role] \o Places(batch)
                                   ELSE weights[role]]
  /\ cut' = IF recipe = "one_step_off" /\ future = <<>>
            THEN cut \cup {global_steps} ELSE cut \ {global_steps}
  /\ pc' = "test"
  /\ UNCHANGED <<configVars, saveVars, global_steps, loopVars, validated,
                 resumed, crashes>>

Test ==
  /\ pc = "test"
  /\ \/ /\ TestFreq > 0 /\ (IsLastStep \/ global_steps % TestFreq = 0)
        /\ Validation
     \/ /\ ~(TestFreq > 0 /\ (IsLastStep \/ global_steps % TestFreq = 0))
        /\ UNCHANGED validated
  /\ pc' = "save"
  /\ UNCHANGED <<configVars, saveVars, global_steps, weights, loopVars, pastVars>>

\* Mutant: the last step is not saved.
OnlyPeriodically == global_steps % SaveFreq = 0

MustSave == closing \/ IsLastStep \/ global_steps % SaveFreq = 0

\* Only fit() of the PPO trainer looks at the expiration of the instance.
MaySave == MustSave \/ (Esi /\ recipe = "ppo")

Save ==
  /\ \/ /\ pc = "save" /\ MaySave
        /\ SaveBegin
        /\ pc' = "saving"
        /\ UNCHANGED <<diskVars, saved>>
     \/ /\ pc = "save" /\ ~MustSave
        /\ pc' = "end"
        /\ UNCHANGED saveVars
     \/ /\ pc = "saving"
        /\ SaveNext
        /\ UNCHANGED pc
     \/ /\ pc = "saving" /\ job.stage = "over"
        /\ job' = NoJob
        /\ pc' = "end"
        /\ UNCHANGED <<diskVars, saved>>
  /\ UNCHANGED <<configVars, global_steps, weights, loopVars, validated, pastVars>>

EndStep ==
  /\ pc = "end"
  /\ global_steps' = global_steps + 1
  /\ batch' = <<>> /\ kept' = 0
  /\ pc' = IF closing \/ IsLastStep THEN "done"
           ELSE IF recipe = "one_step_off" THEN "loop" ELSE "next"
  /\ UNCHANGED <<configVars, saveVars, weights, epoch, pos, closing, future,
                 rollout, validated, pastVars>>

Crash ==
  /\ pc \notin {"down", "done", "failed", "broken"}
  /\ crashes < MaxCrashes
  /\ crashes' = crashes + 1
  /\ Volatile
  /\ pc' = "down"
  /\ UNCHANGED <<configVars, diskVars, validated, resumed, cut>>

Driver ==
  \/ Load \/ ValidateFirst \/ NextBatch \/ DynamicSampling \/ DataEnds
  \/ FirstGeneration \/ TakeGenerated \/ Train \/ Test \/ Save \/ EndStep

Next == Driver \/ Crash

Spec == Init /\ [][Next]_vars

\* The driver goes on, and whoever started the job starts it again.
FairSpec == Spec /\ WF_vars(Driver)
-----------------------------------------------------------------------------
\* Batches as their place in the epoch; what follows p, and what follows that.
Place == 1..BatchesPerEpoch
After(p) == IF p < BatchesPerEpoch THEN p + 1 ELSE 1
\* The steps in the weights there are, with the one that dapo counts when its
\* data ends.
Trained == CASE pc \in {"down", "broken"} -> 0
             [] pc \in {"next", "first", "loop", "train", "done", "failed"} -> global_steps - 1
             [] OTHER -> global_steps

\* How often a role has been updated when k steps have trained.
UpdatesAfter(role, k) ==
  IF role = "critic" THEN IF UseCritic THEN k ELSE 0
  ELSE LET first == IF CriticWarmup = 0 THEN 1 ELSE CriticWarmup
       IN  IF k < first THEN 0 ELSE k - first + 1

\* What has been trained is what the tracker names.
Durable ==
  /\ tracker \in Steps
  /\ \A role \in Roles, r \in Ranks : shards[role][tracker][r] = <<weights[role]>>

(***************************************************************************)
(* Every variable has its type, and a manager lists the steps it saved in  *)
(* order, each once.                                                       *)
(***************************************************************************)
TypeOK ==
  /\ shards \in [AllRoles -> [Steps -> [Ranks -> {<<>>} \cup
                   {s \in Seq(Seq(Place)) : Len(s) = 1}]]]
  /\ folders \subseteq Steps
  /\ data \in [Steps -> {Missing, Torn} \cup (0..BatchesPerEpoch)]
  /\ tracker \in {Missing, Torn} \cup Steps
  /\ \A role \in AllRoles :
       /\ saved[role] \in Seq(Steps)
       /\ \A i, j \in DOMAIN saved[role] : i < j => saved[role][i] < saved[role][j]
  /\ job.stage \in {"idle", "actor", "critic", "data", "tracker", "over"}
  /\ job.phase \in {"rotate", "open", "write"}
  /\ job.written \subseteq job.opened /\ job.opened \subseteq Ranks
  /\ global_steps \in Nat
  /\ weights \in [AllRoles -> Seq(Place)]
  /\ pos \in 0..BatchesPerEpoch /\ epoch \in 0..(total_epochs - 1)
  /\ batch \in Seq([pos : Place, updates : Nat])
  /\ recipe # "dapo" => Len(batch) <= 1 /\ kept = 0 /\ ~closing
  /\ MaxGenBatches > 0 => Len(batch) <= MaxGenBatches
  /\ kept \in 0..PromptBatch
  /\ future \in Seq([pos : Place, updates : Nat]) /\ Len(future) <= 1
  /\ rollout \in Nat
  /\ resumed \subseteq Steps /\ cut \subseteq Steps /\ crashes \in 0..MaxCrashes

(***************************************************************************)
(* The tracker never names a checkpoint that cannot be loaded: whatever    *)
(* has crashed wherever, every shard of every role in the folder it names  *)
(* is whole, the ranks' shards are of one model, as many updates old as    *)
(* the folder says (but for dapo, which saves a step it has not trained),  *)
(* and the place in the data is there.  (Rotation of one kept checkpoint   *)
(* is the exception, see the run checkpoint_gap.)                          *)
(***************************************************************************)
LatestIsLoadable ==
  tracker \in Steps =>
    /\ data[tracker] >= 0
    /\ \A role \in Roles, r \in Ranks :
         /\ shards[role][tracker][r] # <<>>
         /\ recipe # "dapo" =>
              Len(shards[role][tracker][r][1]) = UpdatesAfter(role, tracker)
         /\ \A s \in Ranks : shards[role][tracker][s] = shards[role][tracker][r]

(***************************************************************************)
(* "If set to auto as default, the program will automatically resume from  *)
(* the latest checkpoint in the default_local_dir" (docs/examples/         *)
(* config.rst:592): a run that is started again fails to, if ever, only on *)
(* an emptied tracker.                                                     *)
(***************************************************************************)
AutoResume == pc = "broken" => tracker = Torn

(***************************************************************************)
(* Checkpoints do not pile up: a run keeps max_ckpt_to_keep of a role (and *)
(* the one being written), but previous_saved_paths is lost with the       *)
(* process, so each run leaves its own behind.                             *)
(***************************************************************************)
KeptBounded ==
  \A role \in Roles : Keep[role] > 0 =>
    Cardinality({k \in Steps : Complete(role, k)}) <= Keep[role] * (crashes + 1)

(***************************************************************************)
(* Every batch is trained on once and in order, through any crashes, and   *)
(* actor and critic stay in step; but the one step off recipe saves the    *)
(* place in the data after it has taken the next batch, and each resume    *)
(* skips exactly that one.  Dapo looks at every batch once and in order,   *)
(* and trains on what it has kept of it in the next step there is, unless  *)
(* it is resumed from where the data has ended: those looked at last are   *)
(* lost.                                                                   *)
(***************************************************************************)
BatchesInOrder ==
  UseCritic /\ pc \notin {"down", "broken"} =>
    LET w == weights["critic"]
    IN  /\ recipe # "dapo" =>
             Len(w) = Trained /\ Updates = UpdatesAfter("actor", Trained)
        /\ Len(w) > 0 /\ (recipe = "dapo" => resumed \cap cut = {}) => w[1] = 1
        /\ \A i \in 1..(Len(w) - 1) :
             \/ w[i + 1] = IF recipe = "one_step_off" /\ i \in resumed \ cut /\ i < Total
                           THEN After(After(w[i])) ELSE After(w[i])
             \/ recipe = "dapo" /\ resumed \cap cut # {}
        /\ weights["actor"] = SubSeq(w, Len(w) - Updates + 1, Len(w))

(***************************************************************************)
(* The PPO trainer and dapo, for all the generations of a step, generate   *)
(* and validate with the weights they train; the one step off recipe trains *)
(* on batches at most one update old ("a one-step off policy",             *)
(* README.md:31 of the recipe) and validates weights one update old, two   *)
(* at a step that starts no generation and so sends no weights: the last,  *)
(* or the last there is data for.  Its first validation is of the initial  *)
(* weights, whatever has been resumed.                                     *)
(***************************************************************************)
PolicyLag ==
  /\ pc = "train" => \A i \in DOMAIN batch :
       Updates - batch[i].updates \in IF recipe = "one_step_off" THEN {0, 1} ELSE {0}
  /\ IF recipe = "one_step_off"
     THEN CASE validated.at = "start" -> validated.seen = 0
            [] validated.at = "step" -> validated.updates - validated.seen <= 1
            [] OTHER -> validated.updates - validated.seen <= 2
     ELSE validated.seen = validated.updates

(***************************************************************************)
(* Every run ends, after any crashes, with the last step in the checkpoint *)
(* the tracker names and with nothing trained that this does not hold,     *)
(* unless a crash has emptied the tracker, or a resumed run of the one     *)
(* step off recipe has run out of data before its last step, and saves     *)
(* nothing then.  Dapo may give up, or run out of data before the last     *)
(* step; it then saves what it has trained, unless a save that crashed has *)
(* left a folder of the same name.                                         *)
(***************************************************************************)
Completes ==
  <>[](\/ pc = "broken" /\ tracker = Torn
       \/ pc = "done" /\ Durable /\ (recipe = "dapo" \/ tracker >= Total)
       \/ pc = "done" /\ recipe = "one_step_off" /\ resumed # {} /\ Trained < Total
       \/ pc = "failed" /\ recipe = "dapo"
       \/ pc = "done" /\ recipe = "dapo" /\ closing /\ global_steps \in folders)

\* A crash with an empty tracker: what was durable is lost.
Stuck == tracker = Torn /\ pc \in {"down", "broken"}

Rec == INSTANCE Recovery WITH
  Interval <- SaveFreq,
  phase <- CASE Stuck -> "stuck"
             [] ~Stuck /\ pc \in {"down", "failed"} -> "down"
             [] OTHER -> "up",
  durable <- CASE tracker = Torn -> IF Stuck THEN 0 ELSE global_steps
               [] tracker = Missing -> 0
               [] OTHER -> tracker,
  step <- CASE Stuck -> 0
            [] ~Stuck /\ pc \in {"down", "failed"} -> IF tracker = Missing THEN 0 ELSE tracker
            [] OTHER -> Trained

(***************************************************************************)
(* Training loops and checkpoint managers implement the recovery promise:  *)
(* a crash costs at most save_freq steps and a restart goes on from the    *)
(* last checkpoint, with the one gap of an emptied tracker.                *)
(***************************************************************************)
ImplementsRecovery == Rec!Spec
=============================================================================
