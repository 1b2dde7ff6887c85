----------------------------- MODULE Checkpoints ----------------------------
(***************************************************************************)
(* The checkpoints of a training run on disk, and the steps in which       *)
(* _save_checkpoint (verl/trainer/ppo/ray_trainer.py) and the FSDP         *)
(* checkpoint managers of the actor and of the critic (verl/utils/         *)
(* checkpoint/) write them.  A step is what is on disk between two file    *)
(* operations, because a crash may fall between any two.                   *)
(*                                                                         *)
(* The weights of a model are the sequence of the batches it was trained   *)
(* on.  A file cut short cannot be read, as one that is not there.         *)
(***************************************************************************)
EXTENDS Integers, Sequences, FiniteSets

CONSTANTS
  UseCritic,    \* whether the algorithm has a critic
  KeepActor,    \* max_actor_ckpt_to_keep, 0 for null
  KeepCritic,   \* max_critic_ckpt_to_keep, 0 for null
  Ranks,        \* the ranks of a worker group, each with its own shard
  MaxStep       \* bound on the steps of all runs together

ASSUME CheckpointsAssumption ==
  /\ UseCritic \in BOOLEAN
  /\ KeepActor \in Nat /\ KeepCritic \in Nat
  /\ IsFiniteSet(Ranks) /\ Ranks # {}
  /\ MaxStep \in Nat \ {0}

VARIABLES
  shards,       \* on disk: role, global_step_k and rank -> <<>> or <<weights>>
  data,         \* on disk: global_step_k/data.pt
  tracker,      \* on disk: latest_checkpointed_iteration.txt
  folders,      \* on disk: the k for which there is a folder global_step_k
  saved,        \* role -> previous_saved_paths of its manager, as steps
  job,          \* where _save_checkpoint is
  global_steps, \* self.global_steps of the driver
  weights,      \* role -> the weights the workers hold
  pos           \* batches the dataloader has yielded in this epoch

diskVars == <<shards, data, tracker, folders>>
saveVars == <<diskVars, saved, job>>

AllRoles == {"actor", "critic"}
Roles == IF UseCritic THEN AllRoles ELSE {"actor"}
Steps == 1..MaxStep
Keep == [actor |-> KeepActor, critic |-> KeepCritic]

Missing == -1   \* no such file
Torn == -2      \* a file opened for writing and not written

NoJob == [stage |-> "idle", phase |-> "open", opened |-> {}, written |-> {}]
JobAt(stage, phase) ==
  [stage |-> stage, phase |-> phase, opened |-> {}, written |-> {}]

CheckpointsInit ==
  /\ shards = [role \in AllRoles |-> [k \in Steps |-> [r \in Ranks |-> <<>>]]]
  /\ data = [k \in Steps |-> Missing]
  /\ tracker = Missing
  /\ folders = {}
  /\ saved = [role \in AllRoles |-> <<>>]
  /\ job = NoJob

-----------------------------------------------------------------------------
\* _save_checkpoint: the actor, the critic, the dataloader, the tracker.
SaveBegin == job' = JobAt("actor", "rotate")

\* Mutant: nothing is removed.
NotRotated(role) == 0

\* What exceeds max_ckpt_to_keep before the new one is there.
KeepStart(role) ==
  IF Keep[role] > 0 /\ Len(saved[role]) >= Keep[role]
  THEN Len(saved[role]) - Keep[role] + 1 ELSE 0

Victims(role) == {saved[role][i] : i \in 1..KeepStart(role)}

\* rmtree removes file by file, and leaves global_step_k, the folder above.
RemoveShard ==
  /\ job.stage \in Roles /\ job.phase = "rotate"
  /\ \E k \in Victims(job.stage), r \in Ranks :
        /\ shards[job.stage][k][r] # <<>>
        /\ shards' = [shards EXCEPT ![job.stage][k][r] = <<>>]
  /\ UNCHANGED <<data, tracker, folders, saved, job>>

\* The other ranks remove nothing: one of them may make the folder already.
MakeFolder ==
  /\ job.stage \in Roles /\ job.phase = "rotate"
  /\ \E r, s \in Ranks : r # s
  /\ folders' = folders \cup {global_steps}
  /\ UNCHANGED <<shards, data, tracker, saved, job>>

\* Rank 0 is through, has made it too, and so is the barrier behind it.
Rotated ==
  /\ job.stage \in Roles /\ job.phase = "rotate"
  /\ \A k \in Victims(job.stage), r \in Ranks : shards[job.stage][k][r] = <<>>
  /\ saved' = [saved EXCEPT ![job.stage] =
                 SubSeq(@, KeepStart(job.stage) + 1, Len(@))]
  /\ job' = JobAt(job.stage, "write")
  /\ folders' = folders \cup {global_steps}
  /\ UNCHANGED <<shards, data, tracker>>

OpenShard(r) ==
  /\ job.stage \in Roles /\ job.phase = "write"
  /\ r \notin job.opened
  /\ shards' = [shards EXCEPT ![job.stage][global_steps][r] = <<>>]
  /\ job' = [job EXCEPT !.opened = @ \cup {r}]
  /\ UNCHANGED <<data, tracker, folders, saved>>

WriteShard(r) ==
  /\ job.stage \in Roles /\ job.phase = "write"
  /\ r \in job.opened \ job.written
  /\ shards' = [shards EXCEPT ![job.stage][global_steps][r] = <<weights[job.stage]>>]
  /\ job' = [job EXCEPT !.written = @ \cup {r}]
  /\ UNCHANGED <<data, tracker, folders, saved>>

\* Mutant: the tracker is written before the critic and the dataloader.
TrackerFirst(stage) ==
  CASE stage = "actor" -> "tracker"
    [] stage = "tracker" -> IF UseCritic THEN "critic" ELSE "data"
    [] stage = "critic" -> "data"
    [] OTHER -> "over"

AfterStage(stage) ==
  CASE stage = "actor" -> IF UseCritic THEN "critic" ELSE "data"
    [] stage = "critic" -> "data"
    [] stage = "data" -> "tracker"
    [] OTHER -> "over"

NextJob(stage) ==
  JobAt(AfterStage(stage), IF AfterStage(stage) \in Roles THEN "rotate" ELSE "open")

\* The barrier after the last rank.
RoleSaved ==
  /\ job.stage \in Roles /\ job.phase = "write"
  /\ job.written = Ranks
  /\ saved' = [saved EXCEPT ![job.stage] = Append(@, global_steps)]
  /\ job' = NextJob(job.stage)
  /\ UNCHANGED diskVars

SaveData ==
  /\ job.stage = "data"
  /\ \/ /\ job.phase = "open"
        /\ data' = [data EXCEPT ![global_steps] = Torn]
        /\ job' = JobAt("data", "write")
     \/ /\ job.phase = "write"
        /\ data' = [data EXCEPT ![global_steps] = pos]
        /\ job' = NextJob("data")
  /\ UNCHANGED <<shards, tracker, folders, saved>>

\* open(..., "w") empties the tracker, f.write fills it again.
SaveTracker ==
  /\ job.stage = "tracker"
  /\ \/ /\ job.phase = "open"
        /\ tracker' = Torn
        /\ job' = JobAt("tracker", "write")
     \/ /\ job.phase = "write"
        /\ tracker' = global_steps
        /\ job' = NextJob("tracker")
  /\ UNCHANGED <<shards, data, folders, saved>>

SaveNext ==
  \/ RemoveShard \/ MakeFolder \/ Rotated \/ RoleSaved \/ SaveData \/ SaveTracker
  \/ \E r \in Ranks : OpenShard(r) \/ WriteShard(r)

-----------------------------------------------------------------------------
\* _load_checkpoint of step k raises unless every file it reads is whole; a
\* data.pt that is not there only costs the place in the data.
Readable(k) ==
  /\ \A role \in Roles, r \in Ranks : shards[role][k][r] # <<>>
  /\ data[k] # Torn

\* What rank r reads for each role; the ranks agree if the checkpoint is good.
WeightsAt(k, r) ==
  [role \in AllRoles |-> IF role \in Roles THEN shards[role][k][r][1] ELSE <<>>]

PosAt(k) == IF data[k] = Missing THEN 0 ELSE data[k]

Complete(role, k) == \A r \in Ranks : shards[role][k][r] # <<>>
=============================================================================
