---------------------------- MODULE TrainingProofs --------------------------
(***************************************************************************)
(* The checkpoint the tracker names can be loaded, after any number of     *)
(* crashes, for any number of ranks, steps and epochs, when more than one  *)
(* checkpoint is kept; and, whatever is kept, every variable has its type. *)
(***************************************************************************)
EXTENDS Training, SequenceTheorems, TLAPS

Shard == {<<>>} \cup {<<w>> : w \in Seq(Nat)}

Job == [stage : {"idle", "actor", "critic", "data", "tracker", "over"},
        phase : {"rotate", "open", "write"},
        opened : SUBSET Ranks, written : SUBSET Ranks]

Typed ==
  /\ shards \in [AllRoles -> [Steps -> [Ranks -> Shard]]]
  /\ data \in [Steps -> {Missing, Torn} \cup Nat]
  /\ tracker \in {Missing, Torn} \cup Steps
  /\ saved \in [AllRoles -> Seq(Nat)]
  /\ job \in Job
  /\ global_steps \in Nat /\ pos \in Nat
  /\ weights \in [AllRoles -> Seq(Nat)]
  /\ total_epochs \in Nat /\ crashes \in Nat
  /\ batch \in Seq([pos : Nat, updates : Nat])
  /\ future \in Seq([pos : Nat, updates : Nat])

\* The phases of a step before the tracker is written, and after.
Working == {"next", "first", "loop", "train", "test", "save"}

\* What goes with where the driver is.
Control ==
  /\ pc \in Working \cup {"down", "broken", "loaded", "saving", "end", "done", "failed"}
  /\ pc \in Working => tracker < global_steps /\ global_steps > 0
  /\ pc = "saving" => global_steps > 0 /\ job.stage # "idle"
  /\ pc # "saving" => job.stage = "idle"
  /\ pc = "train" /\ recipe # "dapo" => Len(batch) = 1
  /\ Len(future) <= 1
  /\ pc = "down" => global_steps = 0 /\ weights = Initial
  /\ pc = "loaded" => IF tracker \in Steps THEN tracker = global_steps
                                           ELSE global_steps = 0 /\ tracker < 0
  /\ pc = "saving" /\ job.stage # "over" => tracker < global_steps
  /\ pc = "saving" /\ job.stage = "over" => tracker = global_steps
  /\ pc = "end" => tracker <= global_steps /\ global_steps > 0

\* No folder beyond the last: a run that is resumed after its last step
\* trains one more.
Bounded ==
  /\ Total + MaxCrashes <= MaxStep /\ Total > 0
  /\ crashes <= MaxCrashes
  /\ tracker \in Steps => tracker <= Total + crashes
  /\ pc \in {"down", "loaded"} /\ tracker \in Steps => tracker < Total + crashes
  /\ pc \in Working \cup {"saving", "end"} => global_steps <= Total + crashes

\* The weights have as many updates as steps have trained.
Counted ==
  recipe # "dapo" /\ pc \notin {"down", "broken"} =>
    \A role \in AllRoles : Len(weights[role]) = UpdatesAfter(role, Trained)

\* Which roles the checkpoint being written has.
Done(role) ==
  /\ pc = "saving"
  /\ \/ role = "actor" /\ job.stage \in {"critic", "data", "tracker", "over"}
     \/ role = "critic" /\ job.stage \in {"data", "tracker", "over"}

Written(role, S) ==
  \A r \in S : shards[role][global_steps][r] = <<weights[role]>>

\* The parts of it that are there.
Progress ==
  /\ \A role \in Roles : Done(role) => Written(role, Ranks)
  /\ pc = "saving" /\ job.stage \in Roles => Written(job.stage, job.written)
  /\ pc = "saving" /\ job.stage \in {"tracker", "over"} => data[global_steps] >= 0
  /\ pc = "saving" /\ job.stage = "critic" => UseCritic
  /\ job.written \subseteq job.opened

\* The last path a manager saved is the checkpoint the tracker names, or the
\* one being written, and the others are older.
SavedOf(role) ==
  saved[role] # <<>> =>
    /\ saved[role][Len(saved[role])] = IF Done(role) THEN global_steps ELSE tracker
    /\ \A i \in 1..(Len(saved[role]) - 1) :
         saved[role][i] < saved[role][Len(saved[role])]

SavedInOrder == \A role \in Roles : SavedOf(role)

IInv ==
  /\ Typed /\ Control /\ Bounded /\ Counted /\ Progress /\ SavedInOrder
  /\ LatestIsLoadable


-----------------------------------------------------------------------------
\* The first start of a run, with nothing on the disk.
LEMMA InitIInv == Init => IInv
<1> SUFFICES ASSUME Init PROVE IInv
  OBVIOUS
<1>1. Typed
  BY CheckpointsAssumption, TrainingAssumption
     DEF Init, CheckpointsInit, Typed, Shard, Job, NoJob, Initial, AllRoles, Missing, Torn
<1>2. Total \in Nat \ {0} /\ Total + MaxCrashes <= MaxStep
  BY TrainingAssumption DEF Init, Total
<1>3. Control /\ Bounded
  BY <1>2, TrainingAssumption, CheckpointsAssumption
     DEF Init, CheckpointsInit, Control, Bounded, Working, NoJob, Missing, Torn, Steps, Initial
<1>4. Counted /\ Progress /\ SavedInOrder /\ LatestIsLoadable
  BY DEF Init, CheckpointsInit, Counted, Progress, SavedInOrder, SavedOf, Done,
         LatestIsLoadable, NoJob, Missing, Steps, Roles, AllRoles
<1> QED BY <1>1, <1>3, <1>4 DEF IInv

\* The actions of a save, one by one.
Begun == pc = "save" /\ MaySave /\ SaveBegin /\ pc' = "saving" /\ UNCHANGED <<diskVars, saved>>
Skipped == pc = "save" /\ ~MustSave /\ pc' = "end" /\ UNCHANGED saveVars
Over == pc = "saving" /\ job.stage = "over" /\ job' = NoJob /\ pc' = "end" /\ UNCHANGED <<diskVars, saved>>
SaveFrame == UNCHANGED <<configVars, global_steps, weights, loopVars, validated, pastVars>>

\* The steps of a save, by what they do.
LEMMA SaveCases ==
  ASSUME Save
  PROVE  /\ SaveFrame
         /\ \/ Begun \/ Skipped \/ Over
            \/ /\ pc = "saving" /\ pc' = "saving"
               /\ \/ RemoveShard \/ MakeFolder \/ Rotated \/ RoleSaved
                  \/ SaveData \/ SaveTracker
                  \/ \E r \in Ranks : OpenShard(r) \/ WriteShard(r)
BY DEF Save, SaveNext, SaveFrame, Begun, Skipped, Over

\* One file of one checkpoint is replaced.
LEMMA ShardUpdate ==
  ASSUME NEW f \in [AllRoles -> [Steps -> [Ranks -> Shard]]],
         NEW role \in AllRoles, NEW k, NEW r, NEW s \in Shard
  PROVE  [f EXCEPT ![role][k][r] = s] \in [AllRoles -> [Steps -> [Ranks -> Shard]]]
<1>1. f[role] \in [Steps -> [Ranks -> Shard]]
  OBVIOUS
<1>2. ASSUME NEW g \in [Ranks -> Shard]
      PROVE  [g EXCEPT ![r] = s] \in [Ranks -> Shard]
  OBVIOUS
<1>3. [f[role] EXCEPT ![k] = [@ EXCEPT ![r] = s]] \in [Steps -> [Ranks -> Shard]]
  BY <1>1, <1>2
<1> QED BY <1>3

\* The record of a save in progress keeps its type.
LEMMA JobUpdate ==
  ASSUME NEW j \in Job, NEW r \in Ranks
  PROVE  /\ [j EXCEPT !.opened = @ \cup {r}] \in Job
         /\ [j EXCEPT !.written = @ \cup {r}] \in Job
BY DEF Job

\* So it does from role to role.
LEMMA NextJobTyped ==
  ASSUME NEW stage PROVE NextJob(stage) \in Job
<1>1. AfterStage(stage) \in {"critic", "data", "tracker", "over"}
  BY DEF AfterStage
<1> QED BY <1>1 DEF NextJob, JobAt, Job

\* The step a save is for is one of the steps there are.
LEMMA StepWritten ==
  ASSUME Typed, Control, Bounded, pc = "saving"
  PROVE  global_steps \in Steps
<1>1. Total \in Int /\ MaxCrashes \in Nat /\ MaxStep \in Nat
  BY TrainingAssumption, CheckpointsAssumption DEF Total, Typed
<1>2. global_steps \in Nat /\ global_steps > 0 /\ crashes \in Nat /\ crashes <= MaxCrashes
  BY DEF Typed, Control, Bounded
<1>3. global_steps <= Total + crashes /\ Total + MaxCrashes <= MaxStep
  BY DEF Bounded
<1> QED BY <1>1, <1>2, <1>3 DEF Steps

\* Sequences with the same domain have the same length.
LEMMA SameLength ==
  ASSUME NEW n \in Nat, NEW m \in Nat, 1..n = 1..m
  PROVE  n = m
<1>1. CASE n < m
  <2>1. m \in 1..m /\ m \notin 1..n
    BY <1>1
  <2> QED BY <2>1
<1>2. CASE m < n
  <2>1. n \in 1..n /\ n \notin 1..m
    BY <1>2
  <2> QED BY <2>1
<1> QED BY <1>1, <1>2

\* One more element, one more in the length.
LEMMA OneMore ==
  ASSUME NEW u \in Seq(Nat), NEW v \in Seq(Nat), Len(v) = 1
  PROVE  Len(u \o v) = Len(u) + 1
<1>1. Len(u \o v) = Len(u) + Len(v)
  BY ConcatProperties, Zenon
<1> QED BY <1>1, Zenon

\* A sequence of at most one element is empty or has exactly one.
LEMMA EmptyOrOne ==
  ASSUME NEW S, NEW s \in Seq(S), Len(s) <= 1
  PROVE  s = <<>> \/ Len(s) = 1
<1>1. s # <<>> => Len(s) \in Nat \ {0}
  BY EmptySeq, Zenon
<1>2. \A n \in Nat \ {0} : n <= 1 => n = 1
  OBVIOUS
<1> QED BY <1>1, <1>2, Zenon

\* As many places as generations.
LEMMA PlacesTyped ==
  ASSUME NEW b \in Seq([pos : Nat, updates : Nat])
  PROVE  Places(b) \in Seq(Nat) /\ Len(Places(b)) = Len(b)
<1>1. Len(b) \in Nat /\ DOMAIN b = 1..Len(b)
  BY LenProperties
<1>2. \A i \in 1..Len(b) : b[i] \in [pos : Nat, updates : Nat]
  BY ElementOfSeq
<1>3. Places(b) \in [1..Len(b) -> Nat]
  BY <1>1, <1>2 DEF Places
<1>4. Places(b) \in Seq(Nat)
  <2> DEFINE f == Places(b)
             n == Len(b)
  <2>1. f \in [1..n -> Nat] /\ n \in Nat
    BY <1>1, <1>3
  <2> HIDE DEF f, n
  <2>2. f \in Seq(Nat)
    BY <2>1
  <2> QED BY <2>2 DEF f
<1>5. Len(Places(b)) \in Nat /\ DOMAIN Places(b) = 1..Len(Places(b))
  BY <1>4, LenProperties
<1>6. DOMAIN Places(b) = 1..Len(b)
  BY <1>3
<1>7. Len(Places(b)) = Len(b)
  BY <1>1, <1>5, <1>6, SameLength
<1> QED BY <1>4, <1>7

\* Every step keeps the types.
LEMMA TypedStep ==
  ASSUME Typed, Control, Bounded, [Next]_vars
  PROVE  Typed'
<1> USE DEF AllRoles, Missing, Torn
<1>0. Typed /\ Control /\ Roles \subseteq AllRoles
  BY DEF Roles
<1>1. CASE UNCHANGED vars
  BY <1>0, <1>1 DEF vars, configVars, pastVars, saveVars, diskVars, loopVars, Typed
<1>2. CASE Load
  <2>0. /\ UNCHANGED <<configVars, saveVars, batch, future, crashes>>
        /\ \/ UNCHANGED <<global_steps, weights, pos>>
           \/ /\ tracker \in Steps /\ Readable(tracker)
              /\ \E r \in Ranks : weights' = WeightsAt(tracker, r)
              /\ global_steps' = tracker /\ pos' = PosAt(tracker)
    BY <1>2 DEF Load, LoadNothing, LoadLatest, LoadTorn, RestoredStep, RestoredPos
  <2>1. ASSUME NEW r \in Ranks, tracker \in Steps, Readable(tracker)
        PROVE  WeightsAt(tracker, r) \in [AllRoles -> Seq(Nat)]
    <3>1. \A role \in Roles : shards[role][tracker][r] \in Shard \ {<<>>}
      BY <1>0, <2>1 DEF Typed, Readable
    <3>2. \A role \in Roles : shards[role][tracker][r][1] \in Seq(Nat)
      BY <3>1 DEF Shard
    <3>3. <<>> \in Seq(Nat)
      OBVIOUS
    <3> QED BY <3>2, <3>3 DEF WeightsAt
  <2>2. tracker \in Steps /\ Readable(tracker) => PosAt(tracker) \in Nat
    BY <1>0, CheckpointsAssumption DEF Typed, PosAt, Readable, Steps
  <2>3. weights' \in [AllRoles -> Seq(Nat)] /\ global_steps' \in Nat /\ pos' \in Nat
    BY <1>0, <2>0, <2>1, <2>2, CheckpointsAssumption DEF Typed, Steps
  <2> QED BY <1>0, <2>0, <2>3 DEF Typed, configVars, pastVars, saveVars, diskVars
<1>3. CASE ValidateFirst
  BY <1>0, <1>3 DEF ValidateFirst, Typed, configVars, pastVars, saveVars, diskVars, loopVars
<1>4. ASSUME NextBatch \/ DynamicSampling \/ DataEnds
           \/ FirstGeneration \/ TakeGenerated PROVE Typed'
  <2>0. UNCHANGED <<configVars, saveVars, global_steps, weights, crashes>>
    BY <1>4 DEF NextBatch, DynamicSampling, DataEnds, FirstGeneration,
         TakeGenerated, pastVars
  <2>a. pos' \in {pos, pos + 1, 1}
    BY <1>4 DEF NextBatch, DynamicSampling, DataEnds, FirstGeneration,
         TakeGenerated, AsyncGenNextBatch,
         PullNext, loopVars
  <2>1. pos' \in Nat
    BY <1>0, <2>a DEF Typed
  <2>2. Updates \in Nat
    BY <1>0 DEF Typed, Updates
  <2>3. Generated(pos') \in Seq([pos : Nat, updates : Nat])
    BY <2>1, <2>2 DEF Generated, Synced
  <2>4. /\ batch' \in {batch, future, Generated(pos'), batch \o Generated(pos')}
        /\ future' \in {future, <<>>, Generated(pos')}
    BY <1>4 DEF NextBatch, DynamicSampling, DataEnds, FirstGeneration,
         TakeGenerated, AsyncGenNextBatch, Accumulated, loopVars
  <2>5. batch' \in Seq([pos : Nat, updates : Nat]) /\ future' \in Seq([pos : Nat, updates : Nat])
    <3>1. <<>> \in Seq([pos : Nat, updates : Nat])
      BY EmptySeq
    <3>2. /\ batch \in Seq([pos : Nat, updates : Nat])
          /\ future \in Seq([pos : Nat, updates : Nat])
      BY <1>0 DEF Typed
    <3>3. batch \o Generated(pos') \in Seq([pos : Nat, updates : Nat])
      BY <2>3, <3>2, ConcatProperties
    <3> QED BY <2>3, <2>4, <3>1, <3>2, <3>3
  <2> QED BY <1>0, <2>0, <2>1, <2>5 DEF Typed, configVars, pastVars, saveVars, diskVars
<1>5. CASE Train
  <2>1. Places(batch) \in Seq(Nat)
    BY <1>0, PlacesTyped DEF Typed
  <2>2. \A role \in AllRoles : weights[role] \o Places(batch) \in Seq(Nat)
    BY <1>0, <2>1, ConcatProperties DEF Typed
  <2>3. weights' \in [AllRoles -> Seq(Nat)]
    BY <1>0, <1>5, <2>2 DEF Train, Typed
  <2> QED BY <1>0, <1>5, <2>3 DEF Train, Typed, configVars, pastVars, saveVars, diskVars, loopVars
<1>6. CASE Test
  BY <1>0, <1>6 DEF Test, Typed, configVars, pastVars, saveVars, diskVars, loopVars
<1>7. CASE EndStep
  BY <1>0, <1>7 DEF EndStep, Typed, configVars, pastVars, saveVars, diskVars
<1>8. CASE Crash
  BY <1>0, <1>8 DEF Crash, Volatile, Initial, NoJob, Job, Typed, configVars, pastVars, diskVars
<1>9. CASE Save
  <2>0. SaveFrame
    BY <1>9, SaveCases
  <2> USE <1>0, <2>0 DEF SaveFrame, Typed, configVars, pastVars, saveVars, diskVars, loopVars, JobAt, NoJob
  <2>p. pc = "saving" => global_steps \in Steps
    BY StepWritten
  <2>1. CASE Begun \/ Skipped \/ Over
    BY <2>1 DEF Begun, Skipped, Over, SaveBegin, Job
  <2>2. CASE RemoveShard
    <3>1. PICK k \in Victims(job.stage), r \in Ranks :
             shards' = [shards EXCEPT ![job.stage][k][r] = <<>>]
      BY <2>2 DEF RemoveShard
    <3>2. shards' \in [AllRoles -> [Steps -> [Ranks -> Shard]]]
      <4>1. <<>> \in Shard /\ job.stage \in AllRoles
        BY <2>2 DEF Shard, RemoveShard
      <4> QED BY <3>1, <4>1, ShardUpdate
    <3> QED BY <2>2, <3>2 DEF RemoveShard
  <2>8. CASE MakeFolder
    BY <2>8 DEF MakeFolder
  <2>3. CASE Rotated
    <3>1. saved' \in [AllRoles -> Seq(Nat)]
      <4>1. job.stage \in AllRoles /\ saved[job.stage] \in Seq(Nat)
        BY <2>3 DEF Rotated
      <4>2. KeepStart(job.stage) \in Nat
        BY <4>1, CheckpointsAssumption DEF KeepStart, Keep
      <4>3. SubSeq(saved[job.stage], KeepStart(job.stage) + 1, Len(saved[job.stage])) \in Seq(Nat)
        BY <4>1, <4>2, SubSeqProperties
      <4> QED BY <2>3, <4>3 DEF Rotated
    <3> QED BY <2>3, <3>1 DEF Rotated, Job
  <2>4. CASE RoleSaved
    <3>1. saved' \in [AllRoles -> Seq(Nat)]
      <4>1. job.stage \in AllRoles
        BY <2>4 DEF RoleSaved
      <4>2. saved[job.stage] \in Seq(Nat) /\ global_steps \in Nat
        BY <4>1
      <4>3. Append(saved[job.stage], global_steps) \in Seq(Nat)
        BY <4>2, AppendProperties
      <4> QED BY <2>4, <4>3 DEF RoleSaved
    <3>2. job' \in Job
      BY <2>4, NextJobTyped DEF RoleSaved
    <3>3. UNCHANGED diskVars
      BY <2>4 DEF RoleSaved
    <3> QED BY <3>1, <3>2, <3>3
  <2>5. CASE SaveData
    <3>1. job' \in Job
      BY <2>5, NextJobTyped DEF SaveData, Job
    <3>2. data' \in [Steps -> {Missing, Torn} \cup Nat]
      BY <2>5 DEF SaveData
    <3>3. UNCHANGED <<shards, tracker, saved>>
      BY <2>5 DEF SaveData
    <3> QED BY <3>1, <3>2, <3>3
  <2>6. CASE SaveTracker /\ pc = "saving"
    BY <2>p, <2>6 DEF SaveTracker, NextJob, AfterStage, Job
  <2>7. CASE \E r \in Ranks : OpenShard(r) \/ WriteShard(r)
    <3>1. PICK r \in Ranks : OpenShard(r) \/ WriteShard(r)
      BY <2>7
    <3>2. <<weights[job.stage]>> \in Shard /\ <<>> \in Shard
      BY <3>1 DEF Shard, OpenShard, WriteShard
    <3>3. shards' \in [AllRoles -> [Steps -> [Ranks -> Shard]]]
      <4>1. \E k, x : x \in Shard /\ shards' = [shards EXCEPT ![job.stage][k][r] = x]
        BY <3>1, <3>2 DEF OpenShard, WriteShard
      <4>2. PICK k, x : x \in Shard /\ shards' = [shards EXCEPT ![job.stage][k][r] = x]
        BY <4>1
      <4>3. job.stage \in AllRoles
        BY <3>1 DEF OpenShard, WriteShard
      <4>4. shards \in [AllRoles -> [Steps -> [Ranks -> Shard]]]
        BY <1>0
      <4> HIDE DEF AllRoles
      <4> QED BY <4>2, <4>3, <4>4, ShardUpdate
    <3>4. job' = [job EXCEPT !.opened = @ \cup {r}] \/ job' = [job EXCEPT !.written = @ \cup {r}]
      BY <3>1 DEF OpenShard, WriteShard
    <3>5. job' \in Job
      BY <1>0, <3>4, JobUpdate
    <3>6. UNCHANGED <<data, tracker, saved>>
      BY <3>1 DEF OpenShard, WriteShard
    <3> QED BY <3>3, <3>5, <3>6
  <2> QED BY <1>9, <2>1, <2>2, <2>3, <2>4, <2>5, <2>6, <2>7, <2>8, SaveCases
<1> QED BY <1>1, <1>2, <1>3, <1>4, <1>5, <1>6, <1>7, <1>8, <1>9 DEF Next, Driver

\* No step changes the configuration.
LEMMA ConfigKept ==
  ASSUME [Next]_vars
  PROVE  recipe' = recipe /\ total_epochs' = total_epochs
<1>1. CASE Save
  BY <1>1, SaveCases DEF SaveFrame, configVars
<1> QED
  BY <1>1 DEF Next, Driver, vars, configVars, Load, ValidateFirst, NextBatch,
     DynamicSampling, DataEnds, FirstGeneration, TakeGenerated, Train, Test, EndStep,
     Crash

\* A generation is one batch.
LEMMA OneGeneration ==
  ASSUME NEW p PROVE Len(Generated(p)) = 1 /\ Len(<<>>) = 0
BY DEF Generated

\* Who does not sample dynamically generates one batch at a time.
LEMMA GenerationStep ==
  ASSUME Len(future) <= 1, future \in Seq([pos : Nat, updates : Nat]),
         NextBatch \/ DynamicSampling \/ DataEnds
           \/ FirstGeneration \/ TakeGenerated
  PROVE  /\ Len(future') <= 1
         /\ pc' = "train" /\ recipe # "dapo" => Len(batch') = 1
         /\ UNCHANGED <<configVars, saveVars, global_steps, weights, crashes>>
         /\ pc \in {"next", "first", "loop"}
         /\ pc' \in {"next", "loop", "train", "save", "done", "failed"}
<1>0. future # <<>> => Len(future) = 1
  BY EmptyOrOne
<1>1. CASE NextBatch
  BY <1>1, OneGeneration DEF NextBatch, pastVars
<1>2. CASE DynamicSampling \/ DataEnds
  BY <1>2 DEF DynamicSampling, DataEnds, pastVars
<1>3. ASSUME AsyncGenNextBatch PROVE Len(future') <= 1
  <2>1. future' = Generated(pos') \/ future' = <<>>
    BY <1>3 DEF AsyncGenNextBatch
  <2>2. Len(future') = 1 \/ Len(future') = 0
    BY <2>1, OneGeneration, Zenon
  <2>3. \A n \in {0, 1} : n <= 1
    OBVIOUS
  <2> QED BY <2>2, <2>3, Zenon
<1>4. CASE FirstGeneration
  BY <1>3, <1>4 DEF FirstGeneration, pastVars
<1>5. CASE TakeGenerated
  BY <1>0, <1>3, <1>5 DEF TakeGenerated, pastVars
<1> QED BY <1>1, <1>2, <1>4, <1>5

\* Every step leaves the run where its position says it is.
LEMMA ControlStep ==
  ASSUME Typed, Control, Bounded, [Next]_vars
  PROVE  Control'
<1> USE DEF Working
<1>0. Typed /\ Control
  OBVIOUS
<1>a. tracker \in Int /\ global_steps \in Nat /\ (tracker \in Steps => tracker > 0)
  BY <1>0 DEF Typed, Steps, Missing, Torn
<1>b. tracker \notin Steps => tracker < 0
  BY <1>0 DEF Typed, Missing, Torn
<1>r. recipe' = recipe
  BY ConfigKept
<1>1. CASE UNCHANGED vars
  BY <1>0, <1>1 DEF vars, configVars, pastVars, saveVars, diskVars, loopVars, Control
<1>2. CASE Load
  BY <1>0, <1>2, <1>a, <1>b DEF Load, LoadNothing, LoadLatest, LoadTorn, RestoredStep,
     saveVars, diskVars, Control, Missing, Torn
<1>3. CASE ValidateFirst
  BY <1>0, <1>a, <1>b, <1>3 DEF ValidateFirst, Control, saveVars, diskVars, loopVars
<1>4. ASSUME NextBatch \/ DynamicSampling \/ DataEnds
           \/ FirstGeneration \/ TakeGenerated
      PROVE  Control'
  <2>1. Len(future) <= 1 /\ future \in Seq([pos : Nat, updates : Nat])
    BY <1>0 DEF Control, Typed
  <2>2. /\ Len(future') <= 1
        /\ pc' = "train" /\ recipe # "dapo" => Len(batch') = 1
        /\ UNCHANGED <<configVars, saveVars, global_steps, weights, crashes>>
        /\ pc \in {"next", "first", "loop"}
        /\ pc' \in {"next", "loop", "train", "save", "done", "failed"}
    BY <1>4, <2>1, GenerationStep
  <2> QED BY <1>0, <1>r, <2>2 DEF Control, saveVars, diskVars
<1>7. CASE Train
  BY <1>0, <1>r, <1>7 DEF Train, Control, saveVars, diskVars, loopVars
<1>8. CASE Test
  BY <1>0, <1>r, <1>8 DEF Test, Control, saveVars, diskVars, loopVars
<1>9. CASE EndStep
  BY <1>0, <1>r, <1>9, <1>a DEF EndStep, Control, saveVars, diskVars
<1>10. CASE Crash
  BY <1>0, <1>r, <1>10, OneGeneration DEF Crash, Volatile, Control, diskVars, NoJob
<1>11. CASE Save
  <2>0. UNCHANGED <<global_steps, weights, batch, future, recipe>>
    BY <1>r, <1>11, SaveCases DEF SaveFrame, loopVars
  <2>1. CASE Begun
    BY <1>0, <2>0, <2>1 DEF Begun, SaveBegin, JobAt, Control, diskVars
  <2>2. CASE Skipped
    BY <1>0, <1>a, <2>0, <2>2 DEF Skipped, Control, saveVars, diskVars
  <2>3. CASE Over
    BY <1>0, <1>a, <2>0, <2>3 DEF Over, Control, diskVars, NoJob
  <2>4. CASE pc = "saving" /\ pc' = "saving" /\ (RemoveShard \/ MakeFolder \/ Rotated)
    BY <1>0, <2>0, <2>4 DEF Control, RemoveShard, MakeFolder, Rotated, JobAt, diskVars, Roles, AllRoles
  <2>5. CASE pc = "saving" /\ pc' = "saving" /\ (RoleSaved \/ SaveData)
    <3>1. UNCHANGED tracker
      BY <2>5 DEF RoleSaved, SaveData, diskVars
    <3>2. job.stage \in {"actor", "critic", "data"}
      BY <2>5 DEF RoleSaved, SaveData, Roles, AllRoles
    <3>3. job'.stage \notin {"idle", "over"}
      BY <2>5, <3>2 DEF RoleSaved, SaveData, NextJob, AfterStage, JobAt
    <3> QED BY <1>0, <2>0, <2>5, <3>1, <3>2, <3>3 DEF Control
  <2>6. CASE pc = "saving" /\ pc' = "saving" /\ SaveTracker
    BY <1>0, <1>a, <2>0, <2>6 DEF Control, SaveTracker, NextJob, AfterStage, JobAt, Torn
  <2>7. CASE pc = "saving" /\ pc' = "saving" /\ \E r \in Ranks : OpenShard(r) \/ WriteShard(r)
    <3>1. UNCHANGED tracker /\ job.stage \in AllRoles /\ job'.stage = job.stage
      BY <1>0, <2>7 DEF OpenShard, WriteShard, Typed, Job, Roles, AllRoles
    <3> QED BY <1>0, <2>0, <2>7, <3>1 DEF Control, AllRoles
  <2> QED BY <1>11, <2>1, <2>2, <2>3, <2>4, <2>5, <2>6, <2>7, SaveCases
<1> QED BY <1>1, <1>2, <1>3, <1>4, <1>7, <1>8, <1>9, <1>10, <1>11 DEF Next, Driver

\* Outside a save the disk only changes hands.
LEMMA DiskKept ==
  ASSUME Load \/ ValidateFirst \/ NextBatch \/ DynamicSampling \/ DataEnds
           \/ FirstGeneration \/ TakeGenerated
         \/ Train \/ Test \/ EndStep
  PROVE  UNCHANGED saveVars /\ UNCHANGED configVars /\ UNCHANGED crashes
BY DEF Load, ValidateFirst, NextBatch, DynamicSampling, DataEnds, FirstGeneration,
   TakeGenerated, Train, Test, EndStep, pastVars

\* Every step keeps the counters within their bounds.
LEMMA BoundedStep ==
  ASSUME Typed, Control, Bounded, [Next]_vars
  PROVE  Bounded'
<1> USE DEF Working
<1>0. Typed /\ Control /\ Bounded
  OBVIOUS
<1>a. /\ tracker \in Int /\ global_steps \in Nat /\ crashes \in Nat
      /\ Total \in Int /\ MaxCrashes \in Nat /\ MaxStep \in Nat
  BY <1>0, TrainingAssumption, CheckpointsAssumption
     DEF Typed, Steps, Missing, Torn, Total
<1>t. Total' = Total
  BY ConfigKept DEF Total
<1> HIDE DEF Total
<1>b. tracker \notin Steps => tracker < 0
  BY <1>0 DEF Typed, Missing, Torn
<1>1. CASE UNCHANGED vars
  BY <1>0, <1>1, <1>t DEF vars, configVars, pastVars, saveVars, diskVars, Bounded
<1>2. CASE Load \/ ValidateFirst \/ NextBatch \/ DynamicSampling \/ DataEnds
           \/ FirstGeneration \/ TakeGenerated
           \/ Train \/ Test \/ EndStep
  <2>0. UNCHANGED <<tracker, crashes>>
    BY <1>2, DiskKept DEF saveVars, diskVars
  <2>1. CASE Load
    BY <1>0, <1>a, <1>t, <2>0, <2>1 DEF Load, LoadNothing, LoadLatest, LoadTorn, RestoredStep,
       Bounded, Missing
  <2>2. CASE ValidateFirst
    BY <1>0, <1>a, <1>t, <2>0, <2>2 DEF ValidateFirst, Bounded, Control
  <2>3. CASE NextBatch \/ DynamicSampling \/ DataEnds
           \/ FirstGeneration \/ TakeGenerated \/ Train \/ Test
    BY <1>0, <1>a, <1>t, <2>0, <2>3 DEF NextBatch, DynamicSampling, DataEnds, FirstGeneration,
         TakeGenerated, Train, Test, Bounded
  <2>4. CASE EndStep
    <3>1. /\ pc = "end" /\ global_steps' = global_steps + 1
          /\ pc' = "done" \/ (pc' \in {"next", "loop"} /\ global_steps < Total)
      BY <1>a, <2>4 DEF EndStep, IsLastStep
    <3> QED BY <1>0, <1>a, <1>t, <2>0, <3>1 DEF Bounded
  <2> QED BY <1>2, <2>1, <2>2, <2>3, <2>4
<1>3. CASE Crash
  BY <1>0, <1>a, <1>t, <1>3 DEF Crash, diskVars, Bounded
<1>4. CASE Save
  <2>0. UNCHANGED <<global_steps, crashes>>
    BY <1>4, SaveCases DEF SaveFrame, pastVars
  <2>1. pc \in {"save", "saving"} /\ pc' \in {"saving", "end"}
    BY <1>4, SaveCases DEF Begun, Skipped, Over
  <2>2. tracker' \in {tracker, Torn, global_steps}
    BY <1>4, SaveCases DEF Begun, Skipped, Over, RemoveShard, MakeFolder, Rotated, RoleSaved,
       SaveData, SaveTracker, OpenShard, WriteShard, diskVars, saveVars
  <2>3. Torn \notin Steps
    BY DEF Torn, Steps
  <2> QED BY <1>0, <1>a, <1>t, <2>0, <2>1, <2>2, <2>3 DEF Bounded
<1> QED BY <1>1, <1>2, <1>3, <1>4 DEF Next, Driver

\* Weights v have as many updates as k steps make.
Lengths(k, v) ==
  recipe # "dapo" => \A role \in AllRoles : Len(v[role]) = UpdatesAfter(role, k)

\* Every step keeps the weights, the data and the step in line.
LEMMA CountedStep ==
  ASSUME Typed, Control, Counted, [Next]_vars,
         \A r \in Ranks : tracker \in Steps /\ Readable(tracker) =>
                             Lengths(tracker, WeightsAt(tracker, r))
  PROVE  Counted'
<1> USE DEF Working
<1> SUFFICES ASSUME recipe # "dapo" PROVE Counted'
  BY ConfigKept DEF Counted
<1>0. Typed /\ Control /\ Counted
  OBVIOUS
<1>a. global_steps \in Nat /\ CriticWarmup \in Nat
  BY <1>0, TrainingAssumption DEF Typed
<1>1. CASE UNCHANGED vars
  BY <1>0, <1>1 DEF vars, Counted, Trained
<1>2. CASE Load
  <2>1. CASE LoadNothing
    <3>1. /\ \A role \in AllRoles : weights'[role] = <<>>
          /\ global_steps' = 0 /\ pc' = "loaded"
      BY <1>0, <1>2, <2>1 DEF Load, LoadNothing, Control, Initial
    <3>2. \A role \in AllRoles : UpdatesAfter(role, 0) = 0
      BY <1>a DEF UpdatesAfter
    <3>3. Trained' = 0
      BY <3>1 DEF Trained
    <3> QED BY <3>1, <3>2, <3>3 DEF Counted
  <2>2. CASE LoadLatest
    <3>1. ASSUME Readable(tracker) PROVE Counted'
      <4>1. pc' = "loaded" /\ global_steps' = tracker /\ tracker \in Steps
        BY <2>2, <3>1 DEF LoadLatest, RestoredStep
      <4>2. PICK r \in Ranks : weights' = WeightsAt(tracker, r)
        BY <2>2, <3>1 DEF LoadLatest
      <4>5. \A role \in AllRoles : Len(weights'[role]) = UpdatesAfter(role, tracker)
        BY <3>1, <4>1, <4>2 DEF Lengths
      <4>6. Trained' = tracker
        BY <4>1 DEF Trained
      <4> QED BY <4>5, <4>6 DEF Counted
    <3>2. CASE ~Readable(tracker)
      BY <2>2, <3>2 DEF LoadLatest, Counted
    <3> QED BY <3>1, <3>2
  <2>3. CASE LoadTorn
    BY <2>3 DEF LoadTorn, Counted
  <2> QED BY <1>2, <2>1, <2>2, <2>3 DEF Load
<1>3. CASE ValidateFirst
  <2>1. Trained' = Trained /\ UNCHANGED weights
    BY <1>3, <1>a DEF ValidateFirst, Trained
  <2> QED BY <1>0, <1>3, <2>1 DEF ValidateFirst, Counted
<1>4. CASE NextBatch \/ DynamicSampling \/ DataEnds
           \/ FirstGeneration \/ TakeGenerated
  <2>1. Trained' = Trained /\ UNCHANGED weights
    BY <1>4, <1>a DEF NextBatch, DynamicSampling, DataEnds, FirstGeneration,
         TakeGenerated, Trained
  <2>2. pc \notin {"down", "broken"}
    BY <1>4 DEF NextBatch, DynamicSampling, DataEnds, FirstGeneration,
         TakeGenerated
  <2> QED BY <1>0, <2>1, <2>2 DEF Counted
<1>5. CASE Train
  <2>1. Trained = global_steps - 1 /\ Trained' = global_steps
    BY <1>5 DEF Train, Trained
  <2>2. global_steps > 0
    BY <1>0, <1>5 DEF Train, Control
  <2>3. ASSUME NEW role \in AllRoles
        PROVE  Len(weights'[role]) = UpdatesAfter(role, global_steps)
    <3>1. weights[role] \in Seq(Nat) /\ Len(weights[role]) = UpdatesAfter(role, global_steps - 1)
      BY <1>0, <1>5, <2>1, <2>3 DEF Typed, Counted, Train
    <3>2. weights'[role] = IF Trains(role) THEN weights[role] \o Places(batch) ELSE weights[role]
      BY <1>5, <2>3 DEF Train
    <3>3. Len(weights[role] \o Places(batch)) = Len(weights[role]) + 1
      <4>1. batch \in Seq([pos : Nat, updates : Nat]) /\ Len(batch) = 1
        BY <1>0, <1>5 DEF Typed, Control, Train
      <4>2. Places(batch) \in Seq(Nat) /\ Len(Places(batch)) = 1
        BY <4>1, PlacesTyped
      <4> QED BY <3>1, <4>2, OneMore
    <3>4. UpdatesAfter(role, global_steps) =
            UpdatesAfter(role, global_steps - 1) + (IF Trains(role) THEN 1 ELSE 0)
      BY <1>a, <2>2, <2>3, CheckpointsAssumption DEF UpdatesAfter, Trains, AllRoles
    <3> QED BY <1>a, <3>1, <3>2, <3>3, <3>4
  <2> QED BY <2>1, <2>3 DEF Counted
<1>6. CASE Test
  <2>1. Trained' = Trained /\ UNCHANGED weights
    BY <1>6, <1>a DEF Test, Trained
  <2> QED BY <1>0, <1>6, <2>1 DEF Test, Counted
<1>7. CASE EndStep
  <2>1. Trained' = Trained /\ UNCHANGED weights
    BY <1>7, <1>a DEF EndStep, Trained
  <2> QED BY <1>0, <1>7, <2>1 DEF EndStep, Counted
<1>8. CASE Crash
  BY <1>8 DEF Crash, Counted
<1>9. CASE Save
  <2>1. UNCHANGED <<global_steps, weights>>
    BY <1>9, SaveCases DEF SaveFrame
  <2>2. pc \in {"save", "saving"} /\ pc' \in {"saving", "end"}
    BY <1>9, SaveCases DEF Begun, Skipped, Over
  <2>3. Trained' = Trained
    BY <2>1, <2>2 DEF Trained
  <2> QED BY <1>0, <2>1, <2>2, <2>3 DEF Counted
<1> QED BY <1>1, <1>2, <1>3, <1>4, <1>5, <1>6, <1>7, <1>8, <1>9 DEF Next, Driver

-----------------------------------------------------------------------------
\* Only what is older than the checkpoint the tracker names is removed.
LEMMA VictimsOld ==
  ASSUME IInv, KeepActor # 1, KeepCritic # 1, pc = "saving",
         job.stage \in Roles, NEW k \in Victims(job.stage)
  PROVE  k < tracker /\ k # global_steps
<1> DEFINE s == saved[job.stage]
<1>1. s \in Seq(Nat) /\ KeepActor \in Nat /\ KeepCritic \in Nat
  BY CheckpointsAssumption DEF IInv, Typed, Roles, AllRoles
<1>2. Keep[job.stage] \in Nat /\ Keep[job.stage] # 1
  BY <1>1 DEF Keep, Roles, AllRoles
<1>3. PICK i \in 1..KeepStart(job.stage) : k = s[i]
  BY DEF Victims
<1>4. Len(s) \in Nat
  BY <1>1
<1>5. i \in 1..(Len(s) - 1)
  BY <1>2, <1>3, <1>4 DEF KeepStart
<1>6. s # <<>>
  BY <1>5
<1>7. ~Done(job.stage)
  BY DEF Done, Roles, AllRoles
<1>8. s[i] < s[Len(s)] /\ s[Len(s)] = tracker
  BY <1>5, <1>6, <1>7 DEF IInv, SavedInOrder, SavedOf
<1>9. tracker < global_steps /\ s[i] \in Nat /\ s[Len(s)] \in Nat /\ global_steps \in Nat
  <2>1. tracker < global_steps
    BY DEF IInv, Control, Roles, AllRoles
  <2>2. i \in 1..Len(s) /\ Len(s) \in 1..Len(s)
    BY <1>4, <1>5
  <2>3. s[i] \in Nat /\ s[Len(s)] \in Nat
    BY <1>1, <2>2, ElementOfSeq
  <2> QED BY <2>1, <2>3 DEF IInv, Typed
<1> QED BY <1>3, <1>8, <1>9

\* Every step of a save has written what its stage says it has.
LEMMA ProgressStep ==
  ASSUME IInv, [Next]_vars, KeepActor # 1, KeepCritic # 1
  PROVE  Progress'
<1>0. Typed /\ Control /\ Progress
  BY DEF IInv
<1>1. CASE UNCHANGED vars
  BY <1>0, <1>1 DEF vars, configVars, pastVars, saveVars, diskVars, Progress, Done, Written
<1>2. CASE Load \/ ValidateFirst \/ NextBatch \/ DynamicSampling \/ DataEnds
           \/ FirstGeneration \/ TakeGenerated
           \/ Train \/ Test \/ EndStep
  <2>1. pc' # "saving" /\ job' = job
    BY <1>2 DEF Load, LoadNothing, LoadLatest, LoadTorn, ValidateFirst, NextBatch,
       DynamicSampling, DataEnds, FirstGeneration, TakeGenerated, Train, Test, EndStep,
       saveVars
  <2> QED BY <1>0, <2>1 DEF Progress, Done
<1>3. CASE Crash
  BY <1>3 DEF Crash, Volatile, NoJob, Progress, Done
<1>4. CASE Save
  <2>0. UNCHANGED <<global_steps, weights>>
    BY <1>4, SaveCases DEF SaveFrame
  <2>1. CASE Begun
    BY <2>1 DEF Begun, SaveBegin, JobAt, Progress, Done, Written
  <2>2. CASE Skipped \/ Over
    BY <1>0, <2>2 DEF Skipped, Over, saveVars, NoJob, Progress, Done
  <2>3. CASE pc = "saving" /\ pc' = "saving" /\ RemoveShard
    <3>1. PICK k \in Victims(job.stage), r \in Ranks :
             shards' = [shards EXCEPT ![job.stage][k][r] = <<>>]
      BY <2>3 DEF RemoveShard
    <3>2. k # global_steps /\ job' = job /\ data' = data
      BY <2>3, VictimsOld DEF RemoveShard
    <3>3. \A role \in AllRoles : shards'[role][global_steps] = shards[role][global_steps]
      BY <1>0, <3>1, <3>2 DEF Typed
    <3> QED BY <1>0, <2>0, <2>3, <3>2, <3>3 DEF Progress, Done, Written, Roles, AllRoles
  <2>9. CASE pc = "saving" /\ pc' = "saving" /\ MakeFolder
    BY <1>0, <2>0, <2>9 DEF MakeFolder, Progress, Done, Written
  <2>4. CASE pc = "saving" /\ pc' = "saving" /\ Rotated
    <3>1. /\ job.stage \in Roles /\ job'.stage = job.stage /\ job'.written = {}
          /\ UNCHANGED <<shards, data, tracker>>
      BY <2>4 DEF Rotated, JobAt
    <3> QED BY <1>0, <2>0, <2>4, <3>1 DEF Progress, Done, Written, Roles, AllRoles
  <2>5. CASE pc = "saving" /\ pc' = "saving" /\ RoleSaved
    <3>1. /\ job.stage \in Roles /\ job.written = Ranks
          /\ UNCHANGED diskVars /\ job'.written = {}
          /\ job'.stage = AfterStage(job.stage)
      BY <2>5 DEF RoleSaved, NextJob, JobAt
    <3>2. Written(job.stage, Ranks)
      BY <1>0, <2>5, <3>1 DEF Progress
    <3>3. \A role \in Roles : Written(role, Ranks)' <=> Written(role, Ranks)
      BY <2>0, <3>1 DEF Written, diskVars
    <3>4. \A role \in Roles : Done(role)' => Done(role) \/ role = job.stage
      BY <2>5, <3>1 DEF Done, AfterStage, Roles, AllRoles
    <3>5. job'.stage = "critic" => UseCritic
      BY <3>1 DEF AfterStage, Roles, AllRoles
    <3>6. job'.stage \in {"critic", "data"}
      BY <3>1 DEF AfterStage, Roles, AllRoles
    <3>7. \A role \in Roles : Done(role)' => Written(role, Ranks)'
      BY <1>0, <3>2, <3>3, <3>4 DEF Progress
    <3>8. Written(job.stage, job.written)'
      BY <3>1 DEF Written
    <3> QED
      <4>1. ((pc = "saving" /\ job.stage \in {"tracker", "over"}) => data[global_steps] >= 0)'
        BY <3>6
      <4>2. (job.written \subseteq job.opened)'
        BY <3>1
      <4> QED BY <3>5, <3>7, <3>8, <4>1, <4>2 DEF Progress
  <2>6. CASE pc = "saving" /\ pc' = "saving" /\ SaveData
    <3>1. /\ job.stage = "data" /\ job'.written = {} /\ job'.opened = {}
          /\ job'.stage \in {"data", "tracker"} /\ UNCHANGED shards
      BY <2>6 DEF SaveData, NextJob, AfterStage, JobAt
    <3>2. global_steps \in Steps
      BY <2>6, StepWritten DEF IInv
    <3>3. job'.stage = "tracker" => data' = [data EXCEPT ![global_steps] = pos]
      BY <2>6 DEF SaveData, NextJob, AfterStage, JobAt
    <3>4. job'.stage = "tracker" => data'[global_steps] >= 0
      BY <1>0, <3>2, <3>3 DEF Typed
    <3>5. \A role \in Roles : Done(role)
      BY <2>6, <3>1 DEF Done, Roles, AllRoles
    <3>6. \A role \in Roles : Written(role, Ranks)'
      BY <1>0, <2>0, <3>1, <3>5 DEF Progress, Written
    <3> QED BY <2>0, <3>1, <3>4, <3>6 DEF Progress, Roles, AllRoles
  <2>7. CASE pc = "saving" /\ pc' = "saving" /\ SaveTracker
    <3>1. /\ job.stage = "tracker" /\ job'.written = {} /\ job'.opened = {}
          /\ job'.stage \in {"tracker", "over"} /\ UNCHANGED <<shards, data>>
      BY <2>7 DEF SaveTracker, NextJob, AfterStage, JobAt
    <3>5. \A role \in Roles : Done(role)
      BY <2>7, <3>1 DEF Done, Roles, AllRoles
    <3>6. \A role \in Roles : Written(role, Ranks)'
      BY <1>0, <2>0, <3>1, <3>5 DEF Progress, Written
    <3> QED BY <1>0, <2>0, <2>7, <3>1, <3>6 DEF Progress, Roles, AllRoles
  <2>8. ASSUME pc = "saving", pc' = "saving", NEW r \in Ranks, OpenShard(r) \/ WriteShard(r)
        PROVE  Progress'
    <3>1. /\ job.stage \in Roles /\ job'.stage = job.stage /\ data' = data
          /\ global_steps \in Steps
      BY <1>0, <2>8, StepWritten DEF OpenShard, WriteShard, Typed, Job, IInv
    <3>2. \A role \in AllRoles \ {job.stage} : shards'[role] = shards[role]
      BY <1>0, <2>8 DEF OpenShard, WriteShard, Typed
    <3>3. \A q \in Ranks \ {r} : shards'[job.stage][global_steps][q] = shards[job.stage][global_steps][q]
      BY <1>0, <2>8, <3>1 DEF OpenShard, WriteShard, Typed, Roles, AllRoles
    <3>4. ~Done(job.stage) /\ \A role \in AllRoles : Done(role)' <=> Done(role)
      BY <2>8, <3>1 DEF Done, Roles, AllRoles
    <3>5. \A role \in Roles : Done(role)' => Written(role, Ranks)'
      BY <1>0, <2>0, <3>2, <3>4 DEF Progress, Written, Roles, AllRoles
    <3>6. job.written \subseteq Ranks /\ Written(job.stage, job.written)
      BY <1>0, <2>8, <3>1 DEF Progress, Typed, Job
    <3>7. CASE OpenShard(r)
      <4>1. job'.written = job.written /\ job'.opened = job.opened \cup {r} /\ r \notin job.opened
        BY <1>0, <3>7 DEF OpenShard, Typed, Job
      <4>2. r \notin job.written
        BY <1>0, <4>1 DEF Progress
      <4>3. Written(job.stage, job.written)'
        BY <2>0, <3>1, <3>3, <3>6, <4>1, <4>2 DEF Written
      <4> QED BY <1>0, <2>8, <3>1, <3>5, <4>1, <4>3 DEF Progress, Roles, AllRoles
    <3>8. CASE WriteShard(r)
      <4>1. job'.written = job.written \cup {r} /\ job'.opened = job.opened /\ r \in job.opened
        BY <1>0, <3>8 DEF WriteShard, Typed, Job
      <4>2. shards'[job.stage][global_steps][r] = <<weights[job.stage]>>
        BY <1>0, <3>1, <3>8 DEF WriteShard, Typed, Roles, AllRoles
      <4>3. Written(job.stage, job.written)'
        BY <2>0, <3>1, <3>3, <3>6, <4>1, <4>2 DEF Written
      <4> QED BY <1>0, <2>8, <3>1, <3>5, <4>1, <4>3 DEF Progress, Roles, AllRoles
    <3> QED BY <2>8, <3>7, <3>8
  <2> QED BY <1>4, <2>1, <2>2, <2>3, <2>4, <2>5, <2>6, <2>7, <2>8, <2>9, SaveCases
<1> QED BY <1>1, <1>2, <1>3, <1>4 DEF Next, Driver

\* The steps of the run, by what they do to the disk.
LEMMA Cases ==
  ASSUME Next
  PROVE  \/ Load \/ ValidateFirst \/ NextBatch \/ DynamicSampling \/ DataEnds
           \/ FirstGeneration \/ TakeGenerated
         \/ Train \/ Test \/ EndStep
         \/ Save \/ Crash
BY DEF Next, Driver

\* The tracker names a checkpoint a save has completed.
LEMMA SavedStep ==
  ASSUME IInv, [Next]_vars, KeepActor # 1, KeepCritic # 1
  PROVE  SavedInOrder'
<1>0. Typed /\ Control /\ SavedInOrder
  BY DEF IInv
<1>1. CASE UNCHANGED vars
  BY <1>0, <1>1 DEF vars, saveVars, diskVars, SavedInOrder, SavedOf, Done
<1>2. CASE Load \/ ValidateFirst \/ NextBatch \/ DynamicSampling \/ DataEnds
           \/ FirstGeneration \/ TakeGenerated
           \/ Train \/ Test \/ EndStep
  <2>1. pc' # "saving" /\ pc # "saving" /\ UNCHANGED <<saved, tracker>>
    <3>1. pc' # "saving" /\ pc # "saving"
      BY <1>2 DEF Load, LoadNothing, LoadLatest, LoadTorn, ValidateFirst, NextBatch,
         DynamicSampling, DataEnds, FirstGeneration, TakeGenerated, Train, Test, EndStep
    <3> QED BY <1>2, <3>1, DiskKept DEF saveVars, diskVars
  <2> QED BY <1>0, <2>1 DEF SavedInOrder, SavedOf, Done
<1>3. CASE Crash
  BY <1>3 DEF Crash, Volatile, SavedInOrder, SavedOf, Roles, AllRoles
<1>4. CASE Save
  <2>0. UNCHANGED <<global_steps, weights>>
    BY <1>4, SaveCases DEF SaveFrame
  <2>1. CASE Begun \/ Skipped
    <3>1. UNCHANGED <<saved, tracker>> /\ pc = "save" /\ (pc' = "end" \/ job'.stage = "actor")
      BY <2>1 DEF Begun, Skipped, SaveBegin, JobAt, saveVars, diskVars
    <3> QED BY <1>0, <3>1 DEF SavedInOrder, SavedOf, Done
  <2>2. CASE Over
    <3>1. /\ UNCHANGED <<saved, tracker>> /\ tracker = global_steps /\ pc' = "end"
          /\ pc = "saving" /\ job.stage = "over"
      BY <1>0, <2>2 DEF Over, diskVars, Control
    <3>2. \A role \in Roles : Done(role) /\ ~Done(role)'
      BY <3>1 DEF Done, Roles, AllRoles
    <3> QED BY <1>0, <3>1, <3>2 DEF SavedInOrder, SavedOf
  <2>3. CASE pc = "saving" /\ pc' = "saving" /\ (RemoveShard \/ MakeFolder)
    BY <1>0, <2>0, <2>3 DEF RemoveShard, MakeFolder, SavedInOrder, SavedOf, Done
  <2>4. CASE pc = "saving" /\ pc' = "saving" /\ Rotated
    <3> DEFINE s == saved[job.stage]
               n == KeepStart(job.stage)
               t == SubSeq(s, n + 1, Len(s))
    <3>1. /\ job.stage \in Roles /\ job'.stage = job.stage /\ UNCHANGED tracker
          /\ saved' = [saved EXCEPT ![job.stage] = t]
      BY <2>4 DEF Rotated, JobAt, diskVars
    <3>2. job.stage \in AllRoles /\ s \in Seq(Nat) /\ Len(s) \in Nat
      BY <1>0, <3>1 DEF Typed, Roles, AllRoles
    <3>3. n \in Nat /\ n <= Len(s)
      BY <3>1, <3>2, CheckpointsAssumption DEF KeepStart, Keep, Roles, AllRoles
    <3>4. Len(t) = Len(s) - n /\ \A i \in 1..Len(t) : t[i] = s[n + i]
      <4> HIDE DEF s, n
      <4>1. n + 1 \in 1..(Len(s) + 1) /\ Len(s) \in n..Len(s)
        BY <3>2, <3>3
      <4>2. /\ Len(t) = IF n + 1 <= Len(s) THEN Len(s) - (n + 1) + 1 ELSE 0
            /\ \A i \in 1..(Len(s) - (n + 1) + 1) : t[i] = s[n + 1 + i - 1]
        BY <3>2, <4>1, SubSeqProperties
      <4> QED BY <3>2, <3>3, <4>2
    <3>5. \A role \in Roles : Done(role)' <=> Done(role)
      BY <2>4, <3>1 DEF Done
    <3>6. \A role \in Roles \ {job.stage} : saved'[role] = saved[role]
      BY <1>0, <3>1 DEF Typed, Roles, AllRoles
    <3>7. saved'[job.stage] = t
      BY <1>0, <3>1, <3>2 DEF Typed
    <3>8. t # <<>> => /\ s # <<>> /\ t[Len(t)] = s[Len(s)]
                      /\ \A i \in 1..(Len(t) - 1) : t[i] = s[n + i] /\ n + i \in 1..(Len(s) - 1)
      <4>1. t \in Seq(Nat)
        BY <3>2, <3>3, SubSeqProperties
      <4>2. t # <<>> => Len(t) > 0
        BY <4>1, EmptySeq
      <4>3. s = <<>> => Len(s) = 0
        OBVIOUS
      <4> HIDE DEF t, s, n
      <4>4. t # <<>> => Len(t) \in 1..Len(t) /\ n + Len(t) = Len(s) /\ Len(s) > 0
        BY <3>2, <3>3, <3>4, <4>2
      <4>5. t # <<>> => t[Len(t)] = s[Len(s)]
        BY <3>4, <4>4
      <4>6. t # <<>> => \A i \in 1..(Len(t) - 1) : t[i] = s[n + i] /\ n + i \in 1..(Len(s) - 1)
        BY <3>2, <3>3, <3>4, <4>2
      <4> QED BY <4>3, <4>4, <4>5, <4>6
    <3>9. SavedOf(job.stage)
      BY <1>0, <3>1 DEF SavedInOrder
    <3> HIDE DEF t, n
    <3>10. \A role \in Roles \ {job.stage} : SavedOf(role)'
      BY <1>0, <2>0, <3>1, <3>5, <3>6 DEF SavedInOrder, SavedOf
    <3>11. ASSUME NEW role \in Roles, role = job.stage PROVE SavedOf(role)'
      BY <2>0, <3>1, <3>5, <3>7, <3>8, <3>9, <3>11 DEF SavedOf
    <3> QED BY <3>10, <3>11 DEF SavedInOrder
  <2>5. CASE pc = "saving" /\ pc' = "saving" /\ RoleSaved
    <3> DEFINE s == saved[job.stage]
               t == Append(s, global_steps)
    <3>1. /\ job.stage \in Roles /\ UNCHANGED tracker
          /\ job'.stage = AfterStage(job.stage)
          /\ saved' = [saved EXCEPT ![job.stage] = t]
      BY <2>5 DEF RoleSaved, NextJob, JobAt, diskVars
    <3>2. /\ job.stage \in AllRoles /\ s \in Seq(Nat) /\ Len(s) \in Nat
          /\ global_steps \in Nat /\ tracker < global_steps /\ tracker \in Int
      BY <1>0, <2>5, <3>1 DEF Typed, Control, Roles, AllRoles, Steps, Missing, Torn
    <3>3. Len(t) = Len(s) + 1 /\ t[Len(t)] = global_steps /\ \A i \in 1..Len(s) : t[i] = s[i]
      BY <3>2, AppendProperties
    <3>4. /\ ~Done(job.stage)
          /\ \A role \in Roles : role = job.stage => Done(role)'
      BY <2>5, <3>1 DEF Done, AfterStage, Roles, AllRoles
    <3>5. \A role \in Roles \ {job.stage} : Done(role)' <=> Done(role)
      BY <2>5, <3>1 DEF Done, AfterStage, Roles, AllRoles
    <3>6. saved'[job.stage] = t /\ \A role \in Roles \ {job.stage} : saved'[role] = saved[role]
      BY <1>0, <3>1, <3>2 DEF Typed, Roles, AllRoles
    <3>7. SavedOf(job.stage)
      BY <1>0, <3>1 DEF SavedInOrder
    <3>8. \A i \in 1..Len(s) : s[i] < global_steps
      <4> SUFFICES ASSUME NEW i \in 1..Len(s) PROVE s[i] < global_steps
        OBVIOUS
      <4>1. s # <<>> /\ s[Len(s)] = tracker /\ \A j \in 1..(Len(s) - 1) : s[j] < s[Len(s)]
        BY <3>4, <3>7 DEF SavedOf
      <4>2. i \in 1..(Len(s) - 1) \/ i = Len(s)
        BY <3>2
      <4>3. s[i] \in Nat
        BY <3>2, ElementOfSeq
      <4> QED BY <3>2, <4>1, <4>2, <4>3
    <3> HIDE DEF t, s
    <3>9. \A i \in 1..(Len(t) - 1) : t[i] < t[Len(t)]
      BY <3>2, <3>3, <3>8
    <3>10. \A role \in Roles \ {job.stage} : SavedOf(role)'
      BY <1>0, <2>0, <3>1, <3>5, <3>6 DEF SavedInOrder, SavedOf
    <3>11. ASSUME NEW role \in Roles, role = job.stage PROVE SavedOf(role)'
      <4>1. saved'[role] = t /\ Done(role)' /\ global_steps' = global_steps
        BY <2>0, <3>4, <3>6, <3>11 DEF Roles, AllRoles
      <4> QED BY <3>3, <3>9, <4>1 DEF SavedOf
    <3> QED BY <3>10, <3>11 DEF SavedInOrder
  <2>6. CASE pc = "saving" /\ pc' = "saving" /\ (SaveData \/ SaveTracker)
    <3>1. /\ UNCHANGED saved /\ job.stage \in {"data", "tracker"}
          /\ job'.stage \in {"data", "tracker", "over"}
      BY <2>6 DEF SaveData, SaveTracker, NextJob, AfterStage, JobAt
    <3>2. \A role \in Roles : Done(role) /\ Done(role)'
      BY <2>6, <3>1 DEF Done, Roles, AllRoles
    <3> QED BY <1>0, <2>0, <3>1, <3>2 DEF SavedInOrder, SavedOf
  <2>7. CASE pc = "saving" /\ pc' = "saving" /\ \E r \in Ranks : OpenShard(r) \/ WriteShard(r)
    <3>1. UNCHANGED <<saved, tracker>> /\ job'.stage = job.stage
      BY <1>0, <2>7 DEF OpenShard, WriteShard, Typed, Job
    <3> QED BY <1>0, <2>0, <2>7, <3>1 DEF SavedInOrder, SavedOf, Done
  <2> QED BY <1>4, <2>1, <2>2, <2>3, <2>4, <2>5, <2>6, <2>7, SaveCases
<1> QED BY <1>1, <1>2, <1>3, <1>4, Cases

\* A checkpoint that is whole.
Whole(k) ==
  /\ data[k] >= 0
  /\ \A role \in Roles, r \in Ranks :
       /\ shards[role][k][r] # <<>>
       /\ recipe # "dapo" => Len(shards[role][k][r][1]) = UpdatesAfter(role, k)
       /\ \A q \in Ranks : shards[role][k][q] = shards[role][k][r]

\* A checkpoint that is named stays as it is.
LEMMA LoadableStep ==
  ASSUME IInv, [Next]_vars, KeepActor # 1, KeepCritic # 1
  PROVE  LatestIsLoadable'
<1>0. Typed /\ Control /\ Counted /\ Progress /\ (tracker \in Steps => Whole(tracker))
  BY DEF IInv, LatestIsLoadable, Whole
<1>r. recipe' = recipe
  BY ConfigKept
<1>1. CASE UNCHANGED <<shards, data, tracker>>
  BY <1>1, <1>r DEF IInv, LatestIsLoadable
<1>2. CASE Save /\ pc = "saving" /\ pc' = "saving"
  <2>0. UNCHANGED <<global_steps, weights>>
    BY <1>2, SaveCases DEF SaveFrame
  <2>s. global_steps \in Steps /\ global_steps \in Nat
    BY <1>0, <1>2, StepWritten DEF IInv, Typed
  <2>1. CASE RemoveShard
    <3>1. PICK k \in Victims(job.stage), r \in Ranks :
             shards' = [shards EXCEPT ![job.stage][k][r] = <<>>]
      BY <2>1 DEF RemoveShard
    <3>2. k < tracker /\ UNCHANGED <<tracker, data>>
      BY <1>2, <2>1, VictimsOld DEF RemoveShard
    <3>3. k # tracker
      BY <1>0, <3>2 DEF Typed, Steps, Missing, Torn
    <3>4. \A role \in AllRoles : shards'[role][tracker] = shards[role][tracker]
      BY <1>0, <3>1, <3>3 DEF Typed
    <3> QED BY <1>r, <1>0, <3>2, <3>4 DEF LatestIsLoadable, Whole, Roles, AllRoles
  <2>2. CASE MakeFolder \/ Rotated \/ RoleSaved
    BY <1>1, <2>2 DEF MakeFolder, Rotated, RoleSaved, diskVars
  <2>3. CASE SaveData
    <3>1. UNCHANGED <<shards, tracker>> /\ \E x : data' = [data EXCEPT ![global_steps] = x]
      BY <2>3 DEF SaveData
    <3>2. tracker # global_steps
      BY <1>0, <1>2, <2>3, <2>s DEF SaveData, Control
    <3>3. tracker \in Steps => data'[tracker] = data[tracker]
      BY <1>0, <3>1, <3>2 DEF Typed
    <3> QED BY <1>r, <1>0, <3>1, <3>3 DEF LatestIsLoadable, Whole
  <2>4. CASE SaveTracker
    <3>1. tracker' = Torn \/ tracker' = global_steps
      BY <2>4 DEF SaveTracker
    <3>2. job.stage = "tracker" /\ UNCHANGED <<shards, data>>
      BY <2>4 DEF SaveTracker
    <3>3. data[global_steps] >= 0 /\ \A role \in Roles : Written(role, Ranks)
      BY <1>0, <1>2, <3>2 DEF Progress, Done, Roles, AllRoles
    <3>4. recipe # "dapo" =>
            \A role \in Roles : Len(weights[role]) = UpdatesAfter(role, global_steps)
      BY <1>0, <1>2 DEF Counted, Trained, Roles, AllRoles
    <3>5. Whole(global_steps)
      <4>1. \A role \in Roles, r \in Ranks : shards[role][global_steps][r] = <<weights[role]>>
        BY <3>3 DEF Written
      <4>2. \A role \in Roles, r \in Ranks :
               /\ shards[role][global_steps][r] # <<>>
               /\ shards[role][global_steps][r][1] = weights[role]
        BY <4>1
      <4> QED BY <3>3, <3>4, <4>1, <4>2 DEF Whole
    <3>6. Torn \notin Steps
      BY DEF Torn, Steps
    <3> QED BY <1>r, <3>1, <3>2, <3>5, <3>6 DEF LatestIsLoadable, Whole
  <2>5. ASSUME NEW r \in Ranks, OpenShard(r) \/ WriteShard(r)
        PROVE  LatestIsLoadable'
    <3>1. /\ UNCHANGED <<data, tracker>> /\ job.stage \in Roles
          /\ \E x : shards' = [shards EXCEPT ![job.stage][global_steps][r] = x]
      BY <2>5 DEF OpenShard, WriteShard
    <3>2. tracker # global_steps
      BY <1>0, <1>2, <2>s, <3>1 DEF Control, Roles, AllRoles
    <3>3. \A role \in AllRoles : shards'[role][tracker] = shards[role][tracker]
      BY <1>0, <3>1, <3>2 DEF Typed
    <3> QED BY <1>r, <1>0, <3>1, <3>3 DEF LatestIsLoadable, Whole, Roles, AllRoles
  <2> QED BY <1>2, <2>1, <2>2, <2>3, <2>4, <2>5, SaveCases DEF Begun, Skipped, Over
<1>3. CASE Save /\ ~(pc = "saving" /\ pc' = "saving")
  BY <1>1, <1>3, SaveCases DEF Begun, Skipped, Over, saveVars, diskVars
<1>4. CASE Load \/ ValidateFirst \/ NextBatch \/ DynamicSampling \/ DataEnds
           \/ FirstGeneration \/ TakeGenerated
           \/ Train \/ Test \/ EndStep
  BY <1>1, <1>4, DiskKept DEF saveVars, diskVars
<1>5. CASE Crash
  BY <1>1, <1>5 DEF Crash, diskVars
<1>6. CASE UNCHANGED vars
  BY <1>1, <1>6 DEF vars, saveVars, diskVars
<1> QED BY <1>2, <1>3, <1>4, <1>5, <1>6, Cases

\* The invariant is inductive.
LEMMA IInvStep ==
  ASSUME IInv, [Next]_vars, KeepActor # 1, KeepCritic # 1
  PROVE  IInv'
<1>1. ASSUME NEW r \in Ranks, tracker \in Steps
      PROVE  Lengths(tracker, WeightsAt(tracker, r))
  <2>1. \A role \in Roles : recipe # "dapo" =>
          Len(shards[role][tracker][r][1]) = UpdatesAfter(role, tracker)
    BY <1>1 DEF IInv, LatestIsLoadable
  <2>2. \A role \in AllRoles \ Roles : UpdatesAfter(role, tracker) = 0
    BY DEF AllRoles, Roles, UpdatesAfter
  <2> QED BY <2>1, <2>2 DEF Lengths, WeightsAt
<1>2. Counted'
  BY <1>1, CountedStep DEF IInv
<1> QED BY <1>2, TypedStep, ControlStep, BoundedStep, ProgressStep, SavedStep,
        LoadableStep DEF IInv

\* The invariant holds throughout.
LEMMA Invariance ==
  ASSUME KeepActor # 1, KeepCritic # 1
  PROVE  Spec => []IInv
<1>1. IInv /\ [Next]_vars => IInv'
  BY IInvStep
<1> QED BY <1>1, InitIInv, PTL DEF Spec

\* The tracker never names a checkpoint that cannot be loaded, whatever
\* crashes wherever.
THEOREM Loadable ==
  ASSUME KeepActor # 1, KeepCritic # 1
  PROVE  Spec => []LatestIsLoadable
<1>1. IInv => LatestIsLoadable
  BY DEF IInv
<1> QED BY <1>1, Invariance, PTL

\* A run that is started again fails to, if ever, only on an emptied tracker.
THEOREM Resumes ==
  ASSUME KeepActor # 1, KeepCritic # 1
  PROVE  Spec => []AutoResume
<1>1. Init => AutoResume
  BY DEF Init, AutoResume
<1>2. IInv /\ AutoResume /\ [Next]_vars => AutoResume'
  <2> SUFFICES ASSUME IInv, AutoResume, [Next]_vars PROVE AutoResume'
    OBVIOUS
  <2>1. CASE UNCHANGED vars
    BY <2>1 DEF vars, saveVars, diskVars, AutoResume
  <2>2. CASE Load
    <3>1. tracker \in Steps => Readable(tracker)
      BY DEF IInv, LatestIsLoadable, Readable, Torn
    <3> QED BY <2>2, <3>1 DEF Load, LoadNothing, LoadLatest, LoadTorn, AutoResume, saveVars,
               diskVars
  <2>3. CASE Next /\ ~Load
    <3>1. pc' # "broken"
      BY <2>3, Cases, SaveCases DEF ValidateFirst, NextBatch, DynamicSampling,
         DataEnds, FirstGeneration, TakeGenerated, Train, Test, EndStep, Crash, Begun, Skipped, Over
    <3> QED BY <3>1 DEF AutoResume
  <2> QED BY <2>1, <2>2, <2>3
<1> QED BY <1>1, <1>2, Invariance, PTL DEF Spec

-----------------------------------------------------------------------------
\* The types and the control do not depend on what is kept on the disk.
Base == Typed /\ Control /\ Bounded


\* Weights, files and generations within the places of an epoch.
Weights == Seq(Place)
File == {<<>>} \cup {s \in Seq(Weights) : Len(s) = 1}
Generation == [pos : Place, updates : Nat]

\* The bounds of what is on disk and in the managers.
DiskOK ==
  /\ shards \in [AllRoles -> [Steps -> [Ranks -> File]]]
  /\ folders \subseteq Steps
  /\ data \in [Steps -> {Missing, Torn} \cup (0..BatchesPerEpoch)]
  /\ job.written \subseteq job.opened
SavedOK ==
  \A role \in AllRoles :
    /\ saved[role] \in Seq(Steps)
    /\ \A i, j \in DOMAIN saved[role] : i < j => saved[role][i] < saved[role][j]
    /\ pc \in {"down", "loaded"} => saved[role] = <<>>
    /\ \A i \in DOMAIN saved[role] :
         /\ pc \in Working \/ (pc = "saving" /\ ~Done(role)) => saved[role][i] < global_steps
         /\ pc \in {"saving", "end"} => saved[role][i] <= global_steps

\* The bounds of the loop over the data, and of what DAPO still has room for.
PlaceOK ==
  /\ weights \in [AllRoles -> Weights]
  /\ pos \in 0..BatchesPerEpoch /\ epoch \in 0..(total_epochs - 1)
  /\ batch \in Seq(Generation) /\ future \in Seq(Generation)
  /\ rollout \in Nat
BatchOK ==
  /\ recipe # "dapo" => Len(batch) <= 1 /\ kept = 0 /\ ~closing
  /\ MaxGenBatches > 0 =>
       /\ Len(batch) <= MaxGenBatches
       /\ pc = "next" => Len(batch) < MaxGenBatches
  /\ pc \in {"down", "loaded"} => batch = <<>>
  /\ kept \in 0..PromptBatch
PastOK == resumed \subseteq Steps /\ cut \subseteq Steps

Ok == Base /\ DiskOK /\ SavedOK /\ PlaceOK /\ BatchOK /\ PastOK

\* Together with the base they are the types.
LEMMA OkTypes == Ok => TypeOK
<1> SUFFICES ASSUME Ok PROVE TypeOK
  OBVIOUS
<1>1. /\ job.stage \in {"idle", "actor", "critic", "data", "tracker", "over"}
      /\ job.phase \in {"rotate", "open", "write"} /\ job.opened \subseteq Ranks
      /\ tracker \in {Missing, Torn} \cup Steps /\ global_steps \in Nat
      /\ Len(future) <= 1
      /\ crashes \in Nat /\ crashes <= MaxCrashes
  BY DEF Ok, Base, Typed, Job, Control, Bounded
<1>2. crashes \in 0..MaxCrashes
  BY <1>1, TrainingAssumption
<1> QED BY <1>1, <1>2 DEF Ok, TypeOK, DiskOK, SavedOK, PlaceOK, BatchOK, PastOK, File, Weights, Generation

\* One file of one checkpoint is replaced.
LEMMA FileReplaced ==
  ASSUME NEW f \in [AllRoles -> [Steps -> [Ranks -> File]]],
         NEW role \in AllRoles, NEW k, NEW r, NEW s \in File
  PROVE  [f EXCEPT ![role][k][r] = s] \in [AllRoles -> [Steps -> [Ranks -> File]]]
<1>1. f[role] \in [Steps -> [Ranks -> File]]
  OBVIOUS
<1>2. ASSUME NEW g \in [Ranks -> File]
      PROVE  [g EXCEPT ![r] = s] \in [Ranks -> File]
  OBVIOUS
<1>3. [f[role] EXCEPT ![k] = [@ EXCEPT ![r] = s]] \in [Steps -> [Ranks -> File]]
  BY <1>1, <1>2
<1> QED BY <1>3

\* A file holds weights.
LEMMA FileOf ==
  /\ <<>> \in File
  /\ \A w \in Weights : <<w>> \in File
  /\ \A s \in File : s # <<>> => s[1] \in Weights
<1>1. \A w \in Weights : <<w>> \in Seq(Weights) /\ Len(<<w>>) = 1
  OBVIOUS
<1>2. ASSUME NEW s \in Seq(Weights), Len(s) = 1
      PROVE  s[1] \in Weights
  BY <1>2, ElementOfSeq
<1> QED BY <1>1, <1>2 DEF File

\* What is on disk keeps its types.
LEMMA DiskOKStep ==
  ASSUME Ok, [Next]_vars
  PROVE  DiskOK'
<1> USE DEF AllRoles
<1>0. Base /\ Typed /\ DiskOK /\ PlaceOK /\ job \in Job /\ Roles \subseteq AllRoles
  BY DEF Ok, Base, Typed, Roles
<1>1. CASE UNCHANGED <<shards, data, folders, job>>
  BY <1>0, <1>1 DEF DiskOK
<1>2. CASE Crash
  BY <1>0, <1>2 DEF Crash, Volatile, diskVars, DiskOK, NoJob
<1>3. CASE Save
  <2>0. pc = "saving" => global_steps \in Steps
    BY <1>0, StepWritten DEF Base
  <2>1. CASE Begun \/ Skipped \/ Over
    BY <1>0, <2>1 DEF Begun, Skipped, Over, SaveBegin, JobAt, NoJob, saveVars, diskVars, DiskOK
  <2>2. CASE RemoveShard \/ \E r \in Ranks : OpenShard(r) \/ WriteShard(r)
    <3>1. /\ job.stage \in AllRoles /\ UNCHANGED <<data, folders>>
          /\ \E k, r, s : /\ s \in {<<>>, <<weights[job.stage]>>}
                          /\ shards' = [shards EXCEPT ![job.stage][k][r] = s]
      BY <1>0, <2>2 DEF RemoveShard, OpenShard, WriteShard
    <3>2. <<>> \in File /\ <<weights[job.stage]>> \in File
      BY <1>0, <3>1, FileOf DEF PlaceOK
    <3>3. shards' \in [AllRoles -> [Steps -> [Ranks -> File]]]
      <4>1. PICK k, r, s : s \in File /\ shards' = [shards EXCEPT ![job.stage][k][r] = s]
        BY <3>1, <3>2
      <4>2. shards \in [AllRoles -> [Steps -> [Ranks -> File]]] /\ job.stage \in AllRoles
        BY <1>0, <3>1 DEF DiskOK
      <4> HIDE DEF AllRoles
      <4> QED BY <4>1, <4>2, FileReplaced
    <3>4. job'.written \subseteq job'.opened
      BY <1>0, <2>2 DEF RemoveShard, OpenShard, WriteShard, DiskOK, Job
    <3> QED BY <1>0, <3>1, <3>3, <3>4 DEF DiskOK
  <2>3. CASE pc = "saving" /\ (MakeFolder \/ Rotated \/ RoleSaved \/ SaveData \/ SaveTracker)
    <3>1. UNCHANGED shards /\ folders' \subseteq folders \cup {global_steps}
      BY <2>3 DEF MakeFolder, Rotated, RoleSaved, SaveData, SaveTracker, diskVars
    <3>2. data' \in [Steps -> {Missing, Torn} \cup (0..BatchesPerEpoch)]
      BY <1>0, <2>3 DEF MakeFolder, Rotated, RoleSaved, SaveData, SaveTracker, diskVars, DiskOK, PlaceOK
    <3>3. (job'.written = {} /\ job'.opened = {}) \/ UNCHANGED job
      BY <2>3 DEF MakeFolder, Rotated, RoleSaved, SaveData, SaveTracker, JobAt, NextJob
    <3> QED BY <1>0, <2>0, <2>3, <3>1, <3>2, <3>3 DEF DiskOK
  <2> QED BY <1>3, <2>1, <2>2, <2>3, SaveCases
<1> QED BY <1>1, <1>2, <1>3, Cases DEF vars, saveVars, diskVars, Load, ValidateFirst, NextBatch,
     DynamicSampling, DataEnds, FirstGeneration, TakeGenerated, Train, Test, EndStep
\* The steps a manager lists stay in order, and before the step there is.
LEMMA SavedOKStep ==
  ASSUME Ok, [Next]_vars
  PROVE  SavedOK'
<1> SUFFICES ASSUME NEW role \in AllRoles
             PROVE  /\ saved'[role] \in Seq(Steps)
                    /\ \A i, j \in DOMAIN saved'[role] : i < j => saved'[role][i] < saved'[role][j]
                    /\ pc' \in {"down", "loaded"} => saved'[role] = <<>>
                    /\ \A i \in DOMAIN saved'[role] :
                         /\ pc' \in Working \/ (pc' = "saving" /\ ~Done(role)')
                              => saved'[role][i] < global_steps'
                         /\ pc' \in {"saving", "end"} => saved'[role][i] <= global_steps'
  BY DEF SavedOK
<1>0. Base /\ Typed /\ Control /\ SavedOK /\ saved \in [AllRoles -> Seq(Nat)] /\ job \in Job
      /\ global_steps \in Nat /\ Roles \subseteq AllRoles
  <2>1. Roles \subseteq AllRoles
    BY DEF Roles, AllRoles
  <2> QED BY <2>1 DEF Ok, Base, Typed
<1>s. /\ saved[role] \in Seq(Steps)
      /\ \A i, j \in DOMAIN saved[role] : i < j => saved[role][i] < saved[role][j]
      /\ pc \in {"down", "loaded"} => saved[role] = <<>>
      /\ \A i \in DOMAIN saved[role] :
           /\ pc \in Working \/ (pc = "saving" /\ ~Done(role)) => saved[role][i] < global_steps
           /\ pc \in {"saving", "end"} => saved[role][i] <= global_steps
  BY <1>0 DEF SavedOK
<1>n. \A i \in DOMAIN saved[role] : saved[role][i] \in Nat
  <2>1. saved[role] \in Seq(Nat)
    BY <1>0
  <2> QED BY <2>1, ElementOfSeq, LenProperties
<1>e. <<>> \in Seq(Steps) /\ DOMAIN <<>> = {}
  OBVIOUS
<1>1. CASE UNCHANGED vars
  BY <1>s, <1>1 DEF vars, saveVars, diskVars, Done
<1>2. CASE Crash
  <2>1. saved'[role] = <<>>
    BY <1>2 DEF Crash, Volatile
  <2> QED BY <1>e, <2>1
<1>3. CASE Load
  <2>1. saved'[role] = <<>>
    BY <1>3, <1>s DEF Load, saveVars
  <2> QED BY <1>e, <2>1
<1>4. CASE ValidateFirst
  <2>1. saved'[role] = <<>>
    BY <1>4, <1>s DEF ValidateFirst, saveVars
  <2> QED BY <1>e, <2>1
<1>5. CASE NextBatch \/ DynamicSampling \/ DataEnds \/ FirstGeneration \/ TakeGenerated \/ Train \/ Test
  <2>1. /\ UNCHANGED <<saved, job, global_steps>> /\ pc \in Working
        /\ pc' \in {"next", "first", "loop", "train", "test", "save", "done", "failed"}
    BY <1>5 DEF NextBatch, DynamicSampling, DataEnds, FirstGeneration, TakeGenerated, Train, Test,
       saveVars, Working
  <2> QED BY <1>s, <2>1
<1>6. CASE EndStep
  <2>1. UNCHANGED saved /\ pc = "end" /\ global_steps' = global_steps + 1
        /\ pc' \in {"done", "loop", "next"}
    BY <1>6 DEF EndStep, saveVars
  <2> QED BY <1>0, <1>s, <1>n, <2>1
<1>7. CASE Save
  <2>0. UNCHANGED global_steps /\ (pc = "saving" => global_steps \in Steps)
    BY <1>0, <1>7, SaveCases, StepWritten DEF SaveFrame, Base
  <2>1. CASE Begun \/ Skipped \/ Over
    <3>1. /\ UNCHANGED saved
          /\ \/ pc = "save" /\ pc' \in {"saving", "end"}
             \/ pc = "saving" /\ pc' = "end"
      BY <2>1 DEF Begun, Skipped, Over, saveVars
    <3>2. \A i \in DOMAIN saved[role] :
             /\ pc = "save" => saved[role][i] < global_steps /\ saved[role][i] <= global_steps
             /\ pc = "saving" => saved[role][i] <= global_steps
      BY <1>0, <1>s, <1>n DEF Working
    <3> QED BY <1>s, <2>0, <3>1, <3>2 DEF Working
  <2>2. CASE pc = "saving" /\ pc' = "saving"
             /\ (RemoveShard \/ MakeFolder \/ SaveData \/ SaveTracker
                 \/ \E r \in Ranks : OpenShard(r) \/ WriteShard(r))
    <3>1. UNCHANGED saved
      BY <2>2 DEF RemoveShard, MakeFolder, SaveData, SaveTracker, OpenShard, WriteShard
    <3>2. ~Done(role)' => ~Done(role)
      <4>1. CASE SaveData \/ SaveTracker
        <5>1. job.stage \in {"data", "tracker"} /\ job'.stage \in {"data", "tracker", "over"}
          BY <4>1 DEF SaveData, SaveTracker, JobAt, NextJob, AfterStage
        <5> QED BY <2>2, <5>1 DEF Done, AllRoles
      <4>2. CASE ~(SaveData \/ SaveTracker)
        <5>1. job'.stage = job.stage
          BY <1>0, <2>2, <4>2 DEF RemoveShard, MakeFolder, OpenShard, WriteShard, Job
        <5> QED BY <2>2, <5>1 DEF Done
      <4> QED BY <4>1, <4>2
    <3> QED BY <1>s, <2>0, <2>2, <3>1, <3>2 DEF Working
  <2>3. CASE pc = "saving" /\ pc' = "saving" /\ Rotated
    <3>0. /\ job'.stage = job.stage /\ job.stage \in AllRoles
          /\ saved' = [saved EXCEPT ![job.stage] = SubSeq(@, KeepStart(job.stage) + 1, Len(@))]
      BY <1>0, <2>3 DEF Rotated, JobAt
    <3>1. Done(role)' <=> Done(role)
      BY <2>3, <3>0 DEF Done
    <3>2. CASE job.stage # role
      <4>1. saved'[role] = saved[role]
        BY <1>0, <3>0, <3>2
      <4> QED BY <1>s, <2>0, <2>3, <3>1, <4>1 DEF Working
    <3>3. CASE job.stage = role
      <4> DEFINE s == saved[role]
                 n == KeepStart(role)
      <4>1. s \in Seq(Steps) /\ Len(s) \in Nat /\ n \in Nat /\ n <= Len(s)
        <5>1. Keep[role] \in Nat /\ Len(saved[role]) \in Nat
          BY <1>s, CheckpointsAssumption DEF Keep, AllRoles
        <5> QED BY <1>s, <5>1 DEF KeepStart
      <4>2. saved'[role] = SubSeq(s, n + 1, Len(s))
        BY <1>0, <3>0, <3>3
      <4> HIDE DEF s, n
      <4>3. /\ saved'[role] \in Seq(Steps) /\ DOMAIN saved'[role] = 1..(Len(s) - n)
            /\ \A i \in 1..(Len(s) - n) : saved'[role][i] = s[n + i]
        <5>1. /\ SubSeq(s, n + 1, Len(s)) \in Seq(Steps)
              /\ Len(SubSeq(s, n + 1, Len(s))) = Len(s) - n
              /\ \A i \in 1..(Len(s) - n) : SubSeq(s, n + 1, Len(s))[i] = s[n + i]
          BY <4>1, SubSeqProperties
        <5> QED BY <4>2, <5>1, LenProperties
      <4>4. \A i \in 1..(Len(s) - n) : n + i \in DOMAIN s
        <5>1. DOMAIN s = 1..Len(s)
          BY <4>1, LenProperties
        <5> QED BY <4>1, <5>1
      <4>5. \A i, j \in DOMAIN saved'[role] : i < j => saved'[role][i] < saved'[role][j]
        <5>1. \A i, j \in 1..(Len(s) - n) : i < j => n + i < n + j
          BY <4>1
        <5> QED BY <1>s, <4>3, <4>4, <5>1 DEF s
      <4>6. \A i \in DOMAIN saved'[role] :
               /\ ~Done(role) => saved'[role][i] < global_steps
               /\ saved'[role][i] <= global_steps
        BY <1>s, <2>3, <4>3, <4>4 DEF s
      <4> QED BY <2>0, <2>3, <3>1, <4>3, <4>5, <4>6 DEF Working
    <3> QED BY <3>2, <3>3
  <2>4. CASE pc = "saving" /\ pc' = "saving" /\ RoleSaved
    <3>0. /\ job.stage \in AllRoles /\ (job.stage = "critic" => UseCritic)
          /\ job'.stage = AfterStage(job.stage)
          /\ saved' = [saved EXCEPT ![job.stage] = Append(@, global_steps)]
      BY <1>0, <2>4 DEF RoleSaved, NextJob, JobAt, Roles
    <3>1. CASE job.stage # role
      <4>1. saved'[role] = saved[role]
        BY <1>0, <3>0, <3>1
      <4>2. ~Done(role)' => ~Done(role)
        BY <2>4, <3>0, <3>1 DEF Done, AfterStage, AllRoles
      <4> QED BY <1>s, <2>0, <2>4, <4>1, <4>2 DEF Working
    <3>2. CASE job.stage = role
      <4> DEFINE s == saved[role]
      <4>1. saved'[role] = Append(s, global_steps) /\ global_steps \in Steps /\ s \in Seq(Steps)
        BY <1>0, <1>s, <2>0, <2>4, <3>0, <3>2
      <4>2. Done(role)' /\ ~Done(role)
        BY <2>4, <3>0, <3>2 DEF Done, AfterStage, AllRoles
      <4>d. \A i \in DOMAIN s : s[i] < global_steps /\ s[i] \in Nat
        BY <1>s, <1>n, <2>4, <4>2
      <4>o. \A i, j \in DOMAIN s : i < j => s[i] < s[j]
        BY <1>s
      <4> HIDE DEF s
      <4>3. /\ saved'[role] \in Seq(Steps) /\ DOMAIN saved'[role] = 1..(Len(s) + 1)
            /\ \A i \in 1..Len(s) : saved'[role][i] = s[i]
            /\ saved'[role][Len(s) + 1] = global_steps
            /\ DOMAIN s = 1..Len(s) /\ Len(s) \in Nat
        BY <4>1, AppendProperties, LenProperties
      <4>4. \A i \in 1..(Len(s) + 1) : i \in 1..Len(s) \/ i = Len(s) + 1
        BY <4>3
      <4>5. \A i \in DOMAIN saved'[role] : saved'[role][i] <= global_steps
        BY <1>0, <4>3, <4>4, <4>d
      <4>6. ASSUME NEW i \in DOMAIN saved'[role], NEW j \in DOMAIN saved'[role], i < j
            PROVE  saved'[role][i] < saved'[role][j]
        <5>1. i \in 1..Len(s)
          BY <4>3, <4>6
        <5> QED BY <4>3, <4>4, <4>d, <4>o, <4>6, <5>1
      <4> QED BY <2>0, <2>4, <4>2, <4>3, <4>5, <4>6 DEF Working
    <3> QED BY <3>1, <3>2
  <2> QED BY <1>7, <2>1, <2>2, <2>3, <2>4, SaveCases
<1> QED BY <1>1, <1>2, <1>3, <1>4, <1>5, <1>6, <1>7, Cases
\* The iterator stays within the epochs.
LEMMA PullsWithin ==
  ASSUME PlaceOK, HasNext, PullNext, total_epochs \in Nat, total_epochs' = total_epochs
  PROVE  pos' \in Place /\ pos' \in 0..BatchesPerEpoch /\ epoch' \in 0..(total_epochs' - 1)
<1>1. /\ BatchesPerEpoch \in Nat \ {0} /\ pos \in 0..BatchesPerEpoch
      /\ epoch \in 0..(total_epochs - 1)
  BY TrainingAssumption DEF PlaceOK
<1>2. CASE pos < BatchesPerEpoch
  BY <1>1, <1>2 DEF PullNext, Place
<1>3. CASE ~(pos < BatchesPerEpoch)
  <2>1. pos' = 1 /\ epoch' = epoch + 1 /\ epoch + 1 < total_epochs
    BY <1>3 DEF PullNext, HasNext
  <2>2. epoch' \in 0..(total_epochs - 1)
    BY <1>1, <2>1
  <2> QED BY <1>1, <2>1, <2>2 DEF Place
<1> QED BY <1>2, <1>3

\* The places of a batch are places of the epoch.
LEMMA PlacesWithin ==
  ASSUME NEW b \in Seq(Generation)
  PROVE  Places(b) \in Seq(Place)
<1>1. Len(b) \in Nat /\ DOMAIN b = 1..Len(b) /\ \A i \in 1..Len(b) : b[i] \in Generation
  BY LenProperties, ElementOfSeq
<1>2. Places(b) \in [1..Len(b) -> Place]
  BY <1>1 DEF Places, Generation
<1> DEFINE f == Places(b)
           n == Len(b)
<1>3. f \in [1..n -> Place] /\ n \in Nat
  BY <1>1, <1>2
<1> HIDE DEF f, n
<1>4. f \in Seq(Place)
  BY <1>3
<1> QED BY <1>4 DEF f

\* Steps that generate stay within the epochs, too.
LEMMA GenerationOK ==
  ASSUME Ok, NEW p \in Place
  PROVE  /\ Generated(p) \in Seq(Generation) /\ Len(Generated(p)) = 1
         /\ batch \o Generated(p) \in Seq(Generation)
         /\ Len(batch \o Generated(p)) = Len(batch) + 1
<1>1. Updates \in Nat
  BY DEF Ok, Base, Typed, Updates, AllRoles
<1>2. [pos |-> p, updates |-> Updates] \in Generation
  BY <1>1 DEF Generation
<1>3. Generated(p) \in Seq(Generation) /\ Len(Generated(p)) = 1
  <2> DEFINE g == [pos |-> p, updates |-> Updates]
  <2>1. g \in Generation /\ Generated(p) = <<g>>
    BY <1>2 DEF Generated, Synced
  <2> HIDE DEF g
  <2> QED BY <2>1
<1>4. batch \in Seq(Generation)
  BY DEF Ok, PlaceOK
<1>5. /\ batch \o Generated(p) \in Seq(Generation)
      /\ Len(batch \o Generated(p)) = Len(batch) + Len(Generated(p))
  BY <1>3, <1>4, ConcatProperties, Zenon
<1> QED BY <1>3, <1>5, Zenon

\* The places of what is generated and trained on are places of an epoch.
LEMMA PlaceOKStep ==
  ASSUME Ok, [Next]_vars
  PROVE  PlaceOK'
<1>0. /\ Base /\ Typed /\ PlaceOK /\ DiskOK /\ total_epochs' = total_epochs
      /\ weights \in [AllRoles -> Weights] /\ rollout \in Nat
      /\ pos \in 0..BatchesPerEpoch /\ epoch \in 0..(total_epochs - 1)
      /\ batch \in Seq(Generation) /\ future \in Seq(Generation)
      /\ <<>> \in Seq(Generation) /\ <<>> \in Weights
  <2>1. <<>> \in Seq(Generation) /\ <<>> \in Weights
    BY DEF Weights
  <2> QED BY <2>1, ConfigKept DEF Ok, Base, PlaceOK
<1>1. CASE UNCHANGED <<weights, pos, epoch, batch, future, rollout>>
  BY <1>0, <1>1 DEF PlaceOK
<1>2. CASE Load
  <2>1. UNCHANGED <<epoch, batch, future, rollout>>
    BY <1>2 DEF Load
  <2>2. weights' \in [AllRoles -> Weights] /\ pos' \in 0..BatchesPerEpoch
    <3>1. CASE UNCHANGED <<weights, pos>>
      BY <1>0, <3>1
    <3>2. CASE tracker \in Steps /\ Readable(tracker) /\ pos' = PosAt(tracker)
               /\ \E r \in Ranks : weights' = WeightsAt(tracker, r)
      <4>1. PICK r \in Ranks : weights' = WeightsAt(tracker, r)
        BY <3>2
      <4>2. \A role \in Roles : /\ role \in AllRoles
                                /\ shards[role][tracker][r] \in File
                                /\ shards[role][tracker][r] # <<>>
        BY <1>0, <3>2 DEF DiskOK, Readable, Roles, AllRoles
      <4>3. \A role \in Roles : shards[role][tracker][r][1] \in Weights
        BY <4>2, FileOf
      <4>4. weights' \in [AllRoles -> Weights]
        BY <1>0, <4>1, <4>3 DEF WeightsAt
      <4>5. data[tracker] \in {Missing, Torn} \cup (0..BatchesPerEpoch) /\ data[tracker] # Torn
        BY <1>0, <3>2 DEF DiskOK, Readable
      <4>6. pos' \in 0..BatchesPerEpoch
        BY <3>2, <4>5, TrainingAssumption DEF PosAt
      <4> QED BY <4>4, <4>6
    <3> QED BY <1>2, <3>1, <3>2 DEF Load, LoadNothing, LoadLatest, LoadTorn, RestoredPos
  <2> QED BY <1>0, <2>1, <2>2 DEF PlaceOK
<1>3. CASE NextBatch \/ DynamicSampling \/ DataEnds \/ FirstGeneration \/ TakeGenerated
  <2>1. UNCHANGED weights
    BY <1>3 DEF NextBatch, DynamicSampling, DataEnds, FirstGeneration, TakeGenerated
  <2>2. \/ HasNext /\ PullNext
        \/ UNCHANGED <<pos, epoch>> /\ batch' \in {batch, future} /\ future' \in {future, <<>>}
           /\ UNCHANGED rollout
    BY <1>3 DEF NextBatch, DynamicSampling, DataEnds, FirstGeneration, TakeGenerated,
       AsyncGenNextBatch
  <2>3. /\ batch' \in {batch, future, Generated(pos'), batch \o Generated(pos')}
        /\ future' \in {future, <<>>, Generated(pos')}
        /\ rollout' \in {rollout, Updates}
    BY <1>3 DEF NextBatch, DynamicSampling, DataEnds, FirstGeneration, TakeGenerated,
       AsyncGenNextBatch, Accumulated, Synced
  <2>4. CASE HasNext /\ PullNext
    <3>1. pos' \in Place /\ pos' \in 0..BatchesPerEpoch /\ epoch' \in 0..(total_epochs' - 1)
      BY <1>0, <2>4, PullsWithin DEF Typed
    <3>2. Generated(pos') \in Seq(Generation) /\ batch \o Generated(pos') \in Seq(Generation)
      BY <3>1, GenerationOK
    <3>3. batch' \in Seq(Generation) /\ future' \in Seq(Generation)
      BY <1>0, <2>3, <3>2
    <3>4. rollout' \in Nat
      BY <1>0, <2>3 DEF Typed, Updates, AllRoles
    <3> QED BY <1>0, <2>1, <3>1, <3>3, <3>4 DEF PlaceOK
  <2>5. CASE ~(HasNext /\ PullNext)
    BY <1>0, <2>1, <2>2, <2>5 DEF PlaceOK
  <2> QED BY <2>4, <2>5
<1>4. CASE Train
  <2>1. Places(batch) \in Seq(Place)
    BY <1>0, PlacesWithin
  <2>2. \A role \in AllRoles : weights[role] \o Places(batch) \in Weights
    <3>1. ASSUME NEW role \in AllRoles PROVE weights[role] \o Places(batch) \in Weights
      <4>1. weights[role] \in Seq(Place)
        BY <1>0 DEF Weights
      <4>2. weights[role] \o Places(batch) \in Seq(Place)
        BY <2>1, <4>1, ConcatProperties
      <4> QED BY <4>2 DEF Weights
    <3> QED BY <3>1
  <2>3. weights' \in [AllRoles -> Weights]
    BY <1>0, <1>4, <2>2 DEF Train
  <2> QED BY <1>0, <1>4, <2>3 DEF Train, PlaceOK, loopVars
<1>5. CASE EndStep
  BY <1>0, <1>5 DEF EndStep, PlaceOK
<1>6. CASE Crash
  <2>1. /\ weights' = Initial /\ epoch' = 0 /\ pos' = 0 /\ batch' = <<>> /\ future' = <<>>
        /\ rollout' = 0
    BY <1>6 DEF Crash, Volatile
  <2>2. weights' \in [AllRoles -> Weights]
    BY <1>0, <2>1 DEF Initial
  <2>3. 0 \in 0..(total_epochs - 1) /\ 0 \in 0..BatchesPerEpoch
    BY <1>0, TrainingAssumption DEF Typed
  <2> QED BY <1>0, <2>1, <2>2, <2>3 DEF PlaceOK
<1>7. CASE ValidateFirst \/ Test \/ Save
  <2>1. UNCHANGED <<weights, loopVars>>
    BY <1>7, SaveCases DEF ValidateFirst, Test, SaveFrame
  <2> QED BY <1>1, <2>1 DEF loopVars
<1> QED BY <1>1, <1>2, <1>3, <1>4, <1>5, <1>6, <1>7, Cases DEF vars, loopVars
\* DAPO stops before it has gathered more than it may, and the others take one
\* generation at a time.
LEMMA BatchOKStep ==
  ASSUME Ok, [Next]_vars
  PROVE  BatchOK'
<1>0. /\ Base /\ Typed /\ Control /\ PlaceOK /\ BatchOK /\ recipe' = recipe
      /\ MaxGenBatches \in Nat /\ PromptBatch \in Nat \ {0} /\ GenBatch \in Nat
      /\ Len(batch) \in Nat /\ Len(future) <= 1 /\ kept \in 0..PromptBatch
      /\ Len(<<>>) = 0
  <2>1. Base /\ PlaceOK /\ BatchOK /\ Typed /\ Control
    BY DEF Ok, Base
  <2>2. recipe' = recipe
    BY ConfigKept
  <2>3. Len(batch) \in Nat
    BY <2>1, LenProperties DEF PlaceOK
  <2>4. Len(future) <= 1 /\ kept \in 0..PromptBatch
    BY <2>1 DEF Control, BatchOK
  <2> QED BY <2>1, <2>2, <2>3, <2>4, TrainingAssumption
<1>1. CASE UNCHANGED <<batch, kept, closing>> /\ (pc' \in {"down", "loaded"} => pc \in {"down", "loaded"})
           /\ (pc' = "next" => pc \in {"next", "loaded"})
  <2>1. pc = "loaded" /\ MaxGenBatches > 0 => Len(batch) < MaxGenBatches
    BY <1>0 DEF BatchOK
  <2> QED BY <1>0, <1>1, <2>1 DEF BatchOK
<1>2. CASE NextBatch
  <2>1. /\ recipe = "ppo" /\ UNCHANGED <<kept, closing>> /\ pc' \in {"train", "done"}
        /\ batch' = batch \/ batch' = Generated(pos')
    BY <1>2 DEF NextBatch
  <2>2. \A p : Len(Generated(p)) = 1
    BY OneGeneration
  <2>3. Len(batch') = Len(batch) \/ Len(batch') = 1
    BY <2>1, <2>2
  <2>4. kept' = 0 /\ ~closing' /\ recipe' # "dapo" /\ pc' \notin {"down", "loaded", "next"}
    <3>1. kept = 0 /\ ~closing
      BY <1>0, <2>1 DEF BatchOK
    <3> QED BY <1>0, <2>1, <3>1
  <2>5. Len(batch) <= 1
    BY <1>0, <2>1 DEF BatchOK
  <2>6. Len(batch') <= 1 /\ Len(batch') \in Nat /\ (MaxGenBatches > 0 => Len(batch') <= MaxGenBatches)
    <3>1. \A n, m, k \in Nat : (m = n \/ m = 1) /\ n <= 1 => m <= 1 /\ (k > 0 => m <= k)
      OBVIOUS
    <3>0. 1 \in Nat
      OBVIOUS
    <3>2. Len(batch') \in Nat
      BY <1>0, <2>3, <3>0, Zenon
    <3> QED BY <1>0, <2>3, <2>5, <3>1, <3>2, Zenon
  <2> QED BY <1>0, <2>4, <2>6 DEF BatchOK
<1>3. CASE DynamicSampling
  <2>1. /\ recipe = "dapo" /\ pc = "next" /\ HasNext /\ PullNext /\ UNCHANGED closing
        /\ batch' = batch \o Generated(pos')
        /\ \E n \in 0..GenBatch :
             \/ kept' = PromptBatch /\ pc' = "train"
             \/ /\ kept + n < PromptBatch /\ kept' = kept + n
                /\ \/ pc' = "next" /\ (MaxGenBatches = 0 \/ Len(batch') < MaxGenBatches)
                   \/ pc' = "failed"
    BY <1>3 DEF DynamicSampling, Accumulated
  <2>2. Len(batch') = Len(batch) + 1
    <3>1. pos' \in Place
      BY <1>0, <2>1, ConfigKept, PullsWithin DEF Typed
    <3> QED BY <2>1, <3>1, GenerationOK
  <2>3. kept' \in 0..PromptBatch
    BY <1>0, <2>1
  <2>4. pc' \notin {"down", "loaded"} /\ (pc' = "next" => MaxGenBatches = 0 \/ Len(batch') < MaxGenBatches)
    BY <2>1
  <2> QED BY <1>0, <2>1, <2>2, <2>3, <2>4 DEF BatchOK
<1>4. CASE DataEnds
  BY <1>0, <1>4 DEF DataEnds, BatchOK
<1>5. CASE TakeGenerated
  <2>1. /\ UNCHANGED <<kept, closing>> /\ pc' \in {"train", "done"}
        /\ batch' = batch \/ batch' = future
    BY <1>5 DEF TakeGenerated
  <2>2. Len(future) \in Nat
    BY <1>0, LenProperties DEF PlaceOK
  <2>3. Len(batch') \in Nat /\ (batch' = batch \/ Len(batch') <= 1)
    BY <1>0, <2>1, <2>2
  <2> QED BY <1>0, <2>1, <2>3 DEF BatchOK
<1>6. CASE EndStep
  <2>1. batch' = <<>> /\ kept' = 0 /\ UNCHANGED closing
    BY <1>6 DEF EndStep
  <2> QED BY <1>0, <2>1 DEF BatchOK
<1>7. CASE Crash
  <2>1. batch' = <<>> /\ kept' = 0 /\ closing' = FALSE
    BY <1>7 DEF Crash, Volatile
  <2> QED BY <1>0, <2>1 DEF BatchOK
<1>8. CASE Load
  BY <1>1, <1>8 DEF Load, LoadNothing, LoadLatest, LoadTorn
<1>9. CASE ValidateFirst \/ FirstGeneration \/ Train \/ Test
  BY <1>1, <1>9 DEF ValidateFirst, FirstGeneration, Train, Test, loopVars
<1>10. CASE Save
  BY <1>1, <1>10, SaveCases DEF SaveFrame, loopVars, Begun, Skipped, Over
<1>11. CASE UNCHANGED vars
  BY <1>1, <1>11 DEF vars, loopVars
<1> QED BY <1>2, <1>3, <1>4, <1>5, <1>6, <1>7, <1>8, <1>9, <1>10, <1>11, Cases

\* What has been resumed from, and where the data has ended, are steps.
LEMMA PastOKStep ==
  ASSUME Ok, [Next]_vars
  PROVE  PastOK'
<1>0. PastOK /\ Base
  BY DEF Ok
<1>1. CASE UNCHANGED <<resumed, cut>>
  BY <1>0, <1>1 DEF PastOK
<1>2. CASE Load
  <2>1. UNCHANGED cut /\ (UNCHANGED resumed \/ (tracker \in Steps /\ resumed' = resumed \cup {tracker}))
    BY <1>2 DEF Load, LoadNothing, LoadLatest, LoadTorn
  <2> QED BY <1>0, <2>1 DEF PastOK
<1>3. CASE DataEnds \/ Train
  <2>1. global_steps \in Steps
    <3>1. pc \in Working
      BY <1>3 DEF DataEnds, Train, Working
    <3>2. /\ global_steps \in Nat /\ global_steps > 0 /\ global_steps <= Total + crashes
          /\ Total + MaxCrashes <= MaxStep /\ crashes <= MaxCrashes /\ crashes \in Nat
      BY <1>0, <3>1 DEF Base, Typed, Control, Bounded
    <3>3. Total \in Int /\ MaxCrashes \in Nat /\ MaxStep \in Nat
      BY <1>0, TrainingAssumption, CheckpointsAssumption DEF Base, Typed, Total
    <3> QED BY <3>2, <3>3 DEF Steps
  <2>2. UNCHANGED resumed /\ cut' \subseteq cut \cup {global_steps}
    BY <1>3 DEF DataEnds, Train
  <2> QED BY <1>0, <2>1, <2>2 DEF PastOK
<1>4. CASE Save
  BY <1>1, <1>4, SaveCases DEF SaveFrame, pastVars
<1>5. CASE ~(Load \/ DataEnds \/ Train \/ Save)
  BY <1>1, <1>5, Cases DEF vars, pastVars, ValidateFirst, NextBatch, DynamicSampling,
     FirstGeneration, TakeGenerated, Test, EndStep, Crash
<1> QED BY <1>2, <1>3, <1>4, <1>5

\* Every variable has its type and keeps within its bounds, for any number of
\* crashes: files hold the batches of an epoch, the managers list steps in
\* order and each once, the iterator never leaves the epochs, and dynamic
\* sampling gathers no more generations than it may (dapo_ray_trainer.py:
\* 240-283).
THEOREM TrainingTypes == Spec => []TypeOK
<1>1. Init => Ok
  <2> SUFFICES ASSUME Init PROVE Ok
    OBVIOUS
  <2>1. Base
    BY InitIInv DEF IInv, Base
  <2>2. <<>> \in File /\ <<>> \in Seq(Steps) /\ <<>> \in Weights /\ <<>> \in Seq(Generation)
        /\ Len(<<>>) = 0 /\ DOMAIN <<>> = {}
    BY FileOf DEF Weights
  <2>3. DiskOK
    BY <2>2 DEF Init, CheckpointsInit, DiskOK, NoJob
  <2>4. SavedOK
    BY <2>2 DEF Init, CheckpointsInit, SavedOK
  <2>5. PlaceOK
    <3>1. 0 \in 0..(total_epochs - 1) /\ 0 \in 0..BatchesPerEpoch
      BY TrainingAssumption DEF Init
    <3> QED BY <2>2, <3>1 DEF Init, PlaceOK, Initial
  <2>6. BatchOK /\ PastOK
    BY <2>2, TrainingAssumption DEF Init, BatchOK, PastOK
  <2> QED BY <2>1, <2>3, <2>4, <2>5, <2>6 DEF Ok
<1>2. Ok /\ [Next]_vars => Ok'
  BY TypedStep, ControlStep, BoundedStep, DiskOKStep, SavedOKStep, PlaceOKStep, BatchOKStep,
     PastOKStep DEF Ok, Base
<1> QED BY <1>1, <1>2, OkTypes, PTL DEF Spec
=============================================================================
