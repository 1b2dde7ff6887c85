---------------------------- MODULE RecoveryProofs --------------------------
(***************************************************************************)
(* What a run of the three drivers keeps through any number of crashes:    *)
(* how old the weights are that generate and validate, the promise of the  *)
(* checkpoints, as a refinement of Recovery, the order in which the        *)
(* batches of the dataset are trained on, and how many checkpoints pile    *)
(* up.                                                                     *)
(***************************************************************************)
EXTENDS TrainingProofs, FiniteSetTheorems

-----------------------------------------------------------------------------
\* The updates in a batch, and in the weights of rollout_wg, are none or one
\* behind those of the actor.
Recent(u) == Updates - u \in {0, 1}
Fresh(b) == \A i \in DOMAIN b : b[i].updates = Updates
Current(b) == \A i \in DOMAIN b : Recent(b[i].updates)

\* What is generated while the step before trains.
OneStepOff ==
  /\ pc = "loop" /\ future # <<>> => Current(future) /\ Recent(rollout)
  /\ pc = "train" => Current(batch) /\ Recent(rollout)
  /\ pc = "train" /\ future # <<>> /\ ~IsLastStep => Fresh(future) /\ rollout = Updates
  /\ pc \in {"test", "save", "saving", "end"} => Updates - rollout \in 0..2
  /\ pc \in {"test", "save", "saving", "end"} /\ future # <<>> /\ ~IsLastStep =>
       Current(future) /\ Recent(rollout)

Validated ==
  IF recipe = "one_step_off"
  THEN CASE validated.at = "start" -> validated.seen = 0
         [] validated.at = "step" -> validated.updates - validated.seen <= 1
         [] OTHER -> validated.updates - validated.seen <= 2
  ELSE validated.seen = validated.updates

Lag ==
  /\ rollout \in Nat
  /\ pc \in {"down", "loaded", "first"} => rollout = 0 /\ batch = <<>> /\ future = <<>>
  /\ pc \in {"first", "loop"} => recipe = "one_step_off"
  /\ recipe # "one_step_off" /\ pc \in {"next", "train"} => Fresh(batch)
  /\ recipe = "one_step_off" => OneStepOff
  /\ Validated

\* The first start.
LEMMA LagInit == Init => Lag
BY DEF Init, Lag, Validated, OneStepOff, Fresh

\* A generation is as old as the weights it was made with.
LEMMA GeneratedFresh ==
  ASSUME Typed
  PROVE  /\ Updates \in Nat /\ Recent(Updates)
         /\ \A p : Fresh(Generated(p)) /\ Generated(p) # <<>>
         /\ Fresh(<<>>) /\ Current(<<>>)
<1>1. Updates \in Nat
  BY DEF Typed, Updates, AllRoles
<1>2. \A p : DOMAIN Generated(p) = {1} /\ Generated(p)[1].updates = Updates /\ Generated(p) # <<>>
  BY DEF Generated, Synced
<1> QED BY <1>1, <1>2 DEF Fresh, Current, Recent

\* A validation sees the weights it should.
LEMMA ValidationSees ==
  ASSUME Typed, Lag, Validation, pc \in {"loaded", "test"}, recipe' = recipe
  PROVE  Validated'
<1>1. Updates \in Nat /\ rollout \in Nat
  BY GeneratedFresh DEF Lag
<1>2. /\ validated'.updates = Updates /\ validated'.seen = Seen
      /\ validated'.at = CASE pc = "loaded" -> "start"
                         [] pc # "loaded" /\ (IsLastStep \/ future = <<>>) -> "end"
                         [] OTHER -> "step"
  BY DEF Validation
<1>3. CASE recipe # "one_step_off"
  BY <1>2, <1>3 DEF Seen, Validated
<1>4. CASE recipe = "one_step_off"
  <2>1. Seen = rollout
    BY <1>4 DEF Seen
  <2>2. CASE pc = "loaded"
    BY <1>2, <1>4, <2>1, <2>2 DEF Lag, Validated
  <2>3. CASE pc = "test" /\ (IsLastStep \/ future = <<>>)
    <3>1. validated'.at = "end" /\ Updates - rollout \in 0..2
      BY <1>2, <1>4, <2>3 DEF Lag, OneStepOff
    <3> QED BY <1>1, <1>2, <1>4, <2>1, <3>1 DEF Validated
  <2>4. CASE pc = "test" /\ ~(IsLastStep \/ future = <<>>)
    <3>1. validated'.at = "step" /\ Updates - rollout \in {0, 1}
      BY <1>2, <1>4, <2>4 DEF Lag, OneStepOff, Recent
    <3> QED BY <1>1, <1>2, <1>4, <2>1, <3>1 DEF Validated
  <2> QED BY <2>2, <2>3, <2>4
<1> QED BY <1>3, <1>4

\* One more generation at the end.
LEMMA OneMoreAt ==
  ASSUME NEW S, NEW q \in Seq(S), NEW g \in S
  PROVE  \A i \in DOMAIN (q \o <<g>>) : \/ i \in DOMAIN q /\ (q \o <<g>>)[i] = q[i]
                                       \/ (q \o <<g>>)[i] = g
<1>1. <<g>> \in Seq(S) /\ Len(<<g>>) = 1 /\ <<g>>[1] = g
  OBVIOUS
<1>2. /\ q \o <<g>> \in Seq(S) /\ Len(q \o <<g>>) = Len(q) + 1
      /\ \A i \in 1..(Len(q) + 1) : (q \o <<g>>)[i] = IF i <= Len(q) THEN q[i] ELSE <<g>>[i - Len(q)]
  BY <1>1, ConcatProperties
<1>3. Len(q) \in Nat /\ DOMAIN q = 1..Len(q) /\ DOMAIN (q \o <<g>>) = 1..(Len(q) + 1)
  BY <1>2
<1>4. \A i \in 1..(Len(q) + 1) : i \in 1..Len(q) \/ i = Len(q) + 1
  BY <1>3
<1>5. ASSUME NEW i \in 1..(Len(q) + 1), i \in 1..Len(q)
      PROVE  i \in DOMAIN q /\ (q \o <<g>>)[i] = q[i]
  BY <1>2, <1>3, <1>5
<1>6. (q \o <<g>>)[Len(q) + 1] = g
  BY <1>1, <1>2, <1>3
<1> QED BY <1>3, <1>4, <1>5, <1>6

\* Steps that change neither the weights nor the step generate with what
\* there is.
LEMMA GenerationLag ==
  ASSUME Typed, Lag, recipe' = recipe,
         NextBatch \/ DynamicSampling \/ DataEnds \/ FirstGeneration \/ TakeGenerated
  PROVE  Lag'
<1>0. /\ UNCHANGED <<weights, global_steps, validated, total_epochs>>
      /\ Updates' = Updates /\ (IsLastStep' <=> IsLastStep)
  BY DEF NextBatch, DynamicSampling, DataEnds, FirstGeneration, TakeGenerated, configVars,
     Updates, IsLastStep, Total
<1>1. Validated' /\ Updates \in Nat
  BY <1>0, GeneratedFresh DEF Lag, Validated
<1>2. CASE NextBatch
  <2>1. recipe # "one_step_off" /\ UNCHANGED rollout /\ pc' \in {"train", "done"}
    BY <1>2 DEF NextBatch
  <2>2. pc' = "train" => batch' = Generated(pos')
    BY <1>2 DEF NextBatch
  <2>3. pc' = "train" => Fresh(batch')
    BY <2>2, GeneratedFresh, Zenon
  <2> QED BY <1>0, <1>1, <2>1, <2>3 DEF Lag, Fresh
<1>3. CASE DynamicSampling
  <2>1. recipe = "dapo" /\ UNCHANGED rollout /\ pc = "next" /\ pc' \in {"train", "next", "failed"}
        /\ batch' = batch \o Generated(pos')
    BY <1>3 DEF DynamicSampling, Accumulated
  <2>2. batch \in Seq([pos : Nat, updates : Nat]) /\ Fresh(batch)
    BY <2>1 DEF Typed, Lag
  <2>3. Fresh(batch')
    <3> DEFINE g == [pos |-> pos', updates |-> Updates]
               S == [pos : Nat \cup {pos'}, updates : Nat]
    <3>1. g \in S /\ g.updates = Updates /\ [pos : Nat, updates : Nat] \subseteq S
      BY <1>1
    <3>2. batch' = batch \o <<g>>
      BY <2>1 DEF Generated, Synced
    <3> HIDE DEF g, S
    <3>3. batch \in Seq(S)
      BY <2>2, <3>1, SeqMonotonic, Zenon
    <3>4. \A i \in DOMAIN (batch \o <<g>>) :
             \/ i \in DOMAIN batch /\ (batch \o <<g>>)[i] = batch[i]
             \/ (batch \o <<g>>)[i] = g
      BY <3>1, <3>3, OneMoreAt
    <3> QED BY <2>2, <3>1, <3>2, <3>4 DEF Fresh
  <2> QED BY <1>0, <1>1, <2>1, <2>3 DEF Lag, Fresh
<1>4. CASE DataEnds
  BY <1>0, <1>1, <1>4 DEF DataEnds, Lag
<1>5. ASSUME AsyncGenNextBatch
      PROVE  /\ rollout' \in {rollout, Updates}
             /\ Fresh(future') /\ (future' # <<>> => rollout' = Updates)
  <2>1. CASE rollout' = Synced /\ future' = Generated(pos')
    <3>1. Fresh(future')
      BY <2>1, GeneratedFresh, Zenon
    <3> QED BY <2>1, <3>1 DEF Synced
  <2>2. CASE future' = <<>> /\ UNCHANGED rollout
    <3>1. Fresh(future')
      BY <2>2, GeneratedFresh, Zenon
    <3> QED BY <2>2, <3>1
  <2> QED BY <1>5, <2>1, <2>2 DEF AsyncGenNextBatch
<1>6. CASE FirstGeneration
  <2>1. pc = "first" /\ pc' = "loop" /\ UNCHANGED batch
    BY <1>6 DEF FirstGeneration
  <2>2. rollout' \in {rollout, Updates} /\ Fresh(future') /\ (future' # <<>> => rollout' = Updates)
    BY <1>5, <1>6 DEF FirstGeneration
  <2>3. future' # <<>> => Recent(rollout') /\ Current(future')
    BY <1>1, <2>2 DEF Recent, Current, Fresh
  <2> QED BY <1>0, <1>1, <2>1, <2>2, <2>3 DEF Lag, OneStepOff, Recent, Current
<1>7. CASE TakeGenerated
  <2>0. pc = "loop" /\ recipe = "one_step_off"
    BY <1>7 DEF TakeGenerated, Lag
  <2>1. CASE future = <<>>
    <3>1. pc' = "done" /\ UNCHANGED rollout
      BY <1>7, <2>1 DEF TakeGenerated
    <3> QED BY <1>0, <1>1, <2>0, <3>1 DEF Lag, OneStepOff
  <2>2. CASE future # <<>>
    <3>0. Current(future) /\ Recent(rollout) /\ batch' = future /\ pc' = "train"
      BY <1>7, <2>0, <2>2 DEF TakeGenerated, Lag, OneStepOff
    <3>1. CASE ~IsLastStep /\ AsyncGenNextBatch
      <4>1. rollout' \in {rollout, Updates} /\ Fresh(future') /\ (future' # <<>> => rollout' = Updates)
        BY <1>5, <3>1
      <4>2. Recent(rollout') /\ rollout' \in Nat
        <5>1. rollout \in Nat /\ Recent(Updates)
          BY GeneratedFresh DEF Lag
        <5> QED BY <1>1, <3>0, <4>1, <5>1
      <4> QED BY <1>0, <1>1, <2>0, <3>0, <4>1, <4>2 DEF Lag, OneStepOff, Recent, Current, Fresh
    <3>2. CASE IsLastStep /\ UNCHANGED rollout
      BY <1>0, <1>1, <2>0, <3>0, <3>2 DEF Lag, OneStepOff, Recent, Current, Fresh
    <3> QED BY <1>7, <2>2, <3>1, <3>2 DEF TakeGenerated
  <2> QED BY <2>1, <2>2
<1> QED BY <1>2, <1>3, <1>4, <1>6, <1>7

\* A step trains the actor once, or not yet.
LEMMA TrainLag ==
  ASSUME Typed, Control, Lag, recipe' = recipe, Train
  PROVE  Lag'
<1>0. /\ pc = "train" /\ pc' = "test"
      /\ UNCHANGED <<rollout, batch, future, validated, global_steps, total_epochs>>
      /\ (IsLastStep' <=> IsLastStep)
  BY DEF Train, loopVars, configVars, IsLastStep, Total
<1>1. Validated' /\ Updates \in Nat /\ rollout' \in Nat
  BY <1>0, GeneratedFresh DEF Lag, Validated
<1>2. recipe = "one_step_off" => Updates' \in {Updates, Updates + 1}
  <2>1. weights'["actor"] \in {weights["actor"], weights["actor"] \o Places(batch)}
    BY DEF Train, AllRoles
  <2>2. recipe = "one_step_off" => Len(batch) = 1
    BY <1>0 DEF Control
  <2>3. batch \in Seq([pos : Nat, updates : Nat]) /\ weights["actor"] \in Seq(Nat)
    BY DEF Typed, AllRoles
  <2>4. Places(batch) \in Seq(Nat) /\ Len(Places(batch)) = Len(batch)
    BY <2>3, PlacesTyped
  <2>5. recipe = "one_step_off" => Len(weights["actor"] \o Places(batch)) = Len(weights["actor"]) + 1
    BY <2>2, <2>3, <2>4, OneMore
  <2> QED BY <2>1, <2>5 DEF Updates
<1>3. CASE recipe # "one_step_off"
  BY <1>0, <1>1, <1>3 DEF Lag
<1>4. CASE recipe = "one_step_off"
  <2>1. Recent(rollout)
    BY <1>0, <1>4 DEF Lag, OneStepOff
  <2>2. Updates' - rollout' \in 0..2
    BY <1>0, <1>1, <1>2, <1>4, <2>1 DEF Recent
  <2>3. ASSUME future' # <<>>, ~IsLastStep'
        PROVE  Current(future)' /\ Recent(rollout)'
    <3>1. Fresh(future) /\ rollout = Updates
      BY <1>0, <1>4, <2>3 DEF Lag, OneStepOff
    <3>2. \A u : u = Updates => Updates' - u \in {0, 1}
      BY <1>1, <1>2, <1>4
    <3> QED BY <1>0, <3>1, <3>2 DEF Current, Recent, Fresh
  <2> QED BY <1>0, <1>1, <1>4, <2>2, <2>3 DEF Lag, OneStepOff
<1> QED BY <1>3, <1>4

\* Every step keeps the lag.
LEMMA LagStep ==
  ASSUME Typed, Control, Lag, [Next]_vars
  PROVE  Lag'
<1>r. recipe' = recipe /\ total_epochs' = total_epochs
  BY ConfigKept
<1>1. CASE UNCHANGED vars
  BY <1>1 DEF vars, configVars, loopVars, Lag, OneStepOff, Validated, Recent, Current, Fresh,
     Updates, IsLastStep, Total
<1>2. CASE Load
  <2>1. UNCHANGED <<rollout, batch, future, validated>> /\ pc = "down" /\ pc' \in {"loaded", "broken"}
    BY <1>2 DEF Load, LoadNothing, LoadLatest, LoadTorn
  <2> QED BY <1>r, <2>1 DEF Lag, OneStepOff, Validated
<1>3. CASE ValidateFirst
  <2>1. Validated'
    BY <1>3, <1>r, ValidationSees DEF ValidateFirst
  <2>2. /\ UNCHANGED <<rollout, batch, future>> /\ batch = <<>> /\ rollout = 0 /\ future = <<>>
        /\ pc' = IF recipe = "one_step_off" THEN "first" ELSE "next"
    BY <1>3 DEF ValidateFirst, loopVars, Lag
  <2>3. Fresh(batch)'
    BY <2>2 DEF Fresh
  <2> QED BY <1>r, <2>1, <2>2, <2>3 DEF Lag, OneStepOff
<1>4. CASE NextBatch \/ DynamicSampling \/ DataEnds \/ FirstGeneration \/ TakeGenerated
  BY <1>4, <1>r, GenerationLag
<1>5. CASE Train
  BY <1>5, <1>r, TrainLag
<1>6. CASE Test
  <2>0. UNCHANGED <<rollout, batch, future, weights, global_steps>> /\ pc = "test" /\ pc' = "save"
    BY <1>6 DEF Test, loopVars
  <2>1. Validated'
    BY <1>6, <1>r, ValidationSees DEF Test, Validated, Lag
  <2> QED BY <1>r, <2>0, <2>1 DEF Lag, OneStepOff, Recent, Current, Updates, IsLastStep, Total
<1>7. CASE Save
  <2>0. UNCHANGED <<rollout, batch, future, weights, global_steps, validated>>
    BY <1>7, SaveCases DEF SaveFrame, loopVars
  <2>1. pc \in {"save", "saving"} /\ pc' \in {"saving", "end"}
    BY <1>7, SaveCases DEF Begun, Skipped, Over
  <2> QED BY <1>r, <2>0, <2>1 DEF Lag, OneStepOff, Validated, Recent, Current, Updates, IsLastStep, Total
<1>8. CASE EndStep
  <2>0. /\ UNCHANGED <<rollout, future, weights, validated>> /\ batch' = <<>> /\ pc = "end"
        /\ pc' = "done" \/ (~IsLastStep /\ pc' = IF recipe = "one_step_off" THEN "loop" ELSE "next")
    BY <1>8 DEF EndStep
  <2>1. Fresh(batch)'
    BY <2>0 DEF Fresh
  <2> QED BY <1>r, <2>0, <2>1 DEF Lag, OneStepOff, Validated, Recent, Current, Updates
<1>9. CASE Crash
  BY <1>9, <1>r DEF Crash, Volatile, Lag, OneStepOff, Validated
<1> QED BY <1>1, <1>2, <1>3, <1>4, <1>5, <1>6, <1>7, <1>8, <1>9 DEF Next, Driver

\* They hold throughout.
LEMMA BaseInvariant == Spec => []Base
<1>1. Init => Base
  BY InitIInv DEF IInv, Base
<1>2. Base /\ [Next]_vars => Base'
  BY TypedStep, ControlStep, BoundedStep DEF Base
<1> QED BY <1>1, <1>2, PTL DEF Spec

\* The PPO trainer and dapo generate and validate with the weights they train;
\* the one step off recipe trains on batches at most one update old and
\* validates weights one update old, two at a step that sends no weights: for
\* any epochs, warmup, save and test frequencies, kept checkpoints and crashes
\* (ray_trainer.py:1084-1434, one_step_off_policy/ray_trainer.py:311-684,
\* dapo_ray_trainer.py:76-420).
THEOREM LagIsBounded == Spec => []PolicyLag
<1>1. Base /\ Lag /\ [Next]_vars => Lag'
  BY LagStep DEF Base
<1>2. Base /\ Lag => PolicyLag
  <2> SUFFICES ASSUME Base, Lag PROVE PolicyLag
    OBVIOUS
  <2>1. Updates \in Nat
    BY GeneratedFresh DEF Base
  <2>2. IF recipe = "one_step_off"
        THEN CASE validated.at = "start" -> validated.seen = 0
               [] validated.at = "step" -> validated.updates - validated.seen <= 1
               [] OTHER -> validated.updates - validated.seen <= 2
        ELSE validated.seen = validated.updates
    BY DEF Lag, Validated
  <2>3. ASSUME pc = "train", NEW i \in DOMAIN batch
        PROVE  Updates - batch[i].updates \in IF recipe = "one_step_off" THEN {0, 1} ELSE {0}
    <3>1. CASE recipe = "one_step_off"
      BY <2>3, <3>1 DEF Lag, OneStepOff, Current, Recent
    <3>2. CASE recipe # "one_step_off"
      <4>1. batch[i].updates = Updates
        BY <2>3, <3>2 DEF Lag, Fresh
      <4> QED BY <2>1, <3>2, <4>1
    <3> QED BY <3>1, <3>2
  <2> QED BY <2>2, <2>3 DEF PolicyLag
<1> QED BY <1>1, <1>2, LagInit, BaseInvariant, PTL DEF Spec

-----------------------------------------------------------------------------
\* Remainders.
LEMMA ModRange ==
  ASSUME NEW n \in Nat, NEW s \in Nat \ {0}
  PROVE  n % s \in 0..(s - 1) /\ n % s <= n
<1>1. n % s \in 0..(s - 1) /\ n = s * (n \div s) + (n % s) /\ n \div s \in Int
  OBVIOUS
<1>2. n \div s >= 0
  BY <1>1
<1> QED BY <1>1, <1>2

\* A number has one remainder.
LEMMA OneRemainder ==
  ASSUME NEW s \in Nat \ {0}, NEW q \in Int, NEW p \in Int, NEW r \in 0..(s - 1),
         NEW x \in 0..(s - 1), s * q + r = s * p + x
  PROVE  r = x
<1>1. CASE q = p
  BY <1>1
<1>2. CASE q > p
  <2>1. s * q >= s * (p + 1)
    BY <1>2
  <2> QED BY <2>1
<1>3. CASE q < p
  <2>1. s * p >= s * (q + 1)
    BY <1>3
  <2> QED BY <2>1
<1> QED BY <1>1, <1>2, <1>3

\* The remainder grows with the number until it is none.
LEMMA ModStep ==
  ASSUME NEW n \in Nat, NEW s \in Nat \ {0}, (n + 1) % s # 0
  PROVE  (n + 1) % s = (n % s) + 1
<1> DEFINE q == n \div s
           r == n % s
           p == (n + 1) \div s
           x == (n + 1) % s
<1>1. /\ q \in Int /\ p \in Int /\ r \in 0..(s - 1) /\ x \in 0..(s - 1)
      /\ n = s * q + r /\ n + 1 = s * p + x
  OBVIOUS
<1>2. x # 0
  OBVIOUS
<1> HIDE DEF q, r, p, x
<1>3. s * q + r = s * p + (x - 1) /\ x - 1 \in 0..(s - 1)
  BY <1>1, <1>2
<1>4. r = x - 1
  BY <1>1, <1>3, OneRemainder
<1>5. x = r + 1
  BY <1>1, <1>4
<1> QED BY <1>5 DEF x, r

\* The step the next run starts behind, and the last one no later than n that
\* every run saves.
Named == IF tracker \in Steps THEN tracker ELSE 0
Mark(n) == n - (n % SaveFreq)

\* The tracker is empty only while it is written; it names the last mark.
Near ==
  /\ tracker = Torn => \/ pc \in {"down", "broken"}
                       \/ pc = "saving" /\ job.stage = "tracker" /\ job.phase = "write"
  /\ pc \in Working => Mark(global_steps - 1) <= Named
  /\ pc = "end" => Mark(global_steps) <= Named

\* A mark is behind its step by less than save_freq, and none is passed unless
\* the step is one.
LEMMA Marks ==
  /\ \A n \in Nat : Mark(n) \in Nat /\ Mark(n) <= n /\ n < Mark(n) + SaveFreq
  /\ \A n \in Nat \ {0} : n % SaveFreq # 0 => Mark(n) = Mark(n - 1)
<1>1. SaveFreq \in Nat \ {0}
  BY TrainingAssumption
<1>2. ASSUME NEW n \in Nat
      PROVE  Mark(n) \in Nat /\ Mark(n) <= n /\ n < Mark(n) + SaveFreq
  <2>1. n % SaveFreq \in 0..(SaveFreq - 1) /\ n % SaveFreq <= n
    BY <1>1, ModRange
  <2> QED BY <1>1, <2>1 DEF Mark
<1>3. ASSUME NEW n \in Nat \ {0}, n % SaveFreq # 0
      PROVE  Mark(n) = Mark(n - 1)
  <2>1. n - 1 \in Nat /\ (n - 1) + 1 = n
    OBVIOUS
  <2>2. ((n - 1) + 1) % SaveFreq = ((n - 1) % SaveFreq) + 1
    BY <1>1, <1>3, <2>1, ModStep
  <2>3. (n - 1) % SaveFreq \in 0..(SaveFreq - 1)
    BY <1>1, <2>1, ModRange
  <2>4. n % SaveFreq = ((n - 1) % SaveFreq) + 1
    BY <2>1, <2>2
  <2> QED BY <2>3, <2>4 DEF Mark
<1> QED BY <1>2, <1>3

\* At first there is no tracker.
LEMMA NearInit == Init => Near
BY DEF Init, CheckpointsInit, Near, Working, Missing, Torn

\* Every step keeps the tracker near.
LEMMA NearStep ==
  ASSUME Typed, Control, Bounded, Near, [Next]_vars
  PROVE  Near'
<1> USE DEF Working
<1>n. /\ global_steps \in Nat /\ Torn \notin Steps /\ Named \in Nat
      /\ (tracker \in Steps => Named = tracker) /\ (tracker \notin Steps => Named = 0 /\ tracker < 0)
  BY DEF Typed, Named, Torn, Missing, Steps
<1>m. /\ \A n \in Nat : Mark(n) \in Nat /\ Mark(n) <= n
      /\ \A n \in Nat \ {0} : n % SaveFreq # 0 => Mark(n) = Mark(n - 1)
  BY Marks
<1>1. CASE UNCHANGED vars
  BY <1>1 DEF vars, saveVars, diskVars, Near, Named
<1>2. CASE Load
  <2>1. UNCHANGED <<tracker, job>> /\ pc' \in {"loaded", "broken"} /\ (tracker = Torn => pc' = "broken")
    BY <1>2, <1>n DEF Load, LoadNothing, LoadLatest, LoadTorn, saveVars, diskVars, Missing, Torn
  <2> QED BY <2>1 DEF Near
<1>3. CASE ValidateFirst
  <2>1. /\ UNCHANGED <<tracker, job>> /\ global_steps' = global_steps + 1 /\ pc = "loaded"
        /\ pc' \in {"first", "next"}
    BY <1>3 DEF ValidateFirst, saveVars, diskVars
  <2>2. Named = global_steps /\ Named' = Named
    BY <1>n, <2>1 DEF Control, Named
  <2>3. Mark(global_steps' - 1) <= Named'
    BY <1>n, <1>m, <2>1, <2>2
  <2>4. tracker' # Torn
    BY <2>1 DEF Near
  <2> QED BY <2>1, <2>3, <2>4 DEF Near, Mark
<1>4. CASE \/ NextBatch \/ DynamicSampling \/ DataEnds \/ FirstGeneration \/ TakeGenerated
           \/ Train \/ Test
  <2>1. /\ UNCHANGED <<tracker, job, global_steps>> /\ pc \in Working
        /\ pc' \in {"next", "first", "loop", "train", "test", "save", "done", "failed"}
    BY <1>4 DEF NextBatch, DynamicSampling, DataEnds, FirstGeneration, TakeGenerated,
       Train, Test, saveVars, diskVars
  <2> QED BY <2>1 DEF Near, Named, Mark
<1>5. CASE EndStep
  <2>1. /\ UNCHANGED <<tracker, job>> /\ pc = "end" /\ global_steps' = global_steps + 1
        /\ pc' \in {"done", "loop", "next"}
    BY <1>5 DEF EndStep, saveVars, diskVars
  <2>2. global_steps' - 1 = global_steps
    BY <1>n, <2>1
  <2>3. Mark(global_steps' - 1) <= Named
    BY <2>1, <2>2 DEF Near
  <2> QED BY <2>1, <2>3 DEF Near, Named, Mark
<1>6. CASE Crash
  BY <1>6 DEF Crash, Near
<1>7. CASE Save
  <2>0. UNCHANGED global_steps
    BY <1>7, SaveCases DEF SaveFrame
  <2>1. CASE Begun
    BY <2>1 DEF Begun, diskVars, Near
  <2>2. CASE Skipped
    <3>1. /\ global_steps % SaveFreq # 0 /\ pc = "save" /\ pc' = "end" /\ UNCHANGED <<tracker, job>>
      BY <2>2 DEF Skipped, MustSave, saveVars, diskVars
    <3>2. global_steps \in Nat \ {0}
      BY <1>n, <3>1 DEF Control
    <3>3. Mark(global_steps) <= Named
      BY <1>m, <3>1, <3>2 DEF Near
    <3> QED BY <2>0, <3>1, <3>3 DEF Near, Named, Mark
  <2>3. CASE Over
    <3>1. pc = "saving" /\ job.stage = "over" /\ UNCHANGED tracker /\ pc' = "end"
      BY <2>3 DEF Over, diskVars
    <3>2. tracker = global_steps /\ tracker \in Steps
      BY <3>1, StepWritten DEF Control
    <3>3. Mark(global_steps) <= Named
      BY <1>n, <1>m, <3>2
    <3> QED BY <1>n, <2>0, <3>1, <3>2, <3>3 DEF Near, Named, Mark
  <2>4. CASE pc = "saving" /\ pc' = "saving" /\ (RemoveShard \/ MakeFolder \/ Rotated \/ RoleSaved \/ SaveData
                                                 \/ \E r \in Ranks : OpenShard(r) \/ WriteShard(r))
    <3>1. UNCHANGED tracker /\ job.stage \in {"actor", "critic", "data"}
      BY <2>4 DEF RemoveShard, MakeFolder, Rotated, RoleSaved, SaveData, OpenShard, WriteShard, diskVars,
         Roles, AllRoles
    <3> QED BY <2>4, <3>1 DEF Near
  <2>5. CASE pc = "saving" /\ pc' = "saving" /\ SaveTracker
    <3>1. \/ tracker' = Torn /\ job' = JobAt("tracker", "write")
          \/ tracker' = global_steps
      BY <2>5 DEF SaveTracker
    <3>2. global_steps \in Steps
      BY <2>5, StepWritten
    <3> QED BY <1>n, <2>5, <3>1, <3>2 DEF Near, JobAt
  <2> QED BY <1>7, <2>1, <2>2, <2>3, <2>4, <2>5, SaveCases
<1> QED BY <1>1, <1>2, <1>3, <1>4, <1>5, <1>6, <1>7 DEF Next, Driver

-----------------------------------------------------------------------------
\* What the refinement maps a state to.
Phase == CASE Stuck -> "stuck"
           [] ~Stuck /\ pc \in {"down", "failed"} -> "down"
           [] OTHER -> "up"
DurableStep == CASE tracker = Torn -> IF Stuck THEN 0 ELSE global_steps
                 [] tracker = Missing -> 0
                 [] OTHER -> tracker
StepNow == CASE Stuck -> 0
             [] ~Stuck /\ pc \in {"down", "failed"} -> IF tracker = Missing THEN 0 ELSE tracker
             [] OTHER -> Trained

MapsTo(p, d, s) == Phase = p /\ DurableStep = d /\ StepNow = s

\* The same, by what the tracker is.
MapFact ==
  /\ tracker \in {Missing, Torn} \cup Steps
  /\ tracker = Torn => pc # "failed"
  => /\ tracker = Torn /\ pc \in {"down", "broken"} => MapsTo("stuck", 0, 0)
     /\ tracker # Torn /\ pc \in {"down", "failed"} => MapsTo("down", Named, Named)
     /\ tracker # Torn /\ pc \notin {"down", "failed"} => MapsTo("up", Named, Trained)
     /\ tracker = Torn /\ pc \notin {"down", "broken"} => MapsTo("up", global_steps, Trained)

\* In this state and in the next.
LEMMA MapNow == MapFact
<1>1. Missing # Torn /\ Missing \notin Steps /\ Torn \notin Steps
  BY DEF Missing, Torn, Steps
<1> SUFFICES ASSUME tracker \in {Missing, Torn} \cup Steps, tracker = Torn => pc # "failed"
             PROVE  /\ tracker = Torn /\ pc \in {"down", "broken"} => MapsTo("stuck", 0, 0)
                    /\ tracker # Torn /\ pc \in {"down", "failed"} => MapsTo("down", Named, Named)
                    /\ tracker # Torn /\ pc \notin {"down", "failed"} => MapsTo("up", Named, Trained)
                    /\ tracker = Torn /\ pc \notin {"down", "broken"} =>
                         MapsTo("up", global_steps, Trained)
  BY DEF MapFact
<1>2. Stuck <=> tracker = Torn /\ pc \in {"down", "broken"}
  BY DEF Stuck
<1>3. tracker # Torn => Named = IF tracker = Missing THEN 0 ELSE tracker
  BY <1>1 DEF Named
<1>4. CASE tracker = Torn /\ pc \in {"down", "broken"}
  <2>1. Phase = "stuck"
    BY <1>2, <1>4 DEF Phase
  <2>2. DurableStep = 0
    BY <1>1, <1>2, <1>4 DEF DurableStep
  <2>3. StepNow = 0
    BY <1>2, <1>4 DEF StepNow
  <2> QED BY <1>4, <2>1, <2>2, <2>3 DEF MapsTo
<1>5. CASE tracker # Torn /\ pc \in {"down", "failed"}
  <2>1. Phase = "down"
    BY <1>2, <1>5 DEF Phase
  <2>2. DurableStep = Named
    BY <1>1, <1>2, <1>3, <1>5 DEF DurableStep
  <2>3. StepNow = Named
    BY <1>2, <1>3, <1>5 DEF StepNow
  <2> QED BY <1>5, <2>1, <2>2, <2>3 DEF MapsTo
<1>6. CASE tracker # Torn /\ pc \notin {"down", "failed"}
  <2>1. Phase = "up"
    BY <1>2, <1>6 DEF Phase
  <2>2. DurableStep = Named
    BY <1>1, <1>2, <1>3, <1>6 DEF DurableStep
  <2>3. StepNow = Trained
    BY <1>2, <1>3, <1>6 DEF StepNow
  <2> QED BY <1>6, <2>1, <2>2, <2>3 DEF MapsTo
<1>7. CASE tracker = Torn /\ pc \notin {"down", "broken"}
  <2>1. Phase = "up"
    BY <1>2, <1>7 DEF Phase
  <2>2. DurableStep = global_steps
    BY <1>1, <1>2, <1>7 DEF DurableStep
  <2>3. StepNow = Trained
    BY <1>2, <1>7 DEF StepNow
  <2> QED BY <1>7, <2>1, <2>2, <2>3 DEF MapsTo
<1> QED BY <1>4, <1>5, <1>6, <1>7

\* The same in the next state.
LEMMA MapNext == MapFact'
BY MapNow, PTL

\* The steps of Recovery, in terms of what a state maps to.
Stays == Phase' = Phase /\ DurableStep' = DurableStep /\ StepNow' = StepNow
Starts == Phase = "down" /\ Phase' = "up" /\ StepNow' = DurableStep /\ DurableStep' = DurableStep
Learns == /\ Phase = "up" /\ StepNow < DurableStep + SaveFreq
          /\ StepNow' = StepNow + 1 /\ Phase' = Phase /\ DurableStep' = DurableStep
Persists == /\ Phase = "up" /\ StepNow > DurableStep /\ DurableStep' = StepNow
            /\ Phase' = Phase /\ StepNow' = StepNow
Fails == Phase = "up" /\ Phase' = "down" /\ StepNow' = DurableStep /\ DurableStep' = DurableStep
Breaks == /\ Phase = "up" /\ StepNow = DurableStep
          /\ Phase' = "stuck" /\ StepNow' = 0 /\ DurableStep' = 0

\* They are its steps.
LEMMA RecoverySteps ==
  Stays \/ Starts \/ Learns \/ Persists \/ Fails \/ Breaks => [Rec!Next]_(Rec!vars)
<1>1. Stays => UNCHANGED Rec!vars
  BY DEF Stays, Rec!vars, Phase, DurableStep, StepNow
<1>2. Starts => Rec!Start
  BY DEF Starts, Rec!Start, Phase, DurableStep, StepNow
<1>3. Learns => Rec!Train
  BY DEF Learns, Rec!Train, Phase, DurableStep, StepNow
<1>4. Persists => Rec!Persist
  BY DEF Persists, Rec!Persist, Phase, DurableStep, StepNow
<1>5. Fails => Rec!Crash
  BY DEF Fails, Rec!Crash, Phase, DurableStep, StepNow
<1>6. Breaks => Rec!Break
  BY DEF Breaks, Rec!Break, Phase, DurableStep, StepNow
<1> QED BY <1>1, <1>2, <1>3, <1>4, <1>5, <1>6 DEF Rec!Next

\* What the state before a step maps to.
LEMMA MapsOf ==
  ASSUME Typed, Near
  PROVE  /\ tracker = Torn /\ pc \in {"down", "broken"} => MapsTo("stuck", 0, 0)
         /\ tracker # Torn /\ pc \in {"down", "failed"} => MapsTo("down", Named, Named)
         /\ tracker # Torn /\ pc \notin {"down", "failed"} => MapsTo("up", Named, Trained)
         /\ tracker = Torn /\ pc \notin {"down", "broken"} => MapsTo("up", global_steps, Trained)
         /\ Named \in Nat /\ global_steps \in Nat
         /\ (tracker \in Steps => Named = tracker) /\ (tracker \notin Steps => Named = 0)
<1>1. tracker \in {Missing, Torn} \cup Steps /\ (tracker = Torn => pc # "failed")
  BY DEF Typed, Near
<1>2. /\ Named \in Nat /\ global_steps \in Nat
      /\ (tracker \in Steps => Named = tracker) /\ (tracker \notin Steps => Named = 0)
  BY DEF Named, Typed, Steps
<1> QED BY <1>1, <1>2, MapNow, Zenon DEF MapFact

\* The same of the state after it.
LEMMA MapsAfter ==
  ASSUME Typed', Near'
  PROVE  /\ tracker' = Torn /\ pc' \in {"down", "broken"} => MapsTo("stuck", 0, 0)'
         /\ tracker' # Torn /\ pc' \in {"down", "failed"} => MapsTo("down", Named, Named)'
         /\ tracker' # Torn /\ pc' \notin {"down", "failed"} => MapsTo("up", Named, Trained)'
         /\ tracker' = Torn /\ pc' \notin {"down", "broken"} => MapsTo("up", global_steps, Trained)'
<1>1. tracker' \in {Missing, Torn} \cup Steps /\ (tracker' = Torn => pc' # "failed")
  BY DEF Typed, Near
<1> QED BY <1>1, MapNext, Zenon DEF MapFact

\* A step within a run that leaves the tracker alone.
LEMMA RunMaps ==
  ASSUME Typed, Control, Near, Typed', Near', UNCHANGED tracker, tracker # Torn,
         pc \notin {"down", "failed"}, pc' # "down",
         pc' = "failed" \/ Trained' = Trained
           \/ (pc \in Working /\ Trained = global_steps - 1 /\ Trained' = Trained + 1)
  PROVE  Stays \/ Learns \/ Fails
<1>0. Named' = Named
  BY DEF Named
<1>1. MapsTo("up", Named, Trained)
  BY MapsOf
<1>2. CASE pc' = "failed"
  <2>1. MapsTo("down", Named, Named)'
    BY <1>2, MapsAfter
  <2> QED BY <1>0, <1>1, <2>1 DEF MapsTo, Fails
<1>3. CASE pc' # "failed" /\ Trained' = Trained
  <2>1. MapsTo("up", Named, Trained)'
    BY <1>3, MapsAfter
  <2> QED BY <1>0, <1>1, <1>3, <2>1 DEF MapsTo, Stays
<1>4. CASE pc' # "failed" /\ pc \in Working /\ Trained = global_steps - 1 /\ Trained' = Trained + 1
  <2>1. MapsTo("up", Named, Trained)'
    BY <1>4, MapsAfter
  <2>2. Trained < Named + SaveFreq
    <3>1. global_steps - 1 \in Nat /\ Mark(global_steps - 1) <= Named
      <4>1. global_steps > 0 /\ global_steps \in Nat
        BY <1>4 DEF Control, Typed
      <4> QED BY <1>4, <4>1 DEF Near
    <3>2. Mark(global_steps - 1) \in Nat /\ global_steps - 1 < Mark(global_steps - 1) + SaveFreq
      BY <3>1, Marks
    <3> QED BY <1>4, <3>1, <3>2, MapsOf, TrainingAssumption
  <2> QED BY <1>0, <1>1, <1>4, <2>1, <2>2 DEF MapsTo, Learns
<1> QED BY <1>2, <1>3, <1>4

\* Every step of a run is a step of Recovery.
LEMMA RecoveryMaps ==
  ASSUME IInv, Near, IInv', Near', [Next]_vars
  PROVE  [Rec!Next]_(Rec!vars)
<1> USE DEF Working
<1>0. Typed /\ Typed' /\ Control /\ Control' /\ Bounded
  BY DEF IInv
<1>n. /\ global_steps \in Nat /\ Torn \notin Steps /\ Named \in Nat
      /\ (tracker \in Steps => Named = tracker) /\ (tracker \notin Steps => Named = 0)
  BY <1>0, MapsOf DEF Torn, Steps
<1>s. Stays \/ Starts \/ Learns \/ Persists \/ Fails \/ Breaks => [Rec!Next]_(Rec!vars)
  BY RecoverySteps
<1>1. CASE UNCHANGED vars
  <2>1. UNCHANGED <<pc, tracker, global_steps>>
    BY <1>1 DEF vars, saveVars, diskVars
  <2> QED BY <1>s, <2>1 DEF Stays, Phase, DurableStep, StepNow, Stuck, Trained
<1>2. CASE Load
  <2>1. pc = "down" /\ UNCHANGED tracker /\ Named' = Named
    BY <1>2 DEF Load, saveVars, diskVars, Named
  <2>2. CASE tracker = Torn
    <3>1. pc' = "broken"
      BY <1>2, <1>n, <2>2 DEF Load, LoadNothing, LoadLatest, LoadTorn, Missing, Torn
    <3>2. MapsTo("stuck", 0, 0) /\ MapsTo("stuck", 0, 0)'
      BY <1>0, <2>1, <2>2, <3>1, MapsOf, MapsAfter
    <3> QED BY <1>s, <3>2 DEF MapsTo, Stays
  <2>3. CASE tracker # Torn
    <3>1. pc' = "loaded"
      <4>1. tracker \in Steps => Readable(tracker)
        BY DEF IInv, LatestIsLoadable, Readable, Torn
      <4> QED BY <1>2, <2>3, <4>1 DEF Load, LoadNothing, LoadLatest, LoadTorn
    <3>2. Trained' = Named'
      <4>1. Trained' = global_steps'
        BY <3>1 DEF Trained
      <4>2. IF tracker' \in Steps THEN tracker' = global_steps' ELSE global_steps' = 0
        BY <1>0, <3>1 DEF Control
      <4> QED BY <4>1, <4>2 DEF Named
    <3>3. MapsTo("down", Named, Named) /\ MapsTo("up", Named, Trained)'
      BY <1>0, <2>1, <2>3, <3>1, MapsOf, MapsAfter
    <3> QED BY <1>s, <2>1, <3>2, <3>3 DEF MapsTo, Starts
  <2> QED BY <2>2, <2>3
<1>3. CASE \/ ValidateFirst \/ NextBatch \/ DynamicSampling \/ DataEnds \/ FirstGeneration
           \/ TakeGenerated \/ Train \/ Test \/ EndStep
  <2>1. UNCHANGED tracker /\ pc \notin {"down", "failed"} /\ pc' # "down"
    BY <1>3 DEF ValidateFirst, NextBatch, DynamicSampling, DataEnds, FirstGeneration,
       TakeGenerated, Train, Test, EndStep, saveVars, diskVars
  <2>2. tracker # Torn
    BY <1>3 DEF Near, ValidateFirst, NextBatch, DynamicSampling, DataEnds, FirstGeneration,
       TakeGenerated, Train, Test, EndStep
  <2>3. \/ pc' = "failed" \/ Trained' = Trained
        \/ (pc \in Working /\ Trained = global_steps - 1 /\ Trained' = Trained + 1)
    <3>1. CASE ValidateFirst
      <4>1. pc = "loaded" /\ pc' \in {"first", "next"} /\ global_steps' = global_steps + 1
        BY <3>1 DEF ValidateFirst
      <4> QED BY <1>n, <4>1 DEF Trained
    <3>2. CASE NextBatch \/ DynamicSampling \/ FirstGeneration \/ TakeGenerated
      <4>1. /\ pc \in {"next", "first", "loop"} /\ UNCHANGED global_steps
            /\ pc' \in {"next", "first", "loop", "train", "done", "failed"}
        BY <3>2 DEF NextBatch, DynamicSampling, FirstGeneration, TakeGenerated
      <4> QED BY <4>1 DEF Trained
    <3>3. CASE DataEnds
      <4>1. pc = "next" /\ UNCHANGED global_steps /\ pc' \in {"done", "save"}
        BY <3>3 DEF DataEnds
      <4> QED BY <1>n, <4>1 DEF Trained
    <3>4. CASE Train
      <4>1. pc = "train" /\ UNCHANGED global_steps /\ pc' = "test"
        BY <3>4 DEF Train
      <4> QED BY <1>n, <4>1 DEF Trained
    <3>5. CASE Test
      <4>1. pc = "test" /\ UNCHANGED global_steps /\ pc' = "save"
        BY <3>5 DEF Test
      <4> QED BY <4>1 DEF Trained
    <3>6. CASE EndStep
      <4>1. pc = "end" /\ global_steps' = global_steps + 1 /\ pc' \in {"done", "loop", "next"}
        BY <3>6 DEF EndStep
      <4> QED BY <1>n, <4>1 DEF Trained
    <3> QED BY <1>3, <3>1, <3>2, <3>3, <3>4, <3>5, <3>6
  <2> QED BY <1>0, <1>s, <2>1, <2>2, <2>3, RunMaps
<1>4. CASE Save
  <2>0. UNCHANGED global_steps /\ pc \in {"save", "saving"} /\ pc' \in {"saving", "end"}
    BY <1>4, SaveCases DEF SaveFrame, Begun, Skipped, Over
  <2>1. Trained = global_steps /\ Trained' = global_steps
    BY <2>0 DEF Trained
  <2>2. MapsTo("up", IF tracker = Torn THEN global_steps ELSE Named, global_steps)
    BY <1>0, <2>0, <2>1, MapsOf
  <2>3. MapsTo("up", IF tracker = Torn THEN global_steps ELSE Named, global_steps)'
    BY <1>0, <2>0, <2>1, MapsAfter DEF MapsTo
  <2>4. CASE UNCHANGED tracker
    BY <1>s, <2>0, <2>2, <2>3, <2>4 DEF MapsTo, Stays, Named
  <2>5. CASE pc = "saving" /\ SaveTracker
    <3>1. tracker' \in {Torn, global_steps} /\ job.stage = "tracker" /\ global_steps \in Steps
      BY <1>0, <2>5, StepWritten DEF SaveTracker
    <3>2. DurableStep' = global_steps /\ StepNow' = global_steps /\ Phase' = "up"
      <4>1. tracker' = global_steps => Named' = global_steps
        BY <2>0, <3>1 DEF Named
      <4> QED BY <1>n, <2>0, <2>3, <3>1, <4>1 DEF MapsTo
    <3>3. tracker # Torn => Named < global_steps
      <4>1. tracker < global_steps /\ global_steps > 0
        BY <1>0, <2>5, <3>1 DEF Control
      <4> QED BY <1>n, <4>1
    <3>4. CASE tracker = Torn
      BY <1>s, <2>2, <3>2, <3>4 DEF MapsTo, Stays
    <3>5. CASE tracker # Torn
      BY <1>s, <1>n, <2>2, <3>2, <3>3, <3>5 DEF MapsTo, Persists
    <3> QED BY <3>4, <3>5
  <2>6. UNCHANGED tracker \/ (pc = "saving" /\ SaveTracker)
    BY <1>4, SaveCases DEF Begun, Skipped, Over, RemoveShard, MakeFolder, Rotated, RoleSaved, SaveData,
       OpenShard, WriteShard, diskVars, saveVars
  <2> QED BY <2>4, <2>5, <2>6
<1>5. CASE Crash
  <2>1. /\ pc \notin {"down", "done", "failed", "broken"} /\ pc' = "down" /\ UNCHANGED tracker
        /\ Named' = Named
    BY <1>5 DEF Crash, diskVars, Named
  <2>2. CASE tracker = Torn
    <3>1. Trained = global_steps
      BY <2>1, <2>2 DEF Near, Trained
    <3>2. MapsTo("up", global_steps, Trained) /\ MapsTo("stuck", 0, 0)'
      BY <1>0, <2>1, <2>2, MapsOf, MapsAfter
    <3> QED BY <1>s, <3>1, <3>2 DEF MapsTo, Breaks
  <2>3. CASE tracker # Torn
    <3>1. MapsTo("up", Named, Trained) /\ MapsTo("down", Named, Named)'
      BY <1>0, <2>1, <2>3, MapsOf, MapsAfter
    <3> QED BY <1>s, <2>1, <3>1 DEF MapsTo, Fails
  <2> QED BY <2>2, <2>3
<1> QED BY <1>1, <1>2, <1>3, <1>4, <1>5 DEF Next, Driver

\* The first start maps to the first start.
LEMMA RecoveryInit == Init => Rec!Init
BY DEF Init, CheckpointsInit, Rec!Init, Stuck, Missing, Torn

\* Where more than one checkpoint of each role is kept, drivers and checkpoint
\* managers implement Recovery: a crash between any two file operations costs at
\* most save_freq steps, and every restart goes on from the last step made
\* durable, but for the one crash that leaves the tracker empty
\* (ray_trainer.py:778-896, checkpoint_manager.py, fsdp_checkpoint_manager.py).
THEOREM ImplementsThePromise ==
  ASSUME KeepActor # 1, KeepCritic # 1
  PROVE  Spec => ImplementsRecovery
<1>1. Spec => []IInv
  BY Invariance
<1>2. Init => Near /\ Rec!Init
  BY NearInit, RecoveryInit
<1>3. IInv /\ Near /\ [Next]_vars => Near'
  BY NearStep DEF IInv
<1>4. IInv /\ Near /\ IInv' /\ Near' /\ [Next]_vars => [Rec!Next]_(Rec!vars)
  BY RecoveryMaps
<1> QED BY <1>1, <1>2, <1>3, <1>4, PTL DEF Spec, ImplementsRecovery, Rec!Spec

-----------------------------------------------------------------------------
\* Places in a row: the first is 1 and each follows the one before, or, behind
\* the lengths of S, skips one.
LastPlace(w) == IF w = <<>> THEN 0 ELSE w[Len(w)]
NextPlace(w, S) ==
  IF Len(w) \in S THEN After(After(LastPlace(w))) ELSE After(LastPlace(w))
InLine(w, S) ==
  /\ Len(w) > 0 => w[1] = 1
  /\ \A i \in 1..(Len(w) - 1) :
       w[i + 1] = IF i \in S THEN After(After(w[i])) ELSE After(w[i])

\* One sequence ends with another.
EndsWith(c, a) ==
  /\ Len(a) <= Len(c)
  /\ \A i \in 1..Len(a) : a[i] = c[Len(c) - Len(a) + i]

\* The steps behind which a batch is skipped, and what excuses dapo.
Skips == {i \in resumed \ cut : recipe = "one_step_off" /\ i < Total}
Excused == recipe = "dapo" /\ resumed \cap cut # {}

\* Every step that was resumed from is behind.
Past ==
  /\ resumed \subseteq Steps
  /\ tracker = Missing => resumed = {}
  /\ tracker \in Steps => \A k \in resumed : k <= tracker
  /\ pc = "loaded" => \A k \in resumed : k <= global_steps
  /\ pc \in Working \cup {"saving", "end"} => \A k \in resumed : k < global_steps
  /\ recipe \in {"ppo", "one_step_off", "dapo"}
  /\ recipe = "ppo" => cut = {}

\* Weights v after k steps: the critic has seen the batches in order, and the
\* actor the same from the end of the warmup on.
Ordered(k, v, S, excused) ==
  /\ excused \/ InLine(v["critic"], S)
  /\ EndsWith(v["critic"], v["actor"])
  /\ v["actor"] # <<>> => CriticWarmup <= k

\* The place in the data that belongs to a checkpoint.
PlaceOf(k, c, p) ==
  IF recipe = "one_step_off"
  THEN p = IF k < Total /\ k \notin cut THEN After(LastPlace(c)) ELSE LastPlace(c)
  ELSE ~Excused /\ k \notin cut => p = LastPlace(c)

\* Whatever can be read of the checkpoint the tracker names.
ReadableAt(k, r) == \A role \in Roles : shards[role][k][r] # <<>>

OnDisk ==
  tracker \in Steps =>
    /\ data[tracker] \in Nat
    /\ \A r \in Ranks : ReadableAt(tracker, r) =>
         /\ Ordered(tracker, WeightsAt(tracker, r), Skips, Excused)
         /\ Lengths(tracker, WeightsAt(tracker, r))
         /\ PlaceOf(tracker, WeightsAt(tracker, r)["critic"], data[tracker])

\* The files of the checkpoint being written.
Files ==
  pc = "saving" =>
    /\ \A role \in Roles : Done(role) => Written(role, Ranks)
    /\ job.stage \in Roles => Written(job.stage, job.written)
    /\ job.phase = "rotate" => job.written = {}
    /\ job.written \subseteq job.opened
    /\ job.stage \in {"tracker", "over"} => data[global_steps] = pos

\* The weights in memory.
InMemory ==
  /\ Ordered(global_steps, weights, Skips, Excused)
  /\ pc \in {"down", "loaded"} => batch = <<>>
  /\ pc = "down" => pos = 0

\* What is ahead of them: the place in the data, the batch and, one step off,
\* the next generation.
Behind == {"test", "save", "saving", "end"}
Going == ~IsLastStep /\ future # <<>>

AheadOne ==
  /\ pc \in {"loaded", "first"} => After(pos) = NextPlace(weights["critic"], Skips)
  /\ pc = "loop" /\ future # <<>> =>
       future[1].pos = pos /\ pos = NextPlace(weights["critic"], Skips)
  /\ pc = "train" =>
       /\ batch[1].pos = NextPlace(weights["critic"], Skips)
       /\ pos = IF Going THEN After(batch[1].pos) ELSE batch[1].pos
       /\ IsLastStep => future # <<>>
  /\ pc \in Behind =>
       /\ pos = IF Going THEN After(LastPlace(weights["critic"]))
                         ELSE LastPlace(weights["critic"])
       /\ global_steps \in cut <=> future = <<>>
  /\ pc \in Behind \cup {"train"} /\ Going => future[1].pos = pos

\* For the others the batch, which dapo gathers from several generations.
UnderWay == weights["critic"] \o Places(batch)

AheadNone ==
  /\ pc \notin {"first", "loop"}
  /\ ~Excused /\ pc \in {"loaded", "next", "train"} =>
       InLine(UnderWay, {}) /\ LastPlace(UnderWay) = pos
  /\ ~Excused /\ pc \in Behind /\ global_steps \notin cut =>
       LastPlace(weights["critic"]) = pos
  /\ pc \in Behind => closing \/ global_steps \notin cut
  /\ recipe = "ppo" /\ pc = "next" => batch = <<>>

Ahead == IF recipe = "one_step_off" THEN AheadOne ELSE AheadNone

Order == Base /\ Counted /\ Past /\ OnDisk /\ Files /\ InMemory /\ Ahead

-----------------------------------------------------------------------------
\* One more place in a row.
LEMMA InLineMore ==
  ASSUME NEW w \in Seq(Nat), NEW S, 0 \notin S, InLine(w, S), NEW p \in Nat, p = NextPlace(w, S)
  PROVE  InLine(Append(w, p), S)
<1>1. /\ Len(w) \in Nat /\ Append(w, p) \in Seq(Nat) /\ Len(Append(w, p)) = Len(w) + 1
      /\ \A i \in 1..Len(w) : Append(w, p)[i] = w[i]
      /\ Append(w, p)[Len(w) + 1] = p
      /\ Len(w) = 0 <=> w = <<>>
  BY AppendProperties, EmptySeq
<1> DEFINE x == Append(w, p)
           n == Len(w)
<1>2. /\ n \in Nat /\ Len(x) = n + 1 /\ \A i \in 1..n : x[i] = w[i]
      /\ x[n + 1] = p /\ (n = 0 <=> w = <<>>)
  BY <1>1
<1>3. p = IF n \in S THEN After(After(LastPlace(w))) ELSE After(LastPlace(w))
  BY DEF NextPlace
<1>4. x[1] = 1
  <2>1. CASE n = 0
    <3>1. LastPlace(w) = 0 /\ n \notin S
      BY <1>2, <2>1 DEF LastPlace
    <3>2. After(0) = 1
      BY TrainingAssumption DEF After
    <3> QED BY <1>2, <1>3, <2>1, <3>1, <3>2
  <2>2. CASE n > 0
    BY <1>2, <2>2 DEF InLine
  <2> HIDE DEF x, n
  <2> QED BY <1>2, <2>1, <2>2
<1>5. ASSUME NEW i \in 1..n PROVE x[i + 1] = IF i \in S THEN After(After(x[i])) ELSE After(x[i])
  <2>1. CASE i = n
    <3>1. LastPlace(w) = x[n] /\ n > 0
      BY <1>2, <1>5, <2>1 DEF LastPlace
    <3> QED BY <1>2, <1>3, <2>1, <3>1
  <2>2. CASE i # n
    <3>1. i \in 1..(n - 1) /\ i + 1 \in 1..n /\ i \in 1..n
      BY <1>2, <1>5, <2>2
    <3>2. x[i + 1] = w[i + 1] /\ x[i] = w[i]
      BY <1>2, <3>1
    <3>3. w[i + 1] = IF i \in S THEN After(After(w[i])) ELSE After(w[i])
      BY <3>1 DEF InLine
    <3> QED BY <3>2, <3>3
  <2> QED BY <2>1, <2>2
<1>6. Len(x) - 1 = n
  BY <1>2
<1> HIDE DEF x
<1>7. InLine(x, S)
  BY <1>4, <1>5, <1>6 DEF InLine
<1> QED BY <1>7 DEF x

\* Its last place is the new one.
LEMMA LastOfMore ==
  ASSUME NEW w \in Seq(Nat), NEW p \in Nat
  PROVE  LastPlace(Append(w, p)) = p /\ Append(w, p) \in Seq(Nat) /\ Append(w, p) # <<>>
<1>1. /\ Len(w) \in Nat /\ Append(w, p) \in Seq(Nat) /\ Len(Append(w, p)) = Len(w) + 1
      /\ Append(w, p)[Len(w) + 1] = p /\ Append(w, p) # <<>>
  BY AppendProperties
<1> QED BY <1>1 DEF LastPlace

\* Only the lengths before the last matter.
LEMMA InLineAgrees ==
  ASSUME NEW w, NEW S, NEW T, InLine(w, S), \A i \in 1..(Len(w) - 1) : i \in S <=> i \in T
  PROVE  InLine(w, T)
BY DEF InLine

\* What is trained on by both is at the end of both.
LEMMA BothMore ==
  ASSUME NEW a \in Seq(Nat), NEW c \in Seq(Nat), NEW p \in Seq(Nat), EndsWith(c, a)
  PROVE  EndsWith(c \o p, a \o p) /\ EndsWith(c \o p, <<>>)
<1>1. /\ Len(c) \in Nat /\ Len(a) \in Nat /\ Len(p) \in Nat /\ Len(a) <= Len(c)
      /\ Len(c \o p) = Len(c) + Len(p) /\ Len(a \o p) = Len(a) + Len(p)
      /\ \A i \in 1..Len(a) : a[i] = c[Len(c) - Len(a) + i]
  BY ConcatProperties, LenProperties DEF EndsWith
<1>2. ASSUME NEW i \in 1..(Len(a) + Len(p))
      PROVE  (a \o p)[i] = (c \o p)[Len(c) - Len(a) + i]
  <2>1. /\ (a \o p)[i] = IF i <= Len(a) THEN a[i] ELSE p[i - Len(a)]
        /\ Len(c) - Len(a) + i \in 1..(Len(c) + Len(p))
    BY <1>1, <1>2, ConcatProperties
  <2>2. (c \o p)[Len(c) - Len(a) + i] =
          IF Len(c) - Len(a) + i <= Len(c) THEN c[Len(c) - Len(a) + i]
                                           ELSE p[Len(c) - Len(a) + i - Len(c)]
    BY <2>1, ConcatProperties
  <2>3. (Len(c) - Len(a) + i <= Len(c) <=> i <= Len(a)) /\ Len(c) - Len(a) + i - Len(c) = i - Len(a)
    BY <1>1, <1>2
  <2>4. i <= Len(a) => i \in 1..Len(a)
    BY <1>1, <1>2
  <2> QED BY <1>1, <2>1, <2>2, <2>3, <2>4
<1>3. Len(c \o p) - Len(a \o p) = Len(c) - Len(a) /\ Len(a \o p) <= Len(c \o p)
  BY <1>1
<1>4. EndsWith(c \o p, a \o p)
  BY <1>1, <1>2, <1>3 DEF EndsWith
<1>5. EndsWith(c \o p, <<>>)
  BY <1>1 DEF EndsWith
<1> QED BY <1>4, <1>5

\* A sequence at the end of another is its tail.
LEMMA TailIs ==
  ASSUME NEW a \in Seq(Nat), NEW c \in Seq(Nat), EndsWith(c, a)
  PROVE  a = SubSeq(c, Len(c) - Len(a) + 1, Len(c))
<1> DEFINE m == Len(c) - Len(a) + 1
           s == SubSeq(c, m, Len(c))
<1>1. Len(c) \in Nat /\ Len(a) \in Nat /\ Len(a) <= Len(c) /\ m \in 1..(Len(c) + 1)
  BY LenProperties DEF EndsWith
<1>2. s \in Seq(Nat) /\ Len(s) = Len(a) /\ \A i \in 1..Len(a) : s[i] = c[m + i - 1]
  <2>1. Len(c) - m + 1 = Len(a)
    BY <1>1
  <2>2. m \in 1..(Len(c) + 1) /\ Len(c) \in m - 1..Len(c)
    BY <1>1
  <2>3. /\ s \in Seq(Nat)
        /\ Len(s) = IF m <= Len(c) THEN Len(c) - m + 1 ELSE 0
        /\ \A i \in 1..(Len(c) - m + 1) : s[i] = c[m + i - 1]
    BY <2>2, SubSeqProperties, <1>1
  <2> QED BY <1>1, <2>1, <2>3
<1>3. \A i \in 1..Len(a) : s[i] = a[i]
  BY <1>1, <1>2 DEF EndsWith
<1> HIDE DEF s, m
<1>4. s = a
  BY <1>1, <1>2, <1>3, SeqEqual
<1> QED BY <1>4 DEF s, m

\* The places of one generation more.
LEMMA PlacesMore ==
  ASSUME NEW b \in Seq([pos : Nat, updates : Nat]), NEW g \in [pos : Nat, updates : Nat]
  PROVE  Places(Append(b, g)) = Append(Places(b), g.pos)
<1>1. /\ Append(b, g) \in Seq([pos : Nat, updates : Nat]) /\ Len(b) \in Nat
      /\ Len(Append(b, g)) = Len(b) + 1 /\ Append(b, g)[Len(b) + 1] = g
      /\ \A i \in 1..Len(b) : Append(b, g)[i] = b[i]
  BY AppendProperties
<1>2. /\ Places(Append(b, g)) \in Seq(Nat) /\ Len(Places(Append(b, g))) = Len(b) + 1
      /\ Places(b) \in Seq(Nat) /\ Len(Places(b)) = Len(b)
  BY <1>1, PlacesTyped
<1>3. /\ Append(Places(b), g.pos) \in Seq(Nat)
      /\ Len(Append(Places(b), g.pos)) = Len(b) + 1
      /\ Append(Places(b), g.pos)[Len(b) + 1] = g.pos
      /\ \A i \in 1..Len(b) : Append(Places(b), g.pos)[i] = Places(b)[i]
  BY <1>2, AppendProperties
<1>4. /\ \A i \in 1..(Len(b) + 1) : Places(Append(b, g))[i] = Append(b, g)[i].pos
      /\ \A i \in 1..Len(b) : Places(b)[i] = b[i].pos
  <2>1. DOMAIN Append(b, g) = 1..(Len(b) + 1) /\ DOMAIN b = 1..Len(b)
    BY <1>1
  <2> QED BY <2>1 DEF Places
<1>5. ASSUME NEW i \in 1..(Len(b) + 1) PROVE Places(Append(b, g))[i] = Append(Places(b), g.pos)[i]
  <2>1. i = Len(b) + 1 \/ i \in 1..Len(b)
    BY <1>1
  <2> QED BY <1>1, <1>3, <1>4, <2>1
<1> QED BY <1>1, <1>2, <1>3, <1>5, SeqEqual

\* The places of none and of one.
LEMMA PlacesFew ==
  /\ Places(<<>>) = <<>>
  /\ \A b \in Seq([pos : Nat, updates : Nat]) : Len(b) = 1 => Places(b) = <<b[1].pos>>
<1>1. Places(<<>>) = <<>>
  BY DEF Places
<1>2. ASSUME NEW b \in Seq([pos : Nat, updates : Nat]), Len(b) = 1 PROVE Places(b) = <<b[1].pos>>
  <2>1. DOMAIN b = 1..1
    BY <1>2
  <2>2. Places(b)[1] = b[1].pos
    BY <2>1 DEF Places
  <2>3. Places(b) \in Seq(Nat) /\ Len(Places(b)) = 1
    BY <1>2, PlacesTyped
  <2> QED BY <2>2, <2>3
<1> QED BY <1>1, <1>2

-----------------------------------------------------------------------------
\* What a step leaves alone, the sets leave alone.
LEMMA SkipsFrame ==
  ASSUME [Next]_vars, UNCHANGED <<resumed, cut>>
  PROVE  Skips' = Skips /\ Excused' = Excused
BY ConfigKept DEF Skips, Excused, Total

\* A step that has not been resumed from may be cut or not.
LEMMA SkipsCut ==
  ASSUME [Next]_vars, resumed' = resumed, NEW n, n \notin resumed,
         cut' = cut \cup {n} \/ cut' = cut \ {n}
  PROVE  Skips' = Skips /\ Excused' = Excused
<1>1. resumed \ cut' = resumed \ cut /\ resumed \cap cut' = resumed \cap cut
  OBVIOUS
<1> QED BY <1>1, ConfigKept DEF Skips, Excused, Total

\* Only the one step off recipe skips, and never before the first step.
LEMMA SkipsFew ==
  ASSUME Past
  PROVE  /\ 0 \notin Skips /\ Skips \subseteq resumed
         /\ recipe # "one_step_off" => Skips = {}
         /\ recipe # "dapo" => ~Excused
BY DEF Past, Skips, Excused, Steps

\* What is on disk stays in order as long as files of the checkpoint the tracker
\* names are left or removed.
LEMMA DiskLess ==
  ASSUME OnDisk, [Next]_vars, tracker' = tracker,
         Skips' = Skips, Excused' = Excused,
         tracker \in Steps =>
           /\ tracker \in cut' <=> tracker \in cut
           /\ data'[tracker] = data[tracker]
           /\ \A role \in Roles, r \in Ranks :
                shards'[role][tracker][r] \in {<<>>, shards[role][tracker][r]}
  PROVE  OnDisk'
<1>1. recipe' = recipe /\ Total' = Total
  BY ConfigKept DEF Total
<1> SUFFICES ASSUME tracker \in Steps PROVE OnDisk'
  BY DEF OnDisk
<1>2. ASSUME NEW r \in Ranks, ReadableAt(tracker, r)'
      PROVE  ReadableAt(tracker, r) /\ WeightsAt(tracker, r)' = WeightsAt(tracker, r)
  <2>1. \A role \in Roles : shards'[role][tracker][r] # <<>>
    BY <1>2 DEF ReadableAt
  <2>2. \A role \in Roles : shards'[role][tracker][r] = shards[role][tracker][r]
    BY <2>1
  <2> QED BY <2>1, <2>2 DEF ReadableAt, WeightsAt
<1>5. data'[tracker] \in Nat
  BY DEF OnDisk
<1>6. ASSUME NEW r \in Ranks, ReadableAt(tracker, r)'
      PROVE  /\ Ordered(tracker, WeightsAt(tracker, r), Skips, Excused)'
             /\ Lengths(tracker, WeightsAt(tracker, r))'
             /\ PlaceOf(tracker, WeightsAt(tracker, r)["critic"], data[tracker])'
  <2>1. ReadableAt(tracker, r) /\ WeightsAt(tracker, r)' = WeightsAt(tracker, r)
    BY <1>2, <1>6
  <2>2. /\ Ordered(tracker, WeightsAt(tracker, r), Skips, Excused)
        /\ Lengths(tracker, WeightsAt(tracker, r))
        /\ PlaceOf(tracker, WeightsAt(tracker, r)["critic"], data[tracker])
    BY <2>1 DEF OnDisk
  <2>3. Ordered(tracker, WeightsAt(tracker, r), Skips, Excused)'
    BY <2>1, <2>2 DEF Ordered
  <2>4. Lengths(tracker, WeightsAt(tracker, r))'
    BY <1>1, <2>1, <2>2 DEF Lengths
  <2>5. PlaceOf(tracker, WeightsAt(tracker, r)["critic"], data[tracker])'
    BY <1>1, <2>1, <2>2 DEF PlaceOf
  <2> QED BY <2>3, <2>4, <2>5
<1> QED BY <1>5, <1>6 DEF OnDisk

\* Nothing on disk has changed.
LEMMA DiskFrame ==
  ASSUME OnDisk, [Next]_vars, UNCHANGED <<shards, data, tracker>>,
         Skips' = Skips, Excused' = Excused,
         tracker \in Steps => (tracker \in cut' <=> tracker \in cut)
  PROVE  OnDisk'
BY DiskLess

\* The steps that only move what is ahead of the weights.
Moves ==
  \/ ValidateFirst \/ NextBatch \/ DynamicSampling \/ FirstGeneration \/ TakeGenerated
  \/ Test \/ EndStep

\* They keep all but what is ahead.
LEMMA MovesKeep ==
  ASSUME Order, Moves
  PROVE  /\ Past' /\ OnDisk' /\ Files' /\ InMemory'
         /\ Skips' = Skips /\ Excused' = Excused
         /\ UNCHANGED <<recipe, total_epochs, weights, resumed, cut>>
<1>1. /\ UNCHANGED <<configVars, saveVars, weights, resumed, cut>>
      /\ pc \in {"loaded", "next", "first", "loop", "test", "end"}
      /\ pc' \in {"next", "first", "loop", "train", "save", "done", "failed"}
      /\ global_steps' = IF pc \in {"loaded", "end"} THEN global_steps + 1 ELSE global_steps
  BY DEF Moves, ValidateFirst, NextBatch, DynamicSampling, FirstGeneration, TakeGenerated,
         Test, EndStep, pastVars
<1>2. [Next]_vars
  BY DEF Moves, Next, Driver
<1>3. Skips' = Skips /\ Excused' = Excused
  BY <1>1, <1>2, SkipsFrame
<1>4. global_steps \in Nat /\ Past
  BY DEF Order, Base, Typed
<1>5. Past'
  <2>1. \A k \in resumed : k \in Nat
    BY <1>4 DEF Past, Steps
  <2>2. pc' \in Working => \A k \in resumed : k < global_steps'
    <3>1. CASE pc = "loaded"
      BY <1>1, <1>4, <2>1, <3>1 DEF Past
    <3>2. CASE pc # "loaded"
      <4>1. \A k \in resumed : k < global_steps
        BY <1>1, <1>4, <3>2 DEF Past, Working
      <4> QED BY <1>1, <1>4, <2>1, <4>1
    <3> QED BY <3>1, <3>2
  <2> QED BY <1>1, <1>4, <2>2 DEF Past, configVars, saveVars, diskVars
<1>6. OnDisk'
  BY <1>1, <1>2, <1>3, DiskFrame DEF Order, saveVars, diskVars
<1>7. Files'
  BY <1>1 DEF Files
<1>8. InMemory'
  <2>1. global_steps <= global_steps' /\ global_steps' \in Nat
    BY <1>1, <1>4
  <2>2. CriticWarmup \in Nat
    BY TrainingAssumption
  <2>3. Ordered(global_steps', weights, Skips, Excused)
    BY <1>4, <2>1, <2>2 DEF Order, InMemory, Ordered
  <2> QED BY <1>1, <1>3, <2>3 DEF InMemory, configVars
<1> QED BY <1>1, <1>3, <1>5, <1>6, <1>7, <1>8 DEF configVars

\* The iterator goes on with the place that follows.
LEMMA PullsNext == PullNext => pos' = After(pos)
BY DEF PullNext, After

\* A generation is of its place.
LEMMA GeneratedAt ==
  ASSUME Typed
  PROVE  /\ \A p \in Nat : /\ Generated(p) \in Seq([pos : Nat, updates : Nat])
                           /\ Generated(p) # <<>> /\ Generated(p)[1].pos = p
                           /\ \A b \in Seq([pos : Nat, updates : Nat]) :
                                Places(b \o Generated(p)) = Append(Places(b), p)
<1>1. Updates \in Nat
  BY DEF Typed, Updates, AllRoles
<1>2. ASSUME NEW p \in Nat
      PROVE  /\ Generated(p) \in Seq([pos : Nat, updates : Nat])
             /\ Generated(p) # <<>> /\ Generated(p)[1].pos = p
             /\ \A b \in Seq([pos : Nat, updates : Nat]) :
                  Places(b \o Generated(p)) = Append(Places(b), p)
  <2> DEFINE g == [pos |-> p, updates |-> Updates]
  <2>1. g \in [pos : Nat, updates : Nat] /\ g.pos = p /\ Generated(p) = <<g>>
    BY <1>1 DEF Generated, Synced
  <2> HIDE DEF g
  <2>2. Generated(p) \in Seq([pos : Nat, updates : Nat]) /\ Generated(p) # <<>>
        /\ Generated(p)[1] = g
    BY <2>1
  <2>3. ASSUME NEW b \in Seq([pos : Nat, updates : Nat])
        PROVE  Places(b \o Generated(p)) = Append(Places(b), p)
    <3>1. b \o <<g>> = Append(b, g)
      BY <2>1, AppendIsConcat
    <3> QED BY <2>1, <3>1, PlacesMore
  <2> QED BY <2>1, <2>2, <2>3
<1> QED BY <1>2

\* One more at the end of two sequences joined.
LEMMA MoreAtTheEnd ==
  ASSUME NEW w \in Seq(Nat), NEW p \in Seq(Nat), NEW n \in Nat
  PROVE  w \o Append(p, n) = Append(w \o p, n) /\ w \o p \in Seq(Nat)
<1>1. w \o p \in Seq(Nat) /\ <<n>> \in Seq(Nat)
  BY ConcatProperties
<1>2. Append(p, n) = p \o <<n>> /\ Append(w \o p, n) = (w \o p) \o <<n>>
  BY <1>1, AppendIsConcat
<1>3. w \o (p \o <<n>>) = (w \o p) \o <<n>>
  BY <1>1, ConcatAssociative
<1> QED BY <1>1, <1>2, <1>3

\* What the pull gives is the place ahead.
LEMMA AheadMoves ==
  ASSUME UseCritic, Order, Moves
  PROVE  Ahead'
<1> DEFINE w == weights["critic"]
<1>0. /\ Skips' = Skips /\ Excused' = Excused
      /\ UNCHANGED <<recipe, total_epochs, weights, resumed, cut>>
  BY MovesKeep
<1>a. Typed /\ Control /\ Past /\ pos \in Nat /\ w \in Seq(Nat)
      /\ future \in Seq([pos : Nat, updates : Nat]) /\ batch \in Seq([pos : Nat, updates : Nat])
  BY DEF Order, Base, Typed, AllRoles
<1>b. Typed'
  BY TypedStep DEF Order, Base, Moves, Next, Driver
<1>c. pos' \in Nat /\ Total' = Total
  BY <1>0, <1>b DEF Typed, Total
<1>g. /\ Generated(pos') \in Seq([pos : Nat, updates : Nat])
      /\ Generated(pos') # <<>> /\ Generated(pos')[1].pos = pos'
      /\ \A b \in Seq([pos : Nat, updates : Nat]) :
           Places(b \o Generated(pos')) = Append(Places(b), pos')
  BY <1>a, <1>c, GeneratedAt
<1> HIDE DEF w
<1>1. CASE recipe = "one_step_off"
  <2>0. AheadOne
    BY <1>1 DEF Order, Ahead
  <2> SUFFICES AheadOne'
    BY <1>0, <1>1 DEF Ahead
  <2>a. weights["critic"] = w /\ weights'["critic"] = w
    BY <1>0 DEF w
  <2>1. CASE ValidateFirst
    <3>1. pc = "loaded" /\ pc' = "first" /\ pos' = pos
      BY <1>1, <2>1 DEF ValidateFirst, loopVars
    <3>2. After(pos) = NextPlace(w, Skips)
      BY <2>0, <2>a, <3>1 DEF AheadOne
    <3> QED BY <1>0, <2>a, <3>1, <3>2 DEF AheadOne, Behind
  <2>2. CASE FirstGeneration
    <3>1. pc = "first" /\ pc' = "loop"
          /\ ((future' = <<>>) \/ (PullNext /\ future' = Generated(pos')))
      BY <2>2 DEF FirstGeneration, AsyncGenNextBatch
    <3>2. future' # <<>> => pos' = NextPlace(w, Skips) /\ future'[1].pos = pos'
      BY <1>g, <2>0, <2>a, <3>1, PullsNext DEF AheadOne
    <3> QED BY <1>0, <2>a, <3>1, <3>2 DEF AheadOne, Behind
  <2>3. CASE TakeGenerated /\ future = <<>>
    <3>1. pc' = "done"
      BY <2>3 DEF TakeGenerated
    <3> QED BY <3>1 DEF AheadOne, Behind
  <2>4. CASE TakeGenerated /\ future # <<>>
    <3>1. /\ pc = "loop" /\ pc' = "train" /\ batch' = future /\ global_steps' = global_steps
          /\ \/ /\ ~IsLastStep
                /\ \/ PullNext /\ future' = Generated(pos')
                   \/ future' = <<>> /\ pos' = pos
             \/ IsLastStep /\ future' = future /\ pos' = pos
      BY <2>4 DEF TakeGenerated, AsyncGenNextBatch
    <3>2. future[1].pos = pos /\ pos = NextPlace(w, Skips)
      BY <2>0, <2>4, <2>a, <3>1 DEF AheadOne
    <3>3. IsLastStep' <=> IsLastStep
      BY <1>c, <3>1 DEF IsLastStep
    <3>4. batch'[1].pos = NextPlace(w, Skips)
      BY <3>1, <3>2
    <3>5. /\ pos' = IF Going' THEN After(batch'[1].pos) ELSE batch'[1].pos
          /\ IsLastStep' => future' # <<>>
          /\ Going' => future'[1].pos = pos'
      BY <1>g, <2>4, <3>1, <3>2, <3>3, PullsNext DEF Going
    <3> QED BY <1>0, <2>a, <3>1, <3>4, <3>5 DEF AheadOne, Behind
  <2>5. CASE Test
    <3>1. pc = "test" /\ pc' = "save" /\ UNCHANGED <<global_steps, pos, batch, future>>
      BY <2>5 DEF Test, loopVars
    <3>2. IsLastStep' <=> IsLastStep
      BY <1>c, <3>1 DEF IsLastStep
    <3>3. /\ pos = IF Going THEN After(LastPlace(w)) ELSE LastPlace(w)
          /\ global_steps \in cut <=> future = <<>>
          /\ Going => future[1].pos = pos
      BY <2>0, <2>a, <3>1 DEF AheadOne, Behind
    <3>4. Going' <=> Going
      BY <3>1, <3>2 DEF Going
    <3> QED BY <1>0, <2>a, <3>1, <3>3, <3>4 DEF AheadOne, Behind
  <2>6. CASE EndStep
    <3>1. pc = "end" /\ pc' \in {"done", "loop"} /\ UNCHANGED <<pos, future>>
          /\ (pc' = "loop" => ~IsLastStep)
      BY <1>1, <2>6 DEF EndStep
    <3>2. ASSUME pc' = "loop", future # <<>> PROVE future[1].pos = pos /\ pos = NextPlace(w, Skips)
      <4>1. Going
        BY <3>1, <3>2 DEF Going
      <4>2. future[1].pos = pos /\ pos = After(LastPlace(w))
        BY <2>0, <2>a, <3>1, <4>1 DEF AheadOne, Behind
      <4>3. Len(w) = global_steps
        <5>1. Trained = global_steps
          BY <3>1 DEF Trained
        <5>2. Len(w) = UpdatesAfter("critic", global_steps)
          BY <1>1, <2>a, <3>1, <5>1 DEF Order, Counted, AllRoles
        <5> QED BY <5>2 DEF UpdatesAfter
      <4>4. global_steps \notin Skips
        <5>1. \A k \in resumed : k < global_steps
          BY <1>a, <3>1 DEF Past
        <5>2. global_steps \notin resumed
          BY <1>a, <5>1 DEF Typed
        <5> QED BY <1>a, <5>2, SkipsFew
      <4> QED BY <4>2, <4>3, <4>4 DEF NextPlace
    <3>3. future' # <<>> /\ pc' = "loop" => future'[1].pos = pos' /\ pos' = NextPlace(w, Skips)
      BY <3>1, <3>2
    <3> QED BY <1>0, <2>a, <3>1, <3>3 DEF AheadOne, Behind
  <2> QED BY <1>1, <2>1, <2>2, <2>3, <2>4, <2>5, <2>6 DEF Moves, NextBatch, DynamicSampling
<1>2. CASE recipe # "one_step_off"
  <2>0. AheadNone
    BY <1>2 DEF Order, Ahead
  <2> SUFFICES AheadNone'
    BY <1>0, <1>2 DEF Ahead
  <2>a. weights["critic"] = w /\ weights'["critic"] = w
    BY <1>0 DEF w
  <2>1. CASE ValidateFirst
    <3>1. pc = "loaded" /\ pc' = "next" /\ UNCHANGED <<pos, batch>>
      BY <1>2, <2>1 DEF ValidateFirst, loopVars
    <3>2. UnderWay' = UnderWay /\ batch = <<>>
      BY <1>0, <3>1 DEF UnderWay, Places, Order, InMemory
    <3> QED BY <1>0, <2>0, <3>1, <3>2 DEF AheadNone, Behind
  <2>2. CASE (NextBatch /\ pc' = "train") \/ DynamicSampling
    <3>1. /\ pc = "next" /\ pc' \in {"next", "train", "failed"}
          /\ PullNext /\ batch' = batch \o Generated(pos')
          /\ recipe = "ppo" => pc' # "next"
      <4>1. CASE NextBatch /\ pc' = "train"
        <5>1. pc = "next" /\ PullNext /\ batch' = Generated(pos') /\ batch = <<>>
          BY <2>0, <4>1 DEF NextBatch, AheadNone
        <5>2. <<>> \o Generated(pos') = Generated(pos')
          BY <1>g, ConcatEmptySeq
        <5> QED BY <4>1, <5>1, <5>2
      <4>2. CASE DynamicSampling
        BY <4>2 DEF DynamicSampling, Accumulated
      <4> QED BY <2>2, <4>1, <4>2
    <3>2. Places(batch) \in Seq(Nat) /\ Places(batch') = Append(Places(batch), pos')
      BY <1>a, <1>g, <3>1, PlacesTyped
    <3>3. UnderWay \in Seq(Nat) /\ UnderWay' = Append(UnderWay, pos')
      <4>1. UnderWay = w \o Places(batch) /\ UnderWay' = w \o Append(Places(batch), pos')
        <5>1. UnderWay' = w \o Places(batch')
          BY <2>a DEF UnderWay, Places
        <5> QED BY <2>a, <3>2, <5>1 DEF UnderWay
      <4> DEFINE p == Places(batch)
      <4>2. p \in Seq(Nat)
        BY <3>2
      <4>3. w \o Append(p, pos') = Append(w \o p, pos') /\ w \o p \in Seq(Nat)
        BY <1>a, <1>c, <4>2, MoreAtTheEnd
      <4> QED BY <4>1, <4>3
    <3>4. ASSUME ~Excused
          PROVE  InLine(UnderWay', {}) /\ LastPlace(UnderWay') = pos'
      <4>1. InLine(UnderWay, {}) /\ LastPlace(UnderWay) = pos
        BY <2>0, <3>1, <3>4 DEF AheadNone
      <4>2. pos' = NextPlace(UnderWay, {})
        BY <3>1, <4>1, PullsNext DEF NextPlace
      <4> QED BY <1>c, <3>3, <4>1, <4>2, InLineMore, LastOfMore
    <3> QED BY <1>0, <3>1, <3>4 DEF AheadNone, Behind
  <2>3. CASE NextBatch /\ pc' # "train"
    <3>1. pc' = "done"
      BY <2>3 DEF NextBatch
    <3> QED BY <3>1 DEF AheadNone, Behind
  <2>4. CASE Test
    <3>1. pc = "test" /\ pc' = "save" /\ UNCHANGED <<global_steps, pos, closing>>
      BY <2>4 DEF Test, loopVars
    <3> QED BY <1>0, <2>0, <3>1 DEF AheadNone, Behind
  <2>5. CASE EndStep
    <3>1. /\ pc = "end" /\ pc' \in {"done", "next"} /\ UNCHANGED pos /\ batch' = <<>>
          /\ pc' = "next" => ~closing
      BY <1>2, <2>5 DEF EndStep
    <3>2. UnderWay' = w
      <4>1. UnderWay' = w \o Places(<<>>)
        BY <2>a, <3>1 DEF UnderWay, Places
      <4> QED BY <1>a, <4>1, PlacesFew, ConcatEmptySeq
    <3>3. ASSUME ~Excused, pc' = "next" PROVE InLine(w, {}) /\ LastPlace(w) = pos
      <4>1. InLine(w, Skips) /\ Skips = {}
        BY <1>2, <1>a, <2>a, <3>3, SkipsFew DEF Order, InMemory, Ordered
      <4>2. global_steps \notin cut
        BY <2>0, <3>1, <3>3 DEF AheadNone, Behind
      <4> QED BY <2>0, <2>a, <3>1, <3>3, <4>1, <4>2 DEF AheadNone, Behind
    <3> QED BY <1>0, <3>1, <3>2, <3>3 DEF AheadNone, Behind
  <2>6. ~FirstGeneration /\ ~TakeGenerated
    BY <2>0 DEF AheadNone, FirstGeneration, TakeGenerated
  <2> QED BY <2>1, <2>2, <2>3, <2>4, <2>5, <2>6 DEF Moves
<1> QED BY <1>1, <1>2

\* A step that is trained, or left when the data ends, was not resumed from.
LEMMA NotResumed ==
  ASSUME Order, pc \in Working
  PROVE  global_steps \notin resumed /\ tracker # global_steps
<1>1. \A k \in resumed : k < global_steps
  BY DEF Order, Past
<1>2. global_steps \in Nat /\ tracker < global_steps
  BY DEF Order, Base, Typed, Control
<1>3. tracker \in Int
  BY DEF Order, Base, Typed, Missing, Torn, Steps
<1> QED BY <1>1, <1>2, <1>3

\* Training appends the batch that follows.
LEMMA TrainOrder ==
  ASSUME UseCritic, Order, Train
  PROVE  Past' /\ OnDisk' /\ Files' /\ InMemory' /\ Ahead'
<1> DEFINE w == weights["critic"]
           a == weights["actor"]
           p == Places(batch)
<1>1. /\ pc = "train" /\ pc' = "test" /\ UNCHANGED <<saveVars, global_steps, loopVars, resumed>>
      /\ cut' = cut \cup {global_steps} \/ cut' = cut \ {global_steps}
      /\ recipe = "one_step_off" => (global_steps \in cut' <=> future = <<>>)
      /\ recipe # "one_step_off" => global_steps \notin cut' /\ cut' \subseteq cut
  BY DEF Train
<1>2. [Next]_vars
  BY DEF Next, Driver
<1>3. recipe' = recipe /\ Total' = Total
  BY <1>2, ConfigKept DEF Total
<1>4. global_steps \notin resumed /\ tracker # global_steps
  BY <1>1, NotResumed DEF Working
<1>5. Skips' = Skips /\ Excused' = Excused
  BY <1>1, <1>2, <1>4, SkipsCut
<1>6. Past'
  BY <1>1, <1>3 DEF Order, Past, saveVars, diskVars, Working
<1>7. OnDisk'
  BY <1>1, <1>2, <1>4, <1>5, DiskFrame DEF Order, saveVars, diskVars
<1>8. Files'
  BY <1>1 DEF Files
<1>9. /\ w \in Seq(Nat) /\ a \in Seq(Nat) /\ p \in Seq(Nat) /\ Past
      /\ batch \in Seq([pos : Nat, updates : Nat])
      /\ CriticWarmup \in Nat /\ global_steps \in Nat
  BY PlacesTyped, TrainingAssumption DEF Order, Base, Typed, AllRoles
<1>10. /\ weights'["critic"] = w \o p
       /\ weights'["actor"] = IF CriticWarmup <= global_steps THEN a \o p ELSE a
  BY DEF Train, Trains, AllRoles
<1>11. /\ EndsWith(w, a) /\ (a # <<>> => CriticWarmup <= global_steps)
       /\ Excused \/ InLine(w, Skips)
  BY DEF Order, InMemory, Ordered
<1> HIDE DEF w, a, p
<1>12. /\ EndsWith(weights'["critic"], weights'["actor"])
       /\ weights'["actor"] # <<>> => CriticWarmup <= global_steps
  BY <1>9, <1>10, <1>11, BothMore
<1>13. CASE recipe = "one_step_off"
  <2>1. /\ batch[1].pos = NextPlace(w, Skips)
        /\ pos = IF Going THEN After(batch[1].pos) ELSE batch[1].pos
        /\ Going => future[1].pos = pos
    BY <1>1, <1>13 DEF Order, Ahead, AheadOne, Behind, w
  <2>2. p = <<batch[1].pos>> /\ batch[1].pos \in Nat
    <3>1. Len(batch) = 1
      BY <1>1, <1>13 DEF Order, Base, Control
    <3>2. batch[1] \in [pos : Nat, updates : Nat]
      <4> DEFINE R == [pos : Nat, updates : Nat]
      <4>1. batch \in Seq(R)
        BY <1>9
      <4> HIDE DEF R
      <4>2. batch[1] \in R
        BY <3>1, <4>1
      <4> QED BY <4>2 DEF R
    <3> QED BY <1>9, <3>1, <3>2, PlacesFew DEF p
  <2>3. w \o p = Append(w, batch[1].pos)
    BY <1>9, <2>2, AppendIsConcat
  <2>4. 0 \notin Skips /\ InLine(w, Skips)
    BY <1>9, <1>11, <1>13, SkipsFew
  <2>5. InLine(w \o p, Skips) /\ LastPlace(w \o p) = batch[1].pos
    <3> DEFINE q == batch[1].pos
    <3>1. q \in Nat /\ q = NextPlace(w, Skips) /\ w \o p = Append(w, q)
      BY <2>1, <2>2, <2>3
    <3> HIDE DEF q
    <3>2. InLine(Append(w, q), Skips)
      BY <1>9, <2>4, <3>1, InLineMore
    <3>3. LastPlace(Append(w, q)) = q
      BY <1>9, <3>1, LastOfMore
    <3>4. InLine(w \o p, Skips) /\ LastPlace(w \o p) = q
      BY <3>1, <3>2, <3>3
    <3> QED BY <3>4 DEF q
  <2>6. InMemory'
    BY <1>1, <1>5, <1>10, <1>12, <2>5 DEF InMemory, Ordered
  <2>7. (Going' <=> Going) /\ UNCHANGED <<pos, future>>
    BY <1>1, <1>3 DEF Going, IsLastStep, loopVars
  <2>8. AheadOne'
    BY <1>1, <1>10, <1>13, <2>1, <2>5, <2>7 DEF AheadOne, Behind
  <2> QED BY <1>3, <1>6, <1>7, <1>8, <1>13, <2>6, <2>8 DEF Ahead
<1>14. CASE recipe # "one_step_off"
  <2>0. Skips = {} /\ UnderWay = w \o p
    BY <1>9, <1>14, SkipsFew DEF UnderWay, w, p
  <2>1. ~Excused => InLine(w \o p, {}) /\ LastPlace(w \o p) = pos
    BY <1>1, <1>14, <2>0 DEF Order, Ahead, AheadNone
  <2>2. InMemory'
    BY <1>1, <1>5, <1>10, <1>12, <2>0, <2>1 DEF InMemory, Ordered
  <2>3. pos' = pos /\ global_steps' = global_steps
    BY <1>1 DEF loopVars
  <2>4. AheadNone'
    <3>1. ~Excused' => LastPlace(weights'["critic"]) = pos'
      BY <1>5, <1>10, <2>1, <2>3
    <3>2. global_steps' \notin cut'
      BY <1>1, <1>14, <2>3
    <3> QED BY <1>1, <3>1, <3>2 DEF AheadNone, Behind
  <2> QED BY <1>3, <1>6, <1>7, <1>8, <1>14, <2>2, <2>4 DEF Ahead
<1> QED BY <1>13, <1>14

\* When the data ends the step is cut and nothing is trained.
LEMMA DataEndsOrder ==
  ASSUME UseCritic, Order, DataEnds
  PROVE  Past' /\ OnDisk' /\ Files' /\ InMemory' /\ Ahead'
<1>1. /\ pc = "next" /\ pc' \in {"save", "done"} /\ recipe = "dapo" /\ closing' = TRUE
      /\ UNCHANGED <<saveVars, global_steps, weights, resumed>>
      /\ cut' = cut \cup {global_steps}
  BY DEF DataEnds
<1>2. [Next]_vars
  BY DEF Next, Driver
<1>3. recipe' = recipe
  BY <1>2, ConfigKept
<1>4. global_steps \notin resumed /\ tracker # global_steps
  BY <1>1, NotResumed DEF Working
<1>5. Skips' = Skips /\ Excused' = Excused
  BY <1>1, <1>2, <1>4, SkipsCut
<1>6. Past'
  BY <1>1, <1>3 DEF Order, Past, saveVars, diskVars, Working
<1>7. OnDisk'
  BY <1>1, <1>2, <1>4, <1>5, DiskFrame DEF Order, saveVars, diskVars
<1>8. Files' /\ InMemory'
  BY <1>1, <1>5 DEF Files, Order, InMemory
<1>9. AheadNone'
  BY <1>1, <1>3 DEF AheadNone, Behind
<1> QED BY <1>1, <1>3, <1>6, <1>7, <1>8, <1>9 DEF Ahead

\* A crash leaves the disk.
LEMMA CrashOrder ==
  ASSUME Order, Crash
  PROVE  Past' /\ OnDisk' /\ Files' /\ InMemory' /\ Ahead'
<1>1. /\ pc' = "down" /\ global_steps' = 0 /\ weights' = Initial /\ batch' = <<>> /\ pos' = 0
      /\ UNCHANGED <<diskVars, resumed, cut>>
  BY DEF Crash, Volatile
<1>2. [Next]_vars
  BY DEF Next
<1>3. recipe' = recipe
  BY <1>2, ConfigKept
<1>4. Skips' = Skips /\ Excused' = Excused
  BY <1>1, <1>2, SkipsFrame
<1>5. Past'
  BY <1>1, <1>3 DEF Order, Past, diskVars, Working
<1>6. OnDisk'
  BY <1>1, <1>2, <1>4, DiskFrame DEF Order, diskVars
<1>7. Files' /\ Ahead'
  BY <1>1 DEF Files, Ahead, AheadOne, AheadNone, Behind
<1>8. weights'["critic"] = <<>> /\ weights'["actor"] = <<>>
  BY <1>1 DEF Initial, AllRoles
<1>9. InLine(<<>>, Skips) /\ EndsWith(<<>>, <<>>)
  BY DEF InLine, EndsWith
<1>10. InMemory'
  BY <1>1, <1>4, <1>8, <1>9 DEF InMemory, Ordered
<1> QED BY <1>5, <1>6, <1>7, <1>10

\* A run that starts again has what was written, and the place that belongs to
\* it.
LEMMA LoadOrder ==
  ASSUME UseCritic, Order, Load
  PROVE  Past' /\ OnDisk' /\ Files' /\ InMemory' /\ Ahead'
<1>1. pc = "down" /\ UNCHANGED <<saveVars, batch, cut>> /\ pc' \in {"loaded", "broken"}
  BY DEF Load, LoadNothing, LoadLatest, LoadTorn
<1>2. [Next]_vars
  BY DEF Next, Driver
<1>3. recipe' = recipe /\ Total' = Total
  BY <1>2, ConfigKept DEF Total
<1>4. Files'
  BY <1>1 DEF Files
<1>5. /\ Past /\ batch = <<>> /\ global_steps = 0 /\ weights = Initial
      /\ weights["critic"] = <<>> /\ weights["actor"] = <<>>
      /\ \A b : Places(b)' = Places(b)
  BY <1>1 DEF Order, InMemory, Base, Control, Initial, AllRoles, Places
<1>6. InLine(<<>>, {}) /\ Len(<<>>) = 0 /\ LastPlace(<<>>) = 0
  BY DEF InLine, LastPlace
<1>7. Missing \notin Steps /\ Torn \notin Steps
  BY DEF Missing, Torn, Steps
<1>8. CASE ~(tracker \in Steps /\ Readable(tracker)) /\ UNCHANGED <<global_steps, weights, pos, resumed>>
  <2>1. Skips' = Skips /\ Excused' = Excused
    BY <1>1, <1>2, <1>8, SkipsFrame
  <2>2. pc' = "loaded" => tracker = Missing
    BY <1>1, <1>8 DEF Load, LoadNothing, LoadLatest, LoadTorn
  <2>3. Past'
    BY <1>1, <1>3, <1>5, <1>8, <2>2 DEF Past, Working, saveVars, diskVars
  <2>4. OnDisk'
    BY <1>1, <1>2, <2>1, DiskFrame DEF Order, saveVars, diskVars
  <2>5. InMemory'
    BY <1>1, <1>5, <1>8, <2>1 DEF Order, InMemory
  <2>6. CASE pc' = "broken"
    BY <1>4, <2>3, <2>4, <2>5, <2>6 DEF Ahead, AheadOne, AheadNone, Behind
  <2>7. CASE pc' = "loaded"
    <3>1. resumed = {} /\ Skips = {}
      BY <1>5, <2>2, <2>7 DEF Past, Skips
    <3>2. pos = 0
      BY <1>1 DEF Order, InMemory
    <3>3. UnderWay' = <<>>
      BY <1>1, <1>5, <1>8, PlacesFew DEF UnderWay
    <3>4. AheadOne'
      BY <1>5, <1>6, <1>8, <2>1, <2>7, <3>1, <3>2 DEF AheadOne, Behind, NextPlace
    <3>5. AheadNone'
      BY <1>6, <1>8, <2>7, <3>2, <3>3 DEF AheadNone, Behind
    <3> QED BY <1>4, <2>3, <2>4, <2>5, <3>4, <3>5 DEF Ahead
  <2> QED BY <1>1, <2>6, <2>7
<1>9. CASE LoadLatest /\ Readable(tracker)
  <2>1. /\ tracker \in Steps /\ global_steps' = tracker /\ pos' = PosAt(tracker)
        /\ resumed' = resumed \cup {tracker} /\ pc' = "loaded"
    BY <1>9 DEF LoadLatest, RestoredStep, RestoredPos
  <2>2. PICK r \in Ranks : weights' = WeightsAt(tracker, r)
    BY <1>9 DEF LoadLatest
  <2> DEFINE c == WeightsAt(tracker, r)["critic"]
             a == WeightsAt(tracker, r)["actor"]
  <2>3. \A q \in Ranks : ReadableAt(tracker, q)
    BY <1>9 DEF Readable, ReadableAt
  <2>4. /\ data[tracker] \in Nat
        /\ \A q \in Ranks :
             /\ Ordered(tracker, WeightsAt(tracker, q), Skips, Excused)
             /\ Lengths(tracker, WeightsAt(tracker, q))
             /\ PlaceOf(tracker, WeightsAt(tracker, q)["critic"], data[tracker])
    BY <2>1, <2>3 DEF Order, OnDisk
  <2>5. pos' = data[tracker]
    BY <2>1, <2>4 DEF PosAt, Missing
  <2>6. tracker \in Nat \ {0} /\ \A k \in resumed : k <= tracker
    BY <1>5, <2>1 DEF Past, Steps
  <2>7. Past'
    <3>1. \A k \in resumed' : k <= tracker
      BY <2>1, <2>6
    <3>2. resumed' \subseteq Steps
      BY <1>5, <2>1 DEF Past
    <3> QED BY <1>1, <1>3, <1>5, <1>7, <2>1, <3>1, <3>2 DEF Past, Working, saveVars, diskVars
  <2>8. Excused => Excused'
    BY <1>1, <1>3, <2>1 DEF Excused
  <2>9. \A i : i # tracker => (i \in Skips' <=> i \in Skips)
    BY <1>1, <1>3, <2>1 DEF Skips
  <2>10. recipe # "one_step_off" => Skips = {} /\ Skips' = {}
    BY <1>3 DEF Skips
  <2>11. ASSUME NEW q \in Ranks, recipe = "one_step_off"
         PROVE  Len(WeightsAt(tracker, q)["critic"]) = tracker
    BY <2>4, <2>11 DEF Lengths, UpdatesAfter, AllRoles
  <2>12. ASSUME NEW q \in Ranks
         PROVE  Ordered(tracker, WeightsAt(tracker, q), Skips', Excused')
    <3> DEFINE v == WeightsAt(tracker, q)
    <3>1. Ordered(tracker, v, Skips, Excused)
      BY <2>4
    <3>2. Excused \/ InLine(v["critic"], Skips)
      BY <3>1 DEF Ordered
    <3>3. Excused' \/ InLine(v["critic"], Skips')
      <4>1. CASE recipe = "one_step_off"
        <5>1. Len(v["critic"]) = tracker
          BY <2>11, <4>1
        <5>2. \A i \in 1..(Len(v["critic"]) - 1) : i \in Skips <=> i \in Skips'
          BY <2>6, <2>9, <5>1
        <5> HIDE DEF v
        <5> QED BY <2>8, <3>2, <5>2, InLineAgrees
      <4>2. CASE recipe # "one_step_off"
        BY <2>8, <2>10, <3>2, <4>2
      <4> QED BY <4>1, <4>2
    <3> HIDE DEF v
    <3>4. Ordered(tracker, v, Skips', Excused')
      BY <3>1, <3>3 DEF Ordered
    <3> QED BY <3>4 DEF v
  <2>13. ASSUME NEW q \in Ranks
         PROVE  /\ WeightsAt(tracker, q)' = WeightsAt(tracker, q)
                /\ Lengths(tracker, WeightsAt(tracker, q))'
                /\ PlaceOf(tracker, WeightsAt(tracker, q)["critic"], data[tracker])'
    <3>1. WeightsAt(tracker, q)' = WeightsAt(tracker, q)
      BY <1>1 DEF WeightsAt, saveVars, diskVars
    <3>2. Lengths(tracker, WeightsAt(tracker, q))'
      BY <1>1, <1>3, <2>4, <3>1 DEF Lengths, saveVars, diskVars
    <3>3. data' = data /\ tracker' = tracker /\ cut' = cut
      BY <1>1 DEF saveVars, diskVars
    <3>4. PlaceOf(tracker, WeightsAt(tracker, q)["critic"], data[tracker])
      BY <2>4
    <3>5. PlaceOf(tracker, WeightsAt(tracker, q)["critic"], data[tracker])'
      BY <1>3, <2>8, <3>1, <3>3, <3>4 DEF PlaceOf
    <3> QED BY <3>1, <3>2, <3>5
  <2>14. OnDisk'
    <3>1. tracker' = tracker /\ data' = data
      BY <1>1 DEF saveVars, diskVars
    <3>2. \A q \in Ranks : Ordered(tracker, WeightsAt(tracker, q), Skips, Excused)'
      <4> SUFFICES ASSUME NEW q \in Ranks
                   PROVE  Ordered(tracker, WeightsAt(tracker, q), Skips, Excused)'
        OBVIOUS
      <4> QED BY <2>12, <2>13, <3>1 DEF Ordered
    <3> QED BY <2>4, <2>13, <3>1, <3>2 DEF OnDisk
  <2>15. InMemory'
    <3>1. Ordered(tracker, WeightsAt(tracker, r), Skips', Excused')
      BY <2>12
    <3>2. Ordered(global_steps, weights, Skips, Excused)'
      BY <2>1, <2>2, <3>1 DEF Ordered
    <3> QED BY <1>1, <1>5, <3>2 DEF InMemory
  <2>16. weights'["critic"] = c /\ c \in Seq(Nat)
    <3>1. weights' \in [AllRoles -> Seq(Nat)]
      BY <1>2, TypedStep DEF Order, Base, Typed
    <3> QED BY <2>2, <3>1 DEF AllRoles
  <2>17. PlaceOf(tracker, c, pos') /\ Ordered(tracker, WeightsAt(tracker, r), Skips', Excused')
    BY <2>2, <2>4, <2>5, <2>12
  <2>18. CASE recipe = "one_step_off"
    <3>1. Len(c) = tracker
      BY <2>2, <2>11, <2>18
    <3>2. pos' = IF tracker < Total /\ tracker \notin cut THEN After(LastPlace(c)) ELSE LastPlace(c)
      BY <2>17, <2>18 DEF PlaceOf
    <3>3. tracker \in Skips' <=> tracker < Total /\ tracker \notin cut
      BY <1>1, <1>3, <2>1, <2>18 DEF Skips
    <3> HIDE DEF c
    <3>4. After(pos') = NextPlace(c, Skips')
      BY <3>1, <3>2, <3>3 DEF NextPlace
    <3>5. AheadOne'
      BY <2>1, <2>16, <3>4 DEF AheadOne, Behind
    <3> QED BY <1>3, <1>4, <2>7, <2>14, <2>15, <2>18, <3>5 DEF Ahead
  <2>19. CASE recipe # "one_step_off"
    <3>1. UnderWay' = c
      <4>1. UnderWay' = c \o Places(<<>>)
        BY <1>1, <1>5, <2>16 DEF UnderWay
      <4> HIDE DEF c
      <4> QED BY <2>16, <4>1, PlacesFew, ConcatEmptySeq
    <3>2. ASSUME ~Excused'
          PROVE  InLine(c, {}) /\ LastPlace(c) = pos'
      <4>1. InLine(c, Skips') /\ Skips' = {}
        BY <2>10, <2>17, <2>19, <3>2 DEF Ordered
      <4>2. tracker \notin cut
        <5>1. CASE recipe = "ppo"
          BY <1>5, <5>1 DEF Past
        <5>2. CASE recipe = "dapo"
          BY <1>1, <1>3, <2>1, <3>2, <5>2 DEF Excused
        <5>3. recipe \in {"ppo", "dapo"}
          BY <1>5, <2>19 DEF Past
        <5> QED BY <5>1, <5>2, <5>3
      <4>3. ~Excused
        BY <2>8, <3>2
      <4> QED BY <2>17, <2>19, <4>1, <4>2, <4>3 DEF PlaceOf
    <3> HIDE DEF c
    <3>3. AheadNone'
      BY <2>1, <3>1, <3>2 DEF AheadNone, Behind
    <3> QED BY <1>3, <1>4, <2>7, <2>14, <2>15, <2>19, <3>3 DEF Ahead
  <2> QED BY <2>18, <2>19
<1>10. (~(tracker \in Steps /\ Readable(tracker)) /\ UNCHANGED <<global_steps, weights, pos, resumed>>)
       \/ (LoadLatest /\ Readable(tracker))
  BY <1>7 DEF Load, LoadNothing, LoadLatest, LoadTorn
<1> QED BY <1>8, <1>9, <1>10

\* Each step of a save writes what its stage says, and leaves the rest of the
\* checkpoint.
LEMMA FilesStep ==
  ASSUME UseCritic, Order, Save
  PROVE  Files'
<1>1. UNCHANGED <<global_steps, weights, pos>>
  BY SaveCases DEF SaveFrame, loopVars
<1>2. CASE Begun
  BY <1>2 DEF Begun, SaveBegin, JobAt, Files, Done, Written
<1>3. CASE Skipped \/ Over
  BY <1>3 DEF Skipped, Over, Files
<1>4. CASE pc = "saving" /\ pc' = "saving"
  <2>1. /\ \A role \in Roles : Done(role) => Written(role, Ranks)
        /\ job.stage \in Roles => Written(job.stage, job.written)
        /\ job.phase = "rotate" => job.written = {}
        /\ job.written \subseteq job.opened
        /\ job.stage \in {"tracker", "over"} => data[global_steps] = pos
    BY <1>4 DEF Order, Files
  <2>2. global_steps \in Steps /\ Typed
    BY <1>4, StepWritten DEF Order, Base
  <2>3. Roles = AllRoles
    BY DEF Roles
  <2>4. ASSUME NEW role, NEW S, Written(role, S), \A r \in S : shards'[role][global_steps][r] = shards[role][global_steps][r]
        PROVE  Written(role, S)'
    BY <1>1, <2>4 DEF Written
  <2>5. CASE RemoveShard
    <3>1. /\ job' = job /\ data' = data /\ job.written = {} /\ job.stage \in Roles
          /\ \A role \in AllRoles : role # job.stage => shards'[role] = shards[role]
      BY <2>1, <2>2, <2>5 DEF RemoveShard, Typed
    <3>2. \A role \in Roles : Done(role)' => Written(role, Ranks)'
      <4> SUFFICES ASSUME NEW role \in Roles, Done(role)' PROVE Written(role, Ranks)'
        OBVIOUS
      <4>1. Done(role) /\ role # job.stage
        BY <1>4, <3>1 DEF Done, Roles, AllRoles
      <4> QED BY <2>1, <2>3, <2>4, <3>1, <4>1
    <3>3. Written(job.stage, job.written)'
      BY <3>1 DEF Written
    <3> QED BY <1>1, <2>1, <3>1, <3>2, <3>3 DEF Files
  <2>11. CASE MakeFolder
    BY <1>1, <1>4, <2>1, <2>11 DEF MakeFolder, Files, Written, Done
  <2>6. CASE Rotated
    <3>1. /\ shards' = shards /\ data' = data /\ job.stage \in Roles
          /\ job'.stage = job.stage /\ job'.phase = "write" /\ job'.opened = {} /\ job'.written = {}
      BY <2>6 DEF Rotated, JobAt
    <3>2. \A role \in Roles : Done(role)' => Written(role, Ranks)'
      BY <1>1, <1>4, <2>1, <3>1 DEF Done, Written
    <3>3. Written(job.stage, job.written)'
      BY <3>1 DEF Written
    <3>4. job.stage \notin {"tracker", "over"}
      BY <3>1 DEF Roles, AllRoles
    <3> QED BY <3>1, <3>2, <3>3, <3>4 DEF Files
  <2>7. ASSUME NEW r \in Ranks, OpenShard(r) \/ WriteShard(r) PROVE Files'
    <3> DEFINE st == job.stage
    <3>1. /\ st \in Roles /\ job'.stage = st /\ job'.phase = "write" /\ data' = data
          /\ \A role \in AllRoles : role # st => shards'[role] = shards[role]
          /\ \A q \in Ranks : q # r => shards'[st][global_steps][q] = shards[st][global_steps][q]
          /\ \/ r \notin job.opened /\ job'.opened = job.opened \cup {r} /\ job'.written = job.written
             \/ /\ r \in job.opened /\ job'.opened = job.opened /\ job'.written = job.written \cup {r}
                /\ shards'[st][global_steps][r] = <<weights[st]>>
      BY <2>2, <2>3, <2>7 DEF OpenShard, WriteShard, Typed, Job
    <3> HIDE DEF st
    <3>2. \A role \in Roles : Done(role)' => Written(role, Ranks)'
      <4> SUFFICES ASSUME NEW role \in Roles, Done(role)' PROVE Written(role, Ranks)'
        OBVIOUS
      <4>1. Done(role) /\ role # st
        BY <1>4, <3>1 DEF Done, Roles, AllRoles, st
      <4> QED BY <2>1, <2>3, <2>4, <3>1, <4>1
    <3>3. Written(st, job.written) /\ job.written \subseteq Ranks
      BY <2>1, <2>2, <3>1 DEF st, Typed, Job
    <3>4. \A q \in job'.written : shards'[st][global_steps][q] = <<weights[st]>>
      BY <2>1, <3>1, <3>3 DEF Written
    <3>5. Written(job.stage, job.written)'
      BY <1>1, <3>1, <3>4 DEF Written
    <3>6. st \notin {"tracker", "over"}
      BY <3>1 DEF Roles, AllRoles
    <3>7. job'.written \subseteq job'.opened
      BY <2>1, <3>1
    <3> QED BY <3>1, <3>2, <3>5, <3>6, <3>7 DEF Files
  <2>8. CASE RoleSaved
    <3>1. /\ shards' = shards /\ data' = data /\ job.stage \in Roles /\ job.written = Ranks
          /\ job' = NextJob(job.stage)
      BY <2>8 DEF RoleSaved, diskVars
    <3>2. /\ job'.stage = IF job.stage = "actor" THEN "critic" ELSE "data"
          /\ job'.opened = {} /\ job'.written = {}
      BY <3>1 DEF NextJob, JobAt, AfterStage, Roles, AllRoles
    <3>3. \A role \in Roles : Done(role)' => Done(role) \/ role = job.stage
      BY <1>4, <3>1, <3>2 DEF Done, Roles, AllRoles
    <3>4. \A role \in Roles : Done(role)' => Written(role, Ranks)'
      BY <1>1, <2>1, <3>1, <3>3 DEF Written
    <3>5. Written(job.stage, job.written)'
      BY <3>2 DEF Written
    <3> QED BY <3>2, <3>4, <3>5 DEF Files
  <2>9. CASE SaveData
    <3>1. /\ shards' = shards /\ job.stage = "data"
          /\ \/ job' = JobAt("data", "write")
             \/ job' = NextJob("data") /\ data' = [data EXCEPT ![global_steps] = pos]
      BY <2>9 DEF SaveData
    <3>2. /\ job'.opened = {} /\ job'.written = {}
          /\ \/ job'.stage = "data" /\ job'.phase = "write"
             \/ job'.stage = "tracker" /\ data'[global_steps] = pos
      BY <2>2, <3>1 DEF NextJob, JobAt, AfterStage, Roles, AllRoles, Typed
    <3>3. \A role \in Roles : Done(role)' => Written(role, Ranks)'
      BY <1>1, <1>4, <2>1, <3>1 DEF Done, Written, Roles, AllRoles
    <3>4. job'.stage \notin Roles
      BY <3>2 DEF Roles, AllRoles
    <3> QED BY <1>1, <3>2, <3>3, <3>4 DEF Files
  <2>10. CASE SaveTracker
    <3>1. /\ shards' = shards /\ data' = data /\ job.stage = "tracker"
          /\ job' = JobAt("tracker", "write") \/ job' = NextJob("tracker")
      BY <2>10 DEF SaveTracker
    <3>2. job'.opened = {} /\ job'.written = {} /\ job'.stage \in {"tracker", "over"}
      BY <3>1 DEF NextJob, JobAt, AfterStage, Roles, AllRoles
    <3>3. \A role \in Roles : Done(role)' => Written(role, Ranks)'
      BY <1>1, <1>4, <2>1, <3>1 DEF Done, Written, Roles, AllRoles
    <3>4. job'.stage \notin Roles
      BY <3>2 DEF Roles, AllRoles
    <3> QED BY <1>1, <2>1, <3>1, <3>2, <3>3, <3>4 DEF Files
  <2> QED BY <1>4, <2>5, <2>6, <2>7, <2>8, <2>9, <2>10, <2>11, SaveCases DEF Begun, Skipped, Over
<1> QED BY <1>2, <1>3, <1>4, SaveCases

\* A save leaves the checkpoint the tracker names until it names the new one,
\* which has the weights and the place in the data there are.
LEMMA SaveOrder ==
  ASSUME UseCritic, Order, Save
  PROVE  Past' /\ OnDisk' /\ Files' /\ InMemory' /\ Ahead'
<1>1. /\ UNCHANGED <<recipe, total_epochs, global_steps, weights, loopVars, resumed, cut>>
      /\ pc \in {"save", "saving"} /\ pc' \in {"saving", "end"}
  BY SaveCases DEF SaveFrame, configVars, pastVars, Begun, Skipped, Over
<1>2. [Next]_vars
  BY DEF Next, Driver
<1>3. Skips' = Skips /\ Excused' = Excused /\ Total' = Total
  BY <1>1, <1>2, SkipsFrame DEF Total
<1>4. Files'
  BY FilesStep
<1>5. InMemory'
  BY <1>1, <1>3 DEF Order, InMemory
<1>6. Ahead'
  <2>1. UNCHANGED <<pos, batch, future, closing>> /\ (Going' <=> Going)
    BY <1>1, <1>3 DEF loopVars, Going, IsLastStep
  <2>2. CASE recipe = "one_step_off"
    <3>1. AheadOne'
      BY <1>1, <1>3, <2>1, <2>2 DEF Order, Ahead, AheadOne, Behind
    <3> QED BY <1>1, <2>2, <3>1 DEF Ahead
  <2>3. CASE recipe # "one_step_off"
    <3>1. AheadNone'
      BY <1>1, <1>3, <2>1, <2>3 DEF Order, Ahead, AheadNone, Behind
    <3> QED BY <1>1, <2>3, <3>1 DEF Ahead
  <2> QED BY <2>2, <2>3
<1>7. /\ Past /\ OnDisk /\ Typed /\ global_steps \in Nat
      /\ \A k \in resumed : k < global_steps
  BY <1>1 DEF Order, Past, Base, Typed, Working
<1>8. CASE UNCHANGED diskVars
  <2>1. Past'
    BY <1>1, <1>7, <1>8 DEF Past, diskVars, Working
  <2>2. OnDisk'
    BY <1>1, <1>2, <1>3, <1>7, <1>8, DiskFrame DEF diskVars
  <2> QED BY <1>4, <1>5, <1>6, <2>1, <2>2
<1>9. CASE pc = "saving" /\ ~UNCHANGED diskVars
  <2>1. global_steps \in Steps /\ (job.stage # "over" => tracker < global_steps)
    BY <1>9, StepWritten DEF Order, Base, Control
  <2>2. CASE RemoveShard \/ SaveData \/ \E r \in Ranks : OpenShard(r) \/ WriteShard(r)
    <3>1. tracker' = tracker /\ tracker < global_steps
      <4>1. job.stage # "over"
        BY <2>2 DEF RemoveShard, SaveData, OpenShard, WriteShard, Roles, AllRoles
      <4> QED BY <2>1, <2>2, <4>1 DEF RemoveShard, SaveData, OpenShard, WriteShard
    <3>2. tracker \in Steps => data'[tracker] = data[tracker]
      <4>1. tracker # global_steps
        BY <1>7, <3>1 DEF Typed, Missing, Torn, Steps
      <4> QED BY <1>7, <2>2, <4>1 DEF RemoveShard, SaveData, OpenShard, WriteShard, Typed
    <3>3. ASSUME tracker \in Steps, NEW role \in Roles, NEW r \in Ranks
          PROVE  shards'[role][tracker][r] \in {<<>>, shards[role][tracker][r]}
      <4>1. tracker # global_steps /\ role \in AllRoles
        BY <1>7, <3>1, <3>3 DEF Typed, Missing, Torn, Steps, Roles
      <4>2. CASE RemoveShard
        BY <1>7, <3>3, <4>1, <4>2 DEF RemoveShard, Typed
      <4>3. CASE SaveData
        BY <4>3 DEF SaveData
      <4>4. ASSUME NEW q \in Ranks, OpenShard(q) \/ WriteShard(q)
            PROVE  shards'[role][tracker][r] = shards[role][tracker][r]
        <5> DEFINE st == job.stage
                   n == global_steps
        <5>1. PICK x : shards' = [shards EXCEPT ![st][n][q] = x]
          BY <4>4 DEF OpenShard, WriteShard
        <5>2. shards \in [AllRoles -> [Steps -> [Ranks -> Shard]]] /\ n # tracker
          BY <1>7, <4>1 DEF Typed
        <5> HIDE DEF st, n
        <5>3. shards'[role][tracker] = shards[role][tracker]
          BY <3>3, <4>1, <5>1, <5>2
        <5> QED BY <5>3
      <4> QED BY <2>2, <4>2, <4>3, <4>4
    <3>4. OnDisk'
      BY <1>1, <1>2, <1>3, <1>7, <3>1, <3>2, <3>3, DiskLess
    <3>5. Past'
      BY <1>1, <1>7, <3>1 DEF Past, Working
    <3> QED BY <1>4, <1>5, <1>6, <3>4, <3>5
  <2>3. CASE MakeFolder \/ Rotated
    <3>1. UNCHANGED <<shards, data, tracker>>
      BY <2>3 DEF MakeFolder, Rotated
    <3>2. OnDisk'
      BY <1>1, <1>2, <1>3, <1>7, <3>1, DiskFrame
    <3>3. Past'
      BY <1>1, <1>7, <3>1 DEF Past, Working
    <3> QED BY <1>4, <1>5, <1>6, <3>2, <3>3
  <2>4. CASE SaveTracker /\ tracker' = Torn
    <3>1. tracker' \notin Steps /\ tracker' # Missing
      BY <2>4 DEF Torn, Missing, Steps
    <3>2. OnDisk'
      BY <3>1 DEF OnDisk
    <3>3. Past'
      BY <1>1, <1>7, <3>1 DEF Past, Working
    <3> QED BY <1>4, <1>5, <1>6, <3>2, <3>3
  <2>5. CASE SaveTracker /\ tracker' # Torn
    <3>1. tracker' = global_steps /\ UNCHANGED <<shards, data>> /\ job.stage = "tracker"
      BY <2>5 DEF SaveTracker
    <3>2. Past'
      <4>1. \A k \in resumed : k <= global_steps
        BY <1>7 DEF Past, Steps
      <4>2. global_steps # Missing
        BY <1>7 DEF Missing
      <4> QED BY <1>1, <1>7, <3>1, <4>1, <4>2 DEF Past, Working
    <3>3. \A role \in AllRoles, r \in Ranks : shards[role][global_steps][r] = <<weights[role]>>
      <4>1. \A role \in Roles : Done(role)
        BY <1>9, <3>1 DEF Done, Roles, AllRoles
      <4> QED BY <1>9, <4>1 DEF Order, Files, Written, Roles
    <3>4. ASSUME NEW r \in Ranks
          PROVE  WeightsAt(tracker, r)' = weights
      <4>1. WeightsAt(tracker, r)' = [role \in AllRoles |-> weights[role]]
        BY <3>1, <3>3, <3>4 DEF WeightsAt, Roles
      <4> QED BY <1>7, <4>1 DEF Typed
    <3>5. data[global_steps] = pos /\ pos \in Nat
      BY <1>7, <1>9, <3>1 DEF Order, Files, Typed
    <3>6. Lengths(global_steps, weights)
      <4>1. Trained = global_steps
        BY <1>9 DEF Trained
      <4> QED BY <1>9, <4>1 DEF Order, Counted, Lengths
    <3>7. PlaceOf(global_steps, weights["critic"], pos)
      <4>1. CASE recipe = "one_step_off"
        <5>1. /\ pos = IF Going THEN After(LastPlace(weights["critic"]))
                                ELSE LastPlace(weights["critic"])
              /\ global_steps \in cut <=> future = <<>>
          BY <1>9, <4>1 DEF Order, Ahead, AheadOne, Behind
        <5>2. Going <=> global_steps < Total /\ global_steps \notin cut
          <6>1. Total \in Nat
            BY <1>7, TrainingAssumption DEF Typed, Total
          <6> QED BY <1>7, <5>1, <6>1 DEF Going, IsLastStep
        <5> QED BY <4>1, <5>1, <5>2 DEF PlaceOf
      <4>2. CASE recipe # "one_step_off"
        BY <1>9, <4>2 DEF Order, Ahead, AheadNone, Behind, PlaceOf
      <4> QED BY <4>1, <4>2
    <3>8. ASSUME NEW r \in Ranks
          PROVE  /\ Ordered(tracker, WeightsAt(tracker, r), Skips, Excused)'
                 /\ Lengths(tracker, WeightsAt(tracker, r))'
                 /\ PlaceOf(tracker, WeightsAt(tracker, r)["critic"], data[tracker])'
      <4>1. Ordered(global_steps, weights, Skips, Excused)
        BY DEF Order, InMemory
      <4>2. Ordered(tracker, WeightsAt(tracker, r), Skips, Excused)'
        BY <1>3, <3>1, <3>4, <4>1 DEF Ordered
      <4>3. Lengths(tracker, WeightsAt(tracker, r))'
        BY <1>1, <3>1, <3>4, <3>6 DEF Lengths
      <4>4. PlaceOf(tracker, WeightsAt(tracker, r)["critic"], data[tracker])'
        BY <1>1, <1>3, <3>1, <3>4, <3>5, <3>7 DEF PlaceOf
      <4> QED BY <4>2, <4>3, <4>4
    <3>9. OnDisk'
      BY <3>1, <3>5, <3>8 DEF OnDisk
    <3> QED BY <1>4, <1>5, <1>6, <3>2, <3>9
  <2>6. ~RoleSaved
    BY <1>9 DEF RoleSaved
  <2> QED BY <1>9, <2>2, <2>3, <2>4, <2>5, <2>6, SaveCases DEF Begun, Skipped, Over
<1>10. UNCHANGED diskVars \/ (pc = "saving" /\ ~UNCHANGED diskVars)
  BY SaveCases DEF Begun, Skipped, Over, saveVars
<1> QED BY <1>8, <1>9, <1>10

\* Every step keeps the order.
LEMMA OrderStep ==
  ASSUME UseCritic, Order, [Next]_vars
  PROVE  Order'
<1>1. Base'
  BY TypedStep, ControlStep, BoundedStep DEF Order, Base
<1>2. Counted'
  <2>1. ASSUME NEW r \in Ranks, tracker \in Steps, Readable(tracker)
        PROVE  Lengths(tracker, WeightsAt(tracker, r))
    BY <2>1 DEF Readable, ReadableAt, Order, OnDisk
  <2> QED BY <2>1, CountedStep DEF Order, Base
<1>3. Past' /\ OnDisk' /\ Files' /\ InMemory' /\ Ahead'
  <2>1. CASE Next
    <3>1. CASE Moves
      BY <3>1, MovesKeep, AheadMoves
    <3> QED BY <2>1, <3>1, Cases, LoadOrder, TrainOrder, DataEndsOrder, SaveOrder, CrashOrder DEF Moves
  <2>2. CASE UNCHANGED vars
    <3>1. Skips' = Skips /\ Excused' = Excused
      BY <2>2, SkipsFrame DEF vars, pastVars
    <3>2. /\ UNCHANGED <<recipe, total_epochs, shards, data, tracker, folders, saved, job,
                         global_steps, weights, pc, epoch, pos, batch, kept, closing, future,
                         rollout, resumed, cut, crashes>>
      BY <2>2 DEF vars, configVars, saveVars, diskVars, loopVars, pastVars
    <3>3. OnDisk'
      BY <3>1, <3>2, DiskFrame DEF Order
    <3>4. Past' /\ Files' /\ InMemory'
      BY <3>1, <3>2 DEF Order, Past, Files, InMemory, Done, Written
    <3>5. UnderWay' = UnderWay /\ (Going' <=> Going)
      BY <3>2 DEF UnderWay, Places, Going, IsLastStep, Total
    <3>6. Ahead'
      <4>1. CASE recipe = "one_step_off"
        BY <3>1, <3>2, <3>5, <4>1 DEF Order, Ahead, AheadOne, IsLastStep, Total
      <4>2. CASE recipe # "one_step_off"
        BY <3>1, <3>2, <3>5, <4>2 DEF Order, Ahead, AheadNone
      <4> QED BY <4>1, <4>2
    <3> QED BY <3>3, <3>4, <3>6
  <2> QED BY <2>1, <2>2
<1> QED BY <1>1, <1>2, <1>3 DEF Order

\* The first start.
LEMMA OrderInit == Init => Order
<1> SUFFICES ASSUME Init PROVE Order
  OBVIOUS
<1>1. Base /\ Counted
  BY InitIInv DEF IInv, Base
<1>2. pc = "down" /\ tracker = Missing /\ Missing \notin Steps /\ resumed = {} /\ cut = {}
      /\ recipe \in {"ppo", "one_step_off", "dapo"} /\ batch = <<>> /\ pos = 0
      /\ weights["critic"] = <<>> /\ weights["actor"] = <<>>
  BY DEF Init, CheckpointsInit, Missing, Steps, Initial, AllRoles
<1>3. Past /\ OnDisk /\ Files /\ Ahead
  BY <1>2 DEF Past, OnDisk, Files, Ahead, AheadOne, AheadNone, Behind, Working
<1>4. InLine(<<>>, Skips) /\ EndsWith(<<>>, <<>>)
  BY DEF InLine, EndsWith
<1>5. InMemory
  BY <1>2, <1>4 DEF InMemory, Ordered
<1> QED BY <1>1, <1>3, <1>5 DEF Order

\* Every batch of the dataset is trained on once and in order, through any
\* number of crashes between any two file operations, and actor and critic see
\* the same from the end of the warmup on; but the one step off recipe, which
\* saves the place behind the batch it is generating, skips one batch with
\* each resume, and dapo may lose what it looked at last when the data ended:
\* for any epochs, ranks, frequencies and numbers of checkpoints kept
\* (ray_trainer.py:778-896 and 1137-1434,
\* one_step_off_policy/ray_trainer.py:302-684, dapo_ray_trainer.py:76-420).
THEOREM TrainedInOrder == Spec => []BatchesInOrder
<1>1. CASE ~UseCritic
  <2>1. BatchesInOrder
    BY <1>1 DEF BatchesInOrder
  <2> QED BY <2>1, PTL
<1>2. CASE UseCritic
  <2>1. Order /\ [Next]_vars => Order'
    BY <1>2, OrderStep
  <2>2. Order => BatchesInOrder
    <3> SUFFICES ASSUME Order, pc \notin {"down", "broken"} PROVE BatchesInOrder
      BY DEF BatchesInOrder
    <3> DEFINE w == weights["critic"]
               a == weights["actor"]
    <3>1. w \in Seq(Nat) /\ a \in Seq(Nat) /\ Updates = Len(a)
      BY DEF Order, Base, Typed, AllRoles, Updates
    <3>2. recipe # "dapo" => Len(w) = Trained /\ Updates = UpdatesAfter("actor", Trained)
      <4>1. recipe # "dapo" => /\ Len(w) = UpdatesAfter("critic", Trained)
                               /\ Updates = UpdatesAfter("actor", Trained)
        BY <3>1 DEF Order, Counted, AllRoles
      <4> QED BY <1>2, <4>1 DEF UpdatesAfter
    <3>3. (Excused \/ InLine(w, Skips)) /\ EndsWith(w, a)
      BY DEF Order, InMemory, Ordered
    <3>4. Excused <=> recipe = "dapo" /\ resumed \cap cut # {}
      BY DEF Excused
    <3>5. \A i : i \in Skips <=> recipe = "one_step_off" /\ i \in resumed \ cut /\ i < Total
      BY DEF Skips
    <3> HIDE DEF w, a
    <3>6. a = SubSeq(w, Len(w) - Updates + 1, Len(w))
      BY <3>1, <3>3, TailIs
    <3>7. Len(w) > 0 /\ (recipe = "dapo" => resumed \cap cut = {}) => w[1] = 1
      BY <3>3, <3>4 DEF InLine
    <3>8. \A i \in 1..(Len(w) - 1) :
             \/ w[i + 1] = IF recipe = "one_step_off" /\ i \in resumed \ cut /\ i < Total
                           THEN After(After(w[i])) ELSE After(w[i])
             \/ recipe = "dapo" /\ resumed \cap cut # {}
      BY <3>3, <3>4, <3>5 DEF InLine
    <3> QED BY <3>2, <3>6, <3>7, <3>8 DEF BatchesInOrder, w, a
  <2> QED BY <2>1, <2>2, OrderInit, PTL DEF Spec
<1> QED BY <1>1, <1>2

-----------------------------------------------------------------------------
\* The checkpoints of a role that are whole; those the present run has saved or
\* is writing, and those it does not know of any more.
Entire(role) == {k \in Steps : Complete(role, k)}
OfRun(role) ==
  {saved[role][i] : i \in DOMAIN saved[role]}
  \cup (IF job.stage = role /\ job.phase = "write" THEN {global_steps} ELSE {})
LeftBehind(role) == Entire(role) \ OfRun(role)

\* A run has no more than it may keep, the one it is writing among them, and
\* each crash has left no more than that behind.
Capped(role) ==
  /\ Len(saved[role]) <= Keep[role]
  /\ job.stage = role /\ job.phase = "write" => Len(saved[role]) < Keep[role]
  /\ Cardinality(LeftBehind(role)) <= Keep[role] * crashes

Kept == Base /\ \A role \in Roles : Keep[role] > 0 => Capped(role)

\* Only one of the sets is counted, and it is finite.
LEMMA EntireFinite ==
  ASSUME NEW role
  PROVE  /\ IsFiniteSet(Entire(role)) /\ IsFiniteSet(LeftBehind(role))
         /\ Cardinality(Entire(role)) \in Nat /\ Cardinality(LeftBehind(role)) \in Nat
<1>1. IsFiniteSet(Steps)
  BY CheckpointsAssumption, FS_Interval DEF Steps
<1>2. Entire(role) \subseteq Steps /\ LeftBehind(role) \subseteq Steps
  BY DEF Entire, LeftBehind
<1> QED BY <1>1, <1>2, FS_Subset, FS_CardinalityType

\* A sequence has no more elements than its length.
LEMMA FewElements ==
  ASSUME NEW s \in Seq(Nat)
  PROVE  /\ IsFiniteSet({s[i] : i \in DOMAIN s})
         /\ Cardinality({s[i] : i \in DOMAIN s}) <= Len(s)
         /\ Cardinality({s[i] : i \in DOMAIN s}) \in Nat
<1> DEFINE T == {s[i] : i \in 1..Len(s)}
<1>1. Len(s) \in Nat /\ DOMAIN s = 1..Len(s)
  BY LenProperties
<1>2. s \in [1..Len(s) -> T]
  BY <1>1, LenProperties
<1>3. s \in Surjection(1..Len(s), T)
  BY <1>2 DEF Surjection
<1>4. IsFiniteSet(1..Len(s)) /\ Cardinality(1..Len(s)) = Len(s)
  <2>1. \A n \in Nat : IsFiniteSet(1..n) /\ Cardinality(1..n) = IF 1 > n THEN 0 ELSE n - 1 + 1
    BY FS_Interval
  <2>2. \A n \in Nat : (IF 1 > n THEN 0 ELSE n - 1 + 1) = n
    OBVIOUS
  <2> QED BY <1>1, <2>1, <2>2
<1>5. IsFiniteSet(T) /\ Cardinality(T) <= Len(s)
  <2> HIDE DEF T
  <2> QED BY <1>3, <1>4, FS_Surjection
<1>6. Cardinality(T) \in Nat
  BY <1>5, FS_CardinalityType
<1> QED BY <1>1, <1>5, <1>6

\* What a run has itself is within its limit.
LEMMA RunCapped ==
  ASSUME Typed, NEW role \in Roles, Keep[role] > 0, Capped(role)
  PROVE  Cardinality(Entire(role)) <= Keep[role] * crashes + Keep[role]
<1> DEFINE L == LeftBehind(role)
           S == {saved[role][i] : i \in DOMAIN saved[role]}
           R == OfRun(role)
           W == Entire(role)
<1>0. Keep[role] \in Nat /\ crashes \in Nat /\ saved[role] \in Seq(Nat) /\ Len(saved[role]) \in Nat
  BY CheckpointsAssumption DEF Keep, Typed, Roles, AllRoles
<1>1. IsFiniteSet(S) /\ Cardinality(S) <= Len(saved[role]) /\ Cardinality(S) \in Nat
  BY <1>0, FewElements
<1>2. IsFiniteSet(R) /\ Cardinality(R) <= Keep[role] /\ Cardinality(R) \in Nat
  <2>1. CASE job.stage = role /\ job.phase = "write"
    <3>1. R = S \cup {global_steps} /\ Len(saved[role]) < Keep[role]
      BY <2>1 DEF OfRun, Capped
    <3> HIDE DEF S, R
    <3>a. /\ IsFiniteSet(S \cup {global_steps})
          /\ Cardinality(S \cup {global_steps}) =
               IF global_steps \in S THEN Cardinality(S) ELSE Cardinality(S) + 1
      BY <1>1, FS_AddElement, Zenon
    <3>2. IsFiniteSet(R) /\ Cardinality(R) <= Cardinality(S) + 1
      BY <1>1, <3>1, <3>a
    <3> QED BY <1>0, <1>1, <3>1, <3>2, FS_CardinalityType
  <2>2. CASE ~(job.stage = role /\ job.phase = "write")
    <3>1. R = S /\ Len(saved[role]) <= Keep[role]
      BY <2>2 DEF OfRun, Capped
    <3> HIDE DEF S, R
    <3> QED BY <1>0, <1>1, <3>1
  <2> QED BY <2>1, <2>2
<1>3. IsFiniteSet(L) /\ Cardinality(L) \in Nat /\ Cardinality(L) <= Keep[role] * crashes
  BY EntireFinite DEF Capped
<1>4. W \subseteq L \cup R /\ IsFiniteSet(W) /\ Cardinality(W) \in Nat
  BY EntireFinite DEF LeftBehind
<1>5. Keep[role] * crashes \in Nat
  BY <1>0
<1> HIDE DEF S, L, R, W
<1>6. /\ IsFiniteSet(L \cup R)
      /\ Cardinality(L \cup R) = Cardinality(L) + Cardinality(R) - Cardinality(L \cap R)
  BY <1>2, <1>3, FS_Union
<1>7. Cardinality(L \cap R) \in Nat
  BY <1>3, FS_Intersection, FS_CardinalityType
<1>8. Cardinality(W) <= Cardinality(L \cup R) /\ Cardinality(L \cup R) \in Nat
  BY <1>4, <1>6, FS_Subset, FS_CardinalityType
<1>9. Cardinality(W) <= Keep[role] * crashes + Keep[role]
  BY <1>0, <1>2, <1>3, <1>4, <1>5, <1>6, <1>7, <1>8
<1> QED BY <1>9 DEF W

\* Nothing new is left behind, and the run keeps to its limit.
LEMMA CappedFrom ==
  ASSUME NEW role, Capped(role), crashes' = crashes,
         LeftBehind(role)' \subseteq LeftBehind(role),
         Len(saved'[role]) <= Keep[role],
         job'.stage = role /\ job'.phase = "write" => Len(saved'[role]) < Keep[role],
         Typed, role \in Roles
  PROVE  Capped(role)'
<1>1. Cardinality(LeftBehind(role)') <= Cardinality(LeftBehind(role))
  BY EntireFinite, FS_Subset
<1>2. Cardinality(LeftBehind(role)') \in Nat
  BY EntireFinite, FS_Subset, FS_CardinalityType
<1>3. Keep[role] * crashes \in Int
  BY CheckpointsAssumption DEF Keep, Typed, Roles, AllRoles
<1>4. Cardinality(LeftBehind(role)') <= Keep[role] * crashes
  BY <1>1, <1>2, <1>3, EntireFinite DEF Capped
<1> QED BY <1>4 DEF Capped

\* Outside of a save nothing is written.
LEMMA CappedIdle ==
  ASSUME NEW role \in Roles, Typed, Capped(role), UNCHANGED <<shards, saved, crashes>>,
         \/ UNCHANGED <<job, global_steps>>
         \/ /\ job'.stage = role => job'.phase # "write"
            /\ job.stage = role => job.phase # "write"
  PROVE  Capped(role)'
<1>1. Entire(role)' = Entire(role)
  BY DEF Entire, Complete
<1>2. OfRun(role)' = OfRun(role)
  BY DEF OfRun
<1>3. LeftBehind(role)' \subseteq LeftBehind(role)
  BY <1>1, <1>2 DEF LeftBehind
<1> QED BY <1>3, CappedFrom DEF Capped
\* The steps of a save.
LEMMA CappedWriting ==
  ASSUME Base, NEW role \in Roles, Keep[role] > 0, Capped(role), crashes' = crashes,
         pc = "saving", UNCHANGED <<global_steps, weights>>, SaveNext
  PROVE  Capped(role)'
<1>0. /\ Typed /\ Ranks # {} /\ saved \in [AllRoles -> Seq(Nat)] /\ Roles \subseteq AllRoles
      /\ job \in Job /\ role \in AllRoles
      /\ shards \in [AllRoles -> [Steps -> [Ranks -> Shard]]]
      /\ global_steps \in Steps
  <2>1. Typed /\ Control /\ Bounded
    BY DEF Base
  <2>2. global_steps \in Steps
    BY <2>1, StepWritten
  <2>3. Roles \subseteq AllRoles /\ role \in AllRoles
    BY DEF Roles, AllRoles
  <2> QED BY <2>1, <2>2, <2>3, CheckpointsAssumption DEF Typed
<1>k. Keep[role] \in Nat /\ saved[role] \in Seq(Nat) /\ Len(saved[role]) \in Nat
  BY <1>0, CheckpointsAssumption DEF Keep, AllRoles
<1>1. CASE RemoveShard \/ \E r \in Ranks : OpenShard(r)
  <2>1. /\ UNCHANGED saved
        /\ job'.stage = job.stage /\ job'.phase = job.phase
        /\ \E k, r : shards' = [shards EXCEPT ![job.stage][k][r] = <<>>]
    BY <1>0, <1>1 DEF RemoveShard, OpenShard, Job
  <2>2. \A k \in Steps, r \in Ranks : shards'[role][k][r] # <<>> => shards[role][k][r] # <<>>
    BY <1>0, <2>1
  <2>3. Entire(role)' \subseteq Entire(role)
    BY <2>2 DEF Entire, Complete
  <2>4. OfRun(role)' = OfRun(role)
    BY <2>1 DEF OfRun
  <2>5. LeftBehind(role)' \subseteq LeftBehind(role)
    BY <2>3, <2>4 DEF LeftBehind
  <2> QED BY <1>0, <2>1, <2>5, CappedFrom DEF Capped
<1>2. CASE \E r \in Ranks : WriteShard(r)
  <2>1. /\ UNCHANGED saved /\ job.phase = "write"
        /\ job'.stage = job.stage /\ job'.phase = job.phase
        /\ \E r, s : shards' = [shards EXCEPT ![job.stage][global_steps][r] = s]
    BY <1>0, <1>2 DEF WriteShard, Job
  <2>2. \A k \in Steps : k # global_steps \/ job.stage # role => shards'[role][k] = shards[role][k]
    BY <1>0, <2>1
  <2>3. OfRun(role)' = OfRun(role) /\ (job.stage = role => global_steps \in OfRun(role))
    BY <2>1 DEF OfRun
  <2>4. \A k \in Entire(role)' : k \in Entire(role) \/ k \in OfRun(role)
    BY <2>2, <2>3 DEF Entire, Complete
  <2>5. LeftBehind(role)' \subseteq LeftBehind(role)
    BY <2>3, <2>4 DEF LeftBehind
  <2> QED BY <1>0, <2>1, <2>5, CappedFrom DEF Capped
<1>3. CASE Rotated
  <2> DEFINE s == saved[job.stage]
             n == KeepStart(job.stage)
  <2>0. /\ UNCHANGED shards /\ job.phase = "rotate" /\ job.stage \in Roles
        /\ job'.stage = job.stage /\ job'.phase = "write"
        /\ saved' = [saved EXCEPT ![job.stage] = SubSeq(s, n + 1, Len(s))]
    BY <1>3 DEF Rotated, JobAt
  <2>w. Entire(role)' = Entire(role)
    BY <2>0 DEF Entire, Complete
  <2>1. CASE job.stage # role
    <3>1. saved'[role] = saved[role]
      BY <1>0, <2>0, <2>1
    <3>2. OfRun(role)' = OfRun(role)
      BY <2>0, <2>1, <3>1 DEF OfRun
    <3>3. LeftBehind(role)' \subseteq LeftBehind(role)
      BY <2>w, <3>2 DEF LeftBehind
    <3> QED BY <1>0, <2>0, <2>1, <3>1, <3>3, CappedFrom DEF Capped
  <2>2. CASE job.stage = role
    <3>1. /\ n \in Nat /\ n <= Len(s) /\ Len(s) - n < Keep[role]
          /\ Len(s) \in Nat /\ s \in Seq(Nat)
      BY <1>k, <2>2 DEF KeepStart, Capped
    <3>2. saved'[role] = SubSeq(s, n + 1, Len(s))
      BY <1>0, <2>0, <2>2
    <3>3. /\ Len(saved'[role]) = Len(s) - n
          /\ \A i \in 1..(Len(s) - n) : saved'[role][i] = s[n + i]
          /\ DOMAIN saved'[role] = 1..(Len(s) - n)
      <4> HIDE DEF s, n
      <4>1. /\ Len(SubSeq(s, n + 1, Len(s))) = Len(s) - n
            /\ SubSeq(s, n + 1, Len(s)) \in Seq(Nat)
            /\ \A i \in 1..(Len(s) - n) : SubSeq(s, n + 1, Len(s))[i] = s[n + i]
        BY <3>1, SubSeqProperties
      <4> QED BY <3>2, <4>1, LenProperties
    <3>4. \A k \in Entire(role) : k \notin Victims(role)
      BY <1>0, <1>3, <2>2 DEF Rotated, Entire, Complete
    <3>5. ASSUME NEW i \in DOMAIN s, s[i] \in Entire(role)
          PROVE  s[i] \in OfRun(role)'
      <4>1. i \in 1..Len(s)
        BY <3>1, LenProperties
      <4>2. i \notin 1..n
        BY <2>2, <3>4, <3>5 DEF Victims
      <4>3. i - n \in 1..(Len(s) - n) /\ n + (i - n) = i
        BY <3>1, <4>1, <4>2
      <4>4. i - n \in DOMAIN saved'[role] /\ saved'[role][i - n] = s[i]
        BY <3>3, <4>3
      <4> QED BY <4>4 DEF OfRun
    <3>6. OfRun(role) = {s[i] : i \in DOMAIN s}
      BY <2>0, <2>2 DEF OfRun
    <3>7. LeftBehind(role)' \subseteq LeftBehind(role)
      BY <2>w, <3>5, <3>6 DEF LeftBehind
    <3>8. Len(saved'[role]) < Keep[role] /\ Len(saved'[role]) <= Keep[role]
      BY <1>k, <3>1, <3>3
    <3> HIDE DEF s, n
    <3> QED BY <1>0, <3>7, <3>8, CappedFrom
  <2> QED BY <2>1, <2>2
<1>4. CASE RoleSaved
  <2>0. /\ UNCHANGED shards /\ job.phase = "write" /\ job.stage \in Roles
        /\ job'.phase # "write"
        /\ saved' = [saved EXCEPT ![job.stage] = Append(@, global_steps)]
    BY <1>4 DEF RoleSaved, NextJob, JobAt, diskVars
  <2>w. Entire(role)' = Entire(role)
    BY <2>0 DEF Entire, Complete
  <2>1. CASE job.stage # role
    <3>1. saved'[role] = saved[role]
      BY <1>0, <2>0, <2>1
    <3>2. OfRun(role)' = OfRun(role)
      BY <2>0, <2>1, <3>1 DEF OfRun
    <3>3. LeftBehind(role)' \subseteq LeftBehind(role)
      BY <2>w, <3>2 DEF LeftBehind
    <3> QED BY <1>0, <2>0, <3>1, <3>3, CappedFrom DEF Capped
  <2>2. CASE job.stage = role
    <3>1. saved'[role] = Append(saved[role], global_steps) /\ global_steps \in Nat
      BY <1>0, <2>0, <2>2 DEF Typed
    <3>2. /\ Len(saved'[role]) = Len(saved[role]) + 1
          /\ saved'[role] \in Seq(Nat)
          /\ \A i \in 1..Len(saved[role]) : saved'[role][i] = saved[role][i]
          /\ saved'[role][Len(saved[role]) + 1] = global_steps
      BY <1>k, <3>1, AppendProperties
    <3>3. DOMAIN saved[role] = 1..Len(saved[role]) /\ DOMAIN saved'[role] = 1..(Len(saved[role]) + 1)
      BY <1>k, <3>2, LenProperties
    <3>4. OfRun(role) \subseteq OfRun(role)'
      <4>1. \A i \in DOMAIN saved[role] : i \in DOMAIN saved'[role] /\ saved'[role][i] = saved[role][i]
        BY <1>k, <3>2, <3>3
      <4>2. Len(saved[role]) + 1 \in DOMAIN saved'[role]
        BY <1>k, <3>3
      <4> QED BY <2>0, <2>2, <3>2, <4>1, <4>2 DEF OfRun
    <3>5. LeftBehind(role)' \subseteq LeftBehind(role)
      BY <2>w, <3>4 DEF LeftBehind
    <3>6. Len(saved[role]) < Keep[role]
      BY <2>0, <2>2 DEF Capped
    <3>7. Len(saved'[role]) <= Keep[role]
      BY <1>k, <3>2, <3>6
    <3> QED BY <1>0, <2>0, <3>5, <3>7, CappedFrom
  <2> QED BY <2>1, <2>2
<1>5. CASE SaveData \/ SaveTracker
  <2>1. UNCHANGED <<shards, saved>> /\ job.stage \notin AllRoles
    BY <1>5 DEF SaveData, SaveTracker, AllRoles
  <2>2. job'.phase = "write" => job'.stage \notin AllRoles
    BY <1>5 DEF SaveData, SaveTracker, AllRoles, JobAt, NextJob, AfterStage
  <2> QED BY <1>0, <2>1, <2>2, CappedIdle
<1>6. CASE MakeFolder
  BY <1>0, <1>6, CappedIdle DEF MakeFolder
<1> QED BY <1>1, <1>2, <1>3, <1>4, <1>5, <1>6 DEF SaveNext

\* Every step keeps the caps.
LEMMA KeptStep ==
  ASSUME Kept, [Next]_vars
  PROVE  Kept'
<1>1. Base'
  BY TypedStep, ControlStep, BoundedStep DEF Kept, Base
<1> SUFFICES ASSUME NEW role \in Roles, Keep[role] > 0 PROVE Capped(role)'
  BY <1>1 DEF Kept
<1>0. Base /\ Typed /\ Control /\ Capped(role) /\ role \in AllRoles /\ "idle" \notin AllRoles
  BY DEF Kept, Base, Roles, AllRoles
<1>2. CASE UNCHANGED vars
  BY <1>0, <1>2, CappedIdle DEF vars, saveVars, diskVars, pastVars
<1>3. CASE Crash
  <2>1. /\ UNCHANGED shards /\ crashes' = crashes + 1 /\ saved'[role] = <<>> /\ job' = NoJob
    BY <1>0, <1>3 DEF Crash, Volatile, diskVars
  <2>2. LeftBehind(role)' \subseteq Entire(role)
    BY <2>1 DEF LeftBehind, Entire, Complete
  <2>3. /\ Cardinality(LeftBehind(role)') <= Cardinality(Entire(role))
        /\ Cardinality(LeftBehind(role)') \in Nat /\ Cardinality(Entire(role)) \in Nat
    BY <2>2, EntireFinite, FS_Subset, FS_CardinalityType
  <2>4. Cardinality(Entire(role)) <= Keep[role] * crashes + Keep[role]
    BY <1>0, RunCapped
  <2>5. Keep[role] \in Nat /\ crashes \in Nat
    BY <1>0, CheckpointsAssumption DEF Keep, Typed, AllRoles
  <2>6. Keep[role] * (crashes + 1) = Keep[role] * crashes + Keep[role]
    <3>1. \A a, b \in Nat : a * (b + 1) = a * b + a
      OBVIOUS
    <3> QED BY <2>5, <3>1
  <2>7. Cardinality(LeftBehind(role)') <= Keep[role] * crashes'
    <3>1. Keep[role] * crashes \in Nat
      BY <2>5
    <3> QED BY <2>1, <2>3, <2>4, <2>5, <2>6, <3>1
  <2>8. Len(saved'[role]) = 0 /\ job'.phase # "write"
    BY <2>1 DEF NoJob
  <2>9. job'.stage # role
    BY <1>0, <2>1 DEF NoJob, AllRoles
  <2> QED BY <2>5, <2>7, <2>8, <2>9 DEF Capped
<1>4. CASE Save
  <2>0. crashes' = crashes /\ UNCHANGED <<global_steps, weights>>
    BY <1>4, SaveCases DEF SaveFrame, pastVars
  <2>1. CASE pc = "saving" /\ SaveNext
    BY <1>0, <2>0, <2>1, CappedWriting
  <2>2. CASE Begun \/ Skipped \/ Over
    <3>1. UNCHANGED <<shards, saved>> /\ (job'.stage = role => job'.phase # "write" \/ UNCHANGED job)
      BY <1>0, <2>2 DEF Begun, Skipped, Over, SaveBegin, JobAt, NoJob, saveVars, diskVars, AllRoles
    <3>2. job.stage # role
      BY <1>0, <2>2 DEF Begun, Skipped, Over, Control, AllRoles
    <3>3. job'.stage = role => job'.phase # "write"
      BY <3>1, <3>2
    <3> QED BY <1>0, <2>0, <3>1, <3>2, <3>3, CappedIdle
  <2> QED BY <1>4, <2>1, <2>2, SaveCases DEF SaveNext
<1>5. CASE Load \/ ValidateFirst \/ NextBatch \/ DynamicSampling \/ DataEnds
           \/ FirstGeneration \/ TakeGenerated \/ Train \/ Test \/ EndStep
  <2>1. UNCHANGED <<shards, saved, job, crashes>> /\ pc # "saving"
    BY <1>5 DEF Load, ValidateFirst, NextBatch, DynamicSampling, DataEnds, FirstGeneration,
       TakeGenerated, Train, Test, EndStep, saveVars, diskVars, pastVars
  <2>2. job.stage # role
    BY <1>0, <2>1 DEF Control, AllRoles
  <2> QED BY <1>0, <2>1, <2>2, CappedIdle
<1> QED BY <1>2, <1>3, <1>4, <1>5, Cases

\* Checkpoints do not pile up: whatever crashes wherever, there are never more
\* whole checkpoints of a role than a run may keep for each run there was, the
\* managers knowing only those they saved themselves (checkpoint_manager.py:
\* previous_saved_paths, fsdp_checkpoint_manager.py:save_checkpoint), for any
\* limits, of one checkpoint too, ranks, steps and crashes.
THEOREM KeepsToItsLimit == Spec => []KeptBounded
<1>1. Init => Kept
  <2> SUFFICES ASSUME Init PROVE Kept
    OBVIOUS
  <2>1. Base
    BY InitIInv DEF IInv, Base
  <2> SUFFICES ASSUME NEW role \in Roles, Keep[role] > 0 PROVE Capped(role)
    BY <2>1 DEF Kept
  <2>2. /\ role \in AllRoles /\ Ranks # {} /\ crashes = 0 /\ saved[role] = <<>> /\ job = NoJob
        /\ \A k \in Steps, r \in Ranks : shards[role][k][r] = <<>>
    BY CheckpointsAssumption DEF Init, CheckpointsInit, Roles, AllRoles
  <2>3. Entire(role) = {} /\ LeftBehind(role) = {}
    BY <2>2 DEF Entire, Complete, LeftBehind
  <2>4. Keep[role] \in Nat /\ Keep[role] * 0 = 0
    BY <2>2, CheckpointsAssumption DEF Keep, AllRoles
  <2>5. Cardinality(LeftBehind(role)) = 0
    BY <2>3, FS_EmptySet
  <2> QED BY <2>2, <2>4, <2>5 DEF Capped, NoJob
<1>2. Kept /\ [Next]_vars => Kept'
  BY KeptStep
<1>3. Kept => KeptBounded
  <2> SUFFICES ASSUME Kept, NEW role \in Roles, Keep[role] > 0
               PROVE  Cardinality(Entire(role)) <= Keep[role] * (crashes + 1)
    BY DEF KeptBounded, Entire
  <2>1. Keep[role] \in Nat /\ crashes \in Nat
    BY CheckpointsAssumption DEF Keep, Kept, Base, Typed, Roles, AllRoles
  <2>2. Cardinality(Entire(role)) <= Keep[role] * crashes + Keep[role]
    BY RunCapped DEF Kept, Base
  <2>3. \A a, b \in Nat : a * (b + 1) = a * b + a
    OBVIOUS
  <2> QED BY <2>1, <2>2, <2>3
<1> QED BY <1>1, <1>2, <1>3, PTL DEF Spec
=============================================================================
