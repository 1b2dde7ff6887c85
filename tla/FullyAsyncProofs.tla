---------------------------- MODULE FullyAsyncProofs --------------------------
(***************************************************************************)
(* The trainer, the rollouter and the synchronizer together, for any number*)
(* of samples, any batch size, staleness threshold, trigger and queue size:*)
(* the versions and the pause of the servers, the line at the rollouter's  *)
(* lock, what the queues and the tasks hold, the limit of concurrent tasks,*)
(* and an end that leaves nothing behind.  The invariants are proved one on*)
(* another: SyncInv, Line, Forms, Concurrency, Exit.                       *)
(***************************************************************************)
EXTENDS FullyAsync, SequenceTheorems, FiniteSetTheorems, TLAPS

\* What the synchronization of versions is about.
syncVars == <<tpc, tversion, weights, last, version, pausePc, updatePc,
              updateArgs, resumePc, serverPaused, val_queue, partial_rollout>>

\* Where the trainer and the three calls of the synchronizer are, and which
\* of them are there together.
Calls ==
  /\ tpc \in {"collect", "train", "waitvalid", "pausing", "transfer", "getval",
              "final", "lastvalid", "done"}
  /\ pausePc \in {"idle", "called", "lock", "cancel", "gather", "reset", "done"}
  /\ updatePc \in {"called", "lock", "qsize", "assign", "validate", "done"}
  /\ resumePc \in {"called", "lock", "servers", "done"}
  /\ pausePc = "idle" <=> tpc # "pausing"
  /\ tpc \in {"pausing", "transfer"} => LastSyncOver
  /\ updatePc # "done" => resumePc = "called"

\* The trainer is ahead of the weights from the step that makes a version to
\* the end of its transfer, the rollouter behind them until it is told.
VersionsInv ==
  /\ tversion \in Nat /\ weights \in Nat /\ version \in Nat
  /\ tversion = IF tpc \in {"waitvalid", "pausing", "transfer"}
                THEN weights + 1 ELSE weights
  /\ IF updatePc \in {"called", "lock"} THEN weights = version + 1
                                         ELSE weights = version
  /\ updatePc # "done" => updateArgs.version = weights
  /\ updatePc # "done" => weights > 0
  /\ updateArgs = [version |-> updateArgs.version, validate |-> updateArgs.validate,
                    sum |-> updateArgs.sum]
  /\ updateArgs.version \in 0..weights
  /\ updateArgs.validate \in BOOLEAN
  /\ last \in BOOLEAN
  /\ val_queue \in Seq([version : Nat, metrics : BOOLEAN])

\* The servers are paused from the cancel of a pause to the end of the resume.
ServersInv ==
  /\ partial_rollout \in BOOLEAN
  /\ serverPaused \in BOOLEAN
  /\ ~partial_rollout => ~serverPaused /\ pausePc # "cancel" /\ resumePc # "servers"
  /\ partial_rollout /\ (\/ pausePc \in {"gather", "reset", "done"}
                         \/ tpc = "transfer"
                         \/ resumePc # "done") => serverPaused

SyncInv == Calls /\ VersionsInv /\ ServersInv

-----------------------------------------------------------------------------
\* The coroutines that have nothing to do with a synchronization.
LEMMA ProcessorSync == Processor => UNCHANGED syncVars
BY DEF Processor, ProcessorNext, ProcessorTop, ProcessorGet, ProcessorLocked, ProcessorWaited,
       ProcessorWoken, procFrame, trainerFrame, trainerVars, syncVars, callVars, queueVars

\* A task touches no variable of the synchronization.
LEMMA TasksSync == Tasks => UNCHANGED syncVars
BY DEF Tasks, TaskStart, TaskFinish, TaskCancel, TaskFail, taskFrame, trainerFrame, trainerVars,
       syncVars, callVars, queueVars, flagVars

\* Nor do the feeder, the consumer, the main coroutine and the monitor.
LEMMA LoopSync == Feeder \/ Consumer \/ Main \/ Monitor => UNCHANGED syncVars
BY DEF Feeder, Feed, Consumer, ConsumerTake, ConsumerPut, Main, MainStep, MainFinish, MainStop,
       Monitor, MonitorTick, MonitorLocked, monitorFrame, trainerFrame, trainerVars, syncVars,
       callVars, queueVars, flagVars, MQ!PutSample, MQ!sideVars

-----------------------------------------------------------------------------
\* The init.
LEMMA TakeFirst ==
  ASSUME NEW S, NEW q \in Seq(S), q # <<>>
  PROVE  /\ Head(q) \in S /\ Tail(q) \in Seq(S) /\ Len(Tail(q)) = Len(q) - 1
         /\ Len(q) \in Nat \ {0}
OBVIOUS


\* The first synchronization has been called and has not begun.
LEMMA SyncInit == Init => SyncInv
<1> SUFFICES ASSUME Init PROVE SyncInv
  OBVIOUS
<1>1. PICK m \in BOOLEAN : val_queue = <<[version |-> 0, metrics |-> m]>>
  BY FullyAsyncAssumption DEF Init
<1>2. val_queue \in Seq([version : Nat, metrics : BOOLEAN])
  BY <1>1
<1>3. partial_rollout \in BOOLEAN
  BY RollouterAssumption DEF Init, RollouterInit
<1>4. Calls
  BY DEF Init, RollouterInit, TrainerInit, Calls, LastSyncOver
<1>5. VersionsInv
  <2>1. updateArgs = [version |-> 0, validate |-> FALSE, sum |-> 0] /\ weights = 0
    BY DEF Init, RollouterInit, TrainerInit
  <2>2. updateArgs.version \in 0..weights
    BY <2>1
  <2>3. /\ tversion = 0 /\ version = 0 /\ tpc = "getval" /\ updatePc = "done" /\ last = FALSE
    BY DEF Init, RollouterInit, TrainerInit
  <2>4. /\ updateArgs = [version |-> updateArgs.version, validate |-> updateArgs.validate,
                         sum |-> updateArgs.sum]
        /\ updateArgs.validate \in BOOLEAN
    BY <2>1
  <2> QED BY <1>2, <2>1, <2>2, <2>3, <2>4, Zenon DEF VersionsInv
<1>6. ServersInv
  BY <1>3 DEF Init, RollouterInit, TrainerInit, ServersInv
<1> QED BY <1>4, <1>5, <1>6 DEF SyncInv

\* The invariant is about syncVars alone.
LEMMA SyncFrame == SyncInv /\ UNCHANGED syncVars => SyncInv'
BY DEF syncVars, SyncInv, Calls, VersionsInv, ServersInv, LastSyncOver

\* What is not of a call's own.
LEMMA PauseSync ==
  ASSUME SyncInv, Pause
  PROVE  SyncInv' /\ UNCHANGED <<tversion, weights, version, updatePc, val_queue>>
<1>1. UNCHANGED <<tpc, tversion, weights, last, version, updatePc, updateArgs, resumePc,
                  val_queue, partial_rollout>>
  BY DEF Pause, PauseNext, PauseBegin, PauseCancel, PauseGather, PauseEnd, trainerFrame,
         trainerVars, queueVars, flagVars
<1>2. \/ pausePc = "called" /\ pausePc' = "lock" /\ serverPaused' = serverPaused
      \/ /\ pausePc \in {"called", "lock"} /\ serverPaused' = serverPaused
         /\ pausePc' = CancelFirst(GatherNext)
      \/ pausePc = "cancel" /\ serverPaused' = TRUE /\ pausePc' = GatherNext
      \/ pausePc = "gather" /\ pausePc' = "reset" /\ serverPaused' = serverPaused
      \/ pausePc = "reset" /\ pausePc' = "done" /\ serverPaused' = serverPaused
  BY DEF Pause, PauseNext, PauseBegin, PauseCancel, PauseGather, PauseEnd
<1>3. GatherNext \in {"gather", "reset"}
  BY DEF GatherNext
<1>4. Calls'
  BY <1>1, <1>2, <1>3 DEF SyncInv, Calls, LastSyncOver, CancelFirst
<1>5. VersionsInv'
  BY <1>1 DEF SyncInv, VersionsInv
<1>6. ServersInv'
  <2>1. pausePc' # "idle" /\ tpc = "pausing" /\ resumePc' = "done" /\ tpc' = tpc
    BY <1>1, <1>2, <1>3 DEF SyncInv, Calls, LastSyncOver, CancelFirst
  <2>2. serverPaused' \in BOOLEAN /\ partial_rollout' \in BOOLEAN
    BY <1>1, <1>2 DEF SyncInv, ServersInv
  <2>3. ASSUME ~partial_rollout PROVE ~serverPaused' /\ pausePc' # "cancel"
    BY <1>2, <1>3, <2>3 DEF SyncInv, ServersInv, CancelFirst
  <2>4. ASSUME partial_rollout, pausePc' \in {"gather", "reset", "done"} PROVE serverPaused'
    BY <1>2, <1>3, <2>4 DEF SyncInv, ServersInv, CancelFirst
  <2> QED BY <1>1, <2>1, <2>2, <2>3, <2>4 DEF ServersInv
<1> QED BY <1>1, <1>4, <1>5, <1>6 DEF SyncInv

\* resume keeps the invariant, and changes no version and no result.
LEMMA ResumeSync ==
  ASSUME SyncInv, Resume
  PROVE  SyncInv' /\ UNCHANGED <<tversion, weights, version, updatePc, val_queue>>
<1>1. UNCHANGED <<tpc, tversion, weights, last, version, updatePc, updateArgs, pausePc,
                  val_queue, partial_rollout>>
  BY DEF Resume, ResumeNext, ResumeBegin, ResumeServers, trainerFrame,
         trainerVars, queueVars, flagVars
<1>2. \/ /\ resumePc = "called" /\ updatePc = "done" /\ resumePc' = "lock"
         /\ serverPaused' = serverPaused
      \/ /\ (resumePc = "called" /\ updatePc = "done") \/ resumePc = "lock"
         /\ resumePc' = IF partial_rollout THEN "servers" ELSE "done"
         /\ serverPaused' = serverPaused
      \/ resumePc = "servers" /\ serverPaused' = FALSE /\ resumePc' = "done"
  BY DEF Resume, ResumeNext, ResumeBegin, ResumeServers
<1>3. Calls'
  BY <1>1, <1>2 DEF SyncInv, Calls, LastSyncOver
<1>4. VersionsInv'
  BY <1>1 DEF SyncInv, VersionsInv
<1>5. ServersInv'
  <2>1. tpc \notin {"pausing", "transfer"} /\ pausePc = "idle"
    BY <1>2 DEF SyncInv, Calls, LastSyncOver
  <2>2. serverPaused' \in BOOLEAN /\ partial_rollout' \in BOOLEAN
    BY <1>1, <1>2 DEF SyncInv, ServersInv
  <2>3. ASSUME ~partial_rollout PROVE ~serverPaused' /\ resumePc' # "servers"
    BY <1>2, <2>3 DEF SyncInv, ServersInv
  <2>4. ASSUME partial_rollout, resumePc' # "done" PROVE serverPaused'
    BY <1>2, <2>4 DEF SyncInv, ServersInv
  <2> QED BY <1>1, <2>1, <2>2, <2>3, <2>4 DEF ServersInv
<1> QED BY <1>1, <1>3, <1>4, <1>5 DEF SyncInv

\* update_param_version keeps the invariant: it tells the rollouter the version of
\* the weights, or puts one result under that version as it ends, or neither.
LEMMA UpdateSync ==
  ASSUME SyncInv, Update
  PROVE  /\ SyncInv' /\ UNCHANGED <<tversion, weights>>
         /\ \/ version' = version /\ (updatePc' = "done" <=> updatePc = "done")
               /\ val_queue' = val_queue
            \/ /\ version < weights /\ version' = weights
               /\ updatePc # "done" /\ updatePc' # "done" /\ val_queue' = val_queue
            \/ /\ version = weights /\ version' = version
               /\ updatePc # "done" /\ updatePc' = "done"
               /\ \E m \in BOOLEAN :
                    val_queue' = Append(val_queue, [version |-> version, metrics |-> m])
<1>1. UNCHANGED <<tpc, tversion, weights, last, pausePc, resumePc, serverPaused, partial_rollout>>
  BY DEF Update, UpdateNext, UpdateBegin, UpdateMeasure, UpdateAssign, UpdateEnd, trainerFrame,
         trainerVars, queueVars, flagVars
<1>2. \/ /\ updatePc = "called" /\ updatePc' = "lock"
         /\ UNCHANGED <<version, updateArgs, val_queue>>
      \/ /\ updatePc \in {"called", "lock"} /\ updatePc' = "qsize"
         /\ version' = updateArgs.version
         /\ \E n : updateArgs' = [updateArgs EXCEPT !.sum = n]
         /\ UNCHANGED val_queue
      \/ /\ updatePc = "qsize" /\ updatePc' = "assign"
         /\ \E n : updateArgs' = [updateArgs EXCEPT !.sum = n]
         /\ UNCHANGED <<version, val_queue>>
      \/ /\ updatePc = "assign" /\ updatePc' = "validate"
         /\ UNCHANGED <<version, updateArgs, val_queue>>
      \/ /\ updatePc = "validate" /\ updatePc' = "done"
         /\ val_queue' = Append(val_queue,
              [version |-> updateArgs.version,
               metrics |-> Validates(updateArgs.version, updateArgs.validate)])
         /\ \E n : updateArgs' = [updateArgs EXCEPT !.sum = n]
         /\ UNCHANGED version
  BY DEF Update, UpdateNext, UpdateBegin, UpdateMeasure, UpdateAssign, UpdateEnd, queueVars,
         flagVars, AdoptVersion, MQ!PutValidate
<1>3. Validates(updateArgs.version, updateArgs.validate) \in BOOLEAN
  BY DEF Validates
<1>4. ASSUME updatePc = "validate"
      PROVE  val_queue' \in Seq([version : Nat, metrics : BOOLEAN])
  <2>1. /\ val_queue \in Seq([version : Nat, metrics : BOOLEAN])
        /\ updateArgs.version \in Nat
    BY <1>4 DEF SyncInv, VersionsInv
  <2>2. [version |-> updateArgs.version,
         metrics |-> Validates(updateArgs.version, updateArgs.validate)]
          \in [version : Nat, metrics : BOOLEAN]
    BY <1>3, <2>1
  <2>3. val_queue' = Append(val_queue, [version |-> updateArgs.version,
           metrics |-> Validates(updateArgs.version, updateArgs.validate)])
    BY <1>2, <1>4
  <2> QED BY <2>1, <2>2, <2>3, AppendProperties, Zenon
<1>5. Calls'
  BY <1>1, <1>2 DEF SyncInv, Calls, LastSyncOver
<1>6. VersionsInv'
  <2>1. val_queue' \in Seq([version : Nat, metrics : BOOLEAN])
    BY <1>2, <1>4 DEF SyncInv, VersionsInv
  <2>2. /\ updateArgs' = [version |-> updateArgs'.version, validate |-> updateArgs'.validate,
                         sum |-> updateArgs'.sum]
        /\ updateArgs'.version = updateArgs.version
        /\ updateArgs'.validate = updateArgs.validate
    BY <1>2 DEF SyncInv, VersionsInv
  <2> QED BY <1>1, <1>2, <2>1, <2>2 DEF SyncInv, VersionsInv
<1>7. ServersInv'
  BY <1>1 DEF SyncInv, ServersInv
<1>8. updatePc # "done" => updateArgs.version = weights /\ version \in Nat /\ weights \in Nat
  BY DEF SyncInv, VersionsInv
<1>9. IF updatePc \in {"called", "lock"} THEN weights = version + 1 ELSE weights = version
  BY DEF SyncInv, VersionsInv
<1> QED BY <1>1, <1>2, <1>3, <1>5, <1>6, <1>7, <1>8, <1>9 DEF SyncInv

\* A step of the trainer keeps the invariant: it makes one version, transfers the one
\* it has made, takes one result, or does none of these.
LEMMA TrainerSync ==
  ASSUME SyncInv, TrainerNext
  PROVE  /\ SyncInv' /\ version' = version
         /\ \/ UNCHANGED <<tversion, weights, updatePc, val_queue>>
            \/ /\ tversion = weights /\ tversion' = tversion + 1
               /\ UNCHANGED <<weights, updatePc, val_queue>>
            \/ /\ tversion = weights + 1 /\ weights' = tversion
               /\ updatePc = "done" /\ updatePc' = "called"
               /\ UNCHANGED <<tversion, val_queue>>
            \/ /\ val_queue # <<>> /\ val_queue' = Tail(val_queue)
               /\ UNCHANGED <<tversion, weights, updatePc>>
<1>1. /\ UNCHANGED <<version, serverPaused, partial_rollout>>
      /\ SyncInv
  BY DEF TrainerNext, TrainerGet, TrainerStep, SyncPause, SyncQueue, SyncWeights,
         TrainerGetValidate, TrainerFinal, TrainerLastValid, rollouterVars, loopVars, flagVars
<1> DEFINE Others == UNCHANGED <<pausePc, updatePc, updateArgs, resumePc>>
<1>2. CASE TrainerGet
  <2>1. /\ Others /\ UNCHANGED <<tversion, weights, last, val_queue>>
        /\ tpc = "collect" /\ tpc' \in {"collect", "train", "final"}
    BY <1>2 DEF TrainerGet, rollouterVars, callVars, Collected, MQ!GetSample, MQ!GetResume,
         MQ!TakeOrWait, MQ!sideVars
  <2> QED BY <1>1, <2>1 DEF SyncInv, Calls, VersionsInv, ServersInv, LastSyncOver
<1>3. CASE TrainerStep
  <2>1. /\ Others /\ UNCHANGED <<weights, last, val_queue>> /\ tpc = "train"
        /\ \/ tpc' = "getval" /\ tversion' = tversion
           \/ tpc' = "waitvalid" /\ tversion' = tversion + 1
    BY <1>3 DEF TrainerStep, rollouterVars, callVars, queueVars
  <2> QED BY <1>1, <2>1 DEF SyncInv, Calls, VersionsInv, ServersInv, LastSyncOver
<1>4. CASE SyncPause
  <2>1. /\ UNCHANGED <<tversion, weights, last, val_queue, updatePc, updateArgs, resumePc>>
        /\ tpc = "waitvalid" /\ tpc' = "pausing" /\ LastSyncOver /\ pausePc' = "called"
    BY <1>4 DEF SyncPause, queueVars
  <2> QED BY <1>1, <2>1 DEF SyncInv, Calls, VersionsInv, ServersInv, LastSyncOver
<1>5. CASE SyncQueue
  <2>1. /\ UNCHANGED <<tversion, weights, last, val_queue, updatePc, updateArgs, resumePc>>
        /\ tpc = "pausing" /\ pausePc = "done" /\ tpc' = "transfer" /\ pausePc' = "idle"
    BY <1>5 DEF SyncQueue, queueVars, MQ!UpdateParamVersion
  <2> QED BY <1>1, <2>1 DEF SyncInv, Calls, VersionsInv, ServersInv, LastSyncOver
<1>6. CASE SyncWeights
  <2>1. /\ UNCHANGED <<tversion, last, val_queue, pausePc>> /\ weights' = tversion
        /\ updatePc' = "called" /\ resumePc' = "called"
        /\ updateArgs' = [version |-> tversion, validate |-> last, sum |-> 0]
        /\ tpc = "transfer" /\ tpc' \in {"lastvalid", "getval"}
    BY <1>6 DEF SyncWeights, queueVars
  <2> QED BY <1>1, <2>1 DEF SyncInv, Calls, VersionsInv, ServersInv, LastSyncOver
<1>7. ASSUME ReadValidation, Others, UNCHANGED <<tversion, weights, last>>,
             \/ tpc = "getval" /\ tpc' = "collect"
             \/ tpc = "lastvalid" /\ tpc' = "done"
      PROVE  /\ SyncInv' /\ version' = version
             /\ \/ UNCHANGED <<tversion, weights, updatePc, val_queue>>
                \/ /\ val_queue # <<>> /\ val_queue' = Tail(val_queue)
                   /\ UNCHANGED <<tversion, weights, updatePc>>
  <2>1. \/ val_queue' = val_queue
        \/ val_queue # <<>> /\ val_queue' = Tail(val_queue)
    BY <1>7 DEF ReadValidation, MQ!GetValidate, queueVars
  <2>2. val_queue \in Seq([version : Nat, metrics : BOOLEAN])
    BY DEF SyncInv, VersionsInv
  <2>3. val_queue' \in Seq([version : Nat, metrics : BOOLEAN])
    BY <2>1, <2>2, HeadTailProperties
  <2>4. Calls' /\ ServersInv'
    BY <1>1, <1>7 DEF SyncInv, Calls, ServersInv, LastSyncOver
  <2>5. VersionsInv'
    BY <1>1, <1>7, <2>3 DEF SyncInv, VersionsInv
  <2> QED BY <1>1, <1>7, <2>1, <2>4, <2>5 DEF SyncInv
<1>8. CASE TrainerGetValidate
  BY <1>7, <1>8 DEF TrainerGetValidate, rollouterVars, callVars
<1>9. CASE TrainerFinal
  <2>1. /\ Others /\ UNCHANGED <<weights, val_queue>> /\ tpc = "final"
        /\ \/ tpc' = "done" /\ tversion' = tversion /\ last' = last
           \/ tpc' = "waitvalid" /\ tversion' = tversion + 1 /\ last' = TRUE
    BY <1>9 DEF TrainerFinal, rollouterVars, callVars, queueVars
  <2>2. Calls' /\ ServersInv'
    BY <1>1, <2>1 DEF SyncInv, Calls, ServersInv, LastSyncOver
  <2>3. tversion = weights /\ last' \in BOOLEAN
    BY <1>1, <2>1 DEF SyncInv, VersionsInv
  <2>4. VersionsInv'
    <3>1. CASE tpc' = "done" /\ tversion' = tversion
      BY <1>1, <2>1, <2>3, <3>1 DEF SyncInv, VersionsInv
    <3>2. CASE tpc' = "waitvalid" /\ tversion' = tversion + 1
      BY <1>1, <2>1, <2>3, <3>2 DEF SyncInv, VersionsInv
    <3> QED BY <2>1, <3>1, <3>2
  <2> QED BY <1>1, <2>1, <2>2, <2>3, <2>4 DEF SyncInv
<1>10. CASE TrainerLastValid
  BY <1>7, <1>10 DEF TrainerLastValid, rollouterVars, callVars
<1> QED BY <1>2, <1>3, <1>4, <1>5, <1>6, <1>8, <1>9, <1>10 DEF TrainerNext

\* Every step of the system keeps the invariant of the synchronization.
LEMMA SyncStep == SyncInv /\ [Next]_vars => SyncInv'
<1>1. ASSUME UNCHANGED vars PROVE UNCHANGED syncVars
  BY <1>1 DEF vars, rollouterVars, loopVars, callVars, flagVars, trainerVars, queueVars, syncVars
<1> QED BY <1>1, ProcessorSync, TasksSync, LoopSync, PauseSync, UpdateSync, ResumeSync, TrainerSync,
           SyncFrame DEF Next

\* Versions, weights and the pause of the servers go together, with whatever
\* interleaving of the trainer, the synchronizer's calls and the rollouter
\* (param_sync.py:76-115, fully_async_rollouter.py:193-235, 596-622).
THEOREM SyncInvariant == Spec => []SyncInv
BY SyncInit, SyncStep, PTL DEF Spec

\* With partial rollout, every server is paused while the weights are broadcast:
\* no token is generated by half-written weights (param_sync.py:83-91).
THEOREM TransferIsQuiet == Spec => []NoGenerationInTransfer
<1>1. SyncInv => NoGenerationInTransfer
  BY DEF SyncInv, ServersInv, NoGenerationInTransfer
<1> QED BY <1>1, SyncInvariant, PTL

\* The version the rollouter labels its samples with is never ahead of the weights
\* the servers have (fully_async_rollouter.py:193-205).
THEOREM LabelsAreOfTheWeights == Spec => []AnnouncedIsInstalled
<1>1. SyncInv => AnnouncedIsInstalled
  BY DEF SyncInv, Calls, VersionsInv, ServersInv, AnnouncedIsInstalled
<1> QED BY <1>1, SyncInvariant, PTL

-----------------------------------------------------------------------------
Results(q) == [i \in DOMAIN q |-> q[i].version]

\* The versions of a queue of results, as it grows and shrinks.
LEMMA ResultsQueue ==
  ASSUME NEW S, NEW q \in Seq(S), NEW d \in S
  PROVE  /\ Results(Append(q, d)) = Append(Results(q), d.version)
         /\ q # <<>> => Results(q) # <<>> /\ Results(Tail(q)) = Tail(Results(q))
<1>1. /\ Append(q, d) \in Seq(S) /\ Len(Append(q, d)) = Len(q) + 1
      /\ \A i \in 1..Len(q) : Append(q, d)[i] = q[i]
      /\ Append(q, d)[Len(q) + 1] = d
      /\ Len(q) \in Nat /\ DOMAIN q = 1..Len(q)
      /\ DOMAIN Append(q, d) = 1..(Len(q) + 1)
  BY AppendProperties, LenProperties
<1>2. Results(q) \in Seq({x.version : x \in S}) /\ Len(Results(q)) = Len(q)
  BY <1>1 DEF Results
<1>3. Results(Append(q, d)) = Append(Results(q), d.version)
  BY <1>1, <1>2 DEF Results
<1>4. ASSUME q # <<>> PROVE Results(q) # <<>> /\ Results(Tail(q)) = Tail(Results(q))
  <2>1. /\ Tail(q) \in Seq(S) /\ Len(Tail(q)) = Len(q) - 1 /\ Len(q) \in Nat \ {0}
        /\ \A i \in 1..Len(Tail(q)) : Tail(q)[i] = q[i + 1]
        /\ DOMAIN Tail(q) = 1..(Len(q) - 1)
    BY <1>4, HeadTailProperties, LenProperties, EmptySeq
  <2> QED BY <1>1, <1>2, <2>1 DEF Results
<1> QED BY <1>3, <1>4

\* Every step of the system is a step of the abstract synchronization, or none.
LEMMA SyncMaps == SyncInv /\ SyncInv' /\ [Next]_vars => [Sync!Next]_(Sync!vars)
<1> SUFFICES ASSUME SyncInv, SyncInv', [Next]_vars PROVE [Sync!Next]_(Sync!vars)
  OBVIOUS
<1> DEFINE pub == IF updatePc = "done" THEN weights ELSE weights - 1
           res == Results(val_queue)
<1>0. /\ tversion \in Nat /\ weights \in Nat /\ version \in Nat
      /\ val_queue \in Seq([version : Nat, metrics : BOOLEAN])
      /\ updatePc = "done" => weights = version
  BY DEF SyncInv, VersionsInv
<1>1. ASSUME UNCHANGED <<tversion, weights, version, updatePc, val_queue>>
      PROVE  UNCHANGED Sync!vars
  BY <1>1 DEF Sync!vars
<1>2. CASE UNCHANGED vars \/ UNCHANGED syncVars
  BY <1>1, <1>2 DEF vars, rollouterVars, loopVars, callVars, flagVars, trainerVars, queueVars, syncVars
<1>3. CASE Pause \/ Resume
  BY <1>1, <1>3, PauseSync, ResumeSync
<1>4. CASE Update
  <2>1. CASE version' = version /\ (updatePc' = "done" <=> updatePc = "done") /\ val_queue' = val_queue
    <3>1. UNCHANGED <<tversion, weights>>
      BY <1>4, UpdateSync
    <3> QED BY <2>1, <3>1 DEF Sync!vars
  <2>2. CASE /\ version < weights /\ version' = weights
             /\ updatePc # "done" /\ updatePc' # "done" /\ val_queue' = val_queue
    <3>1. UNCHANGED <<tversion, weights>>
      BY <1>4, UpdateSync
    <3> QED BY <2>2, <3>1 DEF Sync!Next, Sync!Announce
  <2>3. CASE /\ version = weights /\ version' = version
             /\ updatePc # "done" /\ updatePc' = "done"
             /\ \E m \in BOOLEAN :
                  val_queue' = Append(val_queue, [version |-> version, metrics |-> m])
    <3>1. UNCHANGED <<tversion, weights>>
      BY <1>4, UpdateSync
    <3>2. Results(val_queue') = Append(Results(val_queue), version)
      <4>1. PICK m \in BOOLEAN : val_queue' = Append(val_queue, [version |-> version, metrics |-> m])
        BY <2>3
      <4>2. [version |-> version, metrics |-> m] \in [version : Nat, metrics : BOOLEAN]
        BY <1>0
      <4>3. Results(Append(val_queue, [version |-> version, metrics |-> m]))
              = Append(Results(val_queue), [version |-> version, metrics |-> m].version)
        BY <1>0, <4>2, ResultsQueue, Zenon
      <4> QED BY <4>1, <4>3
    <3> QED BY <1>0, <2>3, <3>1, <3>2 DEF Sync!Next, Sync!Publish, Results
  <2> QED BY <1>4, <2>1, <2>2, <2>3, UpdateSync
<1>5. CASE TrainerNext
  <2>0. version' = version
    BY <1>5, TrainerSync
  <2>1. CASE UNCHANGED <<tversion, weights, updatePc, val_queue>>
    BY <1>1, <2>0, <2>1
  <2>2. CASE /\ tversion = weights /\ tversion' = tversion + 1
             /\ UNCHANGED <<weights, updatePc, val_queue>>
    BY <2>0, <2>2 DEF Sync!Next, Sync!Advance
  <2>3. CASE /\ tversion = weights + 1 /\ weights' = tversion
             /\ updatePc = "done" /\ updatePc' = "called"
             /\ UNCHANGED <<tversion, val_queue>>
    BY <1>0, <2>0, <2>3 DEF Sync!Next, Sync!Install
  <2>4. CASE /\ val_queue # <<>> /\ val_queue' = Tail(val_queue)
             /\ UNCHANGED <<tversion, weights, updatePc>>
    <3>1. PICK d \in [version : Nat, metrics : BOOLEAN] : TRUE
      BY <1>0, <2>4, TakeFirst
    <3>2. Results(val_queue) # <<>> /\ Results(val_queue') = Tail(Results(val_queue))
      BY <1>0, <2>4, <3>1, ResultsQueue
    <3> QED BY <2>0, <2>4, <3>2 DEF Sync!Next, Sync!Read, Results
  <2> QED BY <1>5, <2>1, <2>2, <2>3, <2>4, TrainerSync
<1> QED BY <1>2, <1>3, <1>4, <1>5, ProcessorSync, TasksSync, LoopSync DEF Next

\* The trainer, the synchronizer and the rollouter implement VersionSync: versions are
\* made, transferred, announced and measured one at a time and in this order.
THEOREM ImplementsSync == Spec => ImplementsVersionSync
<1>1. Init => Sync!Init
  BY FullyAsyncAssumption DEF Init, RollouterInit, TrainerInit, Sync!Init
<1> QED BY <1>1, SyncInvariant, SyncMaps, PTL DEF Spec, Sync!Spec, ImplementsVersionSync

-----------------------------------------------------------------------------
\* Who may be in the line at the lock.
Callers == {"proc", "pause", "update", "resume", "monitor", "main"}

Members(q) == {q[i] : i \in DOMAIN q}
NoDup(q) == \A i, j \in DOMAIN q : i # j => q[i] # q[j]

\* Who is in the line, and who has gone on to hold the lock over a suspension.
In(c) ==
  \/ c = "proc"    /\ ppc \in {"lock", "wait", "pauseLock", "idleLock", "submitLock"}
  \/ c = "pause"   /\ pausePc \in {"lock", "cancel", "gather", "reset"}
  \/ c = "update"  /\ updatePc \in {"lock", "qsize", "assign", "validate"}
  \/ c = "resume"  /\ resumePc \in {"lock", "servers"}
  \/ c = "monitor" /\ monitor \in {"wakeLock", "topLock"}
  \/ c = "main"    /\ mpc = "stopLock"

On(c) ==
  \/ c = "proc"    /\ ppc = "wait"
  \/ c = "pause"   /\ pausePc \in {"cancel", "gather", "reset"}
  \/ c = "update"  /\ updatePc \in {"qsize", "assign", "validate"}
  \/ c = "resume"  /\ resumePc = "servers"

Line ==
  /\ lockq \in Seq(Callers) /\ NoDup(lockq)
  /\ \A c \in Callers : c \in Members(lockq) <=> In(c)
  /\ \A c \in Callers : On(c) => Owns(c)

\* A step of c at the lock: it stays where it is, joins the line, leaves it, or
\* leaves it to join it again at its end.
Turn(c) ==
  /\ \A d \in Callers : d # c => (In(d)' <=> In(d)) /\ (On(d)' <=> On(d))
  /\ \/ lockq' = lockq /\ (In(c)' <=> In(c)) /\ (On(c)' => On(c) \/ Owns(c))
     \/ lockq' = Append(lockq, c) /\ ~In(c) /\ In(c)' /\ (On(c)' => lockq = <<>>)
     \/ Owns(c) /\ lockq' = Tail(lockq) /\ ~In(c)' /\ ~On(c)'
     \/ Owns(c) /\ lockq' = Append(Tail(lockq), c) /\ In(c)' /\ (On(c)' => Tail(lockq) = <<>>)

\* One more at the end of a line it was not in.
LEMMA LineAppend ==
  ASSUME NEW S, NEW q \in Seq(S), NoDup(q), NEW c \in S, c \notin Members(q)
  PROVE  /\ Append(q, c) \in Seq(S) /\ NoDup(Append(q, c))
         /\ Members(Append(q, c)) = Members(q) \cup {c}
         /\ Append(q, c) # <<>>
         /\ Head(Append(q, c)) = IF q = <<>> THEN c ELSE Head(q)
<1>1. /\ Append(q, c) \in Seq(S) /\ Len(Append(q, c)) = Len(q) + 1 /\ Append(q, c) # <<>>
      /\ \A i \in 1..Len(q) : Append(q, c)[i] = q[i]
      /\ Append(q, c)[Len(q) + 1] = c
      /\ Len(q) \in Nat /\ DOMAIN q = 1..Len(q)
      /\ DOMAIN Append(q, c) = 1..(Len(q) + 1)
  BY AppendProperties, LenProperties
<1>2. NoDup(Append(q, c))
  BY <1>1 DEF NoDup, Members
<1>3. Members(Append(q, c)) = Members(q) \cup {c}
  BY <1>1 DEF Members
<1>4. Head(Append(q, c)) = IF q = <<>> THEN c ELSE Head(q)
  <2>1. Head(Append(q, c)) = Append(q, c)[1] /\ Head(q) = q[1]
    OBVIOUS
  <2>2. q = <<>> <=> Len(q) = 0
    BY EmptySeq
  <2> QED BY <1>1, <2>1, <2>2
<1> QED BY <1>1, <1>2, <1>3, <1>4

\* The first of a line leaves it.
LEMMA LineTail ==
  ASSUME NEW S, NEW q \in Seq(S), NoDup(q), q # <<>>
  PROVE  /\ Tail(q) \in Seq(S) /\ NoDup(Tail(q))
         /\ Members(Tail(q)) = Members(q) \ {Head(q)}
         /\ Head(q) \in Members(q)
<1>1. /\ Tail(q) \in Seq(S) /\ Len(Tail(q)) = Len(q) - 1 /\ Len(q) \in Nat \ {0}
      /\ \A i \in 1..Len(Tail(q)) : Tail(q)[i] = q[i + 1]
      /\ DOMAIN q = 1..Len(q) /\ DOMAIN Tail(q) = 1..(Len(q) - 1)
      /\ Head(q) = q[1]
  BY HeadTailProperties, LenProperties, EmptySeq
<1>2. NoDup(Tail(q))
  BY <1>1 DEF NoDup
<1>3. Members(Tail(q)) = Members(q) \ {Head(q)}
  <2>1. ASSUME NEW x \in Members(Tail(q)) PROVE x \in Members(q) \ {Head(q)}
    BY <1>1 DEF Members, NoDup
  <2>2. ASSUME NEW x \in Members(q), x # Head(q) PROVE x \in Members(Tail(q))
    <3>1. PICK i \in 1..Len(q) : x = q[i]
      BY <1>1 DEF Members
    <3>2. i - 1 \in 1..Len(Tail(q)) /\ Tail(q)[i - 1] = x
      BY <1>1, <2>2, <3>1
    <3> QED BY <1>1, <3>2 DEF Members
  <2> QED BY <2>1, <2>2
<1>4. Head(q) \in Members(q)
  <2>1. 1 \in DOMAIN q
    BY <1>1
  <2> QED BY <1>1, <2>1 DEF Members
<1> QED BY <1>1, <1>2, <1>3, <1>4

\* A turn of any one of them keeps the line.
LEMMA TurnKeepsLine ==
  ASSUME Line, NEW c \in Callers, Turn(c)
  PROVE  Line'
<1>0. /\ lockq \in Seq(Callers) /\ NoDup(lockq)
      /\ \A d \in Callers : d \in Members(lockq) <=> In(d)
      /\ \A d \in Callers : On(d) => Owns(d)
      /\ \A d \in Callers : d # c => (In(d)' <=> In(d)) /\ (On(d)' <=> On(d))
  BY DEF Line, Turn
<1>1. CASE lockq' = lockq /\ (In(c)' <=> In(c)) /\ (On(c)' => On(c) \/ Owns(c))
  BY <1>0, <1>1 DEF Line, Owns
<1>2. CASE lockq' = Append(lockq, c) /\ ~In(c) /\ In(c)' /\ (On(c)' => lockq = <<>>)
  <2>1. /\ lockq' \in Seq(Callers) /\ NoDup(lockq')
        /\ Members(lockq') = Members(lockq) \cup {c}
        /\ lockq' # <<>>
        /\ Head(lockq') = IF lockq = <<>> THEN c ELSE Head(lockq)
    BY <1>0, <1>2, LineAppend
  <2>2. \A d \in Callers : On(d)' => lockq' # <<>> /\ Head(lockq') = d
    BY <1>0, <1>2, <2>1 DEF Owns
  <2> QED BY <1>0, <1>2, <2>1, <2>2 DEF Line, Owns
<1>3. CASE Owns(c) /\ lockq' = Tail(lockq) /\ ~In(c)' /\ ~On(c)'
  <2>1. /\ lockq' \in Seq(Callers) /\ NoDup(lockq')
        /\ Members(lockq') = Members(lockq) \ {c}
    BY <1>0, <1>3, LineTail DEF Owns
  <2>2. \A d \in Callers : ~On(d)'
    BY <1>0, <1>3 DEF Owns
  <2> QED BY <1>0, <1>3, <2>1, <2>2 DEF Line
<1>4. CASE Owns(c) /\ lockq' = Append(Tail(lockq), c) /\ In(c)' /\ (On(c)' => Tail(lockq) = <<>>)
  <2>1. /\ Tail(lockq) \in Seq(Callers) /\ NoDup(Tail(lockq))
        /\ Members(Tail(lockq)) = Members(lockq) \ {c}
        /\ c \in Members(lockq)
    BY <1>0, <1>4, LineTail DEF Owns
  <2>2. c \notin Members(Tail(lockq))
    BY <2>1
  <2>3. /\ lockq' \in Seq(Callers) /\ NoDup(lockq')
        /\ Members(lockq') = Members(Tail(lockq)) \cup {c}
        /\ lockq' # <<>>
        /\ Tail(lockq) = <<>> => Head(lockq') = c
    <3> DEFINE q == Tail(lockq)
    <3>1. /\ Append(q, c) \in Seq(Callers) /\ NoDup(Append(q, c))
          /\ Members(Append(q, c)) = Members(q) \cup {c}
          /\ Append(q, c) # <<>>
          /\ Head(Append(q, c)) = IF q = <<>> THEN c ELSE Head(q)
      <4> HIDE DEF q
      <4> QED BY <2>1, <2>2, LineAppend DEF q
    <3> QED BY <1>4, <3>1
  <2>4. \A d \in Callers : On(d)' => d = c /\ Tail(lockq) = <<>>
    BY <1>0, <1>4 DEF Owns
  <2> QED BY <1>0, <1>4, <2>1, <2>3, <2>4 DEF Line, Owns
<1> QED BY <1>1, <1>2, <1>3, <1>4 DEF Turn

\* The coroutines without a step at the lock.
LEMMA OthersTurn ==
  ASSUME UNCHANGED <<ppc, pausePc, updatePc, resumePc, monitor, lockq>>,
         mpc = "stopLock" <=> mpc' = "stopLock"
  PROVE  Turn("main")
BY DEF Turn, In, On, Callers

\* The coroutines that never take the lock, and the trainer unless it calls one that does.
LEMMA TasksTurn == Tasks \/ Feeder \/ Consumer \/ TrainerNext => Turn("main") \/ SyncPause \/ SyncQueue \/ SyncWeights
<1>1. ASSUME Tasks \/ Feeder \/ Consumer
      PROVE UNCHANGED <<ppc, pausePc, updatePc, resumePc, monitor, lockq, mpc>>
  BY <1>1 DEF Tasks, TaskStart, TaskFinish, TaskCancel, TaskFail, taskFrame, mainVars, procVars,
       callVars, Feeder, Feed, Consumer, ConsumerTake, ConsumerPut
<1>2. ASSUME TrainerNext, ~SyncPause, ~SyncQueue, ~SyncWeights
      PROVE UNCHANGED <<ppc, pausePc, updatePc, resumePc, monitor, lockq, mpc>>
  BY <1>2 DEF TrainerNext, TrainerGet, TrainerStep, TrainerGetValidate, TrainerFinal, TrainerLastValid,
       rollouterVars, loopVars, callVars, mainVars, procVars
<1> QED BY <1>1, <1>2, OthersTurn

\* The trainer's calls of the synchronizer join no line yet.
LEMMA SyncTurn == 
   ASSUME SyncInv, SyncPause \/ SyncQueue \/ SyncWeights
   PROVE \E c \in Callers : Turn(c)
<1>1. ASSUME SyncPause \/ SyncQueue
      PROVE Turn("pause")
  <2>1. /\ UNCHANGED <<ppc, monitor, mpc, lockq, updatePc, resumePc>>
        /\ pausePc \in {"idle", "done"} /\ pausePc' \in {"idle", "called"}
    BY <1>1 DEF SyncInv, Calls, SyncPause, SyncQueue, loopVars, procVars, mainVars
  <2> QED BY <2>1 DEF Turn, In, On, Callers
<1>2. ASSUME SyncWeights
      PROVE Turn("main")
  <2>1. /\ UNCHANGED <<ppc, pausePc, monitor, mpc, lockq>>
        /\ updatePc = "done" /\ updatePc' = "called"
        /\ resumePc = "done" /\ resumePc' = "called"
    BY <1>2 DEF SyncInv, Calls, LastSyncOver, SyncWeights, loopVars, procVars, mainVars
  <2> QED BY <2>1 DEF Turn, In, On, Callers
<1> QED BY <1>1, <1>2 DEF Callers

\* pause waits for the lock, holds it over the cancel and the gather, and releases it.
LEMMA PauseTurn ==
  ASSUME Line, Pause PROVE Turn("pause")
<1>1. UNCHANGED <<ppc, updatePc, resumePc, monitor, mpc>>
  BY DEF Pause, PauseNext, PauseBegin, PauseCancel, PauseGather, PauseEnd, callFrame, mainVars
<1>2. On("pause") => Owns("pause")
  BY DEF Line, Callers
<1>3. GatherNext \in {"gather", "reset"}
  BY DEF GatherNext
<1>4. Append(<<>>, "pause") = <<"pause">>
  OBVIOUS
<1>5. CASE pausePc = "called"
  <2>1. /\ lockq' = Append(lockq, "pause")
        /\ pausePc' = "lock" \/ (lockq = <<>> /\ pausePc' \in {"cancel", "gather", "reset"})
    BY <1>3, <1>4, <1>5 DEF Pause, PauseNext, PauseBegin, PauseCancel, PauseGather, PauseEnd, CancelFirst
  <2> QED BY <1>1, <1>5, <2>1 DEF Turn, In, On, Callers
<1>6. CASE pausePc # "called"
  <2>1. \/ /\ pausePc = "lock" /\ Owns("pause") /\ lockq' = lockq
           /\ pausePc' \in {"cancel", "gather", "reset"}
        \/ /\ pausePc \in {"cancel", "gather"} /\ lockq' = lockq
           /\ pausePc' \in {"gather", "reset"}
        \/ pausePc = "reset" /\ lockq' = Tail(lockq) /\ pausePc' = "done"
    BY <1>3, <1>6 DEF Pause, PauseNext, PauseBegin, PauseCancel, PauseGather, PauseEnd, CancelFirst, Release
  <2> QED BY <1>1, <1>2, <2>1 DEF Turn, In, On, Callers
<1> QED BY <1>5, <1>6

\* update_param_version holds the lock from the queue's size to the validation.
LEMMA UpdateTurn ==
  ASSUME Line, Update PROVE Turn("update")
<1>1. UNCHANGED <<ppc, pausePc, resumePc, monitor, mpc>>
  BY DEF Update, UpdateNext, UpdateBegin, UpdateMeasure, UpdateAssign, UpdateEnd, callFrame, mainVars
<1>2. On("update") => Owns("update")
  BY DEF Line, Callers
<1>3. Append(<<>>, "update") = <<"update">>
  OBVIOUS
<1>4. CASE updatePc = "called"
  <2>1. /\ lockq' = Append(lockq, "update")
        /\ updatePc' = "lock" \/ (lockq = <<>> /\ updatePc' = "qsize")
    BY <1>3, <1>4 DEF Update, UpdateNext, UpdateBegin, UpdateMeasure, UpdateAssign, UpdateEnd
  <2> QED BY <1>1, <1>4, <2>1 DEF Turn, In, On, Callers
<1>5. CASE updatePc # "called"
  <2>1. \/ updatePc = "lock" /\ Owns("update") /\ lockq' = lockq /\ updatePc' = "qsize"
        \/ /\ updatePc \in {"qsize", "assign"} /\ lockq' = lockq
           /\ updatePc' \in {"assign", "validate"}
        \/ updatePc = "validate" /\ lockq' = Tail(lockq) /\ updatePc' = "done"
    BY <1>5 DEF Update, UpdateNext, UpdateBegin, UpdateMeasure, UpdateAssign, UpdateEnd, Release
  <2> QED BY <1>1, <1>2, <2>1 DEF Turn, In, On, Callers
<1> QED BY <1>4, <1>5

\* A resume also wakes the processor, which is not in the line before or after.
LEMMA NotifiedIdle ==
  ppc' = Notified => (ppc = ppc' \/ (/\ ppc \in {"idle", "submitIdle"}
                                    /\ ppc' \in {"idleWoken", "submitWoken"}))
BY DEF Notified

\* resume holds the lock until the servers have been resumed.
LEMMA ResumeTurn ==
  ASSUME Line, Resume PROVE Turn("resume")
<1>1. /\ UNCHANGED <<pausePc, updatePc, monitor, mpc>>
      /\ ppc = ppc' \/ (/\ ppc \in {"idle", "submitIdle"}
                        /\ ppc' \in {"idleWoken", "submitWoken"})
  BY NotifiedIdle DEF Resume, ResumeNext, ResumeBegin, ResumeServers, callFrame, mainVars
<1>2. On("resume") => Owns("resume")
  BY DEF Line, Callers
<1>3. Append(<<>>, "resume") = <<"resume">>
  OBVIOUS
<1>4. CASE resumePc = "called"
  <2>1. \/ lockq' = Append(lockq, "resume") /\ resumePc' = "lock"
        \/ lockq' = Append(lockq, "resume") /\ lockq = <<>> /\ resumePc' = "servers"
        \/ lockq' = lockq /\ resumePc' = "done"
    BY <1>3, <1>4 DEF Resume, ResumeNext, ResumeBegin, ResumeServers
  <2> QED BY <1>1, <1>4, <2>1 DEF Turn, In, On, Callers
<1>5. CASE resumePc # "called"
  <2>1. \/ resumePc = "lock" /\ Owns("resume") /\ lockq' = lockq /\ resumePc' = "servers"
        \/ resumePc = "lock" /\ Owns("resume") /\ lockq' = Tail(lockq) /\ resumePc' = "done"
        \/ resumePc = "servers" /\ lockq' = Tail(lockq) /\ resumePc' = "done"
    BY <1>5 DEF Resume, ResumeNext, ResumeBegin, ResumeServers, Release
  <2> QED BY <1>1, <1>2, <2>1 DEF Turn, In, On, Callers
<1> QED BY <1>4, <1>5

\* The monitor takes the lock and releases it in one step.
LEMMA MonitorTurn ==
  ASSUME Line, Monitor PROVE Turn("monitor")
<1>1. /\ UNCHANGED <<pausePc, updatePc, resumePc, mpc>>
      /\ ppc = ppc' \/ (/\ ppc \in {"idle", "submitIdle"}
                        /\ ppc' \in {"idleWoken", "submitWoken"})
  BY NotifiedIdle DEF Monitor, MonitorTick, MonitorLocked, Unpause, monitorFrame, callVars, mainVars
<1>2. CASE monitor = "sleep"
  <2>1. \/ lockq' = Append(lockq, "monitor") /\ monitor' \in {"wakeLock", "topLock"}
        \/ lockq' = lockq /\ monitor' \in {"sleep", "exit"}
    BY <1>2 DEF Monitor, MonitorTick, MonitorLocked, Unpause, MonitorTop
  <2> QED BY <1>1, <1>2, <2>1 DEF Turn, In, On, Callers
<1>3. CASE monitor # "sleep"
  <2>1. /\ Owns("monitor") /\ monitor \in {"wakeLock", "topLock"}
        /\ \/ lockq' = Append(Tail(lockq), "monitor") /\ monitor' = "topLock"
           \/ lockq' = Tail(lockq) /\ monitor' \in {"sleep", "exit"}
    BY <1>3 DEF Monitor, MonitorTick, MonitorLocked, Unpause, MonitorTop
  <2> QED BY <1>1, <2>1 DEF Turn, In, On, Callers
<1> QED BY <1>2, <1>3

\* The main coroutine waits for the lock when it stops the monitor.
LEMMA MainTurn ==
  ASSUME Line, Main PROVE Turn("main")
<1>1. UNCHANGED <<ppc, pausePc, updatePc, resumePc, monitor>>
  BY DEF Main, MainStep, MainFinish, MainStop, procVars, callVars
<1>2. \/ lockq' = lockq /\ mpc # "stopLock" /\ mpc' # "stopLock"
      \/ lockq' = Append(lockq, "main") /\ mpc = "stop" /\ mpc' = "stopLock"
      \/ lockq' = Tail(lockq) /\ Owns("main") /\ mpc = "stopLock" /\ mpc' = "end"
  BY DEF Main, MainStep, MainFinish, MainStop
<1> QED BY <1>1, <1>2 DEF Turn, In, On, Callers

\* What the helpers of the processor do with the line: out of it, or at its end.
Leaves(q) == lockq' = q /\ ~In("proc")' /\ ~On("proc")'
Joins(q) == lockq' = Append(q, "proc") /\ In("proc")' /\ (On("proc")' => q = <<>>)

\* What the processor's helpers do to the line once it has left its head.
LEMMA HelpersTurn ==
  ASSUME NEW STATE q, NEW STATE s, NEW STATE n, NEW STATE p
  PROVE  /\ \A w : WaitOrQueue(w, q) => Joins(q)
         /\ IdleUntilResumed(q, p) => Leaves(q) \/ Joins(q)
         /\ DrainThenIdle(q, n, p) => Leaves(q) \/ Joins(q)
         /\ DrainThenExit(q, n) => Leaves(q) \/ Joins(q)
         /\ CreateTask(s, q) => Leaves(q)
         /\ SubmitSample(s, q, n) => Leaves(q) \/ Joins(q)
<1>0. Append(<<>>, "proc") = <<"proc">>
  OBVIOUS
<1>1. \A w : WaitOrQueue(w, q) => Joins(q)
  BY <1>0 DEF WaitOrQueue, Joins, In, On
<1>2. IdleUntilResumed(q, p) => Leaves(q) \/ Joins(q)
  BY <1>0 DEF IdleUntilResumed, Leaves, Joins, In, On
<1>3. DrainThenIdle(q, n, p) => Leaves(q) \/ Joins(q)
  BY <1>1, <1>2 DEF DrainThenIdle
<1>4. DrainThenExit(q, n) => Leaves(q) \/ Joins(q)
  <2>1. ppc' = "exited" /\ lockq' = q => Leaves(q)
    BY DEF Leaves, In, On
  <2> QED BY <1>1, <2>1 DEF DrainThenExit
<1>5. CreateTask(s, q) => Leaves(q)
  BY DEF CreateTask, Leaves, In, On
<1>6. SubmitSample(s, q, n) => Leaves(q) \/ Joins(q)
  <2>1. ppc' = "submitLock" /\ lockq' = Append(q, "proc") => Joins(q)
    BY DEF Joins, In, On
  <2>2. ASSUME q = <<>>, CreateTask(s, q) PROVE Leaves(q)
    BY <1>5, <2>2
  <2> QED BY <1>1, <2>1, <2>2 DEF SubmitSample
<1> QED BY <1>1, <1>2, <1>3, <1>4, <1>5, <1>6

\* The processor holds the lock while it waits for tasks, and no longer.
LEMMA ProcessorTurn ==
  ASSUME Line, Processor PROVE Turn("proc")
<1>1. UNCHANGED <<pausePc, updatePc, resumePc, monitor, mpc>>
  BY DEF Processor, ProcessorNext, ProcessorTop, ProcessorGet, ProcessorLocked, ProcessorWaited,
         ProcessorWoken, procFrame, callVars, mainVars
<1>2. On("proc") => Owns("proc")
  BY DEF Line, Callers
<1>3. /\ ~In("proc") /\ (Leaves(lockq) \/ Joins(lockq)) => Turn("proc")
      /\ Owns("proc") /\ (Leaves(Tail(lockq)) \/ Joins(Tail(lockq))) => Turn("proc")
  BY <1>1 DEF Turn, Leaves, Joins, In, On, Callers
<1>4. ASSUME TakePending, ~In("proc") PROVE Turn("proc")
  BY <1>3, <1>4, HelpersTurn DEF TakePending
<1>5. CASE ProcessorTop
  <2>0. ~In("proc")
    BY <1>5 DEF ProcessorTop, In
  <2>1. GoPause => Leaves(lockq) \/ Joins(lockq)
    <3>1. ASSUME lockq = <<>>, DrainThenIdle(<<>>, NumActive, TRUE) PROVE Leaves(lockq) \/ Joins(lockq)
      BY <3>1, HelpersTurn
    <3>2. ppc' = "pauseLock" /\ lockq' = Append(lockq, "proc") => Joins(lockq)
      BY DEF Joins, In, On
    <3> QED BY <3>1, <3>2 DEF GoPause
  <2>2. ppc' = "get" /\ lockq' = lockq => Leaves(lockq)
    BY DEF Leaves, In, On
  <2> QED BY <1>3, <1>4, <1>5, <2>0, <2>1, <2>2, HelpersTurn DEF ProcessorTop
<1>6. CASE ProcessorGet
  BY <1>4, <1>6 DEF ProcessorGet, In
<1>7. CASE ProcessorLocked
  <2>1. Owns("proc")
    BY <1>7 DEF ProcessorLocked
  <2>2. lockq' = Tail(lockq) /\ ppc' \in {"idle", "top", "crashed"} => Leaves(Tail(lockq))
    BY DEF Leaves, In, On
  <2>3. ppc = "lock" /\ ppc' = "wait" /\ lockq' = lockq => Turn("proc")
    BY <1>1, <2>1 DEF Turn, In, On, Callers
  <2> QED BY <1>3, <1>7, <2>1, <2>2, <2>3, HelpersTurn DEF ProcessorLocked
<1>8. CASE ProcessorWaited
  <2>1. Owns("proc")
    BY <1>2, <1>8 DEF ProcessorWaited, On
  <2>2. lockq' = Tail(lockq) /\ ppc' = "crashed" => Leaves(Tail(lockq))
    BY DEF Leaves, In, On
  <2> QED BY <1>3, <1>8, <2>1, <2>2, HelpersTurn DEF ProcessorWaited
<1>9. CASE ProcessorWoken
  <2>1. ~In("proc")
    BY <1>9 DEF ProcessorWoken, In
  <2>2. lockq' = Append(lockq, "proc") /\ lockq # <<>> /\ ppc' \in {"idleLock", "submitLock"}
          => Joins(lockq)
    BY DEF Joins, In, On
  <2>3. lockq' = lockq /\ ppc' \in {"idle", "top"} => Leaves(lockq)
    BY DEF Leaves, In, On
  <2>4. lockq = <<>> /\ CreateTask(Head(held), <<>>) => Leaves(lockq)
    BY HelpersTurn
  <2> QED BY <1>3, <1>9, <2>1, <2>2, <2>3, <2>4 DEF ProcessorWoken
<1> QED BY <1>5, <1>6, <1>7, <1>8, <1>9 DEF Processor, ProcessorNext

\* At first nobody is in the line.
LEMMA LineInit == Init => Line
BY DEF Init, RollouterInit, Line, Callers, NoDup, Members, In, On

\* Every step of the system is a turn of one of them.
LEMMA LineStep == SyncInv /\ Line /\ [Next]_vars => Line'
<1> SUFFICES ASSUME SyncInv, Line, [Next]_vars PROVE Line'
  OBVIOUS
<1>1. CASE UNCHANGED vars
  <2>1. UNCHANGED <<ppc, pausePc, updatePc, resumePc, monitor, lockq, mpc>>
    BY <1>1 DEF vars, rollouterVars, loopVars, callVars, mainVars, procVars
  <2> QED BY <2>1, OthersTurn, TurnKeepsLine DEF Callers
<1>2. {"proc", "pause", "update", "resume", "monitor", "main"} \subseteq Callers
  BY DEF Callers
<1> QED BY <1>1, <1>2, ProcessorTurn, TasksTurn, MainTurn, MonitorTurn, PauseTurn, UpdateTurn, ResumeTurn,
           SyncTurn, TurnKeepsLine DEF Next

\* The asyncio lock of the rollouter: who waits for it is in its line, once; who is
\* suspended inside it is the first of the line, so that no two of the processor,
\* pause, update_param_version and resume are inside it together
\* (fully_async_rollouter.py:193-235, 333-408, 543-622).
THEOREM LineInvariant == Spec => []Line
BY SyncInvariant, LineInit, LineStep, PTL DEF Spec

-----------------------------------------------------------------------------
\* A sample in a task, one that was interrupted or has ended, and a result; no
\* label of theirs is ahead of the rollouter's version.
Labels == 0..version
Part == [id : Samples, start : Labels, end : {-1}]
Full == [id : Samples, start : Labels, end : Labels]
Item == NewSample \cup Part
Outcome == [version : Labels, metrics : BOOLEAN]

\* The queues of the rollouter, the tasks, and what is on the way to them.
RollForms ==
  /\ fed \in 0..DoneItem
  /\ pending \in Seq(1..DoneItem) /\ Len(pending) <= PendingCap
  /\ cancelQ \in Seq(Part)
  /\ resultQ \in Seq(Full)
  /\ ready \subseteq Item /\ IsFiniteSet(ready)
  /\ generating \subseteq Part /\ IsFiniteSet(generating)
  /\ finished \in Nat /\ failed \in Nat
  /\ csample \in Seq(Full) /\ Len(csample) \in {0, 1}

\* The processor: which of its loops it is in, and when it holds a sample.
Submits == \/ ppc \in {"submitLock", "submitIdle", "submitWoken"}
           \/ ppc \in {"lock", "wait"} /\ loop = "limit"

ProcForms ==
  /\ ppc \in {"top", "get", "lock", "wait", "pauseLock", "idle", "idleWoken",
              "idleLock", "submitLock", "submitIdle", "submitWoken", "exited",
              "crashed"}
  /\ loop \in {"none", "drain", "limit", "done"} /\ bound \in BOOLEAN
  /\ loop = "none" <=> ppc \notin {"lock", "wait"}
  /\ held \in Seq(Item) /\ Len(held) \in {0, 1}
  /\ Submits => held # <<>>
  /\ held # <<>> => Submits \/ ppc = "crashed"

\* The message queue, the batch and the results read.
QueueForms ==
  /\ queue \in Seq(Full \cup {Finish})
  /\ running = TRUE
  /\ call \in [{"trainer"} -> {"idle", "waiting", "woken"}]
  /\ reply \in [{"trainer"} -> Full \cup {Finish}]
  /\ batch \in Seq(Full) /\ Len(batch) <= RequiredSamples
  /\ Len(batch) = RequiredSamples <=> tpc = "train"
  /\ trained \subseteq Samples
  /\ local \in 1..TriggerSteps
  /\ val_queue \in Seq(Outcome)
  /\ valData \in Seq(Outcome) /\ Len(valData) \in {0, 1}

\* The other coroutines, the flags and the counts of the rollouter.
OtherForms ==
  /\ consumer \in {"live", "dead"}
  /\ mpc \in {"feed", "proc", "join", "finish", "stop", "stopLock", "end"}
  /\ active \in BOOLEAN
  /\ monitor \in {"sleep", "wakeLock", "topLock", "exit"}
  /\ paused \in BOOLEAN /\ trigger \in BOOLEAN
  /\ staleness \in Nat
  /\ updateArgs.sum \in Nat

Forms == RollForms /\ ProcForms /\ QueueForms /\ OtherForms

rollVars  == <<fed, pending, cancelQ, resultQ, ready, generating, finished, failed, csample>>
queueForm == <<queue, running, call, reply, batch, tpc, trained, local, val_queue, valData>>
otherVars == <<consumer, mpc, active, monitor, paused, trigger, staleness, updateArgs>>

\* What a sample can be depends on the version alone.
LEMMA SameTypes ==
  version' = version => Part' = Part /\ Full' = Full /\ Item' = Item /\ Outcome' = Outcome
BY DEF Part, Full, Item, Outcome, Labels, NewSample

\* Each part of Forms is about its own variables and the version.
LEMMA FormsFrame ==
  ASSUME Forms, version' = version
  PROVE  /\ UNCHANGED rollVars  => RollForms'
         /\ UNCHANGED procVars  => ProcForms'
         /\ UNCHANGED queueForm => QueueForms'
         /\ UNCHANGED otherVars => OtherForms'
<1>1. Part' = Part /\ Full' = Full /\ Item' = Item /\ Outcome' = Outcome
  BY SameTypes
<1>2. UNCHANGED rollVars  => RollForms'
  BY <1>1 DEF Forms, RollForms, rollVars
<1>3. UNCHANGED procVars  => ProcForms'
  BY <1>1 DEF Forms, ProcForms, procVars, Submits
<1>4. UNCHANGED queueForm => QueueForms'
  BY <1>1 DEF Forms, QueueForms, queueForm
<1>5. UNCHANGED otherVars => OtherForms'
  BY DEF Forms, OtherForms, otherVars
<1> QED BY <1>2, <1>3, <1>4, <1>5

\* A place for one sample.
LEMMA OneOrNone ==
  ASSUME NEW S, NEW s \in S
  PROVE  /\ <<s>> \in Seq(S) /\ Len(<<s>>) = 1 /\ <<s>> # <<>> /\ Head(<<s>>) = s
         /\ <<>> \in Seq(S) /\ Len(<<>>) = 0
OBVIOUS

\* One more sample at the end of a queue.
LEMMA PutLast ==
  ASSUME NEW S, NEW q \in Seq(S), NEW s \in S
  PROVE  Append(q, s) \in Seq(S) /\ Len(Append(q, s)) = Len(q) + 1 /\ Append(q, s) # <<>>
<1>1. Append(q, s) \in Seq(S) /\ Len(Append(q, s)) = Len(q) + 1 /\ Len(q) \in Nat
  BY AppendProperties, LenProperties
<1> QED BY <1>1, EmptySeq

\* What the processor's helpers leave behind.
SubmitForms == ready' \subseteq Item /\ IsFiniteSet(ready') /\ ProcForms'

\* create_task with a sample that may be a task's.
LEMMA CreateTyped ==
  ASSUME RollForms, version' = version, NEW STATE s, s \in Item, NEW STATE q,
         CreateTask(s, q), bound' \in BOOLEAN
  PROVE  SubmitForms
<1>0. Item' = Item
  BY SameTypes
<1>1. held' \in {<<s>>, <<>>} /\ held' = <<s>> <=> held' # <<>>
  BY OneOrNone DEF CreateTask
<1>2. held' \in Seq(Item) /\ Len(held') \in {0, 1}
  <2>1. /\ <<s>> \in Seq(Item) /\ <<>> \in Seq(Item)
        /\ Len(<<s>>) = 1 /\ Len(<<>>) = 0
    BY OneOrNone, Zenon
  <2> QED BY <1>1, <2>1, Zenon
<1>3. ready' \in {ready, ready \cup {s}}
  BY DEF CreateTask
<1>4. ready' \subseteq Item /\ IsFiniteSet(ready')
  <2>1. ready \subseteq Item /\ IsFiniteSet(ready)
    BY DEF RollForms
  <2>2. IsFiniteSet(ready \cup {s})
    BY <2>1, FS_AddElement, Zenon
  <2> QED BY <1>3, <2>1, <2>2
<1>5. ProcForms'
  BY <1>0, <1>1, <1>2 DEF CreateTask, ProcForms, Submits
<1> QED BY <1>4, <1>5 DEF SubmitForms

\* The same when the sample waits for the lock or for a resume first.
LEMMA SubmitTyped ==
  ASSUME RollForms, version' = version, NEW STATE s, s \in Item, NEW STATE n, NEW STATE q,
         SubmitSample(s, q, n), bound' \in BOOLEAN
  PROVE  SubmitForms
<1>0. Item' = Item
  BY SameTypes
<1>1. CASE CreateTask(s, q)
  BY <1>1, CreateTyped
<1>2. CASE held' = <<s>> /\ ready' = ready
  <2>1. held' \in Seq(Item) /\ Len(held') = 1 /\ held' # <<>>
    BY <1>2, OneOrNone, Zenon
  <2>2. ProcForms'
    BY <1>0, <1>2, <2>1 DEF SubmitSample, CreateTask, WaitOrQueue, ProcForms, Submits
  <2> QED BY <1>2, <2>2 DEF RollForms, SubmitForms
<1> QED BY <1>1, <1>2 DEF SubmitSample

\* The loops that wait for the tasks to end keep hold of no sample.
LEMMA DrainTyped ==
  ASSUME RollForms, version' = version, NEW STATE n, NEW STATE p, NEW STATE q,
         DrainThenExit(q, n) \/ DrainThenIdle(q, n, p), UNCHANGED <<held, ready>>,
         held = <<>>, bound' \in BOOLEAN
  PROVE  SubmitForms
<1>1. held \in Seq(Item) /\ Len(held) \in {0, 1} /\ Item' = Item
  BY SameTypes
<1>2. ProcForms'
  BY <1>1 DEF DrainThenExit, DrainThenIdle, IdleUntilResumed, WaitOrQueue, ProcForms, Submits
<1> QED BY <1>2 DEF RollForms, SubmitForms

\* What the processor takes from the queues.
LEMMA Taken ==
  ASSUME Forms
  PROVE  /\ pending # <<>> /\ Head(pending) # DoneItem => Fresh(Head(pending)) \in Item
         /\ pending # <<>> => Tail(pending) \in Seq(1..DoneItem) /\ Len(Tail(pending)) <= PendingCap
         /\ cancelQ # <<>> => Head(cancelQ) \in Item /\ Tail(cancelQ) \in Seq(Part)
         /\ held # <<>> => Head(held) \in Item
<1> USE DEF Forms
<1>1. ASSUME pending # <<>>
      PROVE  /\ Head(pending) # DoneItem => Fresh(Head(pending)) \in Item
             /\ Tail(pending) \in Seq(1..DoneItem) /\ Len(Tail(pending)) <= PendingCap
  <2>1. /\ Head(pending) \in 1..DoneItem /\ Tail(pending) \in Seq(1..DoneItem)
        /\ Len(Tail(pending)) = Len(pending) - 1 /\ Len(pending) \in Nat
        /\ Len(pending) <= PendingCap
    BY <1>1, TakeFirst DEF RollForms
  <2>2. Head(pending) # DoneItem => Head(pending) \in Samples
    BY <2>1, RollouterAssumption DEF DoneItem, Samples
  <2> QED BY <2>1, <2>2, RollouterAssumption DEF Fresh, Item, NewSample
<1>2. cancelQ # <<>> => Head(cancelQ) \in Item /\ Tail(cancelQ) \in Seq(Part)
  BY TakeFirst DEF RollForms, Item
<1>3. held # <<>> => Head(held) \in Item
  BY TakeFirst DEF ProcForms
<1> QED BY <1>1, <1>2, <1>3

\* What every step of the processor leaves in the tasks and in its hands.
LEMMA ProcessorSubmits ==
  ASSUME Forms, Line, Processor, version' = version
  PROVE  SubmitForms
<1>0. RollForms /\ bound \in BOOLEAN /\ ready \subseteq Item
      /\ IsFiniteSet(ready) /\ ProcForms
  BY DEF Forms, RollForms, ProcForms
<1>i. Item' = Item
  BY SameTypes
<1>a. ASSUME TakePending, held = <<>> PROVE SubmitForms
  <2>0. pending # <<>> /\ bound' \in BOOLEAN
    BY <1>0, <1>a DEF TakePending
  <2>1. CASE DrainThenExit(lockq, NumActive) /\ UNCHANGED <<held, ready>>
    BY <1>0, <1>a, <2>0, <2>1, DrainTyped
  <2>2. CASE Head(pending) # DoneItem /\ SubmitSample(Fresh(Head(pending)), lockq, NumActive)
    BY <1>0, <2>0, <2>2, SubmitTyped, Taken
  <2> QED BY <1>a, <2>1, <2>2 DEF TakePending
<1>b. ASSUME UNCHANGED <<held, ready, bound>>, held = <<>>, loop' = "none",
             ppc' \in {"top", "get", "idle", "idleLock", "pauseLock", "crashed"}
      PROVE  SubmitForms
  BY <1>0, <1>i, <1>b DEF SubmitForms, ProcForms, Submits
<1>1. CASE ProcessorTop
  <2>0. held = <<>> /\ loop = "none"
    BY <1>0, <1>1 DEF ProcessorTop, ProcForms, Submits
  <2>1. CASE GoPause
    <3>1. CASE lockq = <<>>
      BY <1>0, <2>0, <2>1, <3>1, DrainTyped DEF GoPause
    <3>2. CASE lockq # <<>>
      BY <1>b, <2>0, <2>1, <3>2 DEF GoPause
    <3> QED BY <3>1, <3>2
  <2>2. CASE cancelQ # <<>> /\ SubmitSample(Head(cancelQ), lockq, NumActive) /\ UNCHANGED bound
    BY <1>0, <2>2, SubmitTyped, Taken
  <2>3. CASE TakePending
    BY <1>a, <2>0, <2>3
  <2>4. CASE ppc' = "get" /\ UNCHANGED <<loop, bound, held, ready, lockq>>
    BY <1>b, <2>0, <2>4
  <2> QED BY <1>1, <2>1, <2>2, <2>3, <2>4 DEF ProcessorTop
<1>2. CASE ProcessorGet
  BY <1>0, <1>2, <1>a DEF ProcessorGet, TakePending, ProcForms, Submits
<1>3. CASE ProcessorLocked
  <2>b. bound' = bound
    BY <1>3 DEF ProcessorLocked
  <2>1. CASE ppc = "pauseLock" /\ DrainThenIdle(Tail(lockq), NumActive, TRUE) /\ UNCHANGED <<held, ready>>
    BY <1>0, <2>b, <2>1, DrainTyped DEF ProcForms, Submits
  <2>2. CASE ppc = "submitLock" /\ CreateTask(Head(held), Tail(lockq))
    BY <1>0, <2>b, <2>2, CreateTyped, Taken DEF ProcForms, Submits
  <2>3. CASE ppc = "lock" /\ loop = "drain" /\ IdleUntilResumed(Tail(lockq), paused) /\ UNCHANGED <<held, ready>>
    <3>1. DrainThenIdle(Tail(lockq), 0, paused)
      BY <2>3 DEF DrainThenIdle
    <3> QED BY <1>0, <2>b, <2>3, <3>1, DrainTyped DEF ProcForms, Submits
  <2>4. CASE ppc = "lock" /\ loop = "limit" /\ SubmitSample(Head(held), Tail(lockq), 0)
    BY <1>0, <2>b, <2>4, SubmitTyped, Taken DEF ProcForms, Submits
  <2>5. CASE ppc = "lock" /\ loop = "done" /\ DrainThenExit(Tail(lockq), 0) /\ UNCHANGED <<held, ready>>
    BY <1>0, <2>b, <2>5, DrainTyped DEF ProcForms, Submits
  <2>6. CASE /\ ppc = "lock" /\ ppc' = "crashed" /\ loop' = "none" /\ UNCHANGED <<held, ready>>
    BY <1>0, <1>i, <2>b, <2>6 DEF SubmitForms, ProcForms, Submits
  <2>7. CASE ppc = "lock" /\ ppc' = "wait" /\ UNCHANGED <<held, ready, loop, lockq>>
    BY <1>0, <1>i, <2>b, <2>7 DEF SubmitForms, ProcForms, Submits
  <2>8. CASE /\ ppc = "idleLock" /\ loop' = "none" /\ ppc' \in {"idle", "top"}
             /\ UNCHANGED <<held, ready>>
    BY <1>0, <1>b, <2>b, <2>8 DEF ProcForms, Submits
  <2> QED BY <1>3, <2>1, <2>2, <2>3, <2>4, <2>5, <2>6, <2>7, <2>8 DEF ProcessorLocked
<1>4. CASE ProcessorWaited
  <2>b. bound' = TRUE /\ ppc = "wait"
    BY <1>4 DEF ProcessorWaited
  <2> DEFINE n == Cardinality(ready) + Cardinality(generating)
  <2>1. CASE ppc' = "crashed" /\ loop' = "none" /\ UNCHANGED <<held, ready>>
    BY <1>0, <1>i, <2>b, <2>1 DEF SubmitForms, ProcForms, Submits
  <2>2. CASE loop = "drain" /\ DrainThenIdle(Tail(lockq), n, paused) /\ UNCHANGED <<held, ready>>
    BY <1>0, <2>b, <2>2, DrainTyped DEF ProcForms, Submits
  <2>3. CASE loop = "limit" /\ SubmitSample(Head(held), Tail(lockq), n)
    BY <1>0, <2>b, <2>3, SubmitTyped, Taken DEF ProcForms, Submits
  <2>4. CASE loop = "done" /\ DrainThenExit(Tail(lockq), n) /\ UNCHANGED <<held, ready>>
    BY <1>0, <2>b, <2>4, DrainTyped DEF ProcForms, Submits
  <2> QED BY <1>4, <2>1, <2>2, <2>3, <2>4 DEF ProcessorWaited
<1>5. CASE ProcessorWoken
  <2>b. bound' = bound
    BY <1>5 DEF ProcessorWoken
  <2>1. CASE /\ ppc \in {"idleWoken", "submitWoken"}
             /\ ppc' = (IF ppc = "idleWoken" THEN "idleLock" ELSE "submitLock")
             /\ UNCHANGED <<held, ready, loop>>
    BY <1>0, <1>i, <2>b, <2>1 DEF SubmitForms, ProcForms, Submits
  <2>2. CASE ppc = "idleWoken" /\ ppc' \in {"idle", "top"} /\ UNCHANGED <<held, ready, loop>>
    BY <1>0, <1>i, <2>b, <2>2 DEF SubmitForms, ProcForms, Submits
  <2>3. CASE ppc = "submitWoken" /\ CreateTask(Head(held), <<>>)
    BY <1>0, <2>b, <2>3, CreateTyped, Taken DEF ProcForms, Submits
  <2> QED BY <1>5, <2>1, <2>2, <2>3 DEF ProcessorWoken
<1> QED BY <1>1, <1>2, <1>3, <1>4, <1>5 DEF Processor, ProcessorNext

\* The processor keeps Forms.
LEMMA ProcessorForms ==
  ASSUME Forms, Line, Processor PROVE Forms'
<1>1. UNCHANGED <<version, fed, resultQ, generating, csample>> /\ UNCHANGED queueForm
      /\ UNCHANGED <<consumer, mpc, active, monitor, trigger, updateArgs>>
  BY DEF Processor, ProcessorNext, ProcessorTop, ProcessorGet, ProcessorLocked, ProcessorWaited,
       ProcessorWoken, procFrame, trainerFrame, trainerVars, callVars, queueVars, queueForm, mainVars,
       consumerVars
<1>2. SubmitForms /\ Part' = Part /\ Full' = Full /\ Item' = Item
  BY <1>1, ProcessorSubmits, SameTypes
<1>3. /\ pending' = pending \/ (pending # <<>> /\ pending' = Tail(pending))
      /\ cancelQ' = cancelQ \/ (cancelQ # <<>> /\ cancelQ' = Tail(cancelQ))
      /\ finished' \in {finished, 0} /\ failed' \in {failed, 0}
      /\ paused' \in {paused, TRUE}
      /\ staleness' \in {staleness, staleness + 1}
  BY DEF Processor, ProcessorNext, ProcessorTop, ProcessorGet, ProcessorLocked, ProcessorWaited,
       ProcessorWoken, GoPause, TakePending, CountTaken
<1>4. RollForms'
  <2>1. pending' \in Seq(1..DoneItem) /\ Len(pending') <= PendingCap /\ cancelQ' \in Seq(Part)
    BY <1>3, Taken DEF Forms, RollForms
  <2> QED BY <1>1, <1>2, <1>3, <2>1 DEF Forms, RollForms, SubmitForms
<1>5. OtherForms'
  <2>1. staleness' \in Nat /\ paused' \in BOOLEAN
    <3>1. staleness \in Nat /\ paused \in BOOLEAN
      BY DEF Forms, OtherForms
    <3>2. staleness' \in Nat
      BY <1>3, <3>1
    <3>3. paused' \in BOOLEAN
      BY <1>3, <3>1, Zenon
    <3> QED BY <3>2, <3>3
  <2> QED BY <1>1, <2>1 DEF Forms, OtherForms
<1> QED BY <1>1, <1>2, <1>4, <1>5, FormsFrame DEF Forms, SubmitForms

\* The tasks can be counted.
LEMMA NumActiveNat == RollForms => NumActive \in Nat
BY FS_CardinalityType DEF RollForms, NumActive

\* A task's sample, and what is made of it.
LEMMA LabelTyped ==
  ASSUME SyncInv
  PROVE  /\ \A s \in Item : Labelled(s) \in Part
         /\ \A s \in Part : [s EXCEPT !.end = version] \in Full
<1>1. version \in Labels /\ 0 \in Labels
  BY DEF SyncInv, VersionsInv, Labels
<1>2. ASSUME NEW s \in Item PROVE Labelled(s) \in Part
  <2>1. CASE s \in NewSample
    <3>1. s.start = -1 /\ s.id \in Samples /\ s = [id |-> s.id, start |-> -1, end |-> -1]
      BY <2>1 DEF NewSample
    <3>2. Labelled(s) = [id |-> s.id, start |-> version, end |-> -1]
      BY <3>1 DEF Labelled
    <3> QED BY <1>1, <3>1, <3>2 DEF Part
  <2>2. CASE s \in Part
    <3>1. s.start # -1 /\ s = [id |-> s.id, start |-> s.start, end |-> s.end]
      BY <2>2 DEF Part, Labels
    <3>2. Labelled(s) = s
      BY <3>1 DEF Labelled
    <3> QED BY <2>2, <3>2
  <2> QED BY <2>1, <2>2 DEF Item
<1>3. ASSUME NEW s \in Part PROVE [s EXCEPT !.end = version] \in Full
  BY <1>1 DEF Part, Full
<1> QED BY <1>2, <1>3

\* A task keeps Forms: it labels its start and its end by versions there have been.
LEMMA TasksForms ==
  ASSUME Forms, SyncInv, Tasks PROVE Forms'
<1>1. /\ UNCHANGED <<version, fed, pending, csample>> /\ UNCHANGED queueForm
      /\ UNCHANGED otherVars /\ UNCHANGED procVars
  BY DEF Tasks, TaskStart, TaskFinish, TaskCancel, TaskFail, taskFrame, trainerFrame, trainerVars,
       callVars, queueVars, queueForm, mainVars, consumerVars, otherVars, flagVars
<1>2. Part' = Part /\ Full' = Full /\ Item' = Item
  BY <1>1, SameTypes
<1>0. /\ cancelQ \in Seq(Part) /\ resultQ \in Seq(Full)
      /\ ready \subseteq Item /\ IsFiniteSet(ready)
      /\ generating \subseteq Part /\ IsFiniteSet(generating)
      /\ finished \in Nat /\ failed \in Nat
  BY DEF Forms, RollForms
<1>3. ASSUME NEW s PROVE IsFiniteSet(ready \ {s}) /\ IsFiniteSet(generating \ {s})
                         /\ IsFiniteSet(generating \cup {s})
  BY <1>0, FS_RemoveElement, FS_AddElement, Zenon
<1>4. ASSUME NEW s \in ready, TaskStart(s) PROVE RollForms'
  <2>1. Labelled(s) \in Part
    BY <1>0, <1>4, LabelTyped
  <2>2. Append(cancelQ, Labelled(s)) \in Seq(Part)
    BY <1>0, <2>1, PutLast, Zenon
  <2>3. /\ cancelQ' \in {cancelQ, Append(cancelQ, Labelled(s))}
        /\ ready' = ready \ {s} /\ generating' \in {generating, generating \cup {Labelled(s)}}
        /\ finished' \in {finished, finished + 1} /\ UNCHANGED <<resultQ, failed>>
    BY <1>4 DEF TaskStart, Interrupt
  <2>4. cancelQ' \in Seq(Part)
    BY <1>0, <2>2, <2>3, Zenon
  <2>5. generating' \subseteq Part /\ IsFiniteSet(generating') /\ IsFiniteSet(ready')
    BY <1>0, <1>3, <2>1, <2>3
  <2> QED BY <1>0, <1>1, <1>2, <2>3, <2>4, <2>5 DEF Forms, RollForms
<1>5. ASSUME NEW s \in generating, TaskFinish(s) PROVE RollForms'
  <2>1. [s EXCEPT !.end = version] \in Full
    BY <1>0, <1>5, LabelTyped
  <2>2. Append(resultQ, [s EXCEPT !.end = version]) \in Seq(Full)
    BY <1>0, <2>1, PutLast, Zenon
  <2>3. /\ resultQ' = Append(resultQ, [s EXCEPT !.end = version])
        /\ generating' = generating \ {s} /\ finished' = finished + 1
        /\ UNCHANGED <<cancelQ, ready, failed>>
    BY <1>5 DEF TaskFinish
  <2>4. resultQ' \in Seq(Full) /\ IsFiniteSet(generating') /\ generating' \subseteq Part
    BY <1>0, <1>3, <2>2, <2>3
  <2> QED BY <1>0, <1>1, <1>2, <2>3, <2>4 DEF Forms, RollForms
<1>6. ASSUME NEW s \in generating, TaskCancel(s) PROVE RollForms'
  <2>2. Append(cancelQ, s) \in Seq(Part)
    BY <1>0, <1>6, PutLast, Zenon
  <2>3. /\ cancelQ' = Append(cancelQ, s)
        /\ generating' = generating \ {s} /\ finished' = finished + 1
        /\ UNCHANGED <<resultQ, ready, failed>>
    BY <1>6 DEF TaskCancel, Interrupt
  <2>4. cancelQ' \in Seq(Part) /\ IsFiniteSet(generating') /\ generating' \subseteq Part
    BY <1>0, <1>3, <2>2, <2>3
  <2> QED BY <1>0, <1>1, <1>2, <2>3, <2>4 DEF Forms, RollForms
<1>7. ASSUME NEW s \in generating, TaskFail(s) PROVE RollForms'
  <2>3. /\ generating' = generating \ {s} /\ failed' = failed + 1
        /\ UNCHANGED <<cancelQ, resultQ, ready, finished>>
    BY <1>7 DEF TaskFail
  <2>4. IsFiniteSet(generating') /\ generating' \subseteq Part
    BY <1>0, <1>3, <2>3
  <2> QED BY <1>0, <1>1, <1>2, <2>3, <2>4 DEF Forms, RollForms
<1>8. RollForms'
  BY <1>4, <1>5, <1>6, <1>7 DEF Tasks
<1> QED BY <1>1, <1>8, FormsFrame DEF Forms

\* The feeder keeps Forms: it fills the pending queue up to its size.
LEMMA FeedForms ==
  ASSUME Forms, Feeder PROVE Forms'
<1>1. /\ UNCHANGED <<version, cancelQ, resultQ, ready, generating, finished, failed, csample>>
      /\ UNCHANGED queueForm /\ UNCHANGED otherVars /\ UNCHANGED procVars
  BY DEF Feeder, Feed, trainerFrame, trainerVars, taskVars, callVars, queueVars, queueForm,
         consumerVars, otherVars, flagVars
<1>2. Part' = Part /\ Full' = Full /\ Item' = Item
  BY <1>1, SameTypes
<1> DEFINE room == PendingCap - Len(pending)
           k == IF room < DoneItem - fed THEN room ELSE DoneItem - fed
           more == [i \in 1..k |-> fed + i]
<1>3. fed < DoneItem /\ Len(pending) < PendingCap /\ pending' = pending \o more /\ fed' = fed + k
  BY DEF Feeder, Feed
<1>4. /\ fed \in 0..DoneItem /\ pending \in Seq(1..DoneItem) /\ Len(pending) \in Nat
      /\ PendingCap \in Nat /\ DoneItem \in Nat
  BY RollouterAssumption, LenProperties DEF Forms, RollForms, DoneItem
<1>5. k \in Nat /\ fed + k <= DoneItem /\ Len(pending) + k <= PendingCap
  BY <1>3, <1>4
<1>6. more \in Seq(1..DoneItem) /\ Len(more) = k
  <2> HIDE DEF k
  <2>1. \A i \in 1..k : fed + i \in 1..DoneItem
    BY <1>4, <1>5
  <2> QED BY <1>5, <2>1
<1>7. pending' \in Seq(1..DoneItem) /\ Len(pending') = Len(pending) + k
  <2> HIDE DEF more, k
  <2> QED BY <1>3, <1>4, <1>6, ConcatProperties
<1>8. RollForms'
  <2>1. fed' \in 0..DoneItem /\ Len(pending') <= PendingCap
    <3> HIDE DEF more, k
    <3> QED BY <1>3, <1>4, <1>5, <1>7
  <2> QED BY <1>1, <1>2, <1>7, <2>1 DEF Forms, RollForms
<1> QED BY <1>1, <1>8, FormsFrame DEF Forms

\* The queue has room for one sample at least.
LEMMA TimesPositive == 
  ASSUME NEW a \in Nat \ {0}, NEW b \in Nat \ {0}
  PROVE a * b \in Nat \ {0} /\ a * b >= b
OBVIOUS
\* A quotient of a number that is no smaller than its divisor.
LEMMA DivPositive == 
  ASSUME NEW x \in Nat, NEW d \in Nat \ {0}, x >= d
  PROVE x \div d \in Nat \ {0}
<1>1. x = (d * (x \div d)) + (x % d) /\ x % d \in 0..(d-1) /\ x \div d \in Int
  OBVIOUS
<1>2. ASSUME x \div d <= 0 PROVE FALSE
  <2>1. d * (x \div d) <= 0
    BY <1>1, <1>2
  <2> QED BY <1>1, <2>1
<1> QED BY <1>1, <1>2
\* The maximal queue size the rollouter computes is a positive number.
LEMMA MaxRequiredPositive == MaxRequired \in Nat \ {0}
<1> DEFINE a == RequiredSamples * TriggerSteps
           b == StaleNum + StaleDen
<1>1. a \in Nat \ {0} /\ b \in Nat \ {0} /\ b >= StaleDen /\ StaleDen \in Nat \ {0}
  BY RollouterAssumption, TimesPositive
<1>2. a * b \in Nat \ {0} /\ a * b >= b
  <2> HIDE DEF a, b
  <2> QED BY <1>1, TimesPositive
<1>3. a * b >= StaleDen
  <2> HIDE DEF a, b
  <2> QED BY <1>1, <1>2
<1>4. (a * b) \div StaleDen \in Nat \ {0}
  <2> HIDE DEF a, b
  <2> QED BY <1>1, <1>2, <1>3, DivPositive
<1> QED BY <1>4 DEF MaxRequired, SetMaxRequired

\* put_sample as the two callers use it.
LEMMA PutForms ==
  ASSUME Forms, version' = version, NEW STATE s, s \in Full \cup {Finish}, MQ!PutSample(s),
         UNCHANGED <<batch, tpc, trained, local, valData>>
  PROVE  QueueForms'
<1>1. Full' = Full /\ Outcome' = Outcome
  BY SameTypes
<1>2. /\ queue' = Append(IF MQ!Full THEN Tail(queue) ELSE queue, s)
      /\ call' = MQ!NotifyAll(call) /\ UNCHANGED <<running, reply, val_queue>>
  BY DEF MQ!PutSample, MQ!sideVars
<1>3. queue \in Seq(Full \cup {Finish}) /\ call \in [{"trainer"} -> {"idle", "waiting", "woken"}]
  BY DEF Forms, QueueForms
<1>4. Len(queue) >= MaxRequired => queue # <<>>
  BY MaxRequiredPositive
<1>5. (IF MQ!Full THEN Tail(queue) ELSE queue) \in Seq(Full \cup {Finish})
  BY <1>3, <1>4, TakeFirst DEF MQ!Full
<1>6. queue' \in Seq(Full \cup {Finish})
  BY <1>2, <1>5, PutLast, Zenon
<1>7. call' \in [{"trainer"} -> {"idle", "waiting", "woken"}]
  BY <1>2, <1>3 DEF MQ!NotifyAll
<1> QED BY <1>1, <1>2, <1>6, <1>7 DEF Forms, QueueForms

\* The consumer keeps Forms.
LEMMA ConsumerForms ==
  ASSUME Forms, Consumer PROVE Forms'
<1>1. /\ UNCHANGED <<version, fed, pending, cancelQ, ready, generating, finished, failed>>
      /\ UNCHANGED <<mpc, active, monitor, paused, trigger, staleness, updateArgs>>
      /\ UNCHANGED procVars /\ UNCHANGED <<batch, tpc, trained, local, valData>>
  BY DEF Consumer, ConsumerTake, ConsumerPut, trainerFrame, trainerVars, taskVars, callVars,
         localQueues, mainVars, flagVars
<1>2. Part' = Part /\ Full' = Full /\ Item' = Item
  BY <1>1, SameTypes
<1>0. resultQ \in Seq(Full) /\ csample \in Seq(Full) /\ Len(csample) \in {0, 1}
      /\ consumer \in {"live", "dead"}
  BY DEF Forms, RollForms, OtherForms
<1>3. CASE ConsumerTake
  <2>1. /\ resultQ # <<>> /\ resultQ' = Tail(resultQ) /\ UNCHANGED queueForm
        /\ csample' \in {csample, <<Head(resultQ)>>} /\ consumer' \in {consumer, "dead"}
    BY <1>1, <1>3 DEF ConsumerTake, queueVars, queueForm
  <2>2. Head(resultQ) \in Full /\ Tail(resultQ) \in Seq(Full)
    BY <1>0, <2>1, TakeFirst
  <2>3. <<Head(resultQ)>> \in Seq(Full) /\ Len(<<Head(resultQ)>>) = 1
    BY <2>2, OneOrNone, Zenon
  <2>4. csample' \in Seq(Full) /\ Len(csample') \in {0, 1}
    BY <1>0, <2>1, <2>3
  <2>5. RollForms'
    BY <1>1, <1>2, <2>1, <2>2, <2>4 DEF Forms, RollForms
  <2>6. OtherForms'
    BY <1>0, <1>1, <2>1 DEF Forms, OtherForms
  <2> QED BY <1>1, <2>1, <2>5, <2>6, FormsFrame DEF Forms
<1>4. CASE ConsumerPut
  <2>1. /\ csample # <<>> /\ csample' = <<>> /\ MQ!PutSample(Head(csample))
        /\ UNCHANGED <<resultQ, consumer>>
    BY <1>4 DEF ConsumerPut, localQueues
  <2>2. Head(csample) \in Full
    BY <1>0, <2>1, TakeFirst
  <2>3. QueueForms'
    BY <1>1, <2>1, <2>2, PutForms
  <2>4. RollForms'
    BY <1>1, <1>2, <2>1, OneOrNone DEF Forms, RollForms
  <2>5. UNCHANGED otherVars
    BY <1>1, <2>1 DEF otherVars
  <2> QED BY <1>1, <2>3, <2>4, <2>5, FormsFrame DEF Forms
<1> QED BY <1>3, <1>4 DEF Consumer

\* The main coroutine keeps Forms.
LEMMA MainForms ==
  ASSUME Forms, Main PROVE Forms'
<1>1. /\ UNCHANGED version /\ UNCHANGED rollVars /\ UNCHANGED procVars
      /\ UNCHANGED <<consumer, monitor, paused, trigger, staleness, updateArgs>>
      /\ UNCHANGED <<batch, tpc, trained, local, valData>>
  BY DEF Main, MainStep, MainFinish, MainStop, trainerFrame, trainerVars, taskVars, callVars,
         localQueues, flagVars, consumerVars, rollVars
<1>2. mpc' \in {"feed", "proc", "join", "finish", "stop", "stopLock", "end"} /\ active' \in BOOLEAN
  BY DEF Main, MainStep, MainFinish, MainStop, Forms, OtherForms
<1>3. OtherForms'
  BY <1>1, <1>2 DEF Forms, OtherForms
<1>4. QueueForms'
  <2>1. ASSUME MainFinish PROVE QueueForms'
    <3>1. Finish \in Full \cup {Finish} /\ MQ!PutSample(Finish)
      BY <2>1 DEF MainFinish
    <3> QED BY <1>1, <3>1, PutForms
  <2>2. ASSUME MainStep \/ MainStop PROVE UNCHANGED queueForm
    BY <1>1, <2>2 DEF MainStep, MainStop, queueVars, queueForm
  <2> QED BY <1>1, <2>1, <2>2, FormsFrame DEF Main
<1> QED BY <1>1, <1>3, <1>4, FormsFrame DEF Forms

\* The monitor keeps Forms.
LEMMA MonitorForms ==
  ASSUME Forms, Monitor PROVE Forms'
<1>1. /\ UNCHANGED version /\ UNCHANGED rollVars /\ UNCHANGED queueForm
      /\ UNCHANGED <<loop, bound, held, consumer, mpc, active, trigger, staleness, updateArgs>>
  BY DEF Monitor, MonitorTick, MonitorLocked, monitorFrame, trainerFrame, trainerVars, taskVars, callVars,
         localQueues, consumerVars, mainVars, queueVars, queueForm, rollVars
<1>2. /\ monitor' \in {"sleep", "wakeLock", "topLock", "exit"}
      /\ paused' = paused \/ paused' = FALSE
      /\ ppc' = ppc \/ ppc' = Notified
  BY DEF Monitor, MonitorTick, MonitorLocked, Unpause, MonitorTop
<1>3. ProcForms'
  <2>1. Item' = Item
    BY <1>1, SameTypes
  <2> QED BY <1>1, <1>2, <2>1 DEF Forms, ProcForms, Submits, Notified
<1>4. OtherForms'
  BY <1>1, <1>2 DEF Forms, OtherForms
<1> QED BY <1>1, <1>3, <1>4, FormsFrame DEF Forms

\* pause keeps Forms.
LEMMA PauseForms ==
  ASSUME Forms, Pause PROVE Forms'
<1>1. /\ UNCHANGED version /\ UNCHANGED procVars /\ UNCHANGED queueForm
      /\ UNCHANGED <<consumer, mpc, active, monitor, staleness, updateArgs>>
      /\ UNCHANGED <<fed, pending, cancelQ, resultQ, ready, generating, csample>>
  BY DEF Pause, PauseNext, PauseBegin, PauseCancel, PauseGather, PauseEnd, callFrame, flagVars,
         trainerFrame, trainerVars, mainVars, localQueues, consumerVars, queueVars, queueForm, procVars
<1>2. /\ finished' \in {finished, 0} /\ failed' \in {failed, 0}
      /\ paused' = paused \/ paused' = TRUE
      /\ trigger' = trigger \/ trigger' = FALSE
  BY DEF Pause, PauseNext, PauseBegin, PauseCancel, PauseGather, PauseEnd, flagVars
<1>3. RollForms'
  <2>1. Part' = Part /\ Full' = Full /\ Item' = Item
    BY <1>1, SameTypes
  <2> QED BY <1>1, <1>2, <2>1 DEF Forms, RollForms
<1>4. OtherForms'
  BY <1>1, <1>2 DEF Forms, OtherForms
<1> QED BY <1>1, <1>3, <1>4, FormsFrame DEF Forms

\* resume keeps Forms.
LEMMA ResumeForms ==
  ASSUME Forms, Resume PROVE Forms'
<1>1. /\ UNCHANGED version /\ UNCHANGED rollVars /\ UNCHANGED queueForm
      /\ UNCHANGED <<loop, bound, held, consumer, mpc, active, monitor, staleness, updateArgs>>
  BY DEF Resume, ResumeNext, ResumeBegin, ResumeServers, callFrame, flagVars, trainerFrame, trainerVars,
         mainVars, localQueues, consumerVars, queueVars, queueForm, procVars, rollVars
<1>2. /\ paused' = paused \/ paused' = FALSE
      /\ trigger' = trigger \/ trigger' = TRUE
      /\ ppc' = ppc \/ ppc' = Notified
  BY DEF Resume, ResumeNext, ResumeBegin, ResumeServers, flagVars
<1>3. ProcForms'
  <2>1. Item' = Item
    BY <1>1, SameTypes
  <2> QED BY <1>1, <1>2, <2>1 DEF Forms, ProcForms, Submits, Notified
<1>4. OtherForms'
  BY <1>1, <1>2 DEF Forms, OtherForms
<1> QED BY <1>1, <1>3, <1>4, FormsFrame DEF Forms

\* A new version widens what a sample may be.
LEMMA GrowTypes ==
  ASSUME SyncInv, SyncInv', version <= version'
  PROVE  Part \subseteq Part' /\ Full \subseteq Full' /\ Item \subseteq Item' /\ Outcome \subseteq Outcome'
<1>1. Labels \subseteq Labels'
  BY DEF SyncInv, VersionsInv, Labels
<1> QED BY <1>1 DEF Part, Full, Item, Outcome, NewSample

\* update_param_version keeps Forms: the label of a sample only grows behind the version.
LEMMA UpdateForms ==
  ASSUME Forms, SyncInv, Update PROVE Forms'
<1>0. /\ SyncInv' /\ version <= version'
  <2>1. SyncInv' /\ (version' = version \/ (version < weights /\ version' = weights))
    BY UpdateSync
  <2>2. version \in Nat /\ weights \in Nat
    BY DEF SyncInv, VersionsInv
  <2> QED BY <2>1, <2>2
<1>1. /\ UNCHANGED rollVars /\ UNCHANGED procVars
      /\ UNCHANGED <<queue, running, call, reply, batch, tpc, trained, local, valData>>
      /\ UNCHANGED <<consumer, mpc, active, monitor, paused, trigger>>
  BY DEF Update, UpdateNext, UpdateBegin, UpdateMeasure, UpdateAssign, UpdateEnd, callFrame, flagVars,
         trainerFrame, trainerVars, mainVars, localQueues, consumerVars, queueVars, procVars, rollVars,
         MQ!PutValidate, MQ!counterVars, MQ!getVars
<1>2. Part \subseteq Part' /\ Full \subseteq Full' /\ Item \subseteq Item' /\ Outcome \subseteq Outcome'
  BY <1>0, GrowTypes
<1>3. RollForms'
  <2>1. cancelQ \in Seq(Part') /\ resultQ \in Seq(Full') /\ csample \in Seq(Full')
    BY <1>2, SeqMonotonic DEF Forms, RollForms
  <2> QED BY <1>1, <1>2, <2>1 DEF Forms, RollForms, rollVars
<1>4. ProcForms'
  <2>1. held \in Seq(Item')
    BY <1>2, SeqMonotonic DEF Forms, ProcForms
  <2> QED BY <1>1, <2>1 DEF Forms, ProcForms, procVars, Submits
<1>5. val_queue' \in Seq(Outcome')
  <2>1. val_queue \in Seq(Outcome')
    BY <1>2, SeqMonotonic DEF Forms, QueueForms
  <2>2. \/ val_queue' = val_queue
        \/ \E m \in BOOLEAN :
             /\ val_queue' = Append(val_queue, [version |-> version, metrics |-> m])
             /\ version' = version
    BY UpdateSync
  <2>3. ASSUME NEW m \in BOOLEAN, version' = version
        PROVE  [version |-> version, metrics |-> m] \in Outcome'
    BY <1>0, <2>3 DEF SyncInv, VersionsInv, Outcome, Labels
  <2>4. ASSUME NEW m \in BOOLEAN, version' = version
        PROVE  Append(val_queue, [version |-> version, metrics |-> m]) \in Seq(Outcome')
    BY <2>1, <2>3, <2>4, PutLast, Zenon
  <2> QED BY <2>1, <2>2, <2>4
<1>6. QueueForms'
  <2>1. queue \in Seq(Full' \cup {Finish}) /\ batch \in Seq(Full') /\ valData \in Seq(Outcome')
    BY <1>2, SeqMonotonic DEF Forms, QueueForms
  <2>2. reply \in [{"trainer"} -> Full' \cup {Finish}]
    BY <1>2 DEF Forms, QueueForms
  <2> QED BY <1>1, <1>5, <2>1, <2>2 DEF Forms, QueueForms
<1>7. OtherForms'
  <2>1. NumActive \in Nat /\ Len(resultQ) \in Nat /\ Len(cancelQ) \in Nat /\ Len(queue) \in Nat
    BY NumActiveNat, LenProperties DEF Forms, RollForms, QueueForms
  <2>2. /\ updateArgs.sum \in Nat /\ staleness \in Nat
        /\ DOMAIN updateArgs = {"version", "validate", "sum"}
    BY DEF Forms, OtherForms, SyncInv, VersionsInv
  <2>3. \/ updateArgs' = updateArgs
        \/ updateArgs' = [updateArgs EXCEPT !.sum = NumActive + Len(resultQ) + Len(cancelQ)]
        \/ updateArgs' = [updateArgs EXCEPT !.sum = @ + Len(queue)]
        \/ updateArgs' = [updateArgs EXCEPT !.sum = 0]
    BY DEF Update, UpdateNext, UpdateBegin, UpdateMeasure, UpdateAssign, UpdateEnd
  <2>4. staleness' \in {staleness, updateArgs.sum}
    BY DEF Update, UpdateNext, UpdateBegin, UpdateMeasure, UpdateAssign, UpdateEnd, flagVars
  <2>5. updateArgs'.sum \in Nat
    BY <2>1, <2>2, <2>3
  <2>6. staleness' \in Nat
    BY <2>2, <2>4
  <2> QED BY <1>1, <2>5, <2>6 DEF Forms, OtherForms
<1> QED BY <1>3, <1>4, <1>6, <1>7 DEF Forms

\* The trainer's get_sample keeps Forms.
LEMMA GetForms ==
  ASSUME Forms, TrainerGet PROVE Forms'
<1>1. /\ UNCHANGED <<version, trained, local, valData, val_queue, running>>
      /\ UNCHANGED rollVars /\ UNCHANGED procVars /\ UNCHANGED otherVars
      /\ tpc = "collect"
  BY DEF TrainerGet, rollouterVars, loopVars, mainVars, localQueues, taskVars, consumerVars, flagVars,
         callVars, rollVars, procVars, otherVars, MQ!GetSample, MQ!GetResume, MQ!TakeOrWait,
         MQ!sideVars
<1>2. Full' = Full /\ Outcome' = Outcome
  BY <1>1, SameTypes
<1>0. /\ queue \in Seq(Full \cup {Finish}) /\ batch \in Seq(Full) /\ Len(batch) < RequiredSamples
      /\ call \in [{"trainer"} -> {"idle", "waiting", "woken"}]
      /\ reply \in [{"trainer"} -> Full \cup {Finish}] /\ running = TRUE
      /\ RequiredSamples \in Nat /\ Len(batch) \in Nat
  BY <1>1, RollouterAssumption, LenProperties DEF Forms, QueueForms
<1>3. CASE queue # <<>> /\ queue' = Tail(queue) /\ reply' = [reply EXCEPT !["trainer"] = Head(queue)]
           /\ call' = [call EXCEPT !["trainer"] = "idle"] /\ Collected
  <2>1. Head(queue) \in Full \cup {Finish} /\ Tail(queue) \in Seq(Full \cup {Finish})
    BY <1>0, <1>3, TakeFirst
  <2>2. /\ reply'["trainer"] = Head(queue)
        /\ reply' \in [{"trainer"} -> Full \cup {Finish}]
        /\ call' \in [{"trainer"} -> {"idle", "waiting", "woken"}]
    BY <1>0, <1>3, <2>1
  <2>3. CASE Head(queue) = Finish
    <3>1. tpc' = "final" /\ batch' = batch
      BY <1>3, <2>2, <2>3 DEF Collected
    <3> QED BY <1>0, <1>1, <1>2, <1>3, <2>1, <2>2, <3>1, FormsFrame DEF Forms, QueueForms
  <2>4. CASE Head(queue) # Finish
    <3>1. /\ batch' = Append(batch, Head(queue))
          /\ tpc' = IF Len(batch) + 1 < RequiredSamples THEN "collect" ELSE "train"
      BY <1>3, <2>2, <2>4 DEF Collected
    <3>2. Head(queue) \in Full
      BY <2>1, <2>4
    <3>3. batch' \in Seq(Full) /\ Len(batch') = Len(batch) + 1
      BY <1>0, <3>1, <3>2, PutLast, Zenon
    <3>4. Len(batch') <= RequiredSamples /\ (Len(batch') = RequiredSamples <=> tpc' = "train")
      BY <1>0, <3>1, <3>3
    <3> QED BY <1>0, <1>1, <1>2, <1>3, <2>1, <2>2, <3>3, <3>4, FormsFrame DEF Forms, QueueForms
  <2> QED BY <2>3, <2>4
<1>4. CASE UNCHANGED <<queue, reply, batch, tpc>> /\ call' = [call EXCEPT !["trainer"] = "waiting"]
  <2>1. call' \in [{"trainer"} -> {"idle", "waiting", "woken"}]
    BY <1>0, <1>4
  <2> QED BY <1>0, <1>1, <1>2, <1>4, <2>1, FormsFrame DEF Forms, QueueForms
<1> QED
  <2>1. MQ!TakeOrWait("trainer")
    BY DEF TrainerGet, MQ!GetSample, MQ!GetResume
  <2>2. IF call'["trainer"] = "idle" THEN Collected ELSE UNCHANGED <<tpc, batch>>
    BY DEF TrainerGet
  <2>3. ASSUME call' = [call EXCEPT !["trainer"] = "waiting"] PROVE call'["trainer"] = "waiting"
    BY <1>0, <2>3
  <2>4. ASSUME call' = [call EXCEPT !["trainer"] = "idle"] PROVE call'["trainer"] = "idle"
    BY <1>0, <2>4
  <2> QED BY <1>0, <1>3, <1>4, <2>1, <2>2, <2>3, <2>4 DEF MQ!TakeOrWait, MQ!Rest, MQ!Oldest

\* The steps of the trainer that leave the message queue and the batch alone.
LEMMA SteadyForms ==
  ASSUME Forms, UNCHANGED <<version, local>>, UNCHANGED rollVars, UNCHANGED procVars,
         UNCHANGED <<consumer, mpc, active, monitor, paused, trigger, staleness>>,
         UNCHANGED <<queue, running, call, reply, batch, trained>>,
         tpc # "train", tpc' # "train",
         updateArgs' = updateArgs \/ updateArgs'.sum = 0,
         \/ UNCHANGED <<val_queue, valData>>
         \/ val_queue = <<>> /\ valData' = <<>> /\ val_queue' = val_queue
         \/ val_queue # <<>> /\ val_queue' = Tail(val_queue) /\ valData' = <<Head(val_queue)>>
  PROVE  Forms'
<1>1. Full' = Full /\ Outcome' = Outcome
  BY SameTypes
<1>2. val_queue \in Seq(Outcome) /\ valData \in Seq(Outcome) /\ Len(valData) \in {0, 1}
  BY DEF Forms, QueueForms
<1>3. ASSUME val_queue # <<>>
      PROVE  /\ Tail(val_queue) \in Seq(Outcome) /\ <<Head(val_queue)>> \in Seq(Outcome)
             /\ Len(<<Head(val_queue)>>) = 1
  <2>1. Head(val_queue) \in Outcome /\ Tail(val_queue) \in Seq(Outcome)
    BY <1>2, <1>3, TakeFirst
  <2> QED BY <2>1, OneOrNone, Zenon
<1>4. <<>> \in Seq(Outcome) /\ Len(<<>>) = 0
  BY EmptySeq
<1>5. val_queue' \in Seq(Outcome) /\ valData' \in Seq(Outcome) /\ Len(valData') \in {0, 1}
  BY <1>2, <1>3, <1>4
<1>6. QueueForms'
  BY <1>1, <1>5 DEF Forms, QueueForms
<1>7. OtherForms'
  BY DEF Forms, OtherForms
<1> QED BY <1>6, <1>7, FormsFrame DEF Forms

\* The trainer keeps Forms.
LEMMA TrainerForms ==
  ASSUME Forms, TrainerNext PROVE Forms'
<1>1. UNCHANGED version /\ UNCHANGED rollVars /\ UNCHANGED procVars
      /\ UNCHANGED <<consumer, mpc, active, monitor, paused, trigger, staleness>>
  BY DEF TrainerNext, TrainerGet, TrainerStep, SyncPause, SyncQueue, SyncWeights, TrainerGetValidate,
         TrainerFinal, TrainerLastValid, rollouterVars, loopVars, mainVars, localQueues, taskVars,
         consumerVars, flagVars, rollVars, procVars
<1>2. CASE TrainerGet
  BY <1>2, GetForms
<1>3. CASE TrainerStep
  <2>1. /\ UNCHANGED queueVars /\ UNCHANGED <<valData, updateArgs>>
        /\ tpc = "train" /\ tpc' \in {"getval", "waitvalid"} /\ batch' = <<>>
        /\ trained' = trained \cup {batch[i].id : i \in DOMAIN batch}
        /\ \/ local < TriggerSteps /\ local' = local + 1
           \/ local' = 1
    BY <1>3 DEF TrainerStep, rollouterVars, callVars
  <2>2. {batch[i].id : i \in DOMAIN batch} \subseteq Samples /\ trained \subseteq Samples
    <3>1. batch \in Seq(Full)
      BY DEF Forms, QueueForms
    <3>2. \A i \in DOMAIN batch : batch[i] \in Full
      BY <3>1, LenProperties, ElementOfSeq
    <3> QED BY <3>2 DEF Forms, QueueForms, Full
  <2>3. local' \in 1..TriggerSteps
    BY <2>1, RollouterAssumption DEF Forms, QueueForms
  <2>4. <<>> \in Seq(Full) /\ Len(<<>>) = 0
    BY EmptySeq
  <2>5. Full' = Full /\ Outcome' = Outcome
    BY <1>1, SameTypes
  <2>6. trained' \subseteq Samples
    BY <2>1, <2>2
  <2>7. QueueForms'
    BY <2>1, <2>3, <2>4, <2>5, <2>6, RollouterAssumption DEF Forms, QueueForms, queueVars
  <2>8. UNCHANGED otherVars
    BY <1>1, <2>1 DEF otherVars
  <2> QED BY <1>1, <2>7, <2>8, FormsFrame DEF Forms
<1>4. CASE SyncPause
  <2>1. /\ UNCHANGED queueVars /\ UNCHANGED <<local, batch, trained, valData, updateArgs>>
        /\ tpc = "waitvalid" /\ tpc' = "pausing"
    BY <1>4 DEF SyncPause
  <2> QED BY <1>1, <2>1, SteadyForms DEF queueVars
<1>5. CASE SyncQueue
  <2>1. /\ UNCHANGED <<queue, running, call, reply, val_queue>>
        /\ UNCHANGED <<local, batch, trained, valData, updateArgs>>
        /\ tpc = "pausing" /\ tpc' = "transfer"
    BY <1>5 DEF SyncQueue, MQ!UpdateParamVersion, MQ!getVars
  <2> QED BY <1>1, <2>1, SteadyForms
<1>6. CASE SyncWeights
  <2>1. /\ UNCHANGED queueVars /\ UNCHANGED <<local, batch, trained, valData>>
        /\ updateArgs'.sum = 0 /\ tpc = "transfer" /\ tpc' \in {"lastvalid", "getval"}
    BY <1>6 DEF SyncWeights
  <2> QED BY <1>1, <2>1, SteadyForms DEF queueVars
<1>7. CASE TrainerFinal
  <2>1. /\ UNCHANGED queueVars /\ UNCHANGED <<batch, trained, valData, updateArgs>>
        /\ local' \in {local, 1} /\ tpc = "final" /\ tpc' \in {"waitvalid", "done"}
    BY <1>7 DEF TrainerFinal, rollouterVars, callVars
  <2>2. local' \in 1..TriggerSteps
    BY <2>1, RollouterAssumption DEF Forms, QueueForms
  <2>3. Full' = Full /\ Outcome' = Outcome
    BY <1>1, SameTypes
  <2>4. QueueForms'
    BY <2>1, <2>2, <2>3 DEF Forms, QueueForms, queueVars
  <2>5. UNCHANGED otherVars
    BY <1>1, <2>1 DEF otherVars
  <2> QED BY <1>1, <2>4, <2>5, FormsFrame DEF Forms
<1>8. CASE TrainerGetValidate \/ TrainerLastValid
  <2>1. /\ ReadValidation /\ UNCHANGED <<local, batch, trained, updateArgs>>
        /\ tpc \in {"getval", "lastvalid"} /\ tpc' \in {"collect", "done"}
    BY <1>8 DEF TrainerGetValidate, TrainerLastValid, rollouterVars, callVars
  <2>2. /\ UNCHANGED <<queue, running, call, reply>>
        /\ \/ val_queue = <<>> /\ valData' = <<>> /\ val_queue' = val_queue
           \/ val_queue # <<>> /\ val_queue' = Tail(val_queue) /\ valData' = <<Head(val_queue)>>
    BY <2>1 DEF ReadValidation, queueVars, MQ!GetValidate, MQ!getVars
  <2> QED BY <1>1, <2>1, <2>2, SteadyForms
<1> QED BY <1>2, <1>3, <1>4, <1>5, <1>6, <1>7, <1>8 DEF TrainerNext

\* At first everything is empty.
LEMMA FormsInit == Init => Forms
<1> SUFFICES ASSUME Init PROVE Forms
  OBVIOUS
<1>1. fed \in 0..DoneItem /\ fed <= PendingCap /\ fed \in Nat
  BY RollouterAssumption DEF Init, RollouterInit, DoneItem
<1>2. pending \in Seq(1..DoneItem) /\ Len(pending) = fed
  <2>1. pending = [i \in 1..fed |-> i]
    BY DEF Init, RollouterInit
  <2>2. \A i \in 1..fed : i \in 1..DoneItem
    BY <1>1, RollouterAssumption DEF DoneItem
  <2>3. [i \in 1..fed |-> i] \in Seq(1..DoneItem) /\ Len([i \in 1..fed |-> i]) = fed
    BY <1>1, <2>2
  <2> QED BY <2>1, <2>3
<1>3. RollForms
  BY <1>1, <1>2, EmptySeq, FS_EmptySet DEF Init, RollouterInit, RollForms
<1>4. ProcForms
  BY EmptySeq DEF Init, RollouterInit, ProcForms, Submits
<1>5. val_queue \in Seq(Outcome)
  <2>1. PICK m \in BOOLEAN : val_queue = <<[version |-> 0, metrics |-> m]>>
    BY FullyAsyncAssumption DEF Init
  <2>2. [version |-> 0, metrics |-> m] \in Outcome
    BY DEF Init, RollouterInit, Outcome, Labels
  <2> QED BY <2>1, <2>2, OneOrNone
<1>6. QueueForms
  BY <1>5, EmptySeq, RollouterAssumption DEF Init, TrainerInit, QueueForms
<1>7. OtherForms
  BY DEF Init, RollouterInit, OtherForms
<1> QED BY <1>3, <1>4, <1>6, <1>7 DEF Forms

\* Every step of the system keeps Forms.
LEMMA FormsStep == SyncInv /\ Line /\ Forms /\ [Next]_vars => Forms'
<1> SUFFICES ASSUME SyncInv, Line, Forms, [Next]_vars PROVE Forms'
  OBVIOUS
<1>1. CASE UNCHANGED vars
  <2>1. UNCHANGED version /\ UNCHANGED rollVars /\ UNCHANGED procVars /\ UNCHANGED queueForm
        /\ UNCHANGED otherVars
    BY <1>1 DEF vars, rollouterVars, loopVars, mainVars, localQueues, taskVars, procVars, consumerVars,
         flagVars, callVars, trainerVars, queueVars, rollVars, queueForm, otherVars
  <2> QED BY <2>1, FormsFrame DEF Forms
<1> QED BY <1>1, ProcessorForms, TasksForms, FeedForms, ConsumerForms, MainForms, MonitorForms, PauseForms,
           UpdateForms, ResumeForms, TrainerForms DEF Next

\* What every queue, task and counter of the system can hold; no sample carries a
\* label ahead of the rollouter's version.
THEOREM FormsInvariant == Spec => []Forms
BY SyncInvariant, LineInvariant, FormsInit, FormsStep, PTL DEF Spec

-----------------------------------------------------------------------------
\* The tasks, and the task that is about to be created.
Concurrency ==
  /\ NumActive <= MaxConcurrent
  /\ ppc \in {"submitLock", "submitIdle", "submitWoken"} => NumActive < MaxConcurrent

\* The limit of concurrent tasks is a positive number.
LEMMA MaxConcurrentNat == MaxConcurrent \in Nat \ {0}
BY RollouterAssumption, MaxRequiredPositive DEF MaxConcurrent

\* Adding to a finite set and taking out of it.
LEMMA OneMore ==
  ASSUME NEW S, IsFiniteSet(S), NEW x
  PROVE  /\ Cardinality(S \cup {x}) \in Nat /\ Cardinality(S) \in Nat
         /\ Cardinality(S \cup {x}) <= Cardinality(S) + 1
         /\ x \in S => Cardinality(S \ {x}) = Cardinality(S) - 1
<1>1. Cardinality(S) \in Nat /\ Cardinality(S \cup {x}) = IF x \in S THEN Cardinality(S) ELSE Cardinality(S) + 1
  BY FS_AddElement, FS_CardinalityType
<1>2. x \in S => Cardinality(S \ {x}) = Cardinality(S) - 1
  BY FS_RemoveElement
<1> QED BY <1>1, <1>2

\* A step that does not create a task only makes the tasks fewer.
LEMMA FewerTasks ==
  ASSUME Concurrency, Forms, Forms', NumActive' <= NumActive,
         ppc' \in {"submitLock", "submitIdle", "submitWoken"}
           => ppc \in {"submitLock", "submitIdle", "submitWoken"}
  PROVE  Concurrency'
<1>1. NumActive \in Nat /\ NumActive' \in Nat /\ MaxConcurrent \in Nat
  <2>1. /\ Cardinality(ready') \in Nat /\ Cardinality(generating') \in Nat
        /\ finished' \in Nat /\ failed' \in Nat
    BY FS_CardinalityType DEF Forms, RollForms
  <2>2. NumActive' \in Nat
    BY <2>1 DEF NumActive
  <2> QED BY <2>2, NumActiveNat, MaxConcurrentNat DEF Forms
<1>2. MaxConcurrent' = MaxConcurrent
  BY DEF MaxConcurrent, MaxRequired, SetMaxRequired
<1> QED BY <1>1, <1>2 DEF Concurrency

\* A task that is created when the others are below the limit.
LEMMA CreateCounts ==
  ASSUME Forms, Forms', NEW STATE s, NEW STATE q, CreateTask(s, q), UNCHANGED generating,
         Cardinality(ready) + Cardinality(generating) + finished' + failed' < MaxConcurrent
  PROVE  Concurrency'
<1>1. /\ Cardinality(ready \cup {s}) \in Nat /\ Cardinality(ready) \in Nat
      /\ Cardinality(ready \cup {s}) <= Cardinality(ready) + 1
      /\ Cardinality(generating) \in Nat /\ finished' \in Nat /\ failed' \in Nat
      /\ MaxConcurrent \in Nat
  BY OneMore, MaxConcurrentNat, FS_CardinalityType DEF Forms, RollForms
<1>2. \/ ppc' = "submitIdle" /\ ready' = ready
      \/ ppc' = "top" /\ ready' = ready \cup {s}
  BY DEF CreateTask
<1>3. MaxConcurrent' = MaxConcurrent
  BY DEF MaxConcurrent, MaxRequired, SetMaxRequired
<1>4. CASE ppc' = "submitIdle" /\ ready' = ready
  <2>1. NumActive' < MaxConcurrent
    BY <1>4 DEF NumActive
  <2>2. NumActive' \in Nat
    BY <1>1, <1>4 DEF NumActive
  <2> QED BY <1>1, <1>3, <2>1, <2>2 DEF Concurrency
<1>5. CASE ppc' = "top" /\ ready' = ready \cup {s}
  <2>1. NumActive' <= MaxConcurrent
    BY <1>1, <1>5 DEF NumActive
  <2> QED BY <1>3, <1>5, <2>1 DEF Concurrency
<1> QED BY <1>2, <1>4, <1>5

\* The processor creates a task only after it has counted the others below the limit.
LEMMA SubmitCounts ==
  ASSUME Concurrency, Forms, Forms', NEW STATE s, NEW STATE q, NEW STATE n, SubmitSample(s, q, n),
         UNCHANGED generating,
         n = Cardinality(ready) + Cardinality(generating) + finished' + failed',
         n <= MaxConcurrent
  PROVE  Concurrency'
<1>0. n \in Nat /\ MaxConcurrent \in Nat /\ MaxConcurrent' = MaxConcurrent
  <2>1. Cardinality(ready) \in Nat /\ Cardinality(generating) \in Nat /\ finished' \in Nat /\ failed' \in Nat
    BY FS_CardinalityType DEF Forms, RollForms
  <2> QED BY <2>1, MaxConcurrentNat DEF MaxConcurrent, MaxRequired, SetMaxRequired
<1>1. CASE ~AtLimit(n) /\ CreateTask(s, q)
  BY <1>0, <1>1, CreateCounts DEF AtLimit
<1>2. CASE AtLimit(n) /\ WaitOrQueue("limit", q) /\ UNCHANGED ready
  <2>1. NumActive' = n /\ ppc' \in {"lock", "wait"}
    BY <1>2 DEF NumActive, WaitOrQueue
  <2> QED BY <1>0, <2>1 DEF Concurrency
<1>3. CASE ~AtLimit(n) /\ ppc' = "submitLock" /\ UNCHANGED ready
  <2>1. NumActive' = n /\ n < MaxConcurrent
    BY <1>0, <1>3 DEF NumActive, AtLimit
  <2> QED BY <1>0, <2>1 DEF Concurrency
<1> QED BY <1>1, <1>2, <1>3 DEF SubmitSample

\* The ways the four counts change without a task being created.
LEMMA SumBelow ==
  ASSUME NEW a \in Nat, NEW b \in Nat, NEW c \in Nat, NEW d \in Nat,
         NEW a1 \in Nat, NEW b1 \in Nat, NEW c1 \in Nat, NEW d1 \in Nat,
         \/ a1 = a /\ b1 = b /\ c1 <= c /\ d1 <= d
         \/ a1 = a - 1 /\ b1 <= b + 1 /\ c1 = c /\ d1 = d
         \/ a1 = a - 1 /\ b1 = b /\ c1 = c + 1 /\ d1 = d
         \/ a1 = a /\ b1 = b - 1 /\ c1 = c + 1 /\ d1 = d
         \/ a1 = a /\ b1 = b - 1 /\ c1 = c /\ d1 = d + 1
  PROVE  a1 + b1 + c1 + d1 <= a + b + c + d
OBVIOUS

\* With the same tasks to run, and none of the ended ones added.
LEMMA SameTasks ==
  ASSUME Forms, Forms', UNCHANGED <<ready, generating>>,
         finished' = finished \/ finished' = 0, failed' = failed \/ failed' = 0
  PROVE  NumActive' <= NumActive
<1> DEFINE a == Cardinality(ready)
           b == Cardinality(generating)
<1>1. a \in Nat /\ b \in Nat /\ finished \in Nat /\ failed \in Nat
  BY FS_CardinalityType DEF Forms, RollForms
<1>2. finished' \in Nat /\ failed' \in Nat /\ finished' <= finished /\ failed' <= failed
  BY <1>1
<1>3. NumActive' = a + b + finished' + failed' /\ NumActive = a + b + finished + failed
  BY DEF NumActive
<1> HIDE DEF a, b
<1>4. a + b + finished' + failed' <= a + b + finished + failed
  BY <1>1, <1>2, SumBelow, Zenon
<1> QED BY <1>3, <1>4, Zenon

\* The processor keeps to the limit.
LEMMA ProcessorCounts ==
  ASSUME Concurrency, Forms, Forms', Processor PROVE Concurrency'
<1>0. /\ UNCHANGED generating
      /\ NumActive = Cardinality(ready) + Cardinality(generating) + finished + failed
      /\ Cardinality(ready) \in Nat /\ Cardinality(generating) \in Nat
      /\ finished \in Nat /\ failed \in Nat /\ NumActive \in Nat /\ NumActive <= MaxConcurrent
      /\ MaxConcurrent \in Nat
  <2>1. UNCHANGED generating
    BY DEF Processor, ProcessorNext, ProcessorTop, ProcessorGet, ProcessorLocked, ProcessorWaited,
           ProcessorWoken, procFrame
  <2>2. Cardinality(ready) \in Nat /\ Cardinality(generating) \in Nat /\ finished \in Nat /\ failed \in Nat
    BY FS_CardinalityType DEF Forms, RollForms
  <2> QED BY <2>1, <2>2, MaxConcurrentNat, NumActiveNat DEF NumActive, Concurrency, Forms
<1>a. ASSUME UNCHANGED <<ready, finished, failed>> \/ (UNCHANGED ready /\ finished' = 0 /\ failed' = 0),
             ppc' \notin {"submitLock", "submitIdle", "submitWoken"}
      PROVE  Concurrency'
  BY <1>0, <1>a, SameTasks, FewerTasks
<1>h. ASSUME NEW STATE q, NEW STATE n, NEW STATE p, DrainThenExit(q, n) \/ DrainThenIdle(q, n, p)
      PROVE  ppc' \notin {"submitLock", "submitIdle", "submitWoken"}
  BY <1>h DEF DrainThenExit, DrainThenIdle, IdleUntilResumed, WaitOrQueue
<1>b. ASSUME TakePending, UNCHANGED <<finished, failed>> PROVE Concurrency'
  <2>1. CASE DrainThenExit(lockq, NumActive) /\ UNCHANGED ready
    BY <1>a, <1>b, <1>h, <2>1
  <2>2. CASE SubmitSample(Fresh(Head(pending)), lockq, NumActive)
    BY <1>0, <1>b, <2>2, SubmitCounts
  <2> QED BY <1>b, <2>1, <2>2 DEF TakePending
<1>1. CASE ProcessorTop
  <2>0. UNCHANGED <<finished, failed>>
    BY <1>1 DEF ProcessorTop
  <2>1. CASE GoPause
    <3>1. UNCHANGED ready /\ ppc' \notin {"submitLock", "submitIdle", "submitWoken"}
      BY <1>h, <2>1 DEF GoPause
    <3> QED BY <1>a, <2>0, <3>1
  <2>2. CASE SubmitSample(Head(cancelQ), lockq, NumActive)
    BY <1>0, <2>0, <2>2, SubmitCounts
  <2>3. CASE ppc' = "get" /\ UNCHANGED ready
    BY <1>a, <2>0, <2>3
  <2> QED BY <1>1, <1>b, <2>0, <2>1, <2>2, <2>3 DEF ProcessorTop
<1>2. CASE ProcessorGet
  BY <1>2, <1>b DEF ProcessorGet
<1>3. CASE ProcessorLocked
  <2>0. UNCHANGED <<finished, failed>>
    BY <1>3 DEF ProcessorLocked
  <2>1. CASE ppc = "submitLock" /\ CreateTask(Head(held), Tail(lockq))
    BY <1>0, <2>0, <2>1, CreateCounts DEF Concurrency
  <2>2. CASE NumActive = 0 /\ SubmitSample(Head(held), Tail(lockq), 0)
    BY <1>0, <2>0, <2>2, SubmitCounts
  <2>3. ASSUME UNCHANGED ready, ppc' \notin {"submitLock", "submitIdle", "submitWoken"} PROVE Concurrency'
    BY <1>a, <2>0, <2>3
  <2>4. IdleUntilResumed(Tail(lockq), paused) => ppc' \notin {"submitLock", "submitIdle", "submitWoken"}
    BY DEF IdleUntilResumed
  <2> QED BY <1>3, <1>h, <2>1, <2>2, <2>3, <2>4 DEF ProcessorLocked
<1>4. CASE ProcessorWaited
  <2> DEFINE n == Cardinality(ready) + Cardinality(generating)
  <2>0. finished' = 0 /\ failed' = 0 /\ n = n + finished' + failed' /\ n <= MaxConcurrent /\ n \in Nat
    BY <1>0, <1>4 DEF ProcessorWaited
  <2>1. CASE SubmitSample(Head(held), Tail(lockq), n)
    BY <1>0, <2>0, <2>1, SubmitCounts
  <2>2. ASSUME UNCHANGED ready, ppc' \notin {"submitLock", "submitIdle", "submitWoken"} PROVE Concurrency'
    BY <1>a, <2>0, <2>2
  <2> QED BY <1>4, <1>h, <2>1, <2>2 DEF ProcessorWaited
<1>5. CASE ProcessorWoken
  <2>0. UNCHANGED <<finished, failed>>
    BY <1>5 DEF ProcessorWoken
  <2>1. CASE ppc = "submitWoken" /\ CreateTask(Head(held), <<>>)
    BY <1>0, <2>0, <2>1, CreateCounts DEF Concurrency
  <2>2. CASE UNCHANGED ready
    <3>1. NumActive' = NumActive
      BY <1>0, <2>0, <2>2 DEF NumActive
    <3>2. \/ ppc = "submitWoken"
          \/ ppc' \notin {"submitLock", "submitIdle", "submitWoken"}
      BY <1>5 DEF ProcessorWoken
    <3> QED BY <1>0, <3>1, <3>2, FewerTasks
  <2> QED BY <1>5, <2>1, <2>2 DEF ProcessorWoken
<1> QED BY <1>1, <1>2, <1>3, <1>4, <1>5 DEF Processor, ProcessorNext

\* A task that starts, ends, is cancelled or raises does not add a task.
LEMMA TasksCount ==
  ASSUME Forms, Tasks PROVE NumActive' <= NumActive
<1> DEFINE a == Cardinality(ready)
           b == Cardinality(generating)
           a1 == Cardinality(ready')
           b1 == Cardinality(generating')
<1>0. /\ IsFiniteSet(ready) /\ IsFiniteSet(generating)
      /\ a \in Nat /\ b \in Nat /\ finished \in Nat /\ failed \in Nat
  BY FS_CardinalityType DEF Forms, RollForms
<1>3. NumActive' = a1 + b1 + finished' + failed' /\ NumActive = a + b + finished + failed
  BY DEF NumActive
<1>1. ASSUME NEW s \in ready, TaskStart(s) PROVE NumActive' <= NumActive
  <2>1. /\ ready' = ready \ {s} /\ failed' = failed
        /\ \/ finished' = finished + 1 /\ generating' = generating
           \/ finished' = finished /\ generating' = generating \cup {Labelled(s)}
    BY <1>1 DEF TaskStart
  <2>2. a1 = a - 1 /\ a1 \in Nat
    BY <1>0, <2>1, OneMore, FS_RemoveElement, FS_CardinalityType
  <2>3. b1 \in Nat /\ ((b1 = b /\ finished' = finished + 1) \/ (b1 <= b + 1 /\ finished' = finished))
    BY <1>0, <2>1, OneMore
  <2> HIDE DEF a, b, a1, b1
  <2>4. finished' \in Nat /\ failed' \in Nat
    BY <1>0, <2>1
  <2>5. a1 + b1 + finished' + failed' <= a + b + finished + failed
    BY <1>0, <2>1, <2>2, <2>3, <2>4, SumBelow, Zenon
  <2> QED BY <1>3, <2>5, Zenon
<1>2. ASSUME NEW s \in generating, TaskFinish(s) \/ TaskCancel(s) \/ TaskFail(s)
      PROVE  NumActive' <= NumActive
  <2>1. /\ generating' = generating \ {s} /\ ready' = ready
        /\ \/ finished' = finished + 1 /\ failed' = failed
           \/ failed' = failed + 1 /\ finished' = finished
    BY <1>2 DEF TaskFinish, TaskCancel, TaskFail
  <2>2. b1 = b - 1 /\ b1 \in Nat /\ a1 = a
    BY <1>0, <2>1, OneMore, FS_RemoveElement, FS_CardinalityType
  <2> HIDE DEF a, b, a1, b1
  <2>3. finished' \in Nat /\ failed' \in Nat
    BY <1>0, <2>1
  <2>4. a1 + b1 + finished' + failed' <= a + b + finished + failed
    BY <1>0, <2>1, <2>2, <2>3, SumBelow, Zenon
  <2> QED BY <1>3, <2>4, Zenon
<1> QED BY <1>1, <1>2 DEF Tasks

\* At first there is no task.
LEMMA ConcurrencyInit == Init => Concurrency
<1>1. Cardinality({}) = 0
  BY FS_EmptySet
<1> QED BY <1>1, MaxConcurrentNat DEF Init, RollouterInit, Concurrency, NumActive

\* Every step of the system keeps to the limit.
LEMMA ConcurrencyStep == Forms /\ Forms' /\ Concurrency /\ [Next]_vars => Concurrency'
<1> SUFFICES ASSUME Forms, Forms', Concurrency, [Next]_vars PROVE Concurrency'
  OBVIOUS
<1>2. CASE Tasks
  <2>1. ppc' = ppc
    BY <1>2 DEF Tasks, TaskStart, TaskFinish, TaskCancel, TaskFail, taskFrame, procVars
  <2> QED BY <1>2, <2>1, TasksCount, FewerTasks
<1>3. CASE Feeder \/ Consumer \/ Main \/ Update \/ TrainerNext \/ UNCHANGED vars
  <2>1. UNCHANGED <<ready, generating, finished, failed, ppc>>
    <3>1. CASE Feeder \/ Consumer \/ Main
      BY <3>1 DEF Feeder, Feed, Consumer, ConsumerTake, ConsumerPut, Main, MainStep, MainFinish, MainStop,
         taskVars, procVars
    <3>2. CASE Update
      BY <3>2 DEF Update, UpdateNext, UpdateBegin, UpdateMeasure, UpdateAssign, UpdateEnd, callFrame
    <3>3. CASE TrainerNext
      BY <3>3 DEF TrainerNext, TrainerGet, TrainerStep, SyncPause, SyncQueue, SyncWeights,
         TrainerGetValidate, TrainerFinal, TrainerLastValid, rollouterVars, loopVars, taskVars, procVars
    <3>4. CASE UNCHANGED vars
      BY <3>4 DEF vars, rollouterVars, loopVars, taskVars, procVars
    <3> QED BY <1>3, <3>1, <3>2, <3>3, <3>4
  <2> QED BY <2>1, SameTasks, FewerTasks
<1>4. CASE Monitor \/ Resume \/ Pause
  <2>1. /\ UNCHANGED <<ready, generating>>
        /\ finished' = finished \/ finished' = 0
        /\ failed' = failed \/ failed' = 0
        /\ ppc' = ppc \/ ppc' = Notified
    BY <1>4 DEF Monitor, MonitorTick, MonitorLocked, Unpause, monitorFrame, taskVars, Resume, ResumeNext,
       ResumeBegin, ResumeServers, callFrame, Pause, PauseNext, PauseBegin, PauseCancel, PauseGather, PauseEnd
  <2>2. ppc' \in {"submitLock", "submitIdle", "submitWoken"}
          => ppc \in {"submitLock", "submitIdle", "submitWoken"}
    BY <2>1 DEF Notified
  <2> QED BY <2>1, <2>2, SameTasks, FewerTasks
<1> QED BY <1>2, <1>3, <1>4, ProcessorCounts DEF Next

\* At most max_concurrent_samples tasks, whatever is cancelled, resumed or raises
\* between the count and the creation (fully_async_rollouter.py:333-408).
THEOREM TasksAreBounded == Spec => []ConcurrencyBound
<1>1. Concurrency => ConcurrencyBound
  BY DEF Concurrency, ConcurrencyBound
<1> QED BY <1>1, FormsInvariant, ConcurrencyInit, ConcurrencyStep, PTL DEF Spec

-----------------------------------------------------------------------------
\* When the processor is over, when the main goes on past it, and what is left.
Over == ppc \in {"exited", "crashed"}

Exit ==
  /\ mpc \notin {"feed", "proc"} => Over
  /\ ppc = "exited" => ready = {} /\ generating = {}
  /\ ppc = "exited" /\ mpc \in {"finish", "stop", "stopLock", "end"}
       => resultQ = <<>> /\ csample = <<>>
  /\ ~partial_rollout => cancelQ = <<>>

exitVars == <<mpc, ppc, ready, generating, resultQ, csample, cancelQ, partial_rollout>>

\* Exit is about exitVars alone.
LEMMA ExitFrame == Exit /\ UNCHANGED exitVars => Exit'
BY DEF Exit, exitVars, Over

\* The processor exits only when it has counted its tasks to none.
LEMMA NoTasks ==
  ASSUME Forms
  PROVE  /\ NumActive \in Nat
         /\ NumActive = 0 => ready = {} /\ generating = {}
         /\ Cardinality(ready) + Cardinality(generating) = 0 => ready = {} /\ generating = {}
<1>1. /\ IsFiniteSet(ready) /\ IsFiniteSet(generating)
      /\ Cardinality(ready) \in Nat /\ Cardinality(generating) \in Nat
      /\ finished \in Nat /\ failed \in Nat
  BY FS_CardinalityType DEF Forms, RollForms
<1>2. /\ Cardinality(ready) = 0 => ready = {}
      /\ Cardinality(generating) = 0 => generating = {}
  BY <1>1, FS_EmptySet
<1>3. Cardinality(ready) + Cardinality(generating) = 0 => ready = {} /\ generating = {}
  BY <1>1, <1>2
<1>4. NumActive = 0 => Cardinality(ready) + Cardinality(generating) = 0
  BY <1>1 DEF NumActive
<1> QED BY <1>3, <1>4, NumActiveNat DEF Forms

\* Of the processor's helpers only the last drain may leave its loop, and only with no task.
LEMMA HelpersExit ==
  ASSUME NEW STATE q, NEW STATE s, NEW STATE n, NEW STATE p
  PROVE  /\ IdleUntilResumed(q, p) => ppc' # "exited"
         /\ DrainThenIdle(q, n, p) => ppc' # "exited"
         /\ DrainThenExit(q, n) => n = 0 \/ ppc' # "exited"
         /\ CreateTask(s, q) => ppc' # "exited"
         /\ SubmitSample(s, q, n) => ppc' # "exited"
BY DEF IdleUntilResumed, DrainThenIdle, DrainThenExit, WaitOrQueue, CreateTask, SubmitSample

\* The processor keeps Exit.
LEMMA ProcessorExit ==
  ASSUME Exit, Forms, Processor PROVE Exit'
<1>1. /\ UNCHANGED <<mpc, consumer, resultQ, csample, generating, partial_rollout>> /\ ~Over
  BY DEF Processor, ProcessorNext, ProcessorTop, ProcessorGet, ProcessorLocked, ProcessorWaited,
       ProcessorWoken, procFrame, mainVars, consumerVars, trainerFrame, Over
<1>2. cancelQ = <<>> => cancelQ' = <<>>
  BY DEF Processor, ProcessorNext, ProcessorTop, ProcessorGet, ProcessorLocked, ProcessorWaited,
       ProcessorWoken, GoPause, TakePending
<1>3. ppc' = "exited" => ready' = {} /\ generating = {}
  <2>1. ASSUME TakePending PROVE ppc' = "exited" => ready' = ready /\ NumActive = 0
    BY <2>1, HelpersExit DEF TakePending
  <2>2. CASE ProcessorTop
    <3>1. GoPause => ppc' # "exited"
      BY HelpersExit DEF GoPause
    <3> QED BY <2>1, <2>2, <3>1, NoTasks, HelpersExit DEF ProcessorTop
  <2>3. CASE ProcessorGet
    BY <2>1, <2>3, NoTasks DEF ProcessorGet
  <2>4. CASE ProcessorLocked
    BY <2>4, NoTasks, HelpersExit DEF ProcessorLocked
  <2>5. CASE ProcessorWaited
    BY <2>5, NoTasks, HelpersExit DEF ProcessorWaited
  <2>6. CASE ProcessorWoken
    BY <2>6, HelpersExit DEF ProcessorWoken
  <2> QED BY <2>2, <2>3, <2>4, <2>5, <2>6 DEF Processor, ProcessorNext
<1> QED BY <1>1, <1>2, <1>3 DEF Exit, Over

\* A task keeps Exit: there is none after the processor's exit.
LEMMA TasksExit ==
  ASSUME Exit, SyncInv, Tasks PROVE Exit'
<1>1. /\ UNCHANGED <<mpc, ppc, consumer, csample, partial_rollout>>
  BY DEF Tasks, TaskStart, TaskFinish, TaskCancel, TaskFail, taskFrame, mainVars, procVars, consumerVars,
         trainerFrame
<1>2. ready # {} \/ generating # {}
  BY DEF Tasks
<1>3. ~partial_rollout => cancelQ' = cancelQ
  BY DEF Tasks, TaskStart, TaskFinish, TaskCancel, TaskFail, SyncInv, ServersInv
<1> QED BY <1>1, <1>2, <1>3 DEF Exit, Over

\* The consumer and the main coroutine keep Exit.
LEMMA LoopExit ==
  ASSUME Exit, Forms, Consumer \/ Main PROVE Exit'
<1>1. CASE ConsumerTake /\ UNCHANGED trainerFrame
  <2>1. /\ UNCHANGED <<mpc, ppc, ready, generating, cancelQ, partial_rollout>>
        /\ mpc \in {"feed", "proc", "join"}
    BY <1>1 DEF ConsumerTake, mainVars, taskVars, procVars, trainerFrame
  <2> QED BY <2>1 DEF Exit, Over
<1>2. CASE ConsumerPut /\ UNCHANGED trainerFrame
  <2>1. /\ UNCHANGED <<mpc, ppc, ready, generating, cancelQ, resultQ, consumer, partial_rollout>>
        /\ csample' = <<>>
    BY <1>2 DEF ConsumerPut, mainVars, taskVars, procVars, trainerFrame, localQueues
  <2> QED BY <2>1 DEF Exit, Over
<1>3. CASE Main
  <2>1. UNCHANGED <<ppc, ready, generating, cancelQ, resultQ, csample, consumer, partial_rollout>>
    BY <1>3 DEF Main, MainStep, MainFinish, MainStop, localQueues, consumerVars, taskVars, procVars,
           trainerFrame
  <2>2. \/ mpc = "feed" /\ mpc' = "proc"
        \/ mpc = "proc" /\ Over /\ mpc' = "join"
        \/ mpc = "proc" /\ ppc = "crashed" /\ mpc' = "finish"
        \/ mpc = "join" /\ resultQ = <<>> /\ csample = <<>> /\ mpc' = "finish"
        \/ mpc \in {"finish", "stop", "stopLock"} /\ mpc' \in {"stop", "stopLock", "end"}
    BY <1>3 DEF Main, MainStep, MainFinish, MainStop, ProcessorOver, ResultsJoined, Over
  <2> QED BY <2>1, <2>2 DEF Exit, Over
<1> QED BY <1>1, <1>2, <1>3 DEF Consumer

\* At first the processor is not over.
LEMMA ExitInit == Init => Exit
BY DEF Init, RollouterInit, Exit, Over

\* Every step of the system keeps Exit.
LEMMA ExitStep == SyncInv /\ Forms /\ Exit /\ [Next]_vars => Exit'
<1> SUFFICES ASSUME SyncInv, Forms, Exit, [Next]_vars PROVE Exit'
  OBVIOUS
<1>1. CASE Feeder \/ Pause \/ Update \/ TrainerNext \/ UNCHANGED vars
  <2>1. CASE Feeder
    BY <2>1, ExitFrame DEF Feeder, Feed, taskVars, procVars, consumerVars, trainerFrame, exitVars
  <2>2. CASE Pause
    BY <2>2, ExitFrame DEF Pause, PauseNext, PauseBegin, PauseCancel, PauseGather, PauseEnd, callFrame,
       mainVars, localQueues, consumerVars, trainerFrame, exitVars
  <2>3. CASE Update
    BY <2>3, ExitFrame DEF Update, UpdateNext, UpdateBegin, UpdateMeasure, UpdateAssign, UpdateEnd,
       callFrame, mainVars, localQueues, consumerVars, trainerFrame, exitVars
  <2>4. CASE TrainerNext
    BY <2>4, ExitFrame DEF TrainerNext, TrainerGet, TrainerStep, SyncPause, SyncQueue, SyncWeights,
         TrainerGetValidate, TrainerFinal, TrainerLastValid, rollouterVars, loopVars, taskVars, procVars,
         mainVars, localQueues, consumerVars, exitVars
  <2>5. CASE UNCHANGED vars
    BY <2>5, ExitFrame DEF vars, rollouterVars, loopVars, taskVars, procVars, mainVars, localQueues,
         consumerVars, exitVars
  <2> QED BY <1>1, <2>1, <2>2, <2>3, <2>4, <2>5
<1>2. CASE Monitor \/ Resume
  <2>1. /\ UNCHANGED <<mpc, ready, generating, consumer, resultQ, csample, cancelQ, partial_rollout>>
        /\ ppc' = ppc \/ ppc' = Notified
    BY <1>2 DEF Monitor, MonitorTick, MonitorLocked, Unpause, monitorFrame, taskVars, Resume, ResumeNext,
       ResumeBegin, ResumeServers, callFrame, mainVars, localQueues, consumerVars, trainerFrame
  <2>2. /\ ppc' = "exited" <=> ppc = "exited"
        /\ Over => ppc' \in {"exited", "crashed"}
    BY <2>1 DEF Notified, Over
  <2> QED BY <2>1, <2>2 DEF Exit, Over
<1> QED BY <1>1, <1>2, ProcessorExit, TasksExit, LoopExit DEF Next

\* The main coroutine goes past the processor only when it is over, and the processor
\* exits only when its tasks have ended (fully_async_rollouter.py:333-368, 457-505).
THEOREM ExitInvariant == Spec => []Exit
BY SyncInvariant, FormsInvariant, ExitInit, ExitStep, PTL DEF Spec

\* When the finish signal is sent after an orderly end, no sample is left in the
\* rollout (fully_async_rollouter.py:470-505).
THEOREM RolloutIsDrained == Spec => []Drained
<1>1. Forms /\ Exit => Drained
  <2> SUFFICES ASSUME Forms, Exit, FinishSent, ppc = "exited", consumer = "live"
               PROVE  InRollout = IF partial_rollout THEN IdsOf(cancelQ) ELSE {}
    BY DEF Drained
  <2>1. /\ ready = {} /\ generating = {} /\ resultQ = <<>> /\ csample = <<>>
        /\ ~partial_rollout => cancelQ = <<>>
    BY DEF Exit, FinishSent
  <2>2. held = <<>>
    BY DEF Forms, ProcForms, Submits
  <2>3. IdsOf(<<>>) = {} /\ SetIds({}) = {}
    BY DEF IdsOf, SetIds
  <2> QED BY <2>1, <2>2, <2>3 DEF InRollout, InTasks
<1> QED BY <1>1, FormsInvariant, ExitInvariant, PTL
====
