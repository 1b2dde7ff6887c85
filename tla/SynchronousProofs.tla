--------------------------- MODULE SynchronousProofs --------------------------
(***************************************************************************)
(* With staleness_threshold = 0 the recipe is synchronous, for any number  *)
(* of samples, any batch size, trigger and queue size, either mode of      *)
(* partial_rollout and any failures: batches are on-policy, a rollout that *)
(* does not fail has nothing interrupted, and staleness_samples covers what*)
(* is on the way to the trainer.  The invariant behind the three,          *)
(* Synchronous, counts what is ahead of the trainer: it never comes to more*)
(* than staleness_samples allows, so that the last training step of a      *)
(* version takes all of it, and nothing is ahead from there until resume() *)
(* lets the processor on.                                                  *)
(***************************************************************************)
EXTENDS PipelineProofs

-----------------------------------------------------------------------------
\* The samples ahead of the trainer: on their way to it, and in its batch too.
Moving == {"ready", "generating", "held", "cancelQ", "resultQ", "csample", "queue"}
Flight == {k \in Samples : \E c \in Moving : At(k, c)}
Ahead == {k \in Samples : \E c \in Moving \cup {"batch"} : At(k, c)}

\* With a threshold of zero the limit is what one version takes.
LEMMA OneVersion ==
  ASSUME StaleNum = 0
  PROVE  MaxRequired = RequiredSamples * TriggerSteps
<1> DEFINE x == RequiredSamples * TriggerSteps
           q == (x * StaleDen) \div StaleDen
           r == (x * StaleDen) % StaleDen
<1>1. x \in Nat \ {0} /\ StaleDen \in Nat \ {0}
  BY RollouterAssumption, TimesPositive
<1>2. MaxRequired = q
  BY <1>1 DEF MaxRequired, SetMaxRequired
<1> HIDE DEF x
<1>3. x * StaleDen \in Nat
  BY <1>1, TimesPositive
<1>4. q \in Int /\ r \in 0..(StaleDen - 1) /\ x * StaleDen = StaleDen * q + r
  BY <1>1, <1>3
<1> HIDE DEF q, r
<1>5. StaleDen * (x - q) = r
  BY <1>1, <1>4
<1>6. ~(x - q >= 1)
  <2>1. ASSUME x - q >= 1 PROVE FALSE
    <3>1. x - q \in Nat \ {0}
      BY <1>1, <1>4, <2>1
    <3>2. (x - q) * StaleDen >= StaleDen
      BY <1>1, <3>1, TimesPositive
    <3> QED BY <1>1, <1>4, <1>5, <3>1, <3>2
  <2> QED BY <2>1
<1>7. ~(q - x >= 1)
  <2>1. ASSUME q - x >= 1 PROVE FALSE
    <3>1. q - x \in Nat \ {0}
      BY <1>1, <1>4, <2>1
    <3>2. (q - x) * StaleDen >= StaleDen
      BY <1>1, <3>1, TimesPositive
    <3>3. (q - x) * StaleDen = -r
      BY <1>1, <1>4, <1>5
    <3> QED BY <1>1, <1>4, <3>2, <3>3
  <2> QED BY <2>1
<1>8. q = x
  BY <1>1, <1>4, <1>6, <1>7
<1> QED BY <1>2, <1>8 DEF x

\* The samples ahead can be counted.
LEMMA AheadCount ==
  /\ IsFiniteSet(Ahead) /\ Cardinality(Ahead) \in Nat
  /\ \A S \in SUBSET Ahead : IsFiniteSet(S) /\ Cardinality(S) \in Nat /\ Cardinality(S) <= Cardinality(Ahead)
  /\ Cardinality(Ahead) = 0 => Ahead = {}
<1>1. IsFiniteSet(Samples)
  BY RollouterAssumption, FS_Interval DEF Samples
<1>2. IsFiniteSet(Ahead)
  BY <1>1, FS_Subset DEF Ahead
<1> QED BY <1>2, FS_Subset, FS_CardinalityType, FS_EmptySet

\* Where nothing is ahead, the places on the way are empty.
NothingAhead ==
  /\ ready = {} /\ generating = {} /\ held = <<>> /\ cancelQ = <<>> /\ resultQ = <<>>
  /\ csample = <<>> /\ batch = <<>>
  /\ \A i \in DOMAIN queue : queue[i] = Finish

\* Where no sample is ahead, none of the places on the way holds one.
LEMMA AheadEmpty ==
  ASSUME Forms, Ahead = {}
  PROVE  NothingAhead
<1>1. /\ ready \subseteq Item /\ generating \subseteq Part /\ held \in Seq(Item) /\ cancelQ \in Seq(Part)
      /\ resultQ \in Seq(Full) /\ csample \in Seq(Full) /\ batch \in Seq(Full)
      /\ queue \in Seq(Full \cup {Finish})
  BY DEF Forms, RollForms, ProcForms, QueueForms
<1>2. \A k \in Samples : \A c \in Moving \cup {"batch"} : ~At(k, c)
  BY DEF Ahead
<1>3. ASSUME NEW S, NEW q \in Seq(S), \A s \in S : s.id \in Samples, \A k \in Samples : k \notin IdsOf(q)
      PROVE  q = <<>>
  <2>1. ASSUME q # <<>> PROVE FALSE
    <3>1. q[1] \in S /\ 1 \in DOMAIN q
      BY <2>1, EmptySeq, LenProperties, ElementOfSeq
    <3> QED BY <1>3, <3>1 DEF IdsOf
  <2> QED BY <2>1
<1>4. ready = {} /\ generating = {}
  BY <1>1, <1>2, FormsIds DEF At, SetIds, Moving
<1>5. \A k \in Samples : k \notin IdsOf(held) /\ k \notin IdsOf(cancelQ) /\ k \notin IdsOf(resultQ)
                         /\ k \notin IdsOf(csample) /\ k \notin IdsOf(batch)
  BY <1>2 DEF At, Moving
<1>6. held = <<>> /\ cancelQ = <<>> /\ resultQ = <<>> /\ csample = <<>> /\ batch = <<>>
  BY <1>1, <1>3, <1>5, FormsIds
<1>7. ASSUME NEW i \in DOMAIN queue PROVE queue[i] = Finish
  <2>1. queue[i] \in Full \cup {Finish}
    BY <1>1, LenProperties, ElementOfSeq
  <2>2. queue[i].id \in IdsOf(queue)
    BY DEF IdsOf
  <2>3. ASSUME queue[i] \in Full PROVE FALSE
    <3>1. queue[i].id \in Samples
      BY <2>3, FormsIds
    <3>2. At(queue[i].id, "queue")
      BY <2>2, <3>1, FormsIds DEF At, InQueue
    <3> QED BY <1>2, <3>1, <3>2 DEF Moving
  <2> QED BY <2>1, <2>3
<1> QED BY <1>4, <1>6, <1>7 DEF NothingAhead

-----------------------------------------------------------------------------
\* A sample is ahead until it is trained on or lost, and only the processor brings
\* one that was not.
Shrinks == Ahead' \subseteq Ahead /\ Flight' \subseteq Flight
Grows(k) == Ahead' = Ahead \cup {k} /\ At(k, "waiting") /\ ~At(k, "waiting")'

\* What a step does to the samples ahead.
LEMMA AheadChange ==
  ASSUME Placed, Kinds
  PROVE  Shrinks \/ (\E k \in Samples : Grows(k))
<1> DEFINE R == {"ready", "generating", "held", "cancelQ", "resultQ", "csample"}
<1>0. /\ Moving \subseteq Names /\ "batch" \in Names /\ "waiting" \in Names /\ "queue" \in Names
      /\ R \subseteq Moving /\ "queue" \in Moving /\ "trained" \in Names
      /\ "waiting" \notin Moving \cup {"batch"} /\ "trained" \notin Moving \cup {"batch"} /\ "batch" \notin Moving
  BY DEF Moving, Names
<1>1. ASSUME NEW S, NEW d \in Names, NEW T, Routed(S, d, T), NEW k \in Samples, k \notin S
      PROVE  \A c \in Names : At(k, c)' => At(k, c)
  BY <1>1 DEF Routed
<1>2. ASSUME NEW S, NEW d \in Names, NEW T, Routed(S, d, T), NEW k \in Samples, k \in S
      PROVE  \A c \in Names : At(k, c)' <=> c = d
  BY <1>2 DEF Routed
<1>3. ASSUME NEW S, NEW d \in Names, NEW T, Routed(S, d, T),
             \A k \in S : \/ d \notin Moving \cup {"batch"}
                          \/ d \in Moving /\ \E c \in Moving : At(k, c)
                          \/ d = "batch" /\ \E c \in Moving : At(k, c)
      PROVE  Shrinks
  <2>1. ASSUME NEW k \in Ahead' PROVE k \in Ahead
    <3>1. PICK c \in Moving \cup {"batch"} : At(k, c)'
      BY DEF Ahead
    <3>2. k \in Samples /\ c \in Names
      BY <1>0 DEF Ahead
    <3>3. CASE k \notin S
      BY <1>1, <1>3, <3>1, <3>2, <3>3 DEF Ahead
    <3>4. CASE k \in S
      <4>1. c = d
        BY <1>2, <1>3, <3>1, <3>2, <3>4
      <4> QED BY <1>3, <3>2, <3>4, <4>1 DEF Ahead
    <3> QED BY <3>3, <3>4
  <2>2. ASSUME NEW k \in Flight' PROVE k \in Flight
    <3>1. PICK c \in Moving : At(k, c)'
      BY DEF Flight
    <3>2. k \in Samples /\ c \in Names
      BY <1>0 DEF Flight
    <3>3. CASE k \notin S
      BY <1>1, <1>3, <3>1, <3>2, <3>3 DEF Flight
    <3>4. CASE k \in S
      <4>1. c = d
        BY <1>2, <1>3, <3>1, <3>2, <3>4
      <4> QED BY <1>0, <1>3, <3>2, <3>4, <4>1 DEF Flight
    <3> QED BY <3>3, <3>4
  <2> QED BY <2>1, <2>2 DEF Shrinks
<1>4. CASE Quiet \/ Closes \/ Breaks
  <2>1. \E d \in Names : \E T : Routed({}, d, T)
    <3>1. R \subseteq Names /\ {"generating", "resultQ"} \subseteq Names
      BY <1>0
    <3> QED BY <1>0, <1>4, <3>1 DEF Quiet, Closes, Breaks
  <2> QED BY <1>3, <2>1
<1>5. CASE Within \/ Delivers \/ Collects
  <2>1. \E k \in Samples : \E c \in Moving : \E d \in Moving \cup {"batch"} : \E T :
           At(k, c) /\ Routed({k}, d, T)
    <3>1. CASE Within
      BY <1>0, <3>1 DEF Within
    <3>2. CASE Delivers
      BY <1>0, <3>2 DEF Delivers
    <3>3. CASE Collects
      BY <1>0, <3>3 DEF Collects
    <3> QED BY <1>5, <3>1, <3>2, <3>3
  <2> QED BY <1>0, <1>3, <2>1
<1>6. CASE Trains
  BY <1>0, <1>3, <1>6 DEF Trains
<1>7. CASE Enters
  <2>1. PICK k \in Samples, d \in {"ready", "held"} : At(k, "waiting") /\ Routed({k}, d, {})
    BY <1>7 DEF Enters
  <2>2. d \in Moving /\ d \in Names /\ d # "waiting"
    BY <1>0 DEF Moving
  <2>3. ASSUME NEW j \in Samples, NEW c \in Names
        PROVE  At(j, c)' <=> IF j = k THEN c = d ELSE At(j, c)
    BY <2>1 DEF Routed
  <2>4. ~At(k, "waiting")'
    BY <1>0, <2>2, <2>3
  <2>5. ASSUME NEW j \in Samples PROVE j \in Ahead' <=> j \in Ahead \/ j = k
    BY <1>0, <2>2, <2>3 DEF Ahead
  <2>6. Ahead' = Ahead \cup {k}
    BY <2>5 DEF Ahead
  <2> QED BY <2>1, <2>4, <2>6 DEF Grows
<1> QED BY <1>4, <1>5, <1>6, <1>7 DEF Kinds

\* A training step takes its batch from the samples ahead.
LEMMA AheadTrains ==
  ASSUME Forms, Placed, Trains
  PROVE  /\ Cardinality(Ahead') = Cardinality(Ahead) - RequiredSamples
         /\ Cardinality(Ahead) >= RequiredSamples
<1>1. /\ batch \in Seq(Full) /\ Distinct(batch) /\ Len(batch) = RequiredSamples
      /\ IdsOf(batch) \subseteq Samples /\ RequiredSamples \in Nat \ {0}
  <2>1. batch \in Seq(Full)
    BY DEF Forms, QueueForms
  <2> QED BY <2>1, FormsIds, IdsOfSeq, RollouterAssumption DEF Trains, Placed, Singly
<1>2. Cardinality(IdsOf(batch)) = RequiredSamples /\ IsFiniteSet(IdsOf(batch))
  BY <1>1, IdsCount
<1>3. IdsOf(batch) \subseteq Ahead
  BY <1>1 DEF Ahead, At
<1>4. Ahead' = Ahead \ IdsOf(batch)
  <2>0. Moving \cup {"batch"} \subseteq Names /\ "trained" \notin Moving \cup {"batch"}
    BY DEF Moving, Names
  <2>1. ASSUME NEW k \in Samples, NEW c \in Names
        PROVE  At(k, c)' <=> IF k \in IdsOf(batch) THEN c = "trained" ELSE At(k, c)
    BY DEF Trains, Routed
  <2>2. ASSUME NEW k \in Samples PROVE k \in Ahead' <=> k \in Ahead /\ k \notin IdsOf(batch)
    BY <2>0, <2>1 DEF Ahead
  <2> QED BY <2>2 DEF Ahead
<1>5. Cardinality(Ahead \ IdsOf(batch)) = Cardinality(Ahead) - Cardinality(Ahead \cap IdsOf(batch))
  BY AheadCount, FS_Difference
<1>6. Ahead \cap IdsOf(batch) = IdsOf(batch)
  BY <1>3
<1>7. Cardinality(Ahead) >= RequiredSamples
  BY <1>2, <1>3, AheadCount
<1> QED BY <1>2, <1>4, <1>5, <1>6, <1>7

-----------------------------------------------------------------------------
\* The processor counts every item it takes from the pending queue.
Counts == /\ staleness' = staleness + 1 /\ ppc' # "get"
          /\ ppc = "get" \/ (ppc = "top" /\ ~paused /\ ~ShouldPause)

\* Only a processor at its top goes on to wait for an item.
LEMMA HelpersGet ==
  ASSUME NEW STATE q, NEW STATE s, NEW STATE n, NEW STATE p
  PROVE  /\ IdleUntilResumed(q, p) => ppc' # "get"
         /\ DrainThenIdle(q, n, p) => ppc' # "get"
         /\ DrainThenExit(q, n) => ppc' # "get"
         /\ CreateTask(s, q) => ppc' # "get"
         /\ SubmitSample(s, q, n) => ppc' # "get"
BY DEF IdleUntilResumed, DrainThenIdle, DrainThenExit, WaitOrQueue, CreateTask, SubmitSample

\* The processor takes an item below the limit only, or waits for one.
LEMMA ProcessorTakes ==
  ASSUME Processor
  PROVE  \/ Counts
         \/ /\ UNCHANGED <<pending, staleness>>
            /\ ppc' = "get" => ppc = "top" /\ ~paused /\ ~ShouldPause
<1>1. ASSUME TakePending PROVE staleness' = staleness + 1 /\ ppc' # "get"
  BY <1>1, HelpersGet DEF TakePending, CountTaken
<1>2. CASE ProcessorTop
  <2>1. GoPause => ppc' # "get" /\ UNCHANGED <<pending, staleness>>
    BY HelpersGet DEF GoPause
  <2> QED BY <1>1, <1>2, <2>1, HelpersGet DEF ProcessorTop, Counts
<1>3. CASE ProcessorGet
  BY <1>1, <1>3 DEF ProcessorGet, Counts
<1>4. CASE ProcessorLocked
  BY <1>4, HelpersGet DEF ProcessorLocked
<1>5. CASE ProcessorWaited
  BY <1>5, HelpersGet DEF ProcessorWaited
<1>6. CASE ProcessorWoken
  BY <1>6, HelpersGet DEF ProcessorWoken
<1> QED BY <1>2, <1>3, <1>4, <1>5, <1>6 DEF Processor, ProcessorNext

\* Whatever comes to be ahead is counted as it is taken.
LEMMA AheadGrows ==
  ASSUME SyncInv, Forms, Exit, Placed, [Next]_vars
  PROVE  Shrinks \/ (Processor /\ Counts /\ \E k \in Samples : Ahead' = Ahead \cup {k})
<1>1. Kinds
  BY SamplesStep
<1>2. CASE Shrinks
  BY <1>2
<1>3. ASSUME NEW k \in Samples, Grows(k)
      PROVE  Processor /\ Counts
  <2>1. ~UNCHANGED <<fed, pending>>
    BY <1>3, SameAt DEF Grows, Same
  <2>2. CASE Feeder
    <3>1. Quiet
      BY <2>2, FeedPlaced
    <3>2. "waiting" \in Names
      BY DEF Names
    <3> QED BY <1>3, <3>1, <3>2 DEF Quiet, Routed, Grows
  <2>3. CASE Tasks
    BY <2>1, <2>3 DEF Tasks, TaskStart, TaskFinish, TaskCancel, TaskFail, taskFrame, mainVars
  <2>4. CASE Consumer
    BY <2>1, <2>4 DEF Consumer, ConsumerTake, ConsumerPut, mainVars, localQueues
  <2>5. CASE Main
    BY <2>1, <2>5 DEF Main, MainStep, MainFinish, MainStop, localQueues
  <2>6. CASE Monitor
    BY <2>1, <2>6 DEF Monitor, MonitorTick, MonitorLocked, monitorFrame, mainVars, localQueues
  <2>7. CASE Pause
    BY <2>1, <2>7 DEF Pause, PauseNext, PauseBegin, PauseCancel, PauseGather, PauseEnd, callFrame, mainVars,
       localQueues
  <2>8. CASE Update
    BY <2>1, <2>8 DEF Update, UpdateNext, UpdateBegin, UpdateMeasure, UpdateAssign, UpdateEnd, callFrame,
       mainVars, localQueues
  <2>9. CASE Resume
    BY <2>1, <2>9 DEF Resume, ResumeNext, ResumeBegin, ResumeServers, callFrame, mainVars, localQueues
  <2>10. CASE TrainerNext
    BY <2>1, <2>10 DEF TrainerNext, TrainerGet, TrainerStep, SyncPause, SyncQueue, SyncWeights,
         TrainerGetValidate, TrainerFinal, TrainerLastValid, rollouterVars, loopVars, mainVars, localQueues
  <2>11. CASE UNCHANGED vars
    BY <2>1, <2>11 DEF vars, rollouterVars, loopVars, mainVars, localQueues
  <2>12. CASE Processor
    <3>1. UNCHANGED fed
      BY <2>12, ProcessorMoves
    <3> QED BY <2>1, <2>12, <3>1, ProcessorTakes
  <2> QED BY <2>2, <2>3, <2>4, <2>5, <2>6, <2>7, <2>8, <2>9, <2>10, <2>11, <2>12 DEF Next
<1>4. CASE \E k \in Samples : Grows(k)
  <2>1. PICK k \in Samples : Grows(k)
    BY <1>4
  <2> QED BY <1>3, <2>1 DEF Grows
<1> QED BY <1>1, <1>2, <1>4, AheadChange

-----------------------------------------------------------------------------
\* The finish signal is the last entry of the message queue.
FinishLast == \A i \in DOMAIN queue : queue[i] = Finish => i = Len(queue)

\* A queue with the finish signal at most at its end keeps it there as it grows behind
\* samples alone and shrinks from the front.
LEMMA FinishMoves ==
  ASSUME NEW S, NEW q \in Seq(S), \A i \in DOMAIN q : q[i] = Finish => i = Len(q)
  PROVE  /\ \A i \in DOMAIN Tail(q) : Tail(q)[i] = Finish => i = Len(Tail(q))
         /\ q # <<>> /\ Head(q) = Finish => Tail(q) = <<>>
         /\ \A s \in S : (\A i \in DOMAIN q : q[i] # Finish)
              => \A i \in DOMAIN Append(q, s) : Append(q, s)[i] = Finish => i = Len(Append(q, s))
<1>1. CASE q = <<>>
  <2>1. DOMAIN q = {} /\ Len(q) = 0 /\ DOMAIN Tail(q) = {}
    BY <1>1
  <2>2. ASSUME NEW s \in S PROVE DOMAIN Append(q, s) = {1} /\ Len(Append(q, s)) = 1
    BY <1>1
  <2> QED BY <1>1, <2>1, <2>2
<1>2. CASE q # <<>>
  <2>1. /\ Tail(q) \in Seq(S) /\ Len(Tail(q)) = Len(q) - 1 /\ Len(q) \in Nat \ {0}
        /\ \A i \in 1..Len(Tail(q)) : Tail(q)[i] = q[i + 1]
        /\ DOMAIN q = 1..Len(q) /\ DOMAIN Tail(q) = 1..(Len(q) - 1)
        /\ Head(q) = q[1]
    BY <1>2, HeadTailProperties, LenProperties, EmptySeq
  <2>2. \A i \in DOMAIN Tail(q) : Tail(q)[i] = Finish => i = Len(Tail(q))
    BY <2>1
  <2>3. Head(q) = Finish => Tail(q) = <<>>
    <3>1. Head(q) = Finish => Len(q) = 1
      BY <2>1
    <3> QED BY <2>1, <3>1, EmptySeq
  <2>4. ASSUME NEW s \in S, \A i \in DOMAIN q : q[i] # Finish
        PROVE  \A i \in DOMAIN Append(q, s) : Append(q, s)[i] = Finish => i = Len(Append(q, s))
    <3>1. /\ Len(Append(q, s)) = Len(q) + 1 /\ DOMAIN Append(q, s) = 1..(Len(q) + 1)
          /\ \A i \in 1..Len(q) : Append(q, s)[i] = q[i]
      BY AppendProperties, LenProperties
    <3> QED BY <2>1, <2>4, <3>1
  <2> QED BY <2>2, <2>3, <2>4
<1> QED BY <1>1, <1>2

\* put_sample, before the finish signal is sent.
LEMMA PutFinishLast ==
  ASSUME Forms, AtEnd, ~FinishSent, NEW STATE s, s \in Full \cup {Finish}, MQ!PutSample(s)
  PROVE  FinishLast'
<1> DEFINE S == Full \cup {Finish}
           q == IF MQ!Full THEN Tail(queue) ELSE queue
<1>1. queue \in Seq(S) /\ queue' = Append(q, s) /\ s \in S
  BY DEF Forms, QueueForms, MQ!PutSample
<1>2. \A i \in DOMAIN queue : queue[i] # Finish
  BY DEF AtEnd, IdsOf
<1>3. MQ!Full => queue # <<>>
  BY MaxRequiredPositive DEF MQ!Full
<1>4. q \in Seq(S) /\ \A i \in DOMAIN q : q[i] # Finish
  <2>1. CASE MQ!Full
    <3>1. /\ Tail(queue) \in Seq(S) /\ DOMAIN Tail(queue) = 1..Len(Tail(queue))
          /\ DOMAIN queue = 1..Len(queue) /\ Len(queue) \in Nat /\ Len(Tail(queue)) = Len(queue) - 1
          /\ \A i \in 1..Len(Tail(queue)) : Tail(queue)[i] = queue[i + 1]
      BY <1>1, <1>3, <2>1, HeadTailProperties, LenProperties
    <3> QED BY <1>2, <2>1, <3>1
  <2>2. CASE ~MQ!Full
    BY <1>1, <1>2, <2>2
  <2> QED BY <2>1, <2>2
<1> HIDE DEF S, q
<1>5. \A i \in DOMAIN Append(q, s) : Append(q, s)[i] = Finish => i = Len(Append(q, s))
  BY <1>1, <1>4, FinishMoves
<1> QED BY <1>1, <1>5 DEF FinishLast

\* What get_sample does to the queue.
LEMMA GetTakes ==
  ASSUME Forms, TrainerGet
  PROVE  \/ UNCHANGED <<queue, batch, tpc>>
         \/ /\ queue # <<>> /\ queue' = Tail(queue)
            /\ \/ Head(queue) = Finish /\ tpc' = "final" /\ batch' = batch
               \/ /\ Head(queue) # Finish /\ batch' = Append(batch, Head(queue))
                  /\ tpc' \in {"collect", "train"}
<1>1. call \in [{"trainer"} -> {"idle", "waiting", "woken"}] /\ reply \in [{"trainer"} -> Full \cup {Finish}]
      /\ running = TRUE
  BY DEF Forms, QueueForms
<1>2. MQ!TakeOrWait("trainer")
      /\ IF call'["trainer"] = "idle" THEN Collected ELSE UNCHANGED <<tpc, batch>>
  BY DEF TrainerGet, MQ!GetSample, MQ!GetResume
<1>3. CASE queue = <<>> /\ call' = [call EXCEPT !["trainer"] = "waiting"] /\ queue' = queue
  <2>1. call'["trainer"] = "waiting"
    BY <1>1, <1>3
  <2> QED BY <1>2, <1>3, <2>1
<1>4. CASE /\ queue # <<>> /\ queue' = Tail(queue) /\ reply' = [reply EXCEPT !["trainer"] = Head(queue)]
           /\ call' = [call EXCEPT !["trainer"] = "idle"]
  <2>1. call'["trainer"] = "idle" /\ reply'["trainer"] = Head(queue)
    BY <1>1, <1>4
  <2> QED BY <1>2, <1>4, <2>1 DEF Collected
<1> QED BY <1>1, <1>2, <1>3, <1>4 DEF MQ!TakeOrWait, MQ!Rest, MQ!Oldest

\* The steps that leave the message queue as it is.
LEMMA QueueStays ==
  ASSUME [Next]_vars, ~ConsumerPut, ~MainFinish, ~TrainerGet
  PROVE  queue' = queue
<1>1. ASSUME UNCHANGED queueVars PROVE queue' = queue
  BY <1>1 DEF queueVars
<1>2. CASE Processor \/ Tasks \/ Feeder \/ Monitor \/ Resume \/ Pause
  BY <1>1, <1>2 DEF Processor, ProcessorNext, ProcessorTop, ProcessorGet, ProcessorLocked, ProcessorWaited,
     ProcessorWoken, procFrame, Tasks, TaskStart, TaskFinish, TaskCancel, TaskFail, taskFrame, Feeder, Feed,
     Monitor, MonitorTick, MonitorLocked, monitorFrame, Resume, ResumeNext, ResumeBegin, ResumeServers,
     Pause, PauseNext, PauseBegin, PauseCancel, PauseGather, PauseEnd
<1>3. CASE Consumer \/ Main
  BY <1>1, <1>3 DEF Consumer, ConsumerTake, Main, MainStep, MainStop
<1>4. CASE Update
  BY <1>1, <1>4 DEF Update, UpdateNext, UpdateBegin, UpdateMeasure, UpdateAssign, UpdateEnd, MQ!PutValidate
<1>5. CASE TrainerNext
  BY <1>1, <1>5 DEF TrainerNext, TrainerStep, SyncPause, SyncQueue, SyncWeights, TrainerGetValidate,
     TrainerFinal, TrainerLastValid, ReadValidation, MQ!GetValidate, MQ!UpdateParamVersion
<1>6. CASE UNCHANGED vars
  BY <1>6 DEF vars, queueVars
<1> QED BY <1>2, <1>3, <1>4, <1>5, <1>6 DEF Next

\* Every step keeps the finish signal at the end.
LEMMA FinishStep ==
  ASSUME Forms, Placed, FinishLast, [Next]_vars
  PROVE  FinishLast'
<1>1. queue \in Seq(Full \cup {Finish}) /\ csample \in Seq(Full) /\ AtEnd
  BY DEF Forms, QueueForms, RollForms, Placed
<1>2. CASE ConsumerPut
  <2>1. csample # <<>> /\ MQ!PutSample(Head(csample))
    BY <1>2 DEF ConsumerPut
  <2>2. Head(csample) \in Full /\ ~FinishSent
    BY <1>1, <2>1, TakeFirst DEF AtEnd
  <2> QED BY <1>1, <2>1, <2>2, PutFinishLast
<1>3. CASE MainFinish
  <2>1. ~FinishSent /\ MQ!PutSample(Finish)
    BY <1>3 DEF MainFinish, FinishSent
  <2> QED BY <1>1, <2>1, PutFinishLast
<1>4. CASE TrainerGet
  <2>1. queue' = queue \/ queue' = Tail(queue)
    BY <1>4, GetTakes
  <2> DEFINE S == Full \cup {Finish}
  <2>2. queue \in Seq(S)
    BY <1>1
  <2> HIDE DEF S
  <2>3. \A i \in DOMAIN Tail(queue) : Tail(queue)[i] = Finish => i = Len(Tail(queue))
    BY <2>2, FinishMoves DEF FinishLast
  <2> QED BY <2>1, <2>3 DEF FinishLast
<1>5. CASE queue' = queue
  BY <1>5 DEF FinishLast
<1> QED BY <1>2, <1>3, <1>4, <1>5, QueueStays

\* At first the queue is empty.
LEMMA FinishInit == Init => FinishLast
BY DEF Init, FinishLast

\* The servers are paused only over a pause, a transfer, and a resume.
ServersOnly ==
  serverPaused => pausePc \in {"gather", "reset", "done"} \/ tpc = "transfer" \/ resumePc # "done"

\* Every step keeps that.
LEMMA ServersStep ==
  ASSUME SyncInv, ServersOnly, [Next]_vars
  PROVE  ServersOnly'
<1>0. GatherNext \in {"gather", "reset"}
  BY DEF GatherNext
<1>1. CASE UNCHANGED syncVars
  BY <1>1 DEF ServersOnly, syncVars
<1>2. CASE Pause
  <2>1. UNCHANGED <<tpc, resumePc>>
    BY <1>2 DEF Pause, PauseNext, PauseBegin, PauseCancel, PauseGather, PauseEnd, trainerFrame, trainerVars
  <2>2. \/ pausePc \in {"called", "lock"} /\ serverPaused' = serverPaused
        \/ pausePc' \in {"gather", "reset", "done"}
    BY <1>0, <1>2 DEF Pause, PauseNext, PauseBegin, PauseCancel, PauseGather, PauseEnd
  <2> QED BY <2>1, <2>2 DEF ServersOnly
<1>3. CASE Update
  <2>1. UNCHANGED <<tpc, resumePc, serverPaused, pausePc>>
    BY <1>3 DEF Update, UpdateNext, UpdateBegin, UpdateMeasure, UpdateAssign, UpdateEnd, trainerFrame, trainerVars
  <2> QED BY <2>1 DEF ServersOnly
<1>4. CASE Resume
  <2>1. UNCHANGED <<tpc, pausePc>>
    BY <1>4 DEF Resume, ResumeNext, ResumeBegin, ResumeServers, trainerFrame, trainerVars
  <2>2. \/ ~serverPaused'
        \/ resumePc' = "lock"
        \/ /\ resumePc \in {"called", "lock"} /\ serverPaused' = serverPaused
           /\ resumePc' = IF partial_rollout THEN "servers" ELSE "done"
    BY <1>4 DEF Resume, ResumeNext, ResumeBegin, ResumeServers
  <2>3. ~partial_rollout => ~serverPaused
    BY DEF SyncInv, ServersInv
  <2> QED BY <2>1, <2>2, <2>3 DEF ServersOnly
<1>5. CASE TrainerNext
  <2>1. serverPaused' = serverPaused
    BY <1>5 DEF TrainerNext, TrainerGet, TrainerStep, SyncPause, SyncQueue, SyncWeights, TrainerGetValidate,
       TrainerFinal, TrainerLastValid, rollouterVars, loopVars
  <2>2. CASE SyncPause \/ SyncQueue \/ SyncWeights
    BY <2>1, <2>2 DEF SyncPause, SyncQueue, SyncWeights, ServersOnly, SyncInv, Calls
  <2>3. CASE TrainerGet \/ TrainerStep \/ TrainerGetValidate \/ TrainerFinal \/ TrainerLastValid
    <3>1. UNCHANGED <<pausePc, resumePc>> /\ tpc # "transfer"
      BY <2>3 DEF TrainerGet, TrainerStep, TrainerGetValidate, TrainerFinal, TrainerLastValid, rollouterVars,
         callVars
    <3> QED BY <2>1, <3>1 DEF ServersOnly
  <2> QED BY <1>5, <2>2, <2>3 DEF TrainerNext
<1>6. CASE UNCHANGED vars
  BY <1>6 DEF vars, rollouterVars, loopVars, callVars, trainerVars, ServersOnly
<1> QED BY <1>1, <1>2, <1>3, <1>4, <1>5, <1>6, ProcessorSync, TasksSync, LoopSync DEF Next

\* At first the servers are not paused.
LEMMA ServersInit == Init => ServersOnly
BY DEF Init, RollouterInit, ServersOnly

-----------------------------------------------------------------------------
\* From the finish signal on the trainer only ends.
Ending == tpc \in {"final", "lastvalid", "done"} \/ last

\* Where all that was taken is trained on and nothing counted afresh, where the rollouter
\* stands still, and where pause() has forgotten the tasks.
Emptied == \/ tpc \in {"waitvalid", "pausing", "transfer"}
           \/ updatePc \in {"called", "lock", "qsize", "assign"}
Halted == \/ pausePc \in {"cancel", "gather", "reset", "done"}
          \/ tpc = "transfer" \/ resumePc \in {"called", "lock"}
Forgotten == \/ pausePc \in {"reset", "done"} \/ tpc = "transfer"
             \/ updatePc \in {"called", "lock", "qsize", "assign"}

\* The monitor is in line at the lock before the pause.
MonitorFirst == \E i, j \in DOMAIN lockq : i < j /\ lockq[i] = "monitor" /\ lockq[j] = "pause"

\* staleness_samples keeps to the limit, and covers what is ahead and what has been trained
\* on since the last synchronization.
Quota ==
  /\ staleness <= MaxRequired
  /\ ppc = "get" => staleness < MaxRequired
  /\ Cardinality(Ahead) + RequiredSamples * (local - 1) <= staleness

Empty == Emptied => Ahead = {} /\ local = 1 /\ staleness = MaxRequired

\* A pause is on, and nothing is there to end it but resume().
Still == Halted => Ahead = {} /\ paused /\ monitor # "wakeLock" /\ ppc # "get"
Untriggered == pausePc = "done" \/ tpc = "transfer" \/ resumePc \in {"called", "lock"} => ~trigger
Waking == resumePc = "servers" => Ahead = {} /\ ppc \notin {"top", "get"}

\* What update_param_version() counts.
Measured ==
  /\ Forgotten => finished = 0 /\ failed = 0
  /\ updatePc = "qsize" => updateArgs.sum = 0
  /\ updatePc = "assign" => updateArgs.sum <= MaxRequired
  /\ updatePc \in {"called", "lock", "qsize", "assign"} => tpc # "waitvalid"

Order == pausePc = "lock" /\ monitor = "wakeLock" => MonitorFirst

\* The labels of what is ahead are of the version now.
Labelling(q, v) == \A i \in DOMAIN q : q[i] # Finish => q[i].start = v /\ q[i].end = v
Unstarted == /\ \A s \in ready : s.start = -1
             /\ held # <<>> => Head(held).start = -1
Current ==
  /\ Unstarted
  /\ \A s \in generating : s.start = version
  /\ Labelling(resultQ, version) /\ Labelling(csample, version)
  /\ Labelling(queue, version) /\ Labelling(batch, version)

Steady == Quota /\ Empty /\ Still /\ Untriggered /\ Waking /\ Measured /\ Order
Synchronous == IF Ending THEN FinishSent /\ Over /\ (ppc = "exited" => Flight = {})
                         ELSE Steady /\ Current /\ cancelQ = <<>>

\* A step with which nothing comes to be ahead and the counts stay keeps to them.
LEMMA QuotaStays ==
  ASSUME Forms, Quota, Shrinks, UNCHANGED <<staleness, local>>, ppc' = "get" => ppc = "get"
  PROVE  Quota'
<1>1. /\ Cardinality(Ahead') \in Nat /\ Cardinality(Ahead') <= Cardinality(Ahead) /\ Cardinality(Ahead) \in Nat
  BY AheadCount DEF Shrinks
<1>2. RequiredSamples * (local - 1) \in Nat
  <2>1. local - 1 \in Nat /\ RequiredSamples \in Nat
    BY RollouterAssumption DEF Forms, QueueForms
  <2> QED BY <2>1
<1>3. MaxRequired' = MaxRequired /\ staleness \in Nat /\ MaxRequired \in Nat
  BY MaxRequiredPositive DEF Forms, OtherForms
<1> HIDE DEF MaxRequired
<1>4. RequiredSamples * (local' - 1) = RequiredSamples * (local - 1)
  OBVIOUS
<1> QED BY <1>1, <1>2, <1>3, <1>4 DEF Quota

callPcs == <<pausePc, updatePc, resumePc>>

\* The trainer is as far as it was from a synchronization.
NoCall == tpc' = tpc \/ {tpc, tpc'} \subseteq {"collect", "train", "getval"}

\* A step that leaves the calls where they are, and the counts.
LEMMA CallsStay ==
  ASSUME Forms, Steady, Shrinks, UNCHANGED callPcs, NoCall, UNCHANGED <<staleness, local, updateArgs>>,
         ppc' \in {"top", "get"} => ppc' = ppc \/ resumePc # "servers",
         ppc' = "get" => ppc = "get",
         Halted => paused' = paused /\ (monitor' = "wakeLock" => monitor = "wakeLock"),
         trigger' = trigger,
         Forgotten => finished' \in {finished, 0} /\ failed' \in {failed, 0},
         Order'
  PROVE  Steady'
<1>1. Quota'
  BY QuotaStays DEF Steady
<1>2. MaxRequired' = MaxRequired
  BY DEF MaxRequired, SetMaxRequired
<1> HIDE DEF MaxRequired
<1>3. (Emptied' <=> Emptied) /\ (Halted' <=> Halted) /\ (Forgotten' <=> Forgotten)
  BY DEF callPcs, NoCall, Emptied, Halted, Forgotten
<1>4. Empty'
  BY <1>2, <1>3 DEF Steady, Empty, Shrinks
<1>5. Still'
  BY <1>3 DEF Steady, Still, Shrinks
<1>6. Untriggered' /\ Waking'
  BY DEF Steady, Untriggered, Waking, Shrinks, callPcs, NoCall
<1>7. Measured'
  BY <1>2, <1>3 DEF Steady, Measured, callPcs, NoCall
<1> QED BY <1>1, <1>4, <1>5, <1>6, <1>7 DEF Steady

-----------------------------------------------------------------------------
\* The line keeps its order: whoever joins it joins at the end.
LEMMA OrderTurn ==
  ASSUME Line, Order, NEW c \in Callers, Turn(c), c \notin {"pause", "monitor"},
         UNCHANGED <<pausePc, monitor>>
  PROVE  Order'
<1> SUFFICES ASSUME pausePc = "lock", monitor = "wakeLock" PROVE MonitorFirst'
  BY DEF Order
<1>1. PICK i, j \in DOMAIN lockq : i < j /\ lockq[i] = "monitor" /\ lockq[j] = "pause"
  BY DEF Order, MonitorFirst
<1>2. lockq \in Seq(Callers) /\ DOMAIN lockq = 1..Len(lockq) /\ Len(lockq) \in Nat
  BY LenProperties DEF Line
<1>3. CASE lockq' = lockq
  BY <1>1, <1>3 DEF MonitorFirst
<1>4. CASE lockq' = Append(lockq, c)
  <2>1. /\ DOMAIN lockq' = 1..(Len(lockq) + 1) /\ \A k \in 1..Len(lockq) : lockq'[k] = lockq[k]
    BY <1>2, <1>4, AppendProperties, LenProperties
  <2> QED BY <1>1, <1>2, <2>1 DEF MonitorFirst
<1>5. CASE Owns(c) /\ (lockq' = Tail(lockq) \/ lockq' = Append(Tail(lockq), c))
  <2>1. /\ Tail(lockq) \in Seq(Callers) /\ Len(Tail(lockq)) = Len(lockq) - 1 /\ Len(lockq) \in Nat \ {0}
        /\ \A k \in 1..Len(Tail(lockq)) : Tail(lockq)[k] = lockq[k + 1]
        /\ DOMAIN Tail(lockq) = 1..(Len(lockq) - 1) /\ Head(lockq) = lockq[1]
    BY <1>2, <1>5, HeadTailProperties, LenProperties, EmptySeq DEF Owns
  <2>2. lockq[1] = c /\ i # 1 /\ j # 1
    BY <1>1, <1>5, <2>1 DEF Owns
  <2>3. /\ i - 1 \in 1..Len(Tail(lockq)) /\ j - 1 \in 1..Len(Tail(lockq)) /\ i - 1 < j - 1
        /\ Tail(lockq)[i - 1] = "monitor" /\ Tail(lockq)[j - 1] = "pause"
    BY <1>1, <1>2, <2>1, <2>2
  <2>4. CASE lockq' = Tail(lockq)
    BY <2>1, <2>3, <2>4 DEF MonitorFirst
  <2>5. CASE lockq' = Append(Tail(lockq), c)
    <3> DEFINE q == Tail(lockq)
    <3>1. q \in Seq(Callers) /\ lockq' = Append(q, c)
      BY <2>1, <2>5
    <3>2. /\ DOMAIN Append(q, c) = 1..(Len(q) + 1) /\ \A k \in 1..Len(q) : Append(q, c)[k] = q[k]
          /\ Len(q) \in Nat
      <4> HIDE DEF q
      <4> QED BY <3>1, AppendProperties, LenProperties
    <3>3. i - 1 \in DOMAIN lockq' /\ j - 1 \in DOMAIN lockq'
      BY <2>1, <2>3, <3>1, <3>2
    <3>4. lockq'[i - 1] = "monitor" /\ lockq'[j - 1] = "pause"
      BY <2>3, <3>1, <3>2
    <3> QED BY <2>3, <3>3, <3>4 DEF MonitorFirst
  <2> QED BY <1>5, <2>4, <2>5
<1> QED BY <1>3, <1>4, <1>5 DEF Turn

\* A pause that joins the line joins it behind the monitor; one at its head has none before it.
LEMMA PauseJoins ==
  ASSUME Line, monitor = "wakeLock"
  PROVE  /\ lockq # <<>>
         /\ lockq' = Append(lockq, "pause") => MonitorFirst'
         /\ Owns("pause") => ~MonitorFirst
<1>1. lockq \in Seq(Callers) /\ DOMAIN lockq = 1..Len(lockq) /\ Len(lockq) \in Nat /\ NoDup(lockq)
  BY LenProperties DEF Line
<1>2. PICK i \in DOMAIN lockq : lockq[i] = "monitor"
  BY DEF Line, In, Members, Callers
<1>3. lockq # <<>>
  BY <1>2
<1>4. ASSUME lockq' = Append(lockq, "pause") PROVE MonitorFirst'
  <2>1. /\ DOMAIN lockq' = 1..(Len(lockq) + 1) /\ \A k \in 1..Len(lockq) : lockq'[k] = lockq[k]
        /\ lockq'[Len(lockq) + 1] = "pause"
    BY <1>1, <1>4, AppendProperties, LenProperties DEF Callers
  <2> QED BY <1>1, <1>2, <2>1 DEF MonitorFirst
<1>5. ASSUME Owns("pause"), NEW j \in DOMAIN lockq, NEW k \in DOMAIN lockq, k < j, lockq[j] = "pause"
      PROVE FALSE
  <2>1. lockq[1] = "pause" /\ 1 \in DOMAIN lockq
    BY <1>1, <1>5 DEF Owns
  <2>2. j = 1
    BY <1>5, <2>1, <1>1 DEF NoDup
  <2> QED BY <1>1, <1>5, <2>2
<1> QED BY <1>3, <1>4, <1>5 DEF MonitorFirst

-----------------------------------------------------------------------------
\* Labels in a queue, as it grows and shrinks.
LEMMA LabelsMove ==
  ASSUME NEW S, NEW q \in Seq(S), NEW v, Labelling(q, v)
  PROVE  /\ Labelling(<<>>, v) /\ Labelling(Tail(q), v)
         /\ \A s \in S : s = Finish \/ (s.start = v /\ s.end = v) => Labelling(Append(q, s), v) /\ Labelling(<<s>>, v)
         /\ q # <<>> /\ Head(q) # Finish => Head(q).start = v /\ Head(q).end = v
<1>1. Labelling(<<>>, v)
  BY DEF Labelling
<1>2. ASSUME NEW s \in S, s = Finish \/ (s.start = v /\ s.end = v)
      PROVE  Labelling(Append(q, s), v) /\ Labelling(<<s>>, v)
  <2>1. /\ Len(Append(q, s)) = Len(q) + 1 /\ DOMAIN Append(q, s) = 1..(Len(q) + 1)
        /\ \A i \in 1..Len(q) : Append(q, s)[i] = q[i]
        /\ Append(q, s)[Len(q) + 1] = s /\ DOMAIN q = 1..Len(q) /\ Len(q) \in Nat
    BY AppendProperties, LenProperties
  <2>2. \A i \in 1..(Len(q) + 1) : i \in 1..Len(q) \/ i = Len(q) + 1
    BY <2>1
  <2>3. Labelling(Append(q, s), v)
    BY <1>2, <2>1, <2>2 DEF Labelling
  <2>4. DOMAIN <<s>> = {1} /\ <<s>>[1] = s
    OBVIOUS
  <2> QED BY <1>2, <2>3, <2>4 DEF Labelling
<1>3. CASE q = <<>>
  <2>1. DOMAIN Tail(q) = {}
    BY <1>3
  <2> QED BY <1>1, <1>2, <1>3, <2>1 DEF Labelling
<1>4. CASE q # <<>>
  <2>1. /\ Tail(q) \in Seq(S) /\ Len(Tail(q)) = Len(q) - 1 /\ Len(q) \in Nat \ {0}
        /\ \A i \in 1..Len(Tail(q)) : Tail(q)[i] = q[i + 1]
        /\ DOMAIN q = 1..Len(q) /\ DOMAIN Tail(q) = 1..(Len(q) - 1)
        /\ Head(q) = q[1]
    BY <1>4, HeadTailProperties, LenProperties, EmptySeq
  <2>2. \A i \in DOMAIN Tail(q) : i + 1 \in DOMAIN q /\ Tail(q)[i] = q[i + 1]
    BY <2>1
  <2>3. 1 \in DOMAIN q
    BY <2>1
  <2> QED BY <1>1, <1>2, <2>1, <2>2, <2>3 DEF Labelling
<1> QED BY <1>3, <1>4

sampleVars == <<ready, held, generating, resultQ, csample, queue, batch, version>>

\* The labels are about these variables alone.
LEMMA CurrentFrame == Current /\ UNCHANGED sampleVars => Current'
BY DEF Current, Unstarted, Labelling, sampleVars

EmptyFact == Forms /\ Ahead = {} => NothingAhead

\* Empty places, as a fact about a state.
LEMMA EmptyNow == EmptyFact
BY AheadEmpty DEF EmptyFact

\* The same after a step.
LEMMA EmptyNext == EmptyFact'
BY EmptyNow, PTL

\* Where nothing is ahead, there is nothing to be labelled.
LEMMA CurrentEmpty ==
  ASSUME Forms', Ahead' = {}
  PROVE  Current'
<1>1. NothingAhead'
  BY EmptyNext DEF EmptyFact
<1> QED BY <1>1 DEF NothingAhead, Current, Unstarted, Labelling

\* The processor submits samples that have not started: none has been interrupted.
LEMMA ProcessorCurrent ==
  ASSUME Forms, Current, cancelQ = <<>>, Processor
  PROVE  Current' /\ cancelQ' = <<>>
<1>1. /\ UNCHANGED <<generating, resultQ, csample, queue, batch>>
      /\ \/ UNCHANGED <<pending, cancelQ, held, ready>>
         \/ FromPending \/ FromCancelled \/ FromHeld
  BY ProcessorMoves
<1>2. version' = version
  BY ProcessorSync DEF syncVars
<1>3. ASSUME NEW s, s.start = -1, Takes(s) PROVE Unstarted'
  <2>1. Head(<<s>>) = s
    OBVIOUS
  <2> QED BY <1>3, <2>1 DEF Takes, Current, Unstarted
<1>4. Unstarted' /\ cancelQ' = <<>>
  <2>1. CASE UNCHANGED <<pending, cancelQ, held, ready>>
    BY <2>1 DEF Current, Unstarted
  <2>2. CASE FromPending
    <3>1. Fresh(Head(pending)).start = -1
      BY DEF Fresh
    <3> QED BY <1>3, <2>2, <3>1 DEF FromPending, Current, Unstarted
  <2>3. CASE FromHeld
    <3>1. Head(held).start = -1
      BY <2>3 DEF FromHeld, Current, Unstarted
    <3> QED BY <1>3, <2>3, <3>1 DEF FromHeld
  <2> QED BY <1>1, <2>1, <2>2, <2>3 DEF FromCancelled
<1> QED BY <1>1, <1>2, <1>4 DEF Current, Labelling

\* A task labels its sample with the version, at its start and at its end.
LEMMA TasksCurrent ==
  ASSUME SyncInv, Forms, Current, cancelQ = <<>>, ~serverPaused, Tasks
  PROVE  Current' /\ cancelQ' = <<>>
<1>1. /\ UNCHANGED <<held, csample, queue, batch, version>>
      /\ ready \subseteq Item /\ generating \subseteq Part /\ resultQ \in Seq(Full)
  BY TasksSync DEF syncVars, Tasks, TaskStart, TaskFinish, TaskCancel, TaskFail, taskFrame, procVars,
     consumerVars, queueVars, trainerFrame, trainerVars, Forms, RollForms
<1>2. PICK s : \/ s \in ready /\ TaskStart(s)
               \/ s \in generating /\ (TaskFinish(s) \/ TaskCancel(s) \/ TaskFail(s))
  BY DEF Tasks
<1>3. CASE s \in ready /\ TaskStart(s)
  <2>1. /\ ready' = ready \ {s} /\ generating' = generating \cup {Labelled(s)}
        /\ UNCHANGED <<cancelQ, resultQ>>
    BY <1>3 DEF TaskStart
  <2>2. Labelled(s).start = version
    <3>1. s.start = -1
      BY <1>3 DEF Current, Unstarted
    <3>2. s = [id |-> s.id, start |-> s.start, end |-> s.end]
      BY <1>1, <1>3 DEF Item, NewSample, Part
    <3> QED BY <3>1, <3>2 DEF Labelled
  <2> QED BY <1>1, <2>1, <2>2 DEF Current, Unstarted, Labelling
<1>4. CASE s \in generating /\ TaskFinish(s)
  <2> DEFINE t == [s EXCEPT !.end = version]
  <2>1. /\ generating' = generating \ {s} /\ resultQ' = Append(resultQ, t)
        /\ UNCHANGED <<cancelQ, ready>>
    BY <1>4 DEF TaskFinish
  <2>2. t.start = version /\ t.end = version /\ t \in Full
    <3>1. s \in Part /\ s.start = version /\ s = [id |-> s.id, start |-> s.start, end |-> s.end]
      BY <1>1, <1>4 DEF Part, Current
    <3> QED BY <3>1, LabelTyped
  <2> HIDE DEF t
  <2>3. Labelling(resultQ', version)
    BY <1>1, <2>1, <2>2, LabelsMove DEF Current
  <2> QED BY <1>1, <2>1, <2>3 DEF Current, Unstarted, Labelling
<1>5. CASE TaskCancel(s)
  BY <1>5 DEF TaskCancel
<1>6. CASE s \in generating /\ TaskFail(s)
  <2>1. generating' = generating \ {s} /\ UNCHANGED <<cancelQ, ready, resultQ>>
    BY <1>6 DEF TaskFail
  <2> QED BY <1>1, <2>1 DEF Current, Unstarted, Labelling
<1> QED BY <1>2, <1>3, <1>4, <1>5, <1>6

\* put_sample labels nothing.
LEMMA PutLabels ==
  ASSUME Forms, NEW v, Labelling(queue, v), NEW s \in Full \cup {Finish}, MQ!PutSample(s),
         s = Finish \/ (s.start = v /\ s.end = v)
  PROVE  Labelling(queue', v)
<1> DEFINE S == Full \cup {Finish}
           q == IF MQ!Full THEN Tail(queue) ELSE queue
<1>1. queue \in Seq(S) /\ queue' = Append(q, s) /\ s \in S
  BY DEF Forms, QueueForms, MQ!PutSample
<1>2. MQ!Full => queue # <<>>
  BY MaxRequiredPositive DEF MQ!Full
<1> HIDE DEF S
<1>3. q \in Seq(S) /\ Labelling(q, v)
  BY <1>1, <1>2, LabelsMove, HeadTailProperties
<1> HIDE DEF q
<1> QED BY <1>1, <1>3, LabelsMove

\* The consumer carries labels on.
LEMMA ConsumerCurrent ==
  ASSUME Forms, Current, cancelQ = <<>>, Consumer
  PROVE  Current' /\ cancelQ' = <<>>
<1>1. /\ UNCHANGED <<ready, held, generating, batch, version, cancelQ>>
      /\ resultQ \in Seq(Full) /\ csample \in Seq(Full)
  BY LoopSync DEF syncVars, Consumer, ConsumerTake, ConsumerPut, taskVars, procVars, localQueues,
     trainerFrame, trainerVars, Forms, RollForms
<1>2. CASE ConsumerTake
  <2>1. /\ resultQ # <<>> /\ resultQ' = Tail(resultQ) /\ queue' = queue
        /\ csample' = <<Head(resultQ)>> \/ csample' = csample
    BY <1>2 DEF ConsumerTake, queueVars
  <2>2. Head(resultQ) \in Full /\ Head(resultQ) # Finish
    BY <1>1, <2>1, TakeFirst, FormsIds
  <2>3. Labelling(Tail(resultQ), version) /\ Labelling(<<Head(resultQ)>>, version)
    BY <1>1, <2>1, <2>2, LabelsMove DEF Current
  <2>4. Labelling(csample, version)
    BY DEF Current
  <2>5. Labelling(resultQ', version) /\ Labelling(csample', version)
    BY <2>1, <2>3, <2>4
  <2> QED BY <1>1, <2>1, <2>5 DEF Current, Unstarted, Labelling
<1>3. CASE ConsumerPut
  <2>1. csample # <<>> /\ MQ!PutSample(Head(csample)) /\ csample' = <<>> /\ resultQ' = resultQ
    BY <1>3 DEF ConsumerPut, localQueues
  <2>2. Head(csample) \in Full /\ Head(csample) # Finish
    BY <1>1, <2>1, TakeFirst, FormsIds
  <2>3. Head(csample).start = version /\ Head(csample).end = version
    BY <1>1, <2>1, <2>2, LabelsMove DEF Current
  <2>4. Labelling(queue', version)
    BY <2>1, <2>2, <2>3, PutLabels DEF Current
  <2> QED BY <1>1, <2>1, <2>4 DEF Current, Unstarted, Labelling
<1> QED BY <1>2, <1>3 DEF Consumer

\* The finish signal has no label.
LEMMA MainCurrent ==
  ASSUME Forms, Current, cancelQ = <<>>, Main
  PROVE  Current' /\ cancelQ' = <<>>
<1>1. UNCHANGED <<ready, held, generating, resultQ, csample, batch, version, cancelQ>>
  BY LoopSync DEF syncVars, Main, MainStep, MainFinish, MainStop, taskVars, procVars, localQueues,
     consumerVars, trainerFrame, trainerVars
<1>2. CASE MainFinish
  <2>1. Labelling(queue', version)
    BY <1>2, PutLabels DEF MainFinish, Current
  <2> QED BY <1>1, <2>1 DEF Current, Unstarted, Labelling
<1>3. CASE MainStep \/ MainStop
  BY <1>1, <1>3, CurrentFrame DEF MainStep, MainStop, queueVars, sampleVars
<1> QED BY <1>2, <1>3 DEF Main

\* The trainer takes labels off, and clears them with its batch.
LEMMA TrainerCurrent ==
  ASSUME SyncInv, Forms, Current, cancelQ = <<>>, TrainerNext
  PROVE  Current' /\ cancelQ' = <<>>
<1>1. UNCHANGED <<ready, held, generating, resultQ, csample, version, cancelQ>>
  BY DEF TrainerNext, TrainerGet, TrainerStep, SyncPause, SyncQueue, SyncWeights, TrainerGetValidate,
     TrainerFinal, TrainerLastValid, rollouterVars, loopVars, taskVars, procVars, localQueues, consumerVars,
     flagVars
<1>2. CASE TrainerGet
  <2> DEFINE S == Full \cup {Finish}
  <2>1. queue \in Seq(S) /\ batch \in Seq(S) /\ Labelling(queue, version) /\ Labelling(batch, version)
    <3>1. queue \in Seq(S) /\ batch \in Seq(Full) /\ Full \subseteq S
      BY DEF Forms, QueueForms
    <3> QED BY <3>1, SeqMonotonic DEF Current
  <2>2. \/ UNCHANGED <<queue, batch>>
        \/ /\ queue # <<>> /\ queue' = Tail(queue)
           /\ batch' = batch \/ (Head(queue) # Finish /\ batch' = Append(batch, Head(queue)))
    BY <1>2, GetTakes
  <2> HIDE DEF S
  <2>3. Labelling(queue', version) /\ Labelling(batch', version)
    <3>1. CASE UNCHANGED <<queue, batch>>
      BY <2>1, <3>1
    <3>2. CASE queue # <<>> /\ queue' = Tail(queue) /\ batch' = batch
      BY <2>1, <3>2, LabelsMove
    <3>3. CASE queue # <<>> /\ queue' = Tail(queue) /\ Head(queue) # Finish /\ batch' = Append(batch, Head(queue))
      <4>1. Head(queue) \in S /\ Head(queue).start = version /\ Head(queue).end = version
        BY <2>1, <3>3, TakeFirst, LabelsMove
      <4>2. Labelling(Tail(queue), version)
        BY <2>1, LabelsMove
      <4>3. Labelling(Append(batch, Head(queue)), version)
        BY <2>1, <4>1, LabelsMove
      <4> QED BY <3>3, <4>2, <4>3
    <3> QED BY <2>2, <3>1, <3>2, <3>3
  <2> QED BY <1>1, <2>3 DEF Current, Unstarted
<1>3. CASE TrainerStep
  <2>1. batch' = <<>> /\ queue' = queue
    BY <1>3 DEF TrainerStep, queueVars
  <2> QED BY <1>1, <2>1 DEF Current, Unstarted, Labelling
<1>4. CASE SyncPause \/ SyncQueue \/ SyncWeights \/ TrainerGetValidate \/ TrainerFinal \/ TrainerLastValid
  <2>1. UNCHANGED <<queue, batch>>
    BY <1>4 DEF SyncPause, SyncQueue, SyncWeights, TrainerGetValidate, TrainerFinal, TrainerLastValid,
       ReadValidation, queueVars, MQ!GetValidate, MQ!UpdateParamVersion
  <2> QED BY <1>1, <2>1, CurrentFrame DEF sampleVars
<1> QED BY <1>2, <1>3, <1>4 DEF TrainerNext

\* The other steps hold no sample; the version changes where there is none.
LEMMA OtherCurrent ==
  ASSUME Forms, Forms', Current, cancelQ = <<>>, Shrinks,
         Feeder \/ Monitor \/ Pause \/ Update \/ Resume \/ UNCHANGED vars,
         version' # version => Ahead = {}
  PROVE  Current' /\ cancelQ' = <<>>
<1>1. CASE Update
  <2>1. UNCHANGED <<ready, held, generating, resultQ, csample, queue, batch, cancelQ>>
    BY <1>1 DEF Update, UpdateNext, UpdateBegin, UpdateMeasure, UpdateAssign, UpdateEnd, callFrame,
       localQueues, consumerVars, queueVars, MQ!PutValidate, trainerFrame, trainerVars
  <2>2. CASE version' = version
    BY <2>1, <2>2, CurrentFrame DEF sampleVars
  <2>3. CASE version' # version
    BY <2>1, <2>3, CurrentEmpty DEF Shrinks
  <2> QED BY <2>2, <2>3
<1>2. CASE Feeder \/ Monitor \/ Pause \/ Resume \/ UNCHANGED vars
  <2>1. UNCHANGED sampleVars /\ cancelQ' = cancelQ
    BY <1>2 DEF Feeder, Feed, Monitor, MonitorTick, MonitorLocked, monitorFrame, Pause, PauseNext, PauseBegin,
       PauseCancel, PauseGather, PauseEnd, Resume, ResumeNext, ResumeBegin, ResumeServers, callFrame,
       localQueues, taskVars, procVars, consumerVars, queueVars, flagVars, trainerFrame, trainerVars,
       vars, rollouterVars, loopVars, sampleVars
  <2> QED BY <2>1, CurrentFrame
<1> QED BY <1>1, <1>2

-----------------------------------------------------------------------------
\* A limit that is a constant, and products that are numbers.
LEMMA Limits ==
  /\ MaxRequired' = MaxRequired /\ MaxRequired \in Nat \ {0}
  /\ RequiredSamples \in Nat \ {0} /\ TriggerSteps \in Nat \ {0}
  /\ \A n \in Nat : RequiredSamples * n \in Nat
<1>1. RequiredSamples \in Nat \ {0} /\ TriggerSteps \in Nat \ {0}
  BY RollouterAssumption
<1>2. MaxRequired' = MaxRequired
  BY DEF MaxRequired, SetMaxRequired
<1> QED BY <1>1, <1>2, MaxRequiredPositive

\* Where the tasks are forgotten nothing is ahead, and no task takes a step.
LEMMA ForgottenEmpty ==
  ASSUME Steady
  PROVE  /\ Forgotten => Ahead = {}
         /\ Forms /\ Tasks => Ahead # {}
         /\ Forms /\ Ahead = {} => batch = <<>>
<1>1. Forgotten => Ahead = {}
  BY DEF Forgotten, Steady, Empty, Emptied, Still, Halted
<1>2. Forms /\ Ahead = {} => ready = {} /\ generating = {} /\ batch = <<>>
  BY EmptyNow DEF EmptyFact, NothingAhead
<1>3. Tasks => ready # {} \/ generating # {}
  BY DEF Tasks
<1> QED BY <1>1, <1>2, <1>3

\* A task leaves the calls alone.
LEMMA TasksSteady ==
  ASSUME Forms, Steady, Shrinks, Tasks
  PROVE  Steady'
<1>1. /\ UNCHANGED callPcs /\ UNCHANGED <<tpc, ppc, monitor, lockq, paused, trigger, staleness, local, updateArgs>>
  BY TasksSync DEF syncVars, callPcs, Tasks, TaskStart, TaskFinish, TaskCancel, TaskFail, taskFrame, procVars,
     flagVars, callVars, trainerFrame, trainerVars
<1>2. ~Forgotten
  BY ForgottenEmpty
<1>3. Order'
  BY <1>1 DEF Steady, Order, MonitorFirst, callPcs
<1> QED BY <1>1, <1>2, <1>3, CallsStay DEF NoCall

\* So do the feeder, the consumer and the main coroutine.
LEMMA LoopSteady ==
  ASSUME Line, Forms, Steady, Shrinks, Feeder \/ Consumer \/ Main \/ UNCHANGED vars
  PROVE  Steady'
<1>1. UNCHANGED callPcs /\ UNCHANGED <<tpc, ppc, monitor, paused, trigger, staleness, local, updateArgs, finished, failed>>
  <2>1. CASE Feeder
    BY <2>1 DEF callPcs, Feeder, Feed, taskVars, procVars, flagVars, callVars, trainerFrame, trainerVars
  <2>2. CASE Consumer
    BY <2>2 DEF callPcs, Consumer, ConsumerTake, ConsumerPut, taskVars, procVars, flagVars, callVars,
       trainerFrame, trainerVars
  <2>3. CASE Main
    BY <2>3 DEF callPcs, Main, MainStep, MainFinish, MainStop, taskVars, procVars, flagVars, callVars,
       trainerFrame, trainerVars
  <2>4. CASE UNCHANGED vars
    BY <2>4 DEF callPcs, vars, rollouterVars, loopVars, taskVars, procVars, flagVars, callVars, trainerVars
  <2> QED BY <2>1, <2>2, <2>3, <2>4
<1>2. Order'
  <2>1. CASE Main
    BY <1>1, <2>1, MainTurn, OrderTurn DEF Callers, callPcs, Steady
  <2>2. CASE Feeder \/ Consumer \/ UNCHANGED vars
    <3>1. lockq' = lockq
      BY <2>2 DEF Feeder, Feed, Consumer, ConsumerTake, ConsumerPut, vars, rollouterVars, loopVars
    <3> QED BY <1>1, <3>1 DEF Steady, Order, MonitorFirst, callPcs
  <2> QED BY <2>1, <2>2
<1> QED BY <1>1, <1>2, CallsStay DEF NoCall

\* The flags under the processor: it pauses, and never ends a pause.
LEMMA ProcessorFlags ==
  ASSUME Processor
  PROVE  /\ UNCHANGED callPcs /\ UNCHANGED <<tpc, monitor, trigger, local, updateArgs>>
         /\ paused => paused'
         /\ finished' \in {finished, 0} /\ failed' \in {failed, 0}
<1>1. /\ UNCHANGED callPcs /\ UNCHANGED <<tpc, monitor, trigger, local, updateArgs>>
  BY DEF Processor, ProcessorNext, ProcessorTop, ProcessorGet, ProcessorLocked, ProcessorWaited,
     ProcessorWoken, procFrame, callVars, callPcs, trainerFrame, trainerVars
<1>2. paused => paused'
  BY DEF Processor, ProcessorNext, ProcessorTop, ProcessorGet, ProcessorLocked, ProcessorWaited,
     ProcessorWoken, GoPause, TakePending
<1>3. finished' \in {finished, 0} /\ failed' \in {failed, 0}
  BY DEF Processor, ProcessorNext, ProcessorTop, ProcessorGet, ProcessorLocked, ProcessorWaited,
     ProcessorWoken
<1> QED BY <1>1, <1>2, <1>3

\* While resume() holds the lock, a processor that sleeps does not come to the top.
LEMMA ProcessorWaits ==
  ASSUME Line, Processor, resumePc = "servers", ppc \notin {"top", "get"}
  PROVE  ppc' \notin {"top", "get"}
<1>1. lockq # <<>> /\ ~Owns("proc")
  <2>1. Owns("resume")
    BY DEF Line, On, Callers
  <2> QED BY <2>1 DEF Owns
<1>2. ppc # "wait"
  <2>1. ppc = "wait" => Owns("proc")
    BY DEF Line, On, Callers
  <2> QED BY <1>1, <2>1
<1>3. ProcessorWoken
  BY <1>1, <1>2 DEF Processor, ProcessorNext, ProcessorTop, ProcessorGet, ProcessorLocked, ProcessorWaited
<1> QED BY <1>1, <1>3 DEF ProcessorWoken

\* The processor counts what it takes, and takes nothing at the limit or in a pause.
LEMMA ProcessorSteady ==
  ASSUME Line, Forms, Steady, Processor,
         Shrinks \/ (Counts /\ \E k \in Samples : Ahead' = Ahead \cup {k})
  PROVE  Steady'
<1>0. /\ staleness \in Nat /\ MaxRequired \in Nat /\ MaxRequired' = MaxRequired /\ local \in Nat \ {0}
      /\ Cardinality(Ahead) \in Nat /\ Cardinality(Ahead') \in Nat /\ IsFiniteSet(Ahead)
      /\ RequiredSamples * (local - 1) \in Nat
  <2>1. staleness \in Nat /\ local \in Nat \ {0}
    <3>1. local \in 1..TriggerSteps
      BY DEF Forms, QueueForms
    <3> QED BY <3>1, Limits DEF Forms, OtherForms
  <2>2. local - 1 \in Nat
    BY <2>1
  <2>3. Cardinality(Ahead') \in Nat
    <3>1. (Cardinality(Ahead) \in Nat)'
      BY AheadCount, PTL
    <3> QED BY <3>1
  <2> QED BY <2>1, <2>2, <2>3, Limits, AheadCount
<1> HIDE DEF MaxRequired
<1>1. /\ UNCHANGED callPcs /\ UNCHANGED <<tpc, monitor, trigger, local, updateArgs>>
      /\ paused => paused'
      /\ finished' \in {finished, 0} /\ failed' \in {failed, 0}
  BY ProcessorFlags
<1>2. (Emptied' <=> Emptied) /\ (Halted' <=> Halted) /\ (Forgotten' <=> Forgotten)
  BY <1>1 DEF callPcs, Emptied, Halted, Forgotten
<1>3. ~ShouldPause => staleness < MaxRequired
  BY <1>0 DEF ShouldPause
<1>4. Counts => staleness < MaxRequired /\ ~Emptied /\ ~Halted /\ resumePc # "servers"
  BY <1>0, <1>3 DEF Counts, Steady, Quota, Empty, Still, Waking
<1>5. ~Counts => Shrinks /\ staleness' = staleness
                 /\ (ppc' = "get" => ppc = "top" /\ ~paused /\ ~ShouldPause)
  BY ProcessorTakes
<1>6. Quota'
  <2>1. CASE Counts
    <3>1. staleness' = staleness + 1 /\ ppc' # "get"
      BY <2>1 DEF Counts
    <3>2. Cardinality(Ahead') <= Cardinality(Ahead) + 1
      <4>1. CASE Shrinks
        BY <1>0, <4>1, AheadCount DEF Shrinks
      <4>2. CASE \E k \in Samples : Ahead' = Ahead \cup {k}
        <5>1. PICK k \in Samples : Ahead' = Ahead \cup {k}
          BY <4>2
        <5>2. Cardinality(Ahead \cup {k}) = Cardinality(Ahead) \/ Cardinality(Ahead \cup {k}) = Cardinality(Ahead) + 1
          BY <1>0, FS_AddElement
        <5> QED BY <1>0, <5>1, <5>2
      <4> QED BY <4>1, <4>2
    <3>3. Cardinality(Ahead) + RequiredSamples * (local - 1) <= staleness
      BY DEF Steady, Quota
    <3>4. RequiredSamples * (local' - 1) = RequiredSamples * (local - 1)
      BY <1>1
    <3> QED BY <1>0, <1>4, <2>1, <3>1, <3>2, <3>3, <3>4 DEF Quota
  <2>2. CASE ~Counts
    <3>1. Cardinality(Ahead') <= Cardinality(Ahead)
      BY <1>5, <2>2, AheadCount DEF Shrinks
    <3>2. Cardinality(Ahead) + RequiredSamples * (local - 1) <= staleness /\ staleness <= MaxRequired
      BY DEF Steady, Quota
    <3>3. RequiredSamples * (local' - 1) = RequiredSamples * (local - 1)
      BY <1>1
    <3> QED BY <1>0, <1>3, <1>5, <2>2, <3>1, <3>2, <3>3 DEF Quota
  <2> QED BY <2>1, <2>2
<1>7. Empty'
  BY <1>0, <1>1, <1>2, <1>4, <1>5 DEF Steady, Empty, Shrinks
<1>8. Still'
  BY <1>1, <1>2, <1>4, <1>5 DEF Steady, Still, Shrinks
<1>9. Untriggered'
  BY <1>1 DEF Steady, Untriggered, callPcs
<1>10. Waking'
  BY <1>1, <1>4, <1>5, ProcessorWaits DEF Steady, Waking, Shrinks, callPcs
<1>11. Measured'
  BY <1>0, <1>1, <1>2 DEF Steady, Measured, callPcs
<1>12. Order'
  BY <1>1, ProcessorTurn, OrderTurn DEF Callers, callPcs, Steady
<1> QED BY <1>6, <1>7, <1>8, <1>9, <1>10, <1>11, <1>12 DEF Steady

\* While the rollouter stands still the monitor has no reason to end the pause.
LEMMA MonitorKept ==
  ASSUME SyncInv, Forms, Steady
  PROVE  /\ Emptied => ShouldPause
         /\ Halted => ~trigger \/ ShouldPause
<1>1. Emptied => ShouldPause
  <2>1. staleness = MaxRequired => staleness >= MaxRequired
    BY MaxRequiredPositive
  <2> QED BY <2>1 DEF Steady, Empty, ShouldPause
<1>2. pausePc \in {"cancel", "gather", "reset"} => Emptied
  BY DEF SyncInv, Calls, Emptied
<1> QED BY <1>1, <1>2 DEF Halted, Steady, Untriggered

\* The monitor ends no pause of a synchronization.
LEMMA MonitorSteady ==
  ASSUME SyncInv, Line, Forms, Steady, Shrinks, Monitor
  PROVE  Steady'
<1>1. /\ UNCHANGED callPcs
      /\ UNCHANGED <<tpc, trigger, staleness, local, updateArgs, finished, failed>>
      /\ ppc' = ppc \/ ppc' \in {"idleWoken", "submitWoken"}
  BY NotifiedIdle DEF callPcs, Monitor, MonitorTick, MonitorLocked, Unpause, monitorFrame, taskVars, callVars,
     trainerFrame, trainerVars
<1>2. ASSUME Halted PROVE paused' = paused /\ monitor' # "wakeLock"
  <2>1. ~trigger \/ ShouldPause
    BY <1>2, MonitorKept
  <2>2. monitor # "wakeLock"
    BY <1>2 DEF Steady, Still
  <2> QED BY <2>1, <2>2 DEF Monitor, MonitorTick, MonitorLocked, MonitorTop
<1>3. Order'
  <2>1. pausePc = "lock" => ShouldPause
    <3>1. pausePc = "lock" => Emptied
      BY DEF SyncInv, Calls, Emptied
    <3> QED BY <3>1, MonitorKept
  <2>2. ShouldPause => monitor' # "wakeLock"
    BY DEF Monitor, MonitorTick, MonitorLocked, MonitorTop, Unpause
  <2> QED BY <1>1, <2>1, <2>2 DEF Order, callPcs
<1> QED BY <1>1, <1>2, <1>3, CallsStay DEF NoCall

-----------------------------------------------------------------------------
\* pause() comes to a rollouter that has nothing left to do for this version, and
\* is not overtaken by the monitor.
LEMMA PauseSteady ==
  ASSUME SyncInv, Line, Forms, Steady, Shrinks, Pause
  PROVE  Steady'
<1>1. /\ UNCHANGED <<tpc, updatePc, updateArgs, resumePc, staleness, local, ppc, monitor>>
      /\ pausePc # "idle" /\ tpc = "pausing"
      /\ updatePc = "done" /\ resumePc = "done" /\ ppc # "top"
  <2>1. /\ UNCHANGED <<tpc, updatePc, updateArgs, resumePc, staleness, local, ppc, monitor>>
        /\ pausePc # "idle" /\ ppc # "top"
    BY DEF Pause, PauseNext, PauseBegin, PauseCancel, PauseGather, PauseEnd, callFrame, flagVars, trainerFrame,
       trainerVars, LoopFree
  <2> QED BY <2>1 DEF SyncInv, Calls, LastSyncOver
<1>2. /\ Ahead = {} /\ Ahead' = {} /\ local = 1 /\ staleness = MaxRequired /\ MaxRequired' = MaxRequired
      /\ ppc # "get" /\ Emptied
  <2>1. Emptied
    BY <1>1 DEF Emptied
  <2>2. staleness = MaxRequired => ~(staleness < MaxRequired)
    BY MaxRequiredPositive
  <2> QED BY <2>1, <2>2, Limits DEF Steady, Empty, Quota, Shrinks
<1> HIDE DEF MaxRequired
<1>3. Quota' /\ Empty' /\ Untriggered' /\ Waking'
  <2>1. Quota'
    BY <1>1, <1>2, QuotaStays DEF Steady
  <2>2. Empty'
    BY <1>1, <1>2 DEF Empty
  <2>3. Waking'
    BY <1>1 DEF Waking
  <2>4. Untriggered'
    BY <1>1 DEF Untriggered, Pause, PauseNext, PauseBegin, PauseCancel, PauseGather, PauseEnd, GatherNext,
       CancelFirst
  <2> QED BY <2>1, <2>2, <2>3, <2>4
<1>4. ASSUME GatherNext = "reset" PROVE finished = 0 /\ failed = 0
  <2>1. ~(NumActive > 0) /\ NumActive \in Nat
    BY <1>4, NoTasks DEF GatherNext
  <2>2. /\ finished \in Nat /\ failed \in Nat /\ Cardinality(ready) \in Nat /\ Cardinality(generating) \in Nat
    BY FS_CardinalityType DEF Forms, RollForms
  <2> QED BY <2>1, <2>2 DEF NumActive
<1>5. GatherNext \in {"gather", "reset"}
  BY DEF GatherNext
<1>6. CASE PauseBegin /\ pausePc' = "lock"
  <2>1. pausePc = "called" /\ lockq' = Append(lockq, "pause")
    BY <1>5, <1>6 DEF PauseBegin, CancelFirst
  <2>2. Still'
    BY <1>1, <1>6 DEF Still, Halted
  <2>3. Measured'
    BY <1>1, <1>6 DEF Measured, Forgotten
  <2>4. Order'
    BY <1>1, <2>1, PauseJoins DEF Order
  <2> QED BY <1>3, <2>2, <2>3, <2>4 DEF Steady
<1>7. CASE PauseBegin /\ pausePc' # "lock"
  <2>1. /\ \/ pausePc = "called" /\ lockq = <<>>
           \/ pausePc = "lock" /\ Owns("pause")
        /\ paused' = TRUE /\ UNCHANGED <<finished, failed>>
        /\ pausePc' \in {"cancel", GatherNext}
    BY <1>7 DEF PauseBegin, CancelFirst
  <2>2. monitor # "wakeLock"
    BY <2>1, PauseJoins DEF Steady, Order
  <2>3. Still'
    BY <1>1, <1>2, <2>1, <2>2 DEF Still
  <2>4. Measured'
    BY <1>1, <1>4, <1>5, <2>1 DEF Measured, Forgotten
  <2>5. Order'
    BY <1>7 DEF Order
  <2> QED BY <1>3, <2>3, <2>4, <2>5 DEF Steady
<1>8. CASE PauseCancel \/ PauseGather \/ PauseEnd
  <2>1. /\ pausePc \in {"cancel", "gather", "reset"} /\ pausePc' # "lock" /\ paused' = paused
    BY <1>5, <1>8 DEF PauseCancel, PauseGather, PauseEnd, flagVars
  <2>2. Still'
    BY <1>1, <1>2, <2>1 DEF Steady, Still, Halted
  <2>3. Measured'
    <3>1. CASE PauseCancel
      BY <1>1, <1>4, <1>5, <3>1 DEF PauseCancel, Measured, Forgotten
    <3>2. CASE PauseGather
      BY <1>1, <3>2 DEF PauseGather, Measured, Forgotten
    <3>3. CASE PauseEnd
      BY <1>1, <3>3 DEF PauseEnd, Steady, Measured, Forgotten
    <3> QED BY <1>8, <3>1, <3>2, <3>3
  <2>4. Order'
    BY <2>1 DEF Order
  <2> QED BY <1>3, <2>2, <2>3, <2>4 DEF Steady
<1> QED BY <1>6, <1>7, <1>8 DEF Pause, PauseNext

\* update_param_version() finds nothing to measure but the message queue.
LEMMA UpdateSteady ==
  ASSUME SyncInv, Line, Forms, Placed, Steady, Shrinks, Update
  PROVE  Steady'
<1>1. /\ UNCHANGED <<tpc, pausePc, resumePc, local, ppc, monitor, paused, trigger, finished, failed>>
      /\ updatePc # "done" /\ resumePc = "called" /\ pausePc = "idle" /\ tpc \notin {"pausing", "transfer"}
  <2>1. /\ UNCHANGED <<tpc, pausePc, resumePc, local, ppc, monitor, paused, trigger, finished, failed>>
        /\ updatePc # "done"
    BY DEF Update, UpdateNext, UpdateBegin, UpdateMeasure, UpdateAssign, UpdateEnd, callFrame, flagVars,
       trainerFrame, trainerVars
  <2> QED BY <2>1 DEF SyncInv, Calls, LastSyncOver
<1>2. /\ Halted /\ Halted' /\ Ahead = {} /\ Ahead' = {} /\ paused /\ monitor # "wakeLock" /\ ppc # "get"
  BY <1>1 DEF Halted, Steady, Still, Shrinks
<1>3. MaxRequired' = MaxRequired /\ MaxRequired \in Nat
  BY Limits
<1> HIDE DEF MaxRequired
<1>4. Still' /\ Untriggered' /\ Waking' /\ Order'
  BY <1>1, <1>2 DEF Still, Untriggered, Waking, Order, Steady
<1>5. CASE UpdateBegin
  <2>1. /\ updatePc \in {"called", "lock"} /\ staleness' = staleness
        /\ \/ updatePc' = "lock"
           \/ /\ updatePc' = "qsize"
              /\ updateArgs' = [updateArgs EXCEPT !.sum = NumActive + Len(resultQ) + Len(cancelQ)]
    BY <1>5 DEF UpdateBegin
  <2>2. /\ finished = 0 /\ failed = 0 /\ local = 1 /\ staleness = MaxRequired /\ tpc # "waitvalid"
    BY <2>1 DEF Steady, Measured, Empty, Forgotten, Emptied
  <2>3. NumActive + Len(resultQ) + Len(cancelQ) = 0
    <3>1. NothingAhead
      BY <1>2, EmptyNow DEF EmptyFact
    <3>2. Cardinality(ready) = 0 /\ Cardinality(generating) = 0 /\ Len(resultQ) = 0 /\ Len(cancelQ) = 0
      BY <3>1, FS_EmptySet DEF NothingAhead
    <3> QED BY <2>2, <3>2 DEF NumActive
  <2>4. updatePc' = "qsize" => updateArgs'.sum = 0
    <3>1. updateArgs = [version |-> updateArgs.version, validate |-> updateArgs.validate, sum |-> updateArgs.sum]
      BY DEF SyncInv, VersionsInv
    <3> QED BY <2>1, <2>3, <3>1
  <2>5. Measured'
    BY <1>1, <2>1, <2>2, <2>4 DEF Measured
  <2>6. Quota'
    BY <1>1, <2>1, QuotaStays DEF Steady
  <2>7. Empty'
    BY <1>1, <1>2, <1>3, <2>1, <2>2 DEF Empty
  <2> QED BY <1>4, <2>5, <2>6, <2>7 DEF Steady
<1>6. CASE UpdateMeasure
  <2>1. /\ updatePc = "qsize" /\ updatePc' = "assign" /\ staleness' = staleness
        /\ updateArgs' = [updateArgs EXCEPT !.sum = @ + Len(queue)]
    BY <1>6 DEF UpdateMeasure, flagVars
  <2>2. /\ finished = 0 /\ failed = 0 /\ local = 1 /\ staleness = MaxRequired /\ updateArgs.sum = 0
        /\ tpc # "waitvalid"
    BY <2>1 DEF Steady, Measured, Empty, Forgotten, Emptied
  <2>3. updateArgs'.sum <= MaxRequired
    <3>1. updateArgs = [version |-> updateArgs.version, validate |-> updateArgs.validate, sum |-> updateArgs.sum]
      BY DEF SyncInv, VersionsInv
    <3>2. Len(queue) <= MaxRequired /\ Len(queue) \in Nat
      BY LenProperties DEF Placed, AtEnd, Forms, QueueForms
    <3>3. updateArgs'.sum = updateArgs.sum + Len(queue)
      BY <2>1, <3>1
    <3> QED BY <2>2, <3>2, <3>3
  <2>4. Measured'
    BY <1>1, <1>3, <2>1, <2>2, <2>3 DEF Measured
  <2>5. Quota'
    BY <1>1, <2>1, QuotaStays DEF Steady
  <2>6. Empty'
    BY <1>1, <1>2, <1>3, <2>1, <2>2 DEF Empty
  <2> QED BY <1>4, <2>4, <2>5, <2>6 DEF Steady
<1>7. CASE UpdateAssign
  <2>1. updatePc = "assign" /\ updatePc' = "validate" /\ staleness' = updateArgs.sum
    BY <1>7 DEF UpdateAssign
  <2>2. local = 1 /\ updateArgs.sum <= MaxRequired /\ updateArgs.sum \in Nat /\ tpc # "waitvalid"
    BY <2>1 DEF Steady, Measured, Empty, Emptied, Forms, OtherForms
  <2>3. Measured'
    BY <1>1, <2>1 DEF Measured, Forgotten
  <2>4. Quota'
    <3>1. Cardinality({}) = 0 /\ RequiredSamples * (local - 1) = 0
      <4>1. local - 1 = 0 /\ RequiredSamples * 0 = 0
        BY <2>2, Limits
      <4> QED BY <4>1, FS_EmptySet
    <3>2. Cardinality(Ahead') = 0 /\ local' = local
      BY <1>1, <1>2, <3>1
    <3> QED BY <1>1, <1>2, <1>3, <2>1, <2>2, <3>1, <3>2 DEF Quota
  <2>5. Empty'
    BY <1>1, <2>1, <2>2 DEF Empty, Emptied
  <2> QED BY <1>4, <2>3, <2>4, <2>5 DEF Steady
<1>8. CASE UpdateEnd
  <2>1. updatePc = "validate" /\ updatePc' = "done" /\ staleness' = staleness
    BY <1>8 DEF UpdateEnd, flagVars
  <2>2. Measured'
    BY <1>1, <2>1 DEF Measured, Forgotten
  <2>3. Quota'
    BY <1>1, <2>1, QuotaStays DEF Steady
  <2>4. Empty'
    BY <1>1, <1>2, <1>3, <2>1 DEF Steady, Empty, Emptied
  <2> QED BY <1>4, <2>2, <2>3, <2>4 DEF Steady
<1> QED BY <1>5, <1>6, <1>7, <1>8 DEF Update, UpdateNext

\* resume() wakes the processor with nothing ahead, and before the servers.
LEMMA ResumeSteady ==
  ASSUME SyncInv, Line, Forms, Steady, Shrinks, Resume
  PROVE  Steady'
<1>1. /\ UNCHANGED <<tpc, pausePc, updatePc, updateArgs, local, monitor, staleness, finished, failed>>
      /\ ppc' = ppc \/ ppc' \in {"idleWoken", "submitWoken"}
      /\ ppc # "top" /\ resumePc # "done"
  BY NotifiedIdle DEF Resume, ResumeNext, ResumeBegin, ResumeServers, callFrame, flagVars,
       trainerFrame, trainerVars, LoopFree
<1>2. /\ tpc \notin {"pausing", "transfer"} /\ pausePc = "idle"
      /\ resumePc \in {"called", "lock", "servers"}
  BY <1>1 DEF SyncInv, Calls, LastSyncOver
<1>3. Ahead = {} /\ Ahead' = {}
  BY <1>2 DEF Steady, Still, Halted, Waking, Shrinks
<1>4. MaxRequired' = MaxRequired
  BY Limits
<1> HIDE DEF MaxRequired
<1>5. Quota'
  BY <1>1, QuotaStays DEF Steady
<1>6. Empty'
  BY <1>1, <1>3, <1>4 DEF Steady, Empty, Emptied
<1>7. Measured'
  BY <1>1, <1>2, <1>4 DEF Steady, Measured, Forgotten
<1>8. Order'
  <2>1. pausePc' # "lock"
    BY <1>1, <1>2
  <2> QED BY <2>1 DEF Order
<1>9. CASE ResumeBegin /\ resumePc' = "lock"
  <2>1. resumePc = "called" /\ UNCHANGED <<paused, trigger, ppc>>
    BY <1>9 DEF ResumeBegin
  <2>2. Still' /\ Untriggered' /\ Waking'
    BY <1>1, <1>3, <1>9, <2>1 DEF Steady, Still, Untriggered, Waking, Halted
  <2> QED BY <1>5, <1>6, <1>7, <1>8, <2>2 DEF Steady
<1>10. CASE ResumeBegin /\ resumePc' # "lock"
  <2>1. resumePc \in {"called", "lock"} /\ resumePc' \in {"servers", "done"}
    BY <1>10 DEF ResumeBegin
  <2>2. ppc \notin {"top", "get"}
    BY <1>1, <2>1 DEF Steady, Still, Halted
  <2>3. ~Halted' /\ Untriggered'
    BY <1>1, <1>2, <2>1 DEF Halted, Untriggered
  <2>4. Waking'
    BY <1>1, <1>3, <2>2 DEF Waking
  <2> QED BY <1>5, <1>6, <1>7, <1>8, <2>3, <2>4 DEF Steady, Still
<1>11. CASE ResumeServers
  <2>1. resumePc' = "done"
    BY <1>11 DEF ResumeServers
  <2>2. ~Halted' /\ Untriggered' /\ Waking'
    BY <1>1, <1>2, <2>1 DEF Halted, Untriggered, Waking
  <2> QED BY <1>5, <1>6, <1>7, <1>8, <2>2 DEF Steady, Still
<1> QED BY <1>9, <1>10, <1>11 DEF Resume, ResumeNext

-----------------------------------------------------------------------------
\* A training step takes its batch off; the last one before a synchronization takes
\* everything there is, and staleness_samples has come to the limit.
LEMMA StepSteady ==
  ASSUME StaleNum = 0, Forms, Placed, Steady, TrainerStep
  PROVE  Steady'
<1>1. /\ UNCHANGED callPcs
      /\ UNCHANGED <<staleness, updateArgs, ppc, monitor, lockq, paused, trigger, finished, failed>>
      /\ tpc = "train"
      /\ \/ local < TriggerSteps /\ local' = local + 1 /\ tpc' = "getval"
         \/ ~(local < TriggerSteps) /\ local' = 1 /\ tpc' = "waitvalid"
  BY DEF TrainerStep, rollouterVars, loopVars, flagVars, callVars, callPcs, procVars, taskVars
<1>2. local \in 1..TriggerSteps /\ staleness \in Nat
  BY DEF Forms, QueueForms, OtherForms
<1>3. /\ Cardinality(Ahead') = Cardinality(Ahead) - RequiredSamples
      /\ Cardinality(Ahead) >= RequiredSamples
      /\ Cardinality(Ahead) \in Nat /\ Cardinality(Ahead') \in Nat
      /\ Cardinality(Ahead') = 0 => Ahead' = {}
  <2>1. Cardinality(Ahead) \in Nat
    BY AheadCount
  <2>2. (Cardinality(Ahead) = 0 => Ahead = {})'
    BY AheadCount, PTL
  <2> QED BY <2>1, <2>2, Limits, StepPlaced, AheadTrains
<1>4. ~Emptied /\ ~Halted /\ resumePc # "servers"
  <2>1. Ahead # {}
    <3>1. batch # <<>>
      <4>1. Len(batch) = RequiredSamples
        BY <1>1 DEF Forms, QueueForms
      <4>2. batch = <<>> => Len(batch) = 0
        OBVIOUS
      <4> QED BY <4>1, <4>2, Limits
    <3> QED BY <3>1, ForgottenEmpty
  <2> QED BY <2>1 DEF Steady, Empty, Still, Waking
<1>5. Cardinality(Ahead) + RequiredSamples * (local - 1) <= staleness /\ staleness <= MaxRequired
  BY DEF Steady, Quota
<1>6. MaxRequired = RequiredSamples * TriggerSteps /\ MaxRequired' = MaxRequired /\ MaxRequired \in Nat
  BY OneVersion, Limits
<1> HIDE DEF MaxRequired
<1>7. ppc' = "get" => staleness' < MaxRequired
  BY <1>1 DEF Steady, Quota
<1>8. ~Halted' /\ resumePc' # "servers" /\ ~Forgotten'
  BY <1>1, <1>4 DEF Halted, Emptied, Forgotten, callPcs
<1>9. Still' /\ Waking'
  BY <1>8 DEF Still, Waking
<1>10. Untriggered'
  BY <1>8 DEF Untriggered, Halted
<1>11. Measured'
  BY <1>1, <1>4, <1>8 DEF Measured, Emptied, callPcs
<1>12. Order'
  BY <1>1 DEF Steady, Order, MonitorFirst, callPcs
<1>13. CASE local < TriggerSteps
  <2>1. RequiredSamples * (local' - 1) = RequiredSamples * (local - 1) + RequiredSamples
    <3>1. local \in Int /\ RequiredSamples \in Int /\ local' - 1 = (local - 1) + 1 /\ local - 1 \in Int
      BY <1>1, <1>2, <1>13, Limits
    <3>2. \A m \in Int, n \in Int : m * (n + 1) = m * n + m
      OBVIOUS
    <3> QED BY <3>1, <3>2
  <2>2. RequiredSamples * (local - 1) \in Nat
    <3>1. local - 1 \in Nat
      BY <1>2, Limits
    <3> QED BY <3>1, Limits
  <2>3. Quota'
    BY <1>1, <1>2, <1>3, <1>5, <1>6, <1>7, <2>1, <2>2, Limits DEF Quota
  <2>4. Empty'
    BY <1>1, <1>4, <1>13 DEF Empty, Emptied, callPcs
  <2> QED BY <1>9, <1>10, <1>11, <1>12, <2>3, <2>4 DEF Steady
<1>14. CASE ~(local < TriggerSteps)
  <2>1. local = TriggerSteps
    BY <1>2, <1>14, Limits
  <2>2. RequiredSamples * TriggerSteps = RequiredSamples * (local - 1) + RequiredSamples
    <3>1. local \in Int /\ RequiredSamples \in Int /\ TriggerSteps = (local - 1) + 1 /\ local - 1 \in Int
      BY <1>2, <2>1, Limits
    <3>2. \A m \in Int, n \in Int : m * (n + 1) = m * n + m
      OBVIOUS
    <3> QED BY <3>1, <3>2
  <2>3. RequiredSamples * (local - 1) \in Nat
    <3>1. local - 1 \in Nat
      BY <1>2, Limits
    <3> QED BY <3>1, Limits
  <2>4. Cardinality(Ahead') = 0 /\ staleness = MaxRequired
    BY <1>2, <1>3, <1>5, <1>6, <2>2, <2>3, Limits
  <2>5. local' = 1 /\ RequiredSamples * (local' - 1) = 0
    <3>1. RequiredSamples * 0 = 0
      BY Limits
    <3> QED BY <1>1, <1>14, <3>1
  <2>6. Quota'
    BY <1>1, <1>6, <1>7, <2>4, <2>5 DEF Quota
  <2>7. Empty'
    BY <1>1, <1>3, <1>6, <2>4, <2>5 DEF Empty
  <2> QED BY <1>9, <1>10, <1>11, <1>12, <2>6, <2>7 DEF Steady
<1> QED BY <1>13, <1>14

\* The trainer synchronizes when all that was taken is trained on.
LEMMA TrainerSteady ==
  ASSUME StaleNum = 0, SyncInv, Forms, Placed, Steady, Shrinks, TrainerNext, ~Ending, ~Ending'
  PROVE  Steady'
<1>1. CASE TrainerStep
  BY <1>1, StepSteady
<1>2. CASE TrainerGet \/ TrainerGetValidate
  <2>1. /\ UNCHANGED callPcs
        /\ UNCHANGED <<staleness, local, updateArgs, ppc, monitor, lockq, paused, trigger, finished, failed>>
        /\ tpc \in {"collect", "getval"}
    BY <1>2 DEF TrainerGet, TrainerGetValidate, rollouterVars, loopVars, flagVars, callVars, callPcs,
       procVars, taskVars
  <2>2. tpc' \in {"collect", "train"}
    <3>1. CASE TrainerGet
      <4>1. tpc' = tpc \/ tpc' \in {"final", "collect", "train"}
        BY <3>1, GetTakes
      <4>2. tpc' # "final" /\ tpc = "collect"
        BY <3>1 DEF Ending, TrainerGet
      <4> QED BY <4>1, <4>2
    <3>2. CASE TrainerGetValidate
      BY <3>2 DEF TrainerGetValidate
    <3> QED BY <1>2, <3>1, <3>2
  <2>3. NoCall
    BY <2>1, <2>2 DEF NoCall
  <2>4. Order'
    BY <2>1 DEF Steady, Order, MonitorFirst, callPcs
  <2> QED BY <2>1, <2>3, <2>4, CallsStay
<1>3. CASE SyncPause \/ SyncQueue \/ SyncWeights
  <2>1. /\ UNCHANGED <<staleness, local, ppc, monitor, paused, trigger, finished, failed>>
        /\ tpc \in {"waitvalid", "pausing", "transfer"} /\ pausePc' \in {"idle", "called"}
    <3>1. /\ UNCHANGED <<staleness, local, ppc, monitor, paused, trigger, finished, failed>>
          /\ tpc \in {"waitvalid", "pausing", "transfer"}
      BY <1>3 DEF SyncPause, SyncQueue, SyncWeights, loopVars, flagVars, procVars, taskVars
    <3>2. pausePc' \in {"idle", "called"}
      <4>1. tpc = "transfer" => pausePc = "idle"
        BY DEF SyncInv, Calls
      <4> QED BY <1>3, <4>1 DEF SyncPause, SyncQueue, SyncWeights
    <3> QED BY <3>1, <3>2
  <2>2. Ahead = {} /\ Ahead' = {} /\ local = 1 /\ staleness = MaxRequired
    BY <2>1 DEF Steady, Empty, Emptied, Shrinks
  <2>3. MaxRequired' = MaxRequired
    BY Limits
  <2> HIDE DEF MaxRequired
  <2>4. Quota'
    BY <2>1, QuotaStays DEF Steady
  <2>5. Empty'
    BY <2>1, <2>2, <2>3 DEF Empty
  <2>6. Order'
    BY <2>1 DEF Order
  <2>7. CASE SyncPause
    <3>1. /\ tpc' = "pausing" /\ pausePc' = "called" /\ updatePc' = "done" /\ resumePc' = "done"
      BY <2>7 DEF SyncPause, LastSyncOver
    <3>2. Still' /\ Untriggered' /\ Waking' /\ Measured'
      BY <3>1 DEF Still, Untriggered, Waking, Measured, Halted, Forgotten
    <3> QED BY <2>4, <2>5, <2>6, <3>2 DEF Steady
  <2>8. CASE SyncQueue
    <3>1. /\ pausePc = "done" /\ tpc' = "transfer" /\ updatePc' = "done" /\ resumePc' = "done"
      BY <2>8 DEF SyncQueue, SyncInv, Calls, LastSyncOver
    <3>2. Still'
      BY <2>1, <2>2, <3>1 DEF Steady, Still, Halted
    <3>3. Untriggered' /\ Waking' /\ Measured'
      BY <2>1, <3>1 DEF Steady, Untriggered, Waking, Measured, Forgotten
    <3> QED BY <2>4, <2>5, <2>6, <3>2, <3>3 DEF Steady
  <2>9. CASE SyncWeights
    <3>1. /\ tpc = "transfer" /\ tpc' \in {"getval", "lastvalid"} /\ updatePc' = "called" /\ resumePc' = "called"
      BY <2>9 DEF SyncWeights
    <3>2. Still'
      BY <2>1, <2>2, <3>1 DEF Steady, Still, Halted
    <3>3. Untriggered' /\ Waking' /\ Measured'
      BY <2>1, <3>1 DEF Steady, Untriggered, Waking, Measured, Forgotten
    <3> QED BY <2>4, <2>5, <2>6, <3>2, <3>3 DEF Steady
  <2> QED BY <1>3, <2>7, <2>8, <2>9
<1>4. ~TrainerFinal /\ ~TrainerLastValid
  BY DEF TrainerFinal, TrainerLastValid, Ending
<1> QED BY <1>1, <1>2, <1>3, <1>4 DEF TrainerNext

-----------------------------------------------------------------------------
\* The labels, and what they rest on: no task takes a step on paused servers, and the
\* version changes with nothing ahead.
LEMMA NormalCurrent ==
  ASSUME SyncInv, Forms, Forms', ServersOnly, Steady, Current, cancelQ = <<>>,
         [Next]_vars, Shrinks \/ Processor
  PROVE  Current' /\ cancelQ' = <<>>
<1>1. CASE Processor
  BY <1>1, ProcessorCurrent
<1>2. CASE Tasks
  <2>1. serverPaused => Ahead = {}
    BY DEF ServersOnly, SyncInv, Calls, Steady, Still, Halted, Waking
  <2> QED BY <1>2, <2>1, ForgottenEmpty, TasksCurrent
<1>3. CASE Consumer
  BY <1>3, ConsumerCurrent
<1>4. CASE Main
  BY <1>4, MainCurrent
<1>5. CASE TrainerNext
  BY <1>5, TrainerCurrent
<1>6. CASE Update /\ ~Processor
  <2>1. version' # version => updatePc \in {"called", "lock"}
    BY <1>6 DEF Update, UpdateNext, UpdateBegin, UpdateMeasure, UpdateAssign, UpdateEnd, flagVars
  <2>2. version' # version => Ahead = {}
    BY <2>1 DEF Steady, Empty, Emptied
  <2> QED BY <1>6, <2>2, OtherCurrent
<1>7. CASE (Feeder \/ Monitor \/ Pause \/ Resume \/ UNCHANGED vars) /\ ~Processor
  <2>1. version' = version
    <3>1. Feeder \/ Monitor => version' = version
      BY LoopSync DEF syncVars
    <3>2. Pause \/ Resume \/ UNCHANGED vars => version' = version
      BY DEF Pause, PauseNext, PauseBegin, PauseCancel, PauseGather, PauseEnd, flagVars,
         Resume, ResumeNext, ResumeBegin, ResumeServers, vars, rollouterVars, loopVars
    <3> QED BY <1>7, <3>1, <3>2
  <2> QED BY <1>7, <2>1, OtherCurrent
<1> QED BY <1>1, <1>2, <1>3, <1>4, <1>5, <1>6, <1>7 DEF Next

\* Every step of a run that goes on keeps the quota.
LEMMA NormalSteady ==
  ASSUME StaleNum = 0, SyncInv, Line, Forms, Exit, Placed, Steady, [Next]_vars, ~Ending, ~Ending'
  PROVE  Steady'
<1>1. Shrinks \/ (Processor /\ Counts /\ \E k \in Samples : Ahead' = Ahead \cup {k})
  BY AheadGrows
<1>2. CASE Processor
  BY <1>1, <1>2, ProcessorSteady
<1>3. CASE Shrinks
  BY <1>3, <1>2, TasksSteady, LoopSteady, MonitorSteady, PauseSteady, UpdateSteady, ResumeSteady,
     TrainerSteady DEF Next
<1> QED BY <1>1, <1>2, <1>3

-----------------------------------------------------------------------------
\* What holds from the finish signal on.
Ended == FinishSent /\ Over /\ (ppc = "exited" => Flight = {})

\* The trainer's end is for good, and comes with the finish signal alone.
LEMMA EndingMoves ==
  ASSUME SyncInv, [Next]_vars
  PROVE  /\ Ending => Ending'
         /\ ~Ending /\ Ending' => TrainerGet /\ tpc' = "final"
<1>0. last \in BOOLEAN
  BY DEF SyncInv, VersionsInv
<1>1. CASE TrainerGet
  <2>1. tpc = "collect" /\ last' = last
    BY <1>1 DEF TrainerGet
  <2>2. tpc' = tpc \/ tpc' \in {"final", "collect", "train"}
    BY <1>1 DEF TrainerGet, Collected
  <2> QED BY <1>1, <2>1, <2>2 DEF Ending
<1>2. CASE TrainerFinal \/ TrainerLastValid
  <2>1. tpc \in {"final", "lastvalid"} /\ (tpc' = "done" \/ last' = TRUE)
    BY <1>2 DEF TrainerFinal, TrainerLastValid
  <2> QED BY <2>1 DEF Ending
<1>3. CASE SyncWeights
  <2>1. tpc = "transfer" /\ tpc' = (IF last THEN "lastvalid" ELSE "getval") /\ last' = last
    BY <1>3 DEF SyncWeights
  <2> QED BY <1>0, <2>1 DEF Ending
<1>4. CASE TrainerStep \/ SyncPause \/ SyncQueue \/ TrainerGetValidate
  <2>1. /\ tpc \in {"train", "waitvalid", "pausing", "getval"} /\ last' = last
        /\ tpc' \in {"getval", "waitvalid", "pausing", "transfer", "collect"}
    BY <1>4 DEF TrainerStep, SyncPause, SyncQueue, TrainerGetValidate
  <2> QED BY <2>1 DEF Ending
<1>5. CASE ~TrainerNext
  <2>1. UNCHANGED <<last, tpc>>
    BY <1>5 DEF Next, vars, trainerVars, Processor, Tasks, Feeder, Consumer, Main, Monitor, Pause, Update, Resume,
         trainerFrame
  <2> QED BY <2>1 DEF Ending
<1> QED BY <1>1, <1>2, <1>3, <1>4, <1>5 DEF TrainerNext

\* A processor that is over stays where it is, and the finish signal is not taken back.
LEMMA EndedStays ==
  ASSUME SyncInv, Forms, Exit, Placed, Ended, [Next]_vars
  PROVE  Ended'
<1>1. ~Processor
  BY ProcessorRuns DEF Ended
<1>2. Shrinks
  BY <1>1, AheadGrows
<1>3. mpc' \in {"stop", "stopLock", "end"} /\ (ppc' = ppc \/ ppc' = Notified)
  <2>1. mpc \in {"stop", "stopLock", "end"}
    BY DEF Ended, FinishSent
  <2>2. CASE Tasks \/ Feeder \/ Consumer
    BY <2>1, <2>2 DEF Tasks, TaskStart, TaskFinish, TaskCancel, TaskFail, taskFrame, mainVars, procVars,
       Feeder, Feed, Consumer, ConsumerTake, ConsumerPut
  <2>3. CASE Main
    BY <2>1, <2>3 DEF Main, MainStep, MainFinish, MainStop, procVars
  <2>4. CASE Monitor \/ Resume
    BY <2>1, <2>4 DEF Monitor, MonitorTick, MonitorLocked, Unpause, monitorFrame, Resume,
       ResumeNext, ResumeBegin, ResumeServers, callFrame, mainVars
  <2>5. CASE Pause \/ Update
    BY <2>1, <2>5 DEF Pause, PauseNext, PauseBegin, PauseCancel, PauseGather, PauseEnd, Update, UpdateNext,
       UpdateBegin, UpdateMeasure, UpdateAssign, UpdateEnd, callFrame, mainVars
  <2>6. CASE TrainerNext \/ UNCHANGED vars
    BY <2>1, <2>6 DEF TrainerNext, TrainerGet, TrainerStep, SyncPause, SyncQueue, SyncWeights,
       TrainerGetValidate, TrainerFinal, TrainerLastValid, vars, rollouterVars, loopVars, mainVars, procVars
  <2> QED BY <1>1, <2>2, <2>3, <2>4, <2>5, <2>6 DEF Next
<1>4. ppc' = ppc
  BY <1>3 DEF Ended, Over, Notified
<1>5. Flight = {} => Flight' = {}
  BY <1>2 DEF Shrinks
<1> QED BY <1>3, <1>4, <1>5 DEF Ended, FinishSent, Over

\* The finish signal comes when everything before it has been taken: a rollouter that
\* ended in order has nothing left.
LEMMA EndedBegins ==
  ASSUME Forms, Exit, Placed, FinishLast, cancelQ = <<>>, TrainerGet, tpc = "collect", tpc' = "final"
  PROVE  Ended'
<1>1. /\ queue # <<>> /\ Head(queue) = Finish /\ queue' = Tail(queue)
  BY GetTakes
<1>2. UNCHANGED <<mpc, ppc, ready, generating, held, cancelQ, resultQ, csample>>
  BY DEF TrainerGet, rollouterVars, loopVars, mainVars, taskVars, procVars, localQueues, consumerVars
<1>3. queue' = <<>> /\ Finish.id \in IdsOf(queue)
  <2> DEFINE S == Full \cup {Finish}
  <2>1. queue \in Seq(S)
    BY DEF Forms, QueueForms
  <2> HIDE DEF S
  <2>2. Tail(queue) = <<>>
    BY <1>1, <2>1, FinishMoves DEF FinishLast
  <2>3. 1 \in DOMAIN queue /\ queue[1] = Finish
    BY <1>1, <2>1, LenProperties, EmptySeq
  <2> QED BY <1>1, <2>2, <2>3 DEF IdsOf
<1>4. FinishSent /\ Over
  BY <1>3 DEF Placed, AtEnd, FinishSent, Exit
<1>5. ASSUME ppc = "exited" PROVE Flight' = {}
  <2>1. ready = {} /\ generating = {} /\ resultQ = <<>> /\ csample = <<>>
    BY <1>4, <1>5 DEF Exit, FinishSent
  <2>2. held = <<>>
    BY <1>5 DEF Forms, ProcForms, Submits
  <2>3. IdsOf(<<>>) = {} /\ SetIds({}) = {}
    BY DEF IdsOf, SetIds
  <2>4. /\ SetIds(ready') = {} /\ SetIds(generating') = {} /\ IdsOf(held') = {} /\ IdsOf(cancelQ') = {}
        /\ IdsOf(resultQ') = {} /\ IdsOf(csample') = {} /\ IdsOf(queue') = {}
    BY <1>2, <1>3, <2>1, <2>2, <2>3
  <2>5. \A k \in Samples : \A c \in Moving : ~At(k, c)'
    BY <2>4 DEF Moving, At, InQueue
  <2> QED BY <2>5 DEF Flight
<1> QED BY <1>2, <1>4, <1>5 DEF Ended, FinishSent, Over

\* At first nothing is ahead.
LEMMA SynchronousInit == Init => Synchronous
<1> SUFFICES ASSUME Init PROVE Synchronous
  OBVIOUS
<1>1. /\ tpc = "getval" /\ last = FALSE /\ local = 1 /\ staleness = 0 /\ ppc = "top"
      /\ pausePc = "idle" /\ updatePc = "done" /\ resumePc = "done" /\ monitor = "sleep"
      /\ ready = {} /\ generating = {} /\ held = <<>> /\ cancelQ = <<>> /\ resultQ = <<>>
      /\ csample = <<>> /\ queue = <<>> /\ batch = <<>>
  BY DEF Init, RollouterInit, TrainerInit
<1>2. Ahead = {}
  <2>1. IdsOf(<<>>) = {} /\ SetIds({}) = {}
    BY DEF IdsOf, SetIds
  <2>2. \A k \in Samples : \A c \in Moving \cup {"batch"} : ~At(k, c)
    BY <1>1, <2>1 DEF Moving, At, InQueue
  <2> QED BY <2>2 DEF Ahead
<1>3. Quota
  <2>1. Cardinality(Ahead) = 0
    BY <1>2, FS_EmptySet
  <2>2. RequiredSamples * (local - 1) = 0
    <3>1. local - 1 = 0 /\ RequiredSamples * 0 = 0
      BY <1>1, Limits
    <3> QED BY <3>1
  <2>3. 0 <= MaxRequired
    BY MaxRequiredPositive
  <2> HIDE DEF MaxRequired
  <2> QED BY <1>1, <2>1, <2>2, <2>3 DEF Quota
<1>4. Steady
  BY <1>1, <1>3 DEF Steady, Empty, Emptied, Still, Halted, Untriggered, Waking, Measured, Forgotten, Order
<1>5. Current
  BY <1>1 DEF Current, Unstarted, Labelling
<1> QED BY <1>1, <1>4, <1>5 DEF Synchronous, Ending

\* Every step keeps a synchronous run synchronous.
LEMMA SynchronousStep ==
  StaleNum = 0 =>
    (SyncInv /\ Line /\ Forms /\ Forms' /\ Exit /\ Placed /\ FinishLast /\ ServersOnly
       /\ Synchronous /\ [Next]_vars => Synchronous')
<1> SUFFICES ASSUME StaleNum = 0, SyncInv, Line, Forms, Forms', Exit, Placed, FinishLast, ServersOnly,
                    Synchronous, [Next]_vars
             PROVE  Synchronous'
  OBVIOUS
<1>1. CASE Ending
  BY <1>1, EndingMoves, EndedStays DEF Synchronous, Ended
<1>2. CASE ~Ending /\ Ending'
  <2>1. TrainerGet /\ tpc = "collect" /\ tpc' = "final"
    BY <1>2, EndingMoves DEF TrainerGet
  <2> QED BY <1>2, <2>1, EndedBegins DEF Synchronous, Ended
<1>3. CASE ~Ending /\ ~Ending'
  <2>1. Steady'
    BY <1>3, NormalSteady DEF Synchronous
  <2>2. Current' /\ cancelQ' = <<>>
    <3>1. Shrinks \/ Processor
      BY AheadGrows
    <3> QED BY <1>3, <3>1, NormalCurrent DEF Synchronous
  <2> QED BY <1>3, <2>1, <2>2 DEF Synchronous
<1> QED BY <1>1, <1>2, <1>3

\* The finish signal, once in the message queue, is its last entry, so that the trainer
\* has taken every sample before it ends (fully_async_rollouter.py:498, message_queue.py).
THEOREM FinishInvariant == Spec => []FinishLast
BY SyncInvariant, FormsInvariant, PlacedInvariant, FinishInit, FinishStep, PTL DEF Spec

\* The servers are paused from the cancel of a pause to the end of its resume and at no
\* other time (fully_async_rollouter.py:596-621).
THEOREM ServersInvariant == Spec => []ServersOnly
BY SyncInvariant, ServersInit, ServersStep, PTL DEF Spec

\* With staleness_threshold = 0 the samples in rollout, in the message queue and in the batch,
\* with those trained on since the last synchronization, never come to more than
\* staleness_samples, which never passes max_required_samples; all that is taken in a version
\* is trained on before the next, and is labelled with that version
\* (fully_async_rollouter.py:158-235, 333-434, 572-592; fully_async_trainer.py:126-183, 334-360).
THEOREM SynchronousInvariant ==
  StaleNum = 0 => (Spec => []Synchronous)
<1> SUFFICES ASSUME StaleNum = 0 PROVE Spec => []Synchronous
  OBVIOUS
<1>1. SyncInv /\ Line /\ Forms /\ Forms' /\ Exit /\ Placed /\ FinishLast /\ ServersOnly
       /\ Synchronous /\ [Next]_vars => Synchronous'
  BY SynchronousStep
<1> QED BY <1>1, SyncInvariant, LineInvariant, FormsInvariant, ExitInvariant, PlacedInvariant, FinishInvariant,
           ServersInvariant, SynchronousInit, PTL DEF Spec

-----------------------------------------------------------------------------
\* What is in a batch carries the labels of the version being trained.
LEMMA CurrentTrains ==
  ASSUME SyncInv, Forms, Progress, Synchronous
  PROVE  OnPolicy
<1> SUFFICES ASSUME tpc \in {"collect", "train"}, NEW i \in DOMAIN batch
             PROVE  batch[i].start = tversion /\ batch[i].end = tversion
  BY DEF OnPolicy
<1>1. ~Ending
  BY DEF Ending, Progress
<1>2. Steady /\ Labelling(batch, version)
  BY <1>1 DEF Synchronous, Current
<1>3. batch[i].start = version /\ batch[i].end = version
  <2>1. batch[i] \in Full
    BY LenProperties, ElementOfSeq DEF Forms, QueueForms
  <2>2. batch[i] # Finish
    BY <2>1, FormsIds
  <2> QED BY <1>2, <2>2 DEF Labelling
<1>4. tversion = version
  <2>1. Ahead # {}
    <3>1. batch # <<>>
      OBVIOUS
    <3> QED BY <1>2, <3>1, ForgottenEmpty
  <2>2. updatePc \notin {"called", "lock"}
    BY <1>2, <2>1 DEF Steady, Empty, Emptied
  <2> QED BY <2>2 DEF SyncInv, VersionsInv
<1> QED BY <1>3, <1>4

\* With staleness_threshold = 0 every sample is trained on with the weights that started
\* and completed it (fully_async_rollouter.py:193-235, 409-434; fully_async_trainer.py:216-306).
THEOREM TrainingIsOnPolicy == StaleNum = 0 => (Spec => []OnPolicy)
<1>1. SyncInv /\ Forms /\ Progress /\ Synchronous => OnPolicy
  BY CurrentTrains
<1> QED BY <1>1, SyncInvariant, FormsInvariant, ProgressInvariant, SynchronousInvariant, PTL

\* With staleness_threshold = 0 a rollout that does not fail has no generation interrupted
\* by pause(), whatever partial_rollout says (fully_async_rollouter.py:596-609).
THEOREM NoInterruption == StaleNum = 0 => (Spec => []NothingInterrupted)
<1>1. Forms /\ Synchronous => NothingInterrupted
  <2> SUFFICES ASSUME Forms, Synchronous, ppc # "crashed" PROVE cancelQ = <<>>
    BY DEF NothingInterrupted
  <2>1. CASE Ending
    <3>1. Flight = {}
      BY <2>1 DEF Synchronous, Over
    <3>2. \A k \in Samples : k \notin IdsOf(cancelQ)
      BY <3>1 DEF Flight, Moving, At
    <3>3. cancelQ \in Seq(Part)
      BY DEF Forms, RollForms
    <3>4. ASSUME cancelQ # <<>> PROVE FALSE
      <4>1. cancelQ[1] \in Part /\ 1 \in DOMAIN cancelQ
        BY <3>3, <3>4, EmptySeq, LenProperties, ElementOfSeq
      <4> QED BY <3>2, <4>1, FormsIds DEF IdsOf
    <3> QED BY <3>4
  <2>2. CASE ~Ending
    BY <2>2 DEF Synchronous
  <2> QED BY <2>1, <2>2
<1> QED BY <1>1, FormsInvariant, SynchronousInvariant, PTL

\* The rollout and the message queue hold what is in flight, each sample once.
LEMMA FlightParts ==
  ASSUME Forms, Placed
  PROVE  /\ InRollout \subseteq Flight /\ InQueue \subseteq Flight /\ InRollout \cap InQueue = {}
         /\ Flight \subseteq Ahead
<1> DEFINE R == {"ready", "generating", "held", "cancelQ", "resultQ", "csample"}
<1>1. InRollout \subseteq Samples
  <2>1. SetIds(ready) \subseteq Samples /\ SetIds(generating) \subseteq Samples
    BY FormsIds DEF Forms, RollForms, SetIds
  <2>2. /\ IdsOf(held) \subseteq Samples /\ IdsOf(cancelQ) \subseteq Samples
        /\ IdsOf(resultQ) \subseteq Samples /\ IdsOf(csample) \subseteq Samples
    <3>1. /\ held \in Seq(Item) /\ cancelQ \in Seq(Part) /\ resultQ \in Seq(Full) /\ csample \in Seq(Full)
      BY DEF Forms, RollForms, ProcForms
    <3> QED BY <3>1, FormsIds, IdsOfSeq
  <2> QED BY <2>1, <2>2 DEF InRollout, InTasks
<1>2. InQueue \subseteq Samples
  <2> DEFINE S == Full \cup {Finish}
             D == Samples \cup {Finish.id}
  <2>1. queue \in Seq(S) /\ \A s \in S : s.id \in D
    BY FormsIds DEF Forms, QueueForms
  <2> HIDE DEF S, D
  <2>2. IdsOf(queue) \subseteq D
    BY <2>1, IdsOfSeq
  <2> QED BY <2>2 DEF D, InQueue
<1>3. \A k \in InRollout : \E c \in R : At(k, c)
  BY DEF InRollout, InTasks, At
<1>4. \A k \in InQueue : At(k, "queue")
  BY DEF At
<1>5. R \subseteq Moving /\ "queue" \in Moving /\ "queue" \notin R /\ Moving \subseteq Names
  BY DEF Moving, Names
<1>6. InRollout \cap InQueue = {}
  BY <1>1, <1>3, <1>4, <1>5 DEF Placed, Apart
<1> QED BY <1>1, <1>2, <1>3, <1>4, <1>5, <1>6 DEF Flight, Ahead

\* With staleness_threshold = 0 and between two synchronizations, staleness_samples is an upper
\* bound of what is in rollout and in the message queue, although update_param_version
\* measures them before and after an await (fully_async_rollouter.py:193-235).
THEOREM CountIsCovered == StaleNum = 0 => (Spec => []StalenessCovers)
<1>1. Forms /\ Placed /\ Synchronous => StalenessCovers
  <2> SUFFICES ASSUME Forms, Placed, Synchronous, ppc # "crashed"
               PROVE  Cardinality(InRollout) + Cardinality(InQueue) <= staleness
    BY DEF StalenessCovers
  <2>1. /\ IsFiniteSet(InRollout) /\ IsFiniteSet(InQueue)
        /\ Cardinality(InRollout) \in Nat /\ Cardinality(InQueue) \in Nat
        /\ Cardinality(InRollout \cup InQueue) <= Cardinality(Ahead)
        /\ Cardinality(Ahead) \in Nat
    <3>1. InRollout \subseteq Ahead /\ InQueue \subseteq Ahead /\ InRollout \cup InQueue \subseteq Ahead
      BY FlightParts
    <3> QED BY <3>1, AheadCount
  <2>2. Cardinality(InRollout \cup InQueue) = Cardinality(InRollout) + Cardinality(InQueue)
    <3>1. InRollout \cap InQueue = {}
      BY FlightParts
    <3>2. Cardinality(InRollout \cap InQueue) = 0
      BY <3>1, FS_EmptySet
    <3>3. Cardinality(InRollout \cup InQueue)
            = Cardinality(InRollout) + Cardinality(InQueue) - Cardinality(InRollout \cap InQueue)
      BY <2>1, FS_Union
    <3> QED BY <2>1, <3>2, <3>3
  <2>3. staleness \in Nat /\ local \in Nat \ {0}
    <3>1. local \in 1..TriggerSteps /\ staleness \in Nat
      BY DEF Forms, QueueForms, OtherForms
    <3> QED BY <3>1, Limits
  <2>4. CASE Ending
    <3>1. InRollout = {} /\ InQueue = {}
      <4>1. Flight = {}
        BY <2>4 DEF Synchronous, Over
      <4> QED BY <4>1, FlightParts
    <3> QED BY <2>3, <3>1, FS_EmptySet
  <2>5. CASE ~Ending
    <3>1. Cardinality(Ahead) + RequiredSamples * (local - 1) <= staleness
      BY <2>5 DEF Synchronous, Steady, Quota
    <3>2. RequiredSamples * (local - 1) \in Nat
      <4>1. local - 1 \in Nat
        BY <2>3
      <4> QED BY <4>1, Limits
    <3> QED BY <2>1, <2>2, <2>3, <3>1, <3>2
  <2> QED BY <2>4, <2>5
<1> QED BY <1>1, FormsInvariant, PlacedInvariant, SynchronousInvariant, PTL
=============================================================================
