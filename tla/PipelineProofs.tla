---------------------------- MODULE PipelineProofs --------------------------
(***************************************************************************)
(* Where every sample is: the composed system implements the abstract      *)
(* pipeline, for any value of the constants.  Each step is sorted into one *)
(* of the Kinds by what it does with the samples, and each kind maps to one*)
(* step of the abstract pipeline or to none.  The losses and the types of  *)
(* the whole follow.                                                       *)
(***************************************************************************)
EXTENDS FullyAsyncProofs, FunctionTheorems

-----------------------------------------------------------------------------
\* The ids of the samples in a queue, and in a set of tasks.
Distinct(q) == \A i, j \in DOMAIN q : i # j => q[i].id # q[j].id
Single(S) == \A s, t \in S : s.id = t.id => s = t

\* No sample, and one.
LEMMA IdsFew ==
  ASSUME NEW s
  PROVE  /\ IdsOf(<<>>) = {} /\ IdsOf(<<s>>) = {s.id} /\ Distinct(<<>>) /\ Distinct(<<s>>)
         /\ SetIds({}) = {} /\ Single({})
<1>1. DOMAIN <<s>> = {1} /\ <<s>>[1] = s /\ DOMAIN <<>> = {}
  OBVIOUS
<1> QED BY <1>1 DEF IdsOf, SetIds, Distinct, Single

\* One more sample in a queue.
LEMMA IdsAppend ==
  ASSUME NEW S, NEW q \in Seq(S), NEW s \in S, Distinct(q)
  PROVE  /\ IdsOf(Append(q, s)) = IdsOf(q) \cup {s.id}
         /\ s.id \notin IdsOf(q) => Distinct(Append(q, s))
<1>1. /\ Append(q, s) \in Seq(S) /\ Len(Append(q, s)) = Len(q) + 1
      /\ \A i \in 1..Len(q) : Append(q, s)[i] = q[i]
      /\ Append(q, s)[Len(q) + 1] = s
      /\ Len(q) \in Nat /\ DOMAIN q = 1..Len(q)
      /\ DOMAIN Append(q, s) = 1..(Len(q) + 1)
  BY AppendProperties, LenProperties
<1>2. IdsOf(Append(q, s)) = IdsOf(q) \cup {s.id}
  BY <1>1 DEF IdsOf
<1>3. s.id \notin IdsOf(q) => Distinct(Append(q, s))
  BY <1>1 DEF IdsOf, Distinct
<1> QED BY <1>2, <1>3

\* The first sample of a queue leaves it.
LEMMA IdsTail ==
  ASSUME NEW S, NEW q \in Seq(S), Distinct(q), q # <<>>
  PROVE  /\ IdsOf(Tail(q)) = IdsOf(q) \ {Head(q).id}
         /\ Distinct(Tail(q))
         /\ Head(q).id \in IdsOf(q)
         /\ \A i \in DOMAIN Tail(q) : \E j \in DOMAIN q : Tail(q)[i] = q[j]
         /\ \E j \in DOMAIN q : Head(q) = q[j]
<1>1. /\ Tail(q) \in Seq(S) /\ Len(Tail(q)) = Len(q) - 1 /\ Len(q) \in Nat \ {0}
      /\ \A i \in 1..Len(Tail(q)) : Tail(q)[i] = q[i + 1]
      /\ DOMAIN q = 1..Len(q) /\ DOMAIN Tail(q) = 1..(Len(q) - 1)
      /\ Head(q) = q[1]
  BY HeadTailProperties, LenProperties, EmptySeq
<1>2. Distinct(Tail(q))
  BY <1>1 DEF Distinct
<1>3. 1 \in DOMAIN q
  BY <1>1
<1>4. IdsOf(Tail(q)) = IdsOf(q) \ {Head(q).id}
  <2>1. ASSUME NEW x \in IdsOf(Tail(q)) PROVE x \in IdsOf(q) \ {Head(q).id}
    BY <1>1 DEF IdsOf, Distinct
  <2>2. ASSUME NEW x \in IdsOf(q), x # Head(q).id PROVE x \in IdsOf(Tail(q))
    <3>1. PICK i \in 1..Len(q) : x = q[i].id
      BY <1>1 DEF IdsOf
    <3>2. i - 1 \in 1..Len(Tail(q)) /\ Tail(q)[i - 1] = q[i]
      BY <1>1, <2>2, <3>1
    <3> QED BY <1>1, <3>1, <3>2 DEF IdsOf
  <2> QED BY <2>1, <2>2
<1>5. \A i \in DOMAIN Tail(q) : i + 1 \in DOMAIN q /\ Tail(q)[i] = q[i + 1]
  BY <1>1
<1>6. Head(q).id \in IdsOf(q)
  BY <1>1, <1>3 DEF IdsOf
<1> QED BY <1>1, <1>2, <1>3, <1>4, <1>5, <1>6

\* The ids of a queue are ids of what it may hold.
LEMMA IdsOfSeq ==
  ASSUME NEW S, NEW q \in Seq(S), NEW D, \A s \in S : s.id \in D
  PROVE  IdsOf(q) \subseteq D
<1>1. \A i \in DOMAIN q : q[i] \in S
  BY LenProperties, ElementOfSeq
<1> QED BY <1>1 DEF IdsOf

\* A set of tasks with one more, and with one less.
LEMMA SetIdsChange ==
  ASSUME NEW S, NEW s, Single(S)
  PROVE  /\ SetIds(S \cup {s}) = SetIds(S) \cup {s.id}
         /\ s.id \notin SetIds(S) => Single(S \cup {s})
         /\ s \in S => SetIds(S \ {s}) = SetIds(S) \ {s.id} /\ s.id \in SetIds(S)
         /\ Single(S \ {s})
BY DEF SetIds, Single

\* A queue of different samples is as long as it has ids.
LEMMA IdsCount ==
  ASSUME NEW S, NEW q \in Seq(S), Distinct(q)
  PROVE  IsFiniteSet(IdsOf(q)) /\ Cardinality(IdsOf(q)) = Len(q)
<1> DEFINE f == [i \in 1..Len(q) |-> q[i].id]
<1>1. Len(q) \in Nat /\ DOMAIN q = 1..Len(q)
  BY LenProperties
<1>2. f \in Bijection(1..Len(q), IdsOf(q))
  BY <1>1 DEF Bijection, Injection, Surjection, IdsOf, Distinct, IsInjective
<1>3. IsFiniteSet(1..Len(q)) /\ Cardinality(1..Len(q)) = Len(q)
  BY <1>1, FS_Interval
<1>4. ExistsBijection(1..Len(q), IdsOf(q))
  BY <1>2 DEF ExistsBijection
<1> QED BY <1>3, <1>4, FS_Bijection

-----------------------------------------------------------------------------
\* The places of a sample.
Names == {"waiting", "ready", "generating", "held", "cancelQ", "resultQ",
          "csample", "queue", "batch", "trained"}

At(k, c) ==
  \/ c = "waiting"    /\ k \in Waiting
  \/ c = "ready"      /\ k \in SetIds(ready)
  \/ c = "generating" /\ k \in SetIds(generating)
  \/ c = "held"       /\ k \in IdsOf(held)
  \/ c = "cancelQ"    /\ k \in IdsOf(cancelQ)
  \/ c = "resultQ"    /\ k \in IdsOf(resultQ)
  \/ c = "csample"    /\ k \in IdsOf(csample)
  \/ c = "queue"      /\ k \in InQueue
  \/ c = "batch"      /\ k \in IdsOf(batch)
  \/ c = "trained"    /\ k \in trained

\* No sample is in two places, nor twice in one.
Apart == \A k \in Samples : \A c, d \in Names : At(k, c) /\ At(k, d) => c = d

Singly ==
  /\ NoDup(pending) /\ Members(pending) \subseteq 1..fed
  /\ Single(ready) /\ Single(generating)
  /\ Distinct(cancelQ) /\ Distinct(resultQ) /\ Distinct(queue) /\ Distinct(batch)

\* The message queue keeps to its size, and the finish signal is its last entry.
AtEnd ==
  /\ Len(queue) <= MaxRequired
  /\ FinishSent => csample = <<>>
  /\ ~FinishSent => Finish.id \notin IdsOf(queue)

Placed == Apart /\ Singly /\ AtEnd

\* What a step does with the samples: those of S go to d, those of T are lost,
\* the others stay.
Routed(S, d, T) ==
  \A k \in Samples : \A e \in Names :
    At(k, e)' <=> IF k \in S THEN e = d ELSE k \notin T /\ At(k, e)

\* Samples that go to one place leave every other.
LEMMA RoutedApart ==
  ASSUME Apart, NEW S, NEW d, NEW T, Routed(S, d, T)
  PROVE  Apart'
BY DEF Apart, Routed

StageOf(c) == CASE c = "waiting" -> "waiting"
                [] c \in {"ready", "generating", "held", "cancelQ", "resultQ", "csample"} -> "rollout"
                [] c = "queue" -> "queued"
                [] c = "batch" -> "taken"
                [] c = "trained" -> "trained"
                [] OTHER -> "lost"

Stage(k) ==
  CASE k \in Waiting      -> "waiting"
    [] k \in InRollout    -> "rollout"
    [] k \in InQueue      -> "queued"
    [] k \in IdsOf(batch) -> "taken"
    [] k \in trained      -> "trained"
    [] OTHER              -> "lost"

\* The mapping of the refinement, sample by sample.
LEMMA StagesAre == Stages = [k \in Samples |-> Stage(k)]
BY DEF Stages, Stage

\* A sample's stage is that of its place; a sample without a place is lost.
LEMMA StageAt ==
  ASSUME Apart, NEW k \in Samples
  PROVE  /\ \A c \in Names : At(k, c) => Stage(k) = StageOf(c)
         /\ (\A c \in Names : ~At(k, c)) => Stage(k) = "lost" /\ k \in Lost
         /\ (\E c \in Names : At(k, c)) => k \notin Lost
<1>1. k \in InRollout <=> \E c \in {"ready", "generating", "held", "cancelQ", "resultQ", "csample"} : At(k, c)
  BY DEF InRollout, InTasks, At
<1>2. k \in Lost <=> \A c \in Names : ~At(k, c)
  BY <1>1 DEF Lost, At, Names
<1>3. /\ At(k, "waiting") <=> k \in Waiting
      /\ At(k, "queue") <=> k \in InQueue
      /\ At(k, "batch") <=> k \in IdsOf(batch)
      /\ At(k, "trained") <=> k \in trained
  BY DEF At
<1>4. (\A c \in Names : ~At(k, c)) => Stage(k) = "lost"
  BY <1>1, <1>3 DEF Stage, Names
<1>5. ASSUME NEW c \in Names, At(k, c) PROVE Stage(k) = StageOf(c)
  <2>1. \A d \in Names : At(k, d) => d = c
    BY <1>5 DEF Apart
  <2> QED BY <1>1, <1>3, <1>5, <2>1 DEF Stage, StageOf, Names
<1> QED BY <1>2, <1>4, <1>5

\* The same for every sample at once, in this state and in the next.
StagesFact ==
  Apart => \A k \in Samples :
    /\ \A c \in Names : At(k, c) => Stages[k] = StageOf(c) /\ k \notin Lost
    /\ (\A c \in Names : ~At(k, c)) => Stages[k] = "lost" /\ k \in Lost

\* StageAt for every sample.
LEMMA StagesNow == StagesFact
BY StageAt, StagesAre DEF StagesFact

\* The same in the next state.
LEMMA StagesNext == StagesFact'
BY StagesNow, PTL

\* What a step that routes samples does to the stages.
LEMMA RoutedStages ==
  ASSUME Apart, NEW S, NEW T, NEW d \in Names, Routed(S, d, T), S \cap T = {}
  PROVE  /\ Stages' = [k \in Samples |-> IF k \in S THEN StageOf(d)
                                         ELSE IF k \in T THEN "lost" ELSE Stages[k]]
         /\ Lost' = (Lost \ S) \cup (T \cap Samples)
<1> DEFINE New(k) == IF k \in S THEN StageOf(d) ELSE IF k \in T THEN "lost" ELSE Stages[k]
<1>1. Apart'
  BY RoutedApart
<1>2. ASSUME NEW k \in Samples
      PROVE  Stages'[k] = New(k) /\ (k \in Lost' <=> (k \in Lost /\ k \notin S) \/ k \in T)
  <2>0. /\ \A c \in Names : At(k, c) => Stages[k] = StageOf(c) /\ k \notin Lost
        /\ (\A c \in Names : ~At(k, c)) => Stages[k] = "lost" /\ k \in Lost
        /\ \A c \in Names : At(k, c)' => Stages'[k] = StageOf(c) /\ k \notin Lost'
        /\ (\A c \in Names : ~At(k, c)') => Stages'[k] = "lost" /\ k \in Lost'
    BY <1>1, StagesNow, StagesNext DEF StagesFact
  <2>1. CASE k \in S
    BY <2>0, <2>1 DEF Routed
  <2>2. CASE k \in T /\ k \notin S
    BY <2>0, <2>2 DEF Routed
  <2>3. CASE k \notin S /\ k \notin T
    <3>1. \A c \in Names : At(k, c)' <=> At(k, c)
      BY <2>3 DEF Routed
    <3> QED BY <2>0, <2>3, <3>1
  <2> QED BY <2>1, <2>2, <2>3
<1>3. Stages' = [k \in Samples |-> Stages'[k]]
  BY DEF Stages
<1>4. Lost' \subseteq Samples /\ Lost \subseteq Samples
  BY DEF Lost
<1> QED BY <1>2, <1>3, <1>4

\* How a step routes samples: from c to d, where those of T make room.
Same(e) == \A k \in Samples : At(k, e)' <=> At(k, e)
Moves(c, d, S, T) ==
  /\ \A k \in S : k \in Samples /\ At(k, c)
  /\ \A k \in T : k \in Samples /\ At(k, d)
  /\ \A k \in Samples : At(k, c)' <=> At(k, c) /\ k \notin S
  /\ \A k \in Samples : At(k, d)' <=> (At(k, d) /\ k \notin T) \/ k \in S
  /\ \A e \in Names \ {c, d} : Same(e)

\* Moving from one place to another is routing.
LEMMA MovesRoutes ==
  ASSUME Apart, NEW c \in Names, NEW d \in Names, c # d, NEW S, NEW T, Moves(c, d, S, T)
  PROVE  Routed(S, d, T) /\ S \cap T = {} /\ S \subseteq Samples /\ T \subseteq Samples
<1>1. ASSUME NEW k \in Samples, NEW e \in Names, k \in S
      PROVE  At(k, e)' <=> e = d
  <2>1. At(k, c) /\ (At(k, e) => e = c)
    BY <1>1 DEF Moves, Apart
  <2>2. CASE e = c
    BY <1>1, <2>2 DEF Moves
  <2>3. CASE e = d
    BY <1>1, <2>3 DEF Moves
  <2>4. CASE e \notin {c, d}
    BY <1>1, <2>1, <2>4 DEF Moves, Same
  <2> QED BY <2>2, <2>3, <2>4
<1>2. ASSUME NEW k \in Samples, NEW e \in Names, k \notin S
      PROVE  At(k, e)' <=> k \notin T /\ At(k, e)
  <2>1. k \in T /\ At(k, e) => e = d
    BY DEF Moves, Apart
  <2>2. CASE e = c
    BY <1>2, <2>1, <2>2 DEF Moves
  <2>3. CASE e = d
    BY <1>2, <2>3 DEF Moves
  <2>4. CASE e \notin {c, d}
    BY <1>2, <2>1, <2>4 DEF Moves, Same
  <2> QED BY <2>2, <2>3, <2>4
<1>3. S \cap T = {}
  BY DEF Moves, Apart
<1> QED BY <1>1, <1>2, <1>3 DEF Routed, Moves

\* What is not touched holds the same samples.
LEMMA SameAt ==
  /\ UNCHANGED <<fed, pending>> => Same("waiting")
  /\ UNCHANGED ready      => Same("ready")
  /\ UNCHANGED generating => Same("generating")
  /\ UNCHANGED held       => Same("held")
  /\ UNCHANGED cancelQ    => Same("cancelQ")
  /\ UNCHANGED resultQ    => Same("resultQ")
  /\ UNCHANGED csample    => Same("csample")
  /\ UNCHANGED queue      => Same("queue")
  /\ UNCHANGED batch      => Same("batch")
  /\ UNCHANGED trained    => Same("trained")
BY DEF Same, At, Waiting, InQueue

placeVars == <<fed, pending, ready, generating, held, cancelQ, resultQ, csample, queue, batch, trained>>

\* A step that leaves every sample where it is.
Quiet == Routed({}, "ready", {})

\* A step that changes no place is quiet.
LEMMA QuietSame == (\A e \in Names : Same(e)) => Quiet
BY DEF Quiet, Routed, Same

\* So is one that changes none of the variables that hold samples.
LEMMA QuietFrame == UNCHANGED placeVars => Quiet
BY SameAt, QuietSame DEF placeVars, Names

-----------------------------------------------------------------------------
\* The processor moves a sample from a queue, or the one it holds, to a task,
\* or keeps hold of it.
Takes(s) == \/ ready' = ready \cup {s} /\ held' = <<>>
            \/ ready' = ready /\ held' = <<s>>

\* The processor's helpers make a task of the sample or hold it.
LEMMA SubmitTakes ==
  ASSUME NEW STATE s, NEW STATE q, NEW STATE n
  PROVE  /\ CreateTask(s, q) => Takes(s)
         /\ SubmitSample(s, q, n) => Takes(s)
BY DEF CreateTask, SubmitSample, Takes

FromPending ==
  /\ pending # <<>> /\ held = <<>> /\ pending' = Tail(pending) /\ UNCHANGED cancelQ
  /\ IF Head(pending) = DoneItem THEN UNCHANGED <<held, ready>>
                                 ELSE Takes(Fresh(Head(pending)))
FromCancelled ==
  cancelQ # <<>> /\ held = <<>> /\ cancelQ' = Tail(cancelQ) /\ UNCHANGED pending /\ Takes(Head(cancelQ))
FromHeld ==
  held # <<>> /\ UNCHANGED <<pending, cancelQ>> /\ Takes(Head(held))

\* All that a step of the processor does with samples.
LEMMA ProcessorMoves ==
  ASSUME Forms, Processor
  PROVE  /\ UNCHANGED <<fed, generating, resultQ, csample, queue, batch, trained, mpc>>
         /\ \/ UNCHANGED <<pending, cancelQ, held, ready>>
            \/ FromPending \/ FromCancelled \/ FromHeld
<1>1. /\ UNCHANGED <<fed, generating, resultQ, csample, queue, batch, trained, mpc>>
  BY DEF Processor, ProcessorNext, ProcessorTop, ProcessorGet, ProcessorLocked, ProcessorWaited,
       ProcessorWoken, procFrame, mainVars, consumerVars, queueVars, trainerFrame, trainerVars
<1>2. /\ ppc \in {"top", "get"} => held = <<>>
      /\ ppc = "submitLock" \/ ppc = "submitWoken" => held # <<>>
      /\ ppc \in {"lock", "wait"} /\ loop = "limit" => held # <<>>
  BY DEF Forms, ProcForms, Submits
<1>3. ASSUME TakePending, held = <<>> PROVE FromPending
  BY <1>3, SubmitTakes DEF TakePending, FromPending
<1>4. CASE ProcessorTop
  <2>1. GoPause => UNCHANGED <<pending, cancelQ, held, ready>>
    BY DEF GoPause
  <2>2. /\ held = <<>>
        /\ \/ GoPause
           \/ cancelQ # <<>> /\ cancelQ' = Tail(cancelQ) /\ SubmitSample(Head(cancelQ), lockq, NumActive)
              /\ UNCHANGED pending
           \/ TakePending
           \/ UNCHANGED <<pending, cancelQ, held, ready>>
    BY <1>2, <1>4 DEF ProcessorTop
  <2> QED BY <1>1, <1>3, <2>1, <2>2, SubmitTakes DEF FromCancelled
<1>5. CASE ProcessorGet
  BY <1>1, <1>2, <1>3, <1>5 DEF ProcessorGet
<1>6. CASE ProcessorLocked
  <2>1. /\ UNCHANGED <<pending, cancelQ>>
        /\ \/ UNCHANGED <<held, ready>>
           \/ held # <<>> /\ CreateTask(Head(held), Tail(lockq))
           \/ held # <<>> /\ SubmitSample(Head(held), Tail(lockq), 0)
    BY <1>2, <1>6 DEF ProcessorLocked
  <2> QED BY <1>1, <2>1, SubmitTakes DEF FromHeld
<1>7. CASE ProcessorWaited
  <2> DEFINE n == Cardinality(ready) + Cardinality(generating)
  <2>1. /\ UNCHANGED <<pending, cancelQ>>
        /\ \/ UNCHANGED <<held, ready>>
           \/ held # <<>> /\ SubmitSample(Head(held), Tail(lockq), n)
    BY <1>2, <1>7 DEF ProcessorWaited
  <2> HIDE DEF n
  <2> QED BY <1>1, <2>1, SubmitTakes DEF FromHeld
<1>8. CASE ProcessorWoken
  <2>1. /\ UNCHANGED <<pending, cancelQ>>
        /\ \/ UNCHANGED <<held, ready>>
           \/ held # <<>> /\ CreateTask(Head(held), <<>>)
    BY <1>2, <1>8 DEF ProcessorWoken
  <2> QED BY <1>1, <2>1, SubmitTakes DEF FromHeld
<1> QED BY <1>4, <1>5, <1>6, <1>7, <1>8 DEF Processor, ProcessorNext

\* A sample moves within the rollout, or from the loader into it.
Within == \E k \in Samples : \E c, d \in {"ready", "generating", "held", "cancelQ", "resultQ", "csample"} :
            At(k, c) /\ Routed({k}, d, {})
Enters == \E k \in Samples : \E d \in {"ready", "held"} : At(k, "waiting") /\ Routed({k}, d, {})

Loses(c, k) == \A j \in Samples : At(j, c)' <=> At(j, c) /\ j # k
Gains(d, k) == \A j \in Samples : At(j, d)' <=> At(j, d) \/ j = k

\* One sample from a place to another.
LEMMA OneMoves ==
  ASSUME Apart, NEW c \in Names, NEW d \in Names, c # d, NEW k \in Samples, At(k, c),
         Loses(c, k), Gains(d, k), \A e \in Names \ {c, d} : Same(e)
  PROVE  Routed({k}, d, {})
<1>1. Moves(c, d, {k}, {})
  BY DEF Moves, Loses, Gains
<1> QED BY <1>1, MovesRoutes

\* The sample that is taken is a task or is held.
LEMMA TakesGains ==
  ASSUME Singly, held = <<>>, NEW STATE s, Takes(s)
  PROVE  \/ Gains("ready", s.id) /\ Same("held") /\ (s.id \notin SetIds(ready) => Single(ready'))
         \/ Gains("held", s.id) /\ Same("ready") /\ Single(ready')
<1>1. CASE ready' = ready \cup {s} /\ held' = <<>>
  <2>1. SetIds(ready \cup {s}) = SetIds(ready) \cup {s.id}
    BY SetIdsChange DEF Singly
  <2>2. Gains("ready", s.id)
    BY <1>1, <2>1 DEF Gains, At
  <2>3. s.id \notin SetIds(ready) => Single(ready')
    BY <1>1, SetIdsChange DEF Singly
  <2> QED BY <1>1, <2>2, <2>3, SameAt
<1>2. CASE ready' = ready /\ held' = <<s>>
  <2>1. IdsOf(held) = {} /\ IdsOf(<<s>>) = {s.id}
    BY IdsFew
  <2>2. Gains("held", s.id)
    BY <1>2, <2>1 DEF Gains, At
  <2> QED BY <1>2, <2>2, SameAt DEF Singly
<1> QED BY <1>1, <1>2 DEF Takes

\* The first of the pending queue leaves it: a sample, or the end marker.
LEMMA PendingTail ==
  ASSUME Forms, Singly, pending # <<>>, pending' = Tail(pending), UNCHANGED fed
  PROVE  /\ Head(pending) = DoneItem => Same("waiting")
         /\ Head(pending) # DoneItem =>
              Head(pending) \in Samples /\ At(Head(pending), "waiting") /\ Loses("waiting", Head(pending))
         /\ NoDup(pending') /\ Members(pending') \subseteq 1..fed
<1>1. /\ Head(pending) \in 1..DoneItem /\ pending \in Seq(1..DoneItem)
      /\ NoDup(pending) /\ Members(pending) \subseteq 1..fed
  BY TakeFirst DEF Forms, RollForms, Singly
<1>2. /\ Members(Tail(pending)) = Members(pending) \ {Head(pending)}
      /\ Head(pending) \in Members(pending) /\ NoDup(Tail(pending))
  BY <1>1, LineTail
<1>3. /\ Waiting = (Samples \ (1..fed)) \cup (Members(pending) \ {DoneItem})
      /\ Waiting' = (Samples \ (1..fed)) \cup (Members(Tail(pending)) \ {DoneItem})
  BY DEF Waiting, Members
<1>4. Head(pending) # DoneItem => Head(pending) \in Samples
  BY <1>1, RollouterAssumption DEF DoneItem, Samples
<1>5. DoneItem \notin Samples
  BY RollouterAssumption DEF DoneItem, Samples
<1> HIDE DEF DoneItem
<1>6. Head(pending) = DoneItem => Same("waiting")
  BY <1>1, <1>2, <1>3, <1>5 DEF Same, At
<1>7. Head(pending) # DoneItem => At(Head(pending), "waiting") /\ Loses("waiting", Head(pending))
  BY <1>1, <1>2, <1>3 DEF Loses, At
<1> QED BY <1>1, <1>2, <1>4, <1>6, <1>7

\* A sample from the pending queue enters the rollout.
LEMMA FromPendingRoutes ==
  ASSUME Forms, Apart, Singly, FromPending,
         UNCHANGED <<fed, generating, resultQ, csample, queue, batch, trained>>
  PROVE  (Quiet \/ Enters) /\ Singly'
<1>1. \A e \in Names \ {"waiting", "held", "ready"} : Same(e)
  BY SameAt DEF FromPending, Names
<1>2. NoDup(pending') /\ Members(pending') \subseteq 1..fed
  BY PendingTail DEF FromPending
<1>3. CASE Head(pending) = DoneItem
  <2>1. UNCHANGED <<held, ready>> /\ Same("waiting")
    BY <1>3, PendingTail DEF FromPending
  <2>2. Quiet
    BY <1>1, <2>1, SameAt, QuietSame
  <2> QED BY <1>2, <2>1, <2>2 DEF Singly, FromPending
<1>4. CASE Head(pending) # DoneItem
  <2> DEFINE k == Head(pending)
             s == Fresh(Head(pending))
  <2>1. k \in Samples /\ At(k, "waiting") /\ Loses("waiting", k) /\ s.id = k
    BY <1>4, PendingTail DEF FromPending, Fresh
  <2>2. Takes(s) /\ held = <<>>
    BY <1>4 DEF FromPending
  <2>3. k \notin SetIds(ready)
    BY <2>1 DEF Apart, Names, At
  <2> HIDE DEF s
  <2>4. \/ Gains("ready", k) /\ Same("held") /\ Single(ready')
        \/ Gains("held", k) /\ Same("ready") /\ Single(ready')
    BY <2>1, <2>2, <2>3, TakesGains
  <2> HIDE DEF k
  <2>5. \/ Routed({k}, "ready", {})
        \/ Routed({k}, "held", {})
    <3>1. "waiting" \in Names /\ "ready" \in Names /\ "held" \in Names
      BY DEF Names
    <3>2. CASE Gains("ready", k) /\ Same("held")
      <4>1. \A e \in Names \ {"waiting", "ready"} : Same(e)
        BY <1>1, <3>2
      <4> QED BY <2>1, <3>1, <3>2, <4>1, OneMoves
    <3>3. CASE Gains("held", k) /\ Same("ready")
      <4>1. \A e \in Names \ {"waiting", "held"} : Same(e)
        BY <1>1, <3>3
      <4> QED BY <2>1, <3>1, <3>3, <4>1, OneMoves
    <3> QED BY <2>4, <3>2, <3>3
  <2> QED BY <1>2, <2>1, <2>4, <2>5 DEF Singly, FromPending, Enters
<1> QED BY <1>3, <1>4

\* A queue of the rollout that gives its first sample.
LEMMA HeadGoes ==
  ASSUME NEW S, NEW q \in Seq(S), q # <<>>, Distinct(q), \A s \in S : s.id \in Samples
  PROVE  /\ Head(q).id \in Samples /\ Head(q).id \in IdsOf(q)
         /\ IdsOf(Tail(q)) = IdsOf(q) \ {Head(q).id} /\ Distinct(Tail(q))
BY IdsTail, TakeFirst

\* What is in the queues and the tasks has the id of a sample; the finish signal has none.
LEMMA FormsIds ==
  /\ \A s \in Part : s.id \in Samples
  /\ \A s \in Full : s.id \in Samples
  /\ \A s \in Item : s.id \in Samples
  /\ Finish.id = 0 /\ Finish.id \notin Samples
BY DEF Part, Full, Item, NewSample, Finish, Fresh, Samples

\* A sample from the cancel queue is taken up again.
LEMMA FromCancelledRoutes ==
  ASSUME Forms, Apart, Singly, FromCancelled,
         UNCHANGED <<fed, generating, resultQ, csample, queue, batch, trained>>
  PROVE  Within /\ Singly'
<1> DEFINE s == Head(cancelQ)
           k == s.id
<1>1. /\ k \in Samples /\ k \in IdsOf(cancelQ)
      /\ IdsOf(Tail(cancelQ)) = IdsOf(cancelQ) \ {k} /\ Distinct(Tail(cancelQ))
  <2>1. cancelQ \in Seq(Part) /\ cancelQ # <<>> /\ Distinct(cancelQ)
    BY DEF Forms, RollForms, FromCancelled, Singly
  <2> QED BY <2>1, FormsIds, HeadGoes
<1>2. /\ cancelQ' = Tail(cancelQ) /\ UNCHANGED pending /\ Takes(s) /\ held = <<>>
  BY DEF FromCancelled
<1> HIDE DEF s
<1>3. At(k, "cancelQ") /\ Loses("cancelQ", k)
  BY <1>1, <1>2 DEF At, Loses
<1>4. k \notin SetIds(ready)
  BY <1>1, <1>3 DEF Apart, Names, At
<1>5. \/ Gains("ready", k) /\ Same("held") /\ Single(ready')
      \/ Gains("held", k) /\ Same("ready") /\ Single(ready')
  BY <1>2, <1>4, TakesGains
<1> HIDE DEF k
<1>6. \A e \in Names \ {"cancelQ", "held", "ready"} : Same(e)
  BY <1>2, SameAt DEF Names
<1>7. "cancelQ" \in Names /\ "ready" \in Names /\ "held" \in Names
  BY DEF Names
<1>8. \/ Routed({k}, "ready", {})
      \/ Routed({k}, "held", {})
  <2>2. CASE Gains("ready", k) /\ Same("held")
    <3>1. \A e \in Names \ {"cancelQ", "ready"} : Same(e)
      BY <1>6, <2>2
    <3> QED BY <1>1, <1>3, <1>7, <2>2, <3>1, OneMoves
  <2>3. CASE Gains("held", k) /\ Same("ready")
    <3>1. \A e \in Names \ {"cancelQ", "held"} : Same(e)
      BY <1>6, <2>3
    <3> QED BY <1>1, <1>3, <1>7, <2>3, <3>1, OneMoves
  <2> QED BY <1>5, <2>2, <2>3
<1>9. Within
  BY <1>1, <1>3, <1>8 DEF Within
<1> QED BY <1>1, <1>2, <1>5, <1>9 DEF Singly

\* The sample the processor held becomes a task, or is held on.
LEMMA FromHeldRoutes ==
  ASSUME Forms, Apart, Singly, FromHeld,
         UNCHANGED <<fed, generating, resultQ, csample, queue, batch, trained>>
  PROVE  (Quiet \/ Within) /\ Singly'
<1> DEFINE s == Head(held)
           k == s.id
<1>1. held \in Seq(Item) /\ Len(held) = 1 /\ s \in Item /\ k \in Samples
  <2>1. held \in Seq(Item) /\ Len(held) \in {0, 1} /\ held # <<>>
    BY DEF Forms, ProcForms, FromHeld
  <2>2. s \in Item /\ Len(held) \in Nat \ {0}
    BY <2>1, TakeFirst
  <2> QED BY <2>1, <2>2, FormsIds
<1>2. IdsOf(held) = {k}
  <2>1. DOMAIN held = {1} /\ s = held[1]
    BY <1>1
  <2> QED BY <2>1 DEF IdsOf
<1>3. UNCHANGED <<pending, cancelQ>> /\ Takes(s)
  BY DEF FromHeld
<1> HIDE DEF s
<1>4. At(k, "held")
  BY <1>2 DEF At
<1>5. k \notin SetIds(ready)
  BY <1>1, <1>4 DEF Apart, Names, At
<1>6. \A e \in Names \ {"held", "ready"} : Same(e)
  BY <1>3, SameAt DEF Names
<1>7. CASE ready' = ready \cup {s} /\ held' = <<>>
  <2>1. SetIds(ready \cup {s}) = SetIds(ready) \cup {k} /\ Single(ready')
    BY <1>5, <1>7, SetIdsChange DEF Singly
  <2>2. Gains("ready", k)
    BY <1>7, <2>1 DEF Gains, At
  <2>3. Loses("held", k)
    BY <1>2, <1>7, IdsFew DEF Loses, At
  <2> HIDE DEF k
  <2>4. "held" \in Names /\ "ready" \in Names
    BY DEF Names
  <2>5. Routed({k}, "ready", {})
    BY <1>1, <1>4, <1>6, <2>2, <2>3, <2>4, OneMoves
  <2> QED BY <1>1, <1>3, <1>4, <2>1, <2>5 DEF Within, Singly
<1>8. CASE ready' = ready /\ held' = <<s>>
  <2>1. IdsOf(<<s>>) = {k}
    BY IdsFew
  <2>2. Same("held") /\ Same("ready")
    BY <1>2, <1>8, <2>1, SameAt DEF Same, At
  <2>3. Quiet
    BY <1>6, <2>2, QuietSame
  <2> QED BY <1>3, <1>8, <2>3 DEF Singly
<1> QED BY <1>3, <1>7, <1>8 DEF Takes

\* The processor loses no sample and doubles none.
LEMMA ProcessorPlaced ==
  ASSUME Forms, Placed, Processor
  PROVE  (Quiet \/ Enters \/ Within) /\ Singly' /\ AtEnd'
<1>1. /\ UNCHANGED <<fed, generating, resultQ, csample, queue, batch, trained, mpc>>
      /\ \/ UNCHANGED <<pending, cancelQ, held, ready>>
         \/ FromPending \/ FromCancelled \/ FromHeld
  BY ProcessorMoves
<1>3. AtEnd'
  BY <1>1 DEF Placed, AtEnd, FinishSent
<1>4. Apart /\ Singly
  BY DEF Placed
<1>2. CASE UNCHANGED <<pending, cancelQ, held, ready>>
  <2>1. UNCHANGED placeVars
    BY <1>1, <1>2 DEF placeVars
  <2>2. Singly'
    BY <1>1, <1>2, <1>4 DEF Singly
  <2> QED BY <1>3, <2>1, <2>2, QuietFrame
<1>5. CASE FromPending
  BY <1>1, <1>3, <1>4, <1>5, FromPendingRoutes
<1>6. CASE FromCancelled
  BY <1>1, <1>3, <1>4, <1>6, FromCancelledRoutes
<1>7. CASE FromHeld
  BY <1>1, <1>3, <1>4, <1>7, FromHeldRoutes
<1> QED BY <1>1, <1>2, <1>3, <1>5, <1>6, <1>7

-----------------------------------------------------------------------------
\* A task that raises, or a merge that does, loses its sample.
Breaks ==
  /\ Failures # {}
  /\ \E k \in Samples : \E c \in {"generating", "resultQ"} : At(k, c) /\ Routed({}, c, {k})

\* One sample leaves its place for none.
LEMMA OneLost ==
  ASSUME Apart, NEW c \in Names, NEW k \in Samples, At(k, c), Loses(c, k),
         \A e \in Names \ {c} : Same(e)
  PROVE  Routed({}, c, {k})
<1>1. PICK d \in Names : c # d
  BY DEF Names
<1>2. Moves(d, c, {}, {k})
  BY <1>1 DEF Moves, Loses, Same
<1> QED BY <1>1, <1>2, MovesRoutes

\* A set of tasks, and a queue, without one of their samples, and with one more.
LEMMA TaskGoes ==
  ASSUME NEW S, NEW s \in S, Single(S), NEW t
  PROVE  /\ SetIds(S \ {s}) = SetIds(S) \ {s.id} /\ s.id \in SetIds(S) /\ Single(S \ {s})
         /\ SetIds(S \cup {t}) = SetIds(S) \cup {t.id}
         /\ t.id \notin SetIds(S) => Single(S \cup {t})
BY SetIdsChange

\* The label of a start is not about the id.
LEMMA LabelledId ==
  \A s \in Item : Labelled(s).id = s.id
<1>1. ASSUME NEW s \in Item PROVE Labelled(s).id = s.id
  <2>1. s = [id |-> s.id, start |-> s.start, end |-> s.end]
    BY DEF Item, Part, NewSample
  <2> QED BY <2>1 DEF Labelled
<1> QED BY <1>1

\* Nor is the label of an end.
LEMMA DoneId ==
  \A s \in Part : [s EXCEPT !.end = version].id = s.id
BY DEF Part

\* A task that starts.
LEMMA StartPlaced ==
  ASSUME Forms, SyncInv, Apart, Singly, NEW s \in ready, TaskStart(s),
         UNCHANGED <<fed, pending, held, resultQ, csample, queue, batch, trained>>
  PROVE  Within /\ Singly'
<1> DEFINE k == s.id
           t == Labelled(s)
<1>1. ready \subseteq Item /\ cancelQ \in Seq(Part) /\ Single(ready) /\ Single(generating) /\ Distinct(cancelQ)
  BY DEF Forms, RollForms, Singly
<1>2. k \in Samples /\ t \in Part /\ t.id = k
  BY <1>1, FormsIds, LabelTyped, LabelledId
<1>3. /\ ready' = ready \ {s}
      /\ \/ cancelQ' = Append(cancelQ, t) /\ generating' = generating
         \/ cancelQ' = cancelQ /\ generating' = generating \cup {t}
  BY DEF TaskStart, Interrupt
<1> HIDE DEF t
<1>4. SetIds(ready \ {s}) = SetIds(ready) \ {k} /\ k \in SetIds(ready) /\ Single(ready \ {s})
  BY <1>1, TaskGoes
<1>5. At(k, "ready") /\ Loses("ready", k)
  BY <1>3, <1>4 DEF At, Loses
<1>6. k \notin IdsOf(cancelQ) /\ k \notin SetIds(generating)
  BY <1>2, <1>5 DEF Apart, Names, At
<1>7. \A e \in Names \ {"ready", "generating", "cancelQ"} : Same(e)
  BY SameAt DEF Names
<1>8. "ready" \in Names /\ "generating" \in Names /\ "cancelQ" \in Names
  BY DEF Names
<1>9. CASE cancelQ' = Append(cancelQ, t) /\ generating' = generating
  <2>1. IdsOf(Append(cancelQ, t)) = IdsOf(cancelQ) \cup {k} /\ Distinct(Append(cancelQ, t))
    BY <1>1, <1>2, <1>6, IdsAppend
  <2>2. Gains("cancelQ", k)
    BY <1>9, <2>1 DEF Gains, At
  <2>3. \A e \in Names \ {"ready", "cancelQ"} : Same(e)
    BY <1>7, <1>9, SameAt
  <2> HIDE DEF k
  <2>4. Routed({k}, "cancelQ", {})
    BY <1>2, <1>5, <1>8, <2>2, <2>3, OneMoves
  <2> QED BY <1>2, <1>3, <1>4, <1>5, <1>9, <2>1, <2>4 DEF Within, Singly
<1>10. CASE cancelQ' = cancelQ /\ generating' = generating \cup {t}
  <2>1. SetIds(generating \cup {t}) = SetIds(generating) \cup {k} /\ Single(generating \cup {t})
    BY <1>1, <1>2, <1>6, SetIdsChange
  <2>2. Gains("generating", k)
    BY <1>10, <2>1 DEF Gains, At
  <2>3. \A e \in Names \ {"ready", "generating"} : Same(e)
    BY <1>7, <1>10, SameAt
  <2> HIDE DEF k
  <2>4. Routed({k}, "generating", {})
    BY <1>2, <1>5, <1>8, <2>2, <2>3, OneMoves
  <2> QED BY <1>2, <1>3, <1>4, <1>5, <1>10, <2>1, <2>4 DEF Within, Singly
<1> QED BY <1>3, <1>9, <1>10

\* A task that ends, is cancelled or raises: only the last loses its sample.
LEMMA EndPlaced ==
  ASSUME Forms, SyncInv, Apart, Singly, NEW s \in generating,
         TaskFinish(s) \/ TaskCancel(s) \/ TaskFail(s),
         UNCHANGED <<fed, pending, held, ready, csample, queue, batch, trained>>
  PROVE  (Within \/ Breaks) /\ Singly'
<1> DEFINE k == s.id
           t == [s EXCEPT !.end = version]
<1>1. /\ generating \subseteq Part /\ cancelQ \in Seq(Part) /\ resultQ \in Seq(Full)
      /\ Single(generating) /\ Distinct(cancelQ) /\ Distinct(resultQ)
  BY DEF Forms, RollForms, Singly
<1>2. k \in Samples /\ t \in Full /\ t.id = k /\ s \in Part
  BY <1>1, FormsIds, LabelTyped, DoneId
<1>3. /\ generating' = generating \ {s}
      /\ \/ cancelQ' = Append(cancelQ, s) /\ resultQ' = resultQ
         \/ cancelQ' = cancelQ /\ resultQ' = Append(resultQ, t)
         \/ cancelQ' = cancelQ /\ resultQ' = resultQ /\ Failures # {}
  BY DEF TaskFinish, TaskCancel, TaskFail, Interrupt
<1> HIDE DEF t
<1>4. SetIds(generating \ {s}) = SetIds(generating) \ {k} /\ k \in SetIds(generating) /\ Single(generating \ {s})
  BY <1>1, TaskGoes
<1>5. At(k, "generating") /\ Loses("generating", k)
  BY <1>3, <1>4 DEF At, Loses
<1>6. k \notin IdsOf(cancelQ) /\ k \notin IdsOf(resultQ)
  BY <1>2, <1>5 DEF Apart, Names, At
<1>7. \A e \in Names \ {"generating", "resultQ", "cancelQ"} : Same(e)
  BY SameAt DEF Names
<1>8. "resultQ" \in Names /\ "generating" \in Names /\ "cancelQ" \in Names
  BY DEF Names
<1>9. CASE cancelQ' = Append(cancelQ, s) /\ resultQ' = resultQ
  <2>1. IdsOf(Append(cancelQ, s)) = IdsOf(cancelQ) \cup {k} /\ Distinct(Append(cancelQ, s))
    BY <1>1, <1>2, <1>6, IdsAppend
  <2>2. Gains("cancelQ", k)
    BY <1>9, <2>1 DEF Gains, At
  <2>3. \A e \in Names \ {"generating", "cancelQ"} : Same(e)
    BY <1>7, <1>9, SameAt
  <2> HIDE DEF k
  <2>4. Routed({k}, "cancelQ", {})
    BY <1>2, <1>5, <1>8, <2>2, <2>3, OneMoves
  <2> QED BY <1>2, <1>3, <1>4, <1>5, <1>9, <2>1, <2>4 DEF Within, Singly
<1>10. CASE cancelQ' = cancelQ /\ resultQ' = Append(resultQ, t)
  <2>1. IdsOf(Append(resultQ, t)) = IdsOf(resultQ) \cup {k} /\ Distinct(Append(resultQ, t))
    BY <1>1, <1>2, <1>6, IdsAppend
  <2>2. Gains("resultQ", k)
    BY <1>10, <2>1 DEF Gains, At
  <2>3. \A e \in Names \ {"generating", "resultQ"} : Same(e)
    BY <1>7, <1>10, SameAt
  <2> HIDE DEF k
  <2>4. Routed({k}, "resultQ", {})
    BY <1>2, <1>5, <1>8, <2>2, <2>3, OneMoves
  <2> QED BY <1>2, <1>3, <1>4, <1>5, <1>10, <2>1, <2>4 DEF Within, Singly
<1>11. CASE cancelQ' = cancelQ /\ resultQ' = resultQ /\ Failures # {}
  <2>3. \A e \in Names \ {"generating"} : Same(e)
    BY <1>7, <1>11, SameAt
  <2> HIDE DEF k
  <2>4. Routed({}, "generating", {k})
    BY <1>2, <1>5, <1>8, <2>3, OneLost
  <2> QED BY <1>2, <1>3, <1>4, <1>5, <1>11, <2>4 DEF Breaks, Singly
<1> QED BY <1>3, <1>9, <1>10, <1>11

\* A task moves its own sample within the rollout, or loses it when it raises.
LEMMA TasksPlaced ==
  ASSUME Forms, SyncInv, Placed, Tasks
  PROVE  (Within \/ Breaks) /\ Singly' /\ AtEnd'
<1>1. /\ UNCHANGED <<fed, pending, held, csample, queue, batch, trained, mpc>>
  BY DEF Tasks, TaskStart, TaskFinish, TaskCancel, TaskFail, taskFrame, mainVars, procVars,
       consumerVars, queueVars, trainerFrame, trainerVars
<1>2. AtEnd'
  BY <1>1 DEF Placed, AtEnd, FinishSent
<1>3. Apart /\ Singly
  BY DEF Placed
<1>4. ASSUME NEW s \in ready, TaskStart(s) PROVE Within /\ Singly'
  <2>1. UNCHANGED resultQ
    BY <1>4 DEF TaskStart
  <2> QED BY <1>1, <1>3, <1>4, <2>1, StartPlaced
<1>5. ASSUME NEW s \in generating, TaskFinish(s) \/ TaskCancel(s) \/ TaskFail(s)
      PROVE  (Within \/ Breaks) /\ Singly'
  <2>1. UNCHANGED ready
    BY <1>5 DEF TaskFinish, TaskCancel, TaskFail
  <2> QED BY <1>1, <1>3, <1>5, <2>1, EndPlaced
<1> QED BY <1>2, <1>4, <1>5 DEF Tasks

-----------------------------------------------------------------------------
\* The feeder: what it puts into the queue waits as before.
LEMMA ConcatMembers ==
  ASSUME NEW S, NEW q \in Seq(S), NEW r \in Seq(S), NoDup(q), NoDup(r),
         Members(q) \cap Members(r) = {}
  PROVE  /\ Members(q \o r) = Members(q) \cup Members(r)
         /\ NoDup(q \o r)
<1>1. /\ Len(q) \in Nat /\ Len(r) \in Nat /\ DOMAIN q = 1..Len(q) /\ DOMAIN r = 1..Len(r)
      /\ q \o r \in Seq(S) /\ Len(q \o r) = Len(q) + Len(r)
      /\ DOMAIN (q \o r) = 1..(Len(q) + Len(r))
      /\ \A i \in 1..(Len(q) + Len(r)) : (q \o r)[i] = IF i <= Len(q) THEN q[i] ELSE r[i - Len(q)]
  BY ConcatProperties, LenProperties
<1> DEFINE p == q \o r
<1> HIDE DEF p
<1>2. Members(p) = Members(q) \cup Members(r)
  <2>1. ASSUME NEW i \in DOMAIN p PROVE p[i] \in Members(q) \cup Members(r)
    BY <1>1, <2>1 DEF Members, p
  <2>2. ASSUME NEW i \in DOMAIN q PROVE q[i] \in Members(p)
    BY <1>1 DEF Members, p
  <2>3. ASSUME NEW i \in DOMAIN r PROVE r[i] \in Members(p)
    <3>1. i + Len(q) \in DOMAIN p /\ p[i + Len(q)] = r[i]
      BY <1>1 DEF p
    <3> QED BY <3>1 DEF Members
  <2> QED BY <2>1, <2>2, <2>3 DEF Members
<1>3. ASSUME NEW i \in DOMAIN p, NEW j \in DOMAIN p, i # j PROVE p[i] # p[j]
  <2>1. CASE i <= Len(q) /\ j <= Len(q)
    BY <1>1, <1>3, <2>1 DEF NoDup, p
  <2>2. CASE i > Len(q) /\ j > Len(q)
    <3>1. /\ i - Len(q) \in DOMAIN r /\ j - Len(q) \in DOMAIN r /\ i - Len(q) # j - Len(q)
          /\ p[i] = r[i - Len(q)] /\ p[j] = r[j - Len(q)]
      BY <1>1, <1>3, <2>2 DEF p
    <3> QED BY <3>1 DEF NoDup
  <2>3. CASE i <= Len(q) /\ j > Len(q)
    <3>1. p[i] \in Members(q) /\ p[j] \in Members(r)
      BY <1>1, <2>3 DEF Members, p
    <3> QED BY <3>1
  <2>4. CASE i > Len(q) /\ j <= Len(q)
    <3>1. p[j] \in Members(q) /\ p[i] \in Members(r)
      BY <1>1, <2>4 DEF Members, p
    <3> QED BY <3>1
  <2> QED BY <1>1, <2>1, <2>2, <2>3, <2>4 DEF p
<1> QED BY <1>2, <1>3 DEF NoDup, p

\* The feeder moves no sample: it waited in the dataset, and waits in the queue.
LEMMA FeedPlaced ==
  ASSUME Forms, Placed, Feeder
  PROVE  Quiet /\ Singly' /\ AtEnd'
<1> DEFINE room == PendingCap - Len(pending)
           k == IF room < DoneItem - fed THEN room ELSE DoneItem - fed
           more == [i \in 1..k |-> fed + i]
<1>1. /\ UNCHANGED <<ready, generating, held, cancelQ, resultQ, csample, queue, batch, trained, mpc>>
      /\ pending' = pending \o more /\ fed' = fed + k
      /\ fed < DoneItem /\ Len(pending) < PendingCap
  BY DEF Feeder, Feed, taskVars, procVars, consumerVars, queueVars, trainerFrame, trainerVars
<1>2. /\ fed \in 0..DoneItem /\ pending \in Seq(1..DoneItem) /\ Len(pending) \in Nat
      /\ PendingCap \in Nat /\ DoneItem \in Nat /\ Samples = 1..(DoneItem - 1)
      /\ NoDup(pending) /\ Members(pending) \subseteq 1..fed
  BY RollouterAssumption, LenProperties DEF Forms, RollForms, DoneItem, Samples, Placed, Singly
<1> HIDE DEF DoneItem
<1>3. k \in Nat /\ fed + k <= DoneItem
  BY <1>1, <1>2
<1> HIDE DEF k
<1>4. /\ more \in Seq(1..DoneItem) /\ DOMAIN more = 1..k
      /\ \A i \in 1..k : more[i] = fed + i
  <2>1. \A i \in 1..k : fed + i \in 1..DoneItem
    BY <1>2, <1>3
  <2> QED BY <1>3, <2>1
<1> HIDE DEF more
<1>5. Members(more) = (fed + 1)..(fed + k) /\ NoDup(more)
  <2>1. NoDup(more)
    BY <1>2, <1>3, <1>4 DEF NoDup
  <2>2. ASSUME NEW x \in (fed + 1)..(fed + k) PROVE x \in Members(more)
    <3>1. x - fed \in DOMAIN more /\ more[x - fed] = x
      BY <1>2, <1>3, <1>4
    <3> QED BY <3>1 DEF Members
  <2>3. ASSUME NEW i \in DOMAIN more PROVE more[i] \in (fed + 1)..(fed + k)
    BY <1>2, <1>3, <1>4
  <2> QED BY <2>1, <2>2, <2>3 DEF Members
<1>6. Members(pending) \cap Members(more) = {}
  BY <1>2, <1>3, <1>5
<1>7. Members(pending') = Members(pending) \cup (fed + 1)..(fed + k) /\ NoDup(pending')
  BY <1>1, <1>2, <1>4, <1>5, <1>6, ConcatMembers
<1>8. Members(pending') \subseteq 1..fed'
  BY <1>1, <1>2, <1>3, <1>7
<1>9. Same("waiting")
  <2>1. /\ Waiting = (Samples \ (1..fed)) \cup (Members(pending) \ {DoneItem})
        /\ Waiting' = (Samples \ (1..fed')) \cup (Members(pending') \ {DoneItem})
    BY DEF Waiting, Members
  <2>2. ASSUME NEW j \in Samples PROVE j \in Waiting' <=> j \in Waiting
    BY <1>1, <1>2, <1>3, <1>7, <2>1
  <2> QED BY <2>2 DEF Same, At
<1>10. Quiet
  <2>1. \A e \in Names : Same(e)
    BY <1>1, <1>9, SameAt DEF Names
  <2> QED BY <2>1, QuietSame
<1> QED BY <1>1, <1>7, <1>8, <1>10 DEF Placed, Singly, AtEnd, FinishSent

-----------------------------------------------------------------------------
\* put_sample makes room by dropping the oldest sample, if it has to.
Room(T) ==
  IF Len(queue) < MaxRequired THEN T = {}
  ELSE \E k \in Samples : T = {k} /\ At(k, "queue")

\* put_sample: a new last sample, at the cost of the oldest when the queue is full.
LEMMA PutQueue ==
  ASSUME Forms, Singly, AtEnd, ~FinishSent, NEW STATE s, s \in Full \cup {Finish},
         s.id \notin IdsOf(queue), MQ!PutSample(s)
  PROVE  \E T \in SUBSET Samples :
           /\ Room(T) /\ dropped_samples' = IF T = {} THEN dropped_samples ELSE dropped_samples + 1
           /\ IdsOf(queue') = (IdsOf(queue) \ T) \cup {s.id}
           /\ Distinct(queue') /\ Len(queue') <= MaxRequired
<1> DEFINE q == IF MQ!Full THEN Tail(queue) ELSE queue
<1>1. /\ queue \in Seq(Full \cup {Finish}) /\ Distinct(queue) /\ Len(queue) <= MaxRequired
      /\ MaxRequired \in Nat \ {0} /\ Len(queue) \in Nat
      /\ dropped_samples' = IF MQ!Full THEN dropped_samples + 1 ELSE dropped_samples
      /\ queue' = Append(q, s) /\ Finish.id \notin IdsOf(queue)
  BY MaxRequiredPositive, LenProperties DEF Forms, QueueForms, Singly, AtEnd, MQ!PutSample, MQ!Counted
<1>2. CASE Len(queue) < MaxRequired
  <2>1. q = queue /\ dropped_samples' = dropped_samples
    BY <1>1, <1>2 DEF MQ!Full
  <2>2. IdsOf(Append(queue, s)) = IdsOf(queue) \cup {s.id} /\ Distinct(Append(queue, s))
    BY <1>1, IdsAppend
  <2>3. Len(queue') <= MaxRequired
    BY <1>1, <1>2, <2>1, AppendProperties
  <2>4. Room({})
    BY <1>2 DEF Room
  <2> QED BY <1>1, <2>1, <2>2, <2>3, <2>4
<1>3. CASE Len(queue) = MaxRequired
  <2> DEFINE k == Head(queue).id
  <2>1. q = Tail(queue) /\ dropped_samples' = dropped_samples + 1 /\ queue # <<>>
    BY <1>1, <1>3 DEF MQ!Full
  <2>2. /\ IdsOf(Tail(queue)) = IdsOf(queue) \ {k} /\ k \in IdsOf(queue) /\ Distinct(Tail(queue))
    BY <1>1, <2>1, IdsTail
  <2>3. Tail(queue) \in Seq(Full \cup {Finish}) /\ Len(Tail(queue)) = Len(queue) - 1
    BY <1>1, <2>1, TakeFirst
  <2>4. k \in Samples
    <3>1. \A t \in Full \cup {Finish} : t.id \in Samples \cup {Finish.id}
      BY FormsIds
    <3>2. IdsOf(queue) \subseteq Samples \cup {Finish.id}
      BY <1>1, <3>1, IdsOfSeq
    <3> QED BY <1>1, <2>2, <3>2
  <2>5. Room({k})
    BY <1>1, <1>3, <2>2, <2>4, FormsIds DEF Room, At, InQueue
  <2> HIDE DEF k
  <2>6. s.id \notin IdsOf(Tail(queue))
    BY <2>2
  <2>7. /\ IdsOf(Append(Tail(queue), s)) = (IdsOf(queue) \ {k}) \cup {s.id}
        /\ Distinct(Append(Tail(queue), s))
    <3>1. /\ IdsOf(Append(Tail(queue), s)) = IdsOf(Tail(queue)) \cup {s.id}
          /\ Distinct(Append(Tail(queue), s))
      <4> DEFINE r == Tail(queue)
      <4>1. r \in Seq(Full \cup {Finish}) /\ Distinct(r) /\ s \in Full \cup {Finish} /\ s.id \notin IdsOf(r)
        BY <2>2, <2>3, <2>6
      <4> HIDE DEF r
      <4>2. IdsOf(Append(r, s)) = IdsOf(r) \cup {s.id} /\ Distinct(Append(r, s))
        BY <4>1, IdsAppend
      <4> QED BY <4>2 DEF r
    <3> QED BY <2>2, <3>1
  <2>8. Len(queue') <= MaxRequired
    BY <1>1, <1>3, <2>1, <2>3, AppendProperties
  <2> QED BY <1>1, <2>1, <2>4, <2>5, <2>7, <2>8
<1> QED BY <1>1, <1>2, <1>3

\* The consumer: takes a result, and delivers it.
Delivers ==
  /\ ~FinishSent
  /\ \E k \in Samples : \E T \in SUBSET Samples :
       /\ At(k, "csample") /\ Room(T) /\ Routed({k}, "queue", T) /\ k \notin T
       /\ dropped_samples' = IF T = {} THEN dropped_samples ELSE dropped_samples + 1

\* The consumer takes a result, or loses it when the merge raises.
LEMMA TakeResultPlaced ==
  ASSUME Forms, Placed, ConsumerTake, UNCHANGED trainerFrame
  PROVE  (Within \/ Breaks) /\ Singly' /\ AtEnd'
<1> DEFINE s == Head(resultQ)
           k == s.id
<1>1. /\ UNCHANGED <<fed, pending, ready, generating, held, cancelQ, queue, batch, trained, mpc>>
      /\ resultQ # <<>> /\ csample = <<>> /\ ~FinishSent /\ resultQ' = Tail(resultQ)
      /\ \/ csample' = <<s>>
         \/ csample' = csample /\ Failures # {}
  BY DEF ConsumerTake, mainVars, taskVars, procVars, queueVars, trainerFrame, trainerVars, FinishSent
<1> HIDE DEF s
<1>2. resultQ \in Seq(Full) /\ Distinct(resultQ)
  BY DEF Forms, RollForms, Placed, Singly
<1>3. /\ k \in Samples /\ k \in IdsOf(resultQ)
      /\ IdsOf(Tail(resultQ)) = IdsOf(resultQ) \ {k} /\ Distinct(Tail(resultQ))
  BY <1>1, <1>2, FormsIds, HeadGoes DEF s
<1>4. At(k, "resultQ") /\ Loses("resultQ", k)
  BY <1>1, <1>3 DEF At, Loses
<1>5. IdsOf(csample) = {} /\ IdsOf(<<s>>) = {k}
  BY <1>1, IdsFew
<1>6. \A e \in Names \ {"resultQ", "csample"} : Same(e)
  BY <1>1, SameAt DEF Names
<1>7. Singly' /\ AtEnd'
  BY <1>1, <1>3 DEF Placed, Singly, AtEnd, FinishSent
<1>8. "resultQ" \in Names /\ "csample" \in Names /\ Apart
  BY DEF Names, Placed
<1>9. CASE csample' = <<s>>
  <2>1. Gains("csample", k)
    BY <1>5, <1>9 DEF Gains, At
  <2> HIDE DEF k
  <2>2. Routed({k}, "csample", {})
    BY <1>3, <1>4, <1>6, <1>8, <2>1, OneMoves
  <2> QED BY <1>3, <1>4, <1>7, <2>2 DEF Within
<1>10. CASE csample' = csample /\ Failures # {}
  <2>1. \A e \in Names \ {"resultQ"} : Same(e)
    BY <1>6, <1>10, SameAt
  <2> HIDE DEF k
  <2>2. Routed({}, "resultQ", {k})
    BY <1>3, <1>4, <1>8, <2>1, OneLost
  <2> QED BY <1>3, <1>4, <1>7, <1>10, <2>2 DEF Breaks
<1> QED BY <1>1, <1>9, <1>10

\* The consumer delivers the sample it has, before the finish signal only.
LEMMA PutPlaced ==
  ASSUME Forms, Placed, ConsumerPut, UNCHANGED trainerFrame
  PROVE  Delivers /\ Singly' /\ AtEnd'
<1> DEFINE s == Head(csample)
           k == s.id
<1>1. /\ UNCHANGED <<fed, pending, ready, generating, held, cancelQ, resultQ, batch, trained, mpc>>
      /\ csample # <<>> /\ MQ!PutSample(s) /\ csample' = <<>> /\ ~FinishSent
  BY DEF ConsumerPut, mainVars, localQueues, taskVars, procVars, trainerFrame, trainerVars,
         Placed, AtEnd
<1>2. s \in Full /\ k \in Samples /\ IdsOf(csample) = {k} /\ s.id # Finish.id
  <2>1. csample \in Seq(Full) /\ Len(csample) = 1
    BY <1>1 DEF Forms, RollForms
  <2>2. s \in Full
    BY <1>1, <2>1, TakeFirst
  <2>3. DOMAIN csample = {1} /\ s = csample[1]
    BY <2>1
  <2> QED BY <2>2, <2>3, FormsIds DEF IdsOf
<1> HIDE DEF s
<1>3. At(k, "csample") /\ Loses("csample", k)
  BY <1>1, <1>2, IdsFew DEF At, Loses
<1>4. k \notin IdsOf(queue)
  BY <1>2, <1>3, FormsIds DEF Apart, Names, At, InQueue, Placed
<1>5. PICK T \in SUBSET Samples :
        /\ Room(T) /\ dropped_samples' = IF T = {} THEN dropped_samples ELSE dropped_samples + 1
        /\ IdsOf(queue') = (IdsOf(queue) \ T) \cup {k}
        /\ Distinct(queue') /\ Len(queue') <= MaxRequired
  <2>1. Singly /\ AtEnd
    BY DEF Placed
  <2> QED BY <1>1, <1>2, <1>4, <2>1, PutQueue
<1> HIDE DEF k
<1>6. \A e \in Names \ {"csample", "queue"} : Same(e)
  BY <1>1, SameAt DEF Names
<1>7. \A j \in T : At(j, "queue")
  BY <1>5 DEF Room
<1>8. Moves("csample", "queue", {k}, T)
  <2>1. \A j \in Samples : At(j, "queue")' <=> (At(j, "queue") /\ j \notin T) \/ j \in {k}
    BY <1>2, <1>5, FormsIds DEF At, InQueue
  <2>2. \A j \in Samples : At(j, "csample")' <=> At(j, "csample") /\ j \notin {k}
    BY <1>3 DEF Loses
  <2> QED BY <1>2, <1>3, <1>6, <1>7, <2>1, <2>2 DEF Moves
<1>9. Routed({k}, "queue", T) /\ k \notin T
  <2>1. "queue" \in Names /\ "csample" \in Names /\ Apart
    BY DEF Names, Placed
  <2> QED BY <1>8, <2>1, MovesRoutes
<1>10. Finish.id \notin IdsOf(queue')
  BY <1>1, <1>2, <1>5, FormsIds DEF Placed, AtEnd
<1>11. Singly' /\ AtEnd'
  BY <1>1, <1>5, <1>10 DEF Placed, Singly, AtEnd, FinishSent
<1>12. Delivers
  BY <1>1, <1>2, <1>3, <1>5, <1>9 DEF Delivers
<1> QED BY <1>11, <1>12

\* The consumer.
LEMMA ConsumerPlaced ==
  ASSUME Forms, Placed, Consumer
  PROVE  (Within \/ Breaks \/ Delivers) /\ Singly' /\ AtEnd'
BY TakeResultPlaced, PutPlaced DEF Consumer

\* The main coroutine: the finish signal takes a place in the queue.
Closes ==
  /\ ~FinishSent /\ FinishSent'
  /\ \E T \in SUBSET Samples :
       /\ Room(T) /\ Routed({}, "queue", T)
       /\ dropped_samples' = IF T = {} THEN dropped_samples ELSE dropped_samples + 1

\* The finish signal closes the queue.
LEMMA FinishPlaced ==
  ASSUME Forms, Placed, MainFinish, UNCHANGED trainerFrame
  PROVE  Closes /\ Singly' /\ AtEnd'
<1>1. /\ UNCHANGED <<fed, pending, ready, generating, held, cancelQ, resultQ, csample, batch, trained>>
      /\ csample = <<>> /\ MQ!PutSample(Finish) /\ ~FinishSent /\ FinishSent'
  BY DEF MainFinish, localQueues, taskVars, procVars, trainerFrame, trainerVars, consumerVars,
         PutsSent, FinishSent
<1>2. Finish \in Full \cup {Finish} /\ Finish.id \notin IdsOf(queue) /\ Singly /\ AtEnd
  BY <1>1 DEF Placed, AtEnd
<1>3. PICK T \in SUBSET Samples :
        /\ Room(T) /\ dropped_samples' = IF T = {} THEN dropped_samples ELSE dropped_samples + 1
        /\ IdsOf(queue') = (IdsOf(queue) \ T) \cup {Finish.id}
        /\ Distinct(queue') /\ Len(queue') <= MaxRequired
  BY <1>1, <1>2, PutQueue
<1>4. \A e \in Names \ {"queue"} : Same(e)
  BY <1>1, SameAt DEF Names
<1>5. \A j \in T : At(j, "queue")
  BY <1>3 DEF Room
<1>6. Moves("csample", "queue", {}, T)
  <2>1. \A j \in Samples : At(j, "queue")' <=> At(j, "queue") /\ j \notin T
    BY <1>3, FormsIds DEF At, InQueue
  <2>2. "csample" \in Names /\ Same("csample")
    BY <1>4 DEF Names
  <2> QED BY <1>4, <1>5, <2>1, <2>2 DEF Moves, Same
<1>7. Routed({}, "queue", T)
  <2>1. "queue" \in Names /\ "csample" \in Names /\ Apart
    BY DEF Names, Placed
  <2> QED BY <1>6, <2>1, MovesRoutes
<1>8. Singly' /\ AtEnd'
  BY <1>1, <1>3 DEF Placed, Singly, AtEnd, FinishSent
<1>9. Closes
  BY <1>1, <1>3, <1>7 DEF Closes
<1> QED BY <1>8, <1>9

\* The main coroutine moves no sample otherwise.
LEMMA MainPlaced ==
  ASSUME Forms, Placed, Main
  PROVE  /\ Closes \/ (Quiet /\ UNCHANGED <<FinishSent, dropped_samples>>)
         /\ Singly' /\ AtEnd'
<1>1. CASE MainFinish
  BY <1>1, FinishPlaced DEF Main
<1>2. CASE MainStep \/ MainStop
  <2>1. UNCHANGED placeVars /\ UNCHANGED <<FinishSent, dropped_samples>>
    BY <1>2 DEF Main, MainStep, MainStop, localQueues, taskVars, procVars, trainerFrame, trainerVars,
       consumerVars, queueVars, placeVars, FinishSent
  <2>2. Singly' /\ AtEnd'
    BY <2>1 DEF placeVars, Placed, Singly, AtEnd
  <2> QED BY <2>1, <2>2, QuietFrame
<1> QED BY <1>1, <1>2 DEF Main

-----------------------------------------------------------------------------
\* The trainer takes a sample out of the queue, or the finish signal.
Collects ==
  /\ Len(batch) < RequiredSamples
  /\ \E k \in Samples : At(k, "queue") /\ Routed({k}, "batch", {})

\* get_sample: the oldest of the queue goes to the batch, the finish signal to nobody.
LEMMA GetPlaced ==
  ASSUME Forms, Placed, TrainerGet
  PROVE  (Quiet \/ Collects) /\ Singly' /\ AtEnd'
<1>1. /\ UNCHANGED <<fed, pending, ready, generating, held, cancelQ, resultQ, csample, trained, mpc>>
      /\ tpc = "collect"
  BY DEF TrainerGet, rollouterVars, loopVars, mainVars, localQueues, taskVars, consumerVars, procVars
<1>2. /\ queue \in Seq(Full \cup {Finish}) /\ batch \in Seq(Full) /\ Len(batch) < RequiredSamples
      /\ call \in [{"trainer"} -> {"idle", "waiting", "woken"}]
      /\ reply \in [{"trainer"} -> Full \cup {Finish}] /\ running = TRUE
      /\ Distinct(queue) /\ Distinct(batch) /\ Apart /\ Len(queue) <= MaxRequired
  BY <1>1, RollouterAssumption, LenProperties DEF Forms, QueueForms, Placed, Singly, AtEnd
<1>3. \A e \in Names \ {"queue", "batch"} : Same(e)
  BY <1>1, SameAt DEF Names
<1>4. CASE queue # <<>> /\ queue' = Tail(queue) /\ reply' = [reply EXCEPT !["trainer"] = Head(queue)]
           /\ call' = [call EXCEPT !["trainer"] = "idle"] /\ Collected
  <2> DEFINE s == Head(queue)
             k == s.id
  <2>1. /\ IdsOf(Tail(queue)) = IdsOf(queue) \ {k} /\ k \in IdsOf(queue) /\ Distinct(Tail(queue))
        /\ s \in Full \cup {Finish} /\ Len(Tail(queue)) = Len(queue) - 1 /\ Len(queue) \in Nat
    BY <1>2, <1>4, IdsTail, TakeFirst
  <2>2. reply'["trainer"] = s
    BY <1>2, <1>4
  <2>3. AtEnd'
    BY <1>1, <1>2, <1>4, <2>1, MaxRequiredPositive DEF Placed, AtEnd, FinishSent
  <2> HIDE DEF s
  <2>4. CASE s = Finish
    <3>1. batch' = batch
      BY <1>4, <2>2, <2>4 DEF Collected
    <3>2. Same("queue")
      BY <1>4, <2>1, <2>4, FormsIds DEF Same, At, InQueue
    <3>3. Quiet
      BY <1>3, <3>1, <3>2, SameAt, QuietSame
    <3> QED BY <1>1, <1>4, <2>1, <2>3, <3>1, <3>3 DEF Placed, Singly
  <2>5. CASE s # Finish
    <3>1. batch' = Append(batch, s)
      BY <1>4, <2>2, <2>5 DEF Collected
    <3>2. s \in Full /\ k \in Samples
      BY <2>1, <2>5, FormsIds
    <3>3. At(k, "queue") /\ Loses("queue", k)
      BY <1>4, <2>1, <3>2, FormsIds DEF At, Loses, InQueue
    <3>4. k \notin IdsOf(batch)
      BY <1>2, <3>2, <3>3 DEF Apart, Names, At
    <3>5. IdsOf(Append(batch, s)) = IdsOf(batch) \cup {k} /\ Distinct(Append(batch, s))
      BY <1>2, <3>2, <3>4, IdsAppend
    <3>6. Gains("batch", k)
      BY <3>1, <3>5 DEF At, Gains
    <3> HIDE DEF k
    <3>7. Routed({k}, "batch", {})
      <4>1. "queue" \in Names /\ "batch" \in Names
        BY DEF Names
      <4> QED BY <1>2, <1>3, <3>2, <3>3, <3>6, <4>1, OneMoves
    <3>8. Collects
      BY <1>2, <3>2, <3>3, <3>7 DEF Collects
    <3> QED BY <1>1, <1>4, <2>1, <2>3, <3>1, <3>5, <3>8 DEF Placed, Singly
  <2> QED BY <2>4, <2>5
<1>5. CASE UNCHANGED <<queue, reply, batch, tpc>> /\ call' = [call EXCEPT !["trainer"] = "waiting"]
  <2>1. UNCHANGED placeVars
    BY <1>1, <1>5 DEF placeVars
  <2>2. Singly' /\ AtEnd'
    BY <1>1, <2>1 DEF placeVars, Placed, Singly, AtEnd, FinishSent
  <2> QED BY <2>1, <2>2, QuietFrame
<1> QED
  <2>1. MQ!TakeOrWait("trainer")
    BY DEF TrainerGet, MQ!GetSample, MQ!GetResume
  <2>2. IF call'["trainer"] = "idle" THEN Collected ELSE UNCHANGED <<tpc, batch>>
    BY DEF TrainerGet
  <2>3. ASSUME call' = [call EXCEPT !["trainer"] = "waiting"] PROVE call'["trainer"] = "waiting"
    BY <1>2, <2>3
  <2>4. ASSUME call' = [call EXCEPT !["trainer"] = "idle"] PROVE call'["trainer"] = "idle"
    BY <1>2, <2>4
  <2> QED BY <1>2, <1>4, <1>5, <2>1, <2>2, <2>3, <2>4 DEF MQ!TakeOrWait, MQ!Rest, MQ!Oldest

\* The trainer trains on a whole batch.
Trains == Len(batch) = RequiredSamples /\ Routed(IdsOf(batch), "trained", {})

\* A training step trains on the whole batch.
LEMMA StepPlaced ==
  ASSUME Forms, Placed, TrainerStep
  PROVE  Trains /\ Singly' /\ AtEnd'
<1>1. /\ UNCHANGED <<fed, pending, ready, generating, held, cancelQ, resultQ, csample, queue, mpc>>
      /\ tpc = "train" /\ batch' = <<>> /\ trained' = trained \cup IdsOf(batch)
  BY DEF TrainerStep, rollouterVars, loopVars, mainVars, localQueues, taskVars, consumerVars, procVars,
         queueVars, IdsOf
<1>2. batch \in Seq(Full) /\ Len(batch) = RequiredSamples /\ IdsOf(batch) \subseteq Samples
  <2>1. batch \in Seq(Full) /\ Len(batch) = RequiredSamples
    BY <1>1 DEF Forms, QueueForms
  <2> QED BY <2>1, FormsIds, IdsOfSeq
<1>3. \A e \in Names \ {"batch", "trained"} : Same(e)
  BY <1>1, SameAt DEF Names
<1>4. IdsOf(batch') = {} /\ Distinct(batch')
  BY <1>1, IdsFew
<1>5. Moves("batch", "trained", IdsOf(batch), {})
  <2>1. \A k \in IdsOf(batch) : k \in Samples /\ At(k, "batch")
    BY <1>2 DEF At
  <2>2. \A k \in Samples : At(k, "batch")' <=> At(k, "batch") /\ k \notin IdsOf(batch)
    BY <1>4 DEF At
  <2>3. \A k \in Samples : At(k, "trained")' <=> At(k, "trained") \/ k \in IdsOf(batch)
    BY <1>1 DEF At
  <2> QED BY <1>3, <2>1, <2>2, <2>3 DEF Moves
<1>6. Routed(IdsOf(batch), "trained", {})
  <2>1. "batch" \in Names /\ "trained" \in Names /\ Apart
    BY DEF Names, Placed
  <2> QED BY <1>5, <2>1, MovesRoutes
<1> QED BY <1>1, <1>2, <1>4, <1>6 DEF Trains, Placed, Singly, AtEnd, FinishSent

-----------------------------------------------------------------------------
\* Every step is one of these.
Kinds ==
  \/ Closes
  \/ Delivers /\ UNCHANGED FinishSent
  \/ /\ UNCHANGED <<FinishSent, dropped_samples>>
     /\ Quiet \/ (Enters /\ ~FinishSent) \/ Within \/ Breaks \/ Collects \/ Trains

\* The coroutines that hold no sample.
LEMMA OtherPlaced ==
  ASSUME Placed, UNCHANGED placeVars, UNCHANGED <<mpc, dropped_samples>>
  PROVE  Kinds /\ Singly' /\ AtEnd'
<1>1. UNCHANGED <<FinishSent, dropped_samples>>
  BY DEF FinishSent
<1>2. Singly' /\ AtEnd'
  BY <1>1 DEF placeVars, Placed, Singly, AtEnd
<1> QED BY <1>1, <1>2, QuietFrame DEF Kinds

\* The processor takes no step once it is over.
LEMMA ProcessorRuns == Processor => ~Over /\ UNCHANGED <<mpc, dropped_samples>>
BY DEF Processor, ProcessorNext, ProcessorTop, ProcessorGet, ProcessorLocked, ProcessorWaited,
       ProcessorWoken, procFrame, mainVars, queueVars, Over

\* Every step of the system is of one of the kinds.
LEMMA SamplesStep ==
  ASSUME SyncInv, Forms, Exit, Placed, [Next]_vars
  PROVE  Kinds /\ Singly' /\ AtEnd'
<1>1. CASE Processor
  <2>1. UNCHANGED <<FinishSent, dropped_samples>> /\ ~FinishSent
    BY <1>1, ProcessorRuns DEF FinishSent, Exit
  <2> QED BY <1>1, <2>1, ProcessorPlaced DEF Kinds
<1>2. CASE Tasks
  <2>1. UNCHANGED <<FinishSent, dropped_samples>>
    BY <1>2 DEF Tasks, TaskStart, TaskFinish, TaskCancel, TaskFail, taskFrame, mainVars, queueVars,
         FinishSent
  <2> QED BY <1>2, <2>1, TasksPlaced DEF Kinds
<1>3. CASE Feeder
  <2>1. UNCHANGED <<FinishSent, dropped_samples>>
    BY <1>3 DEF Feeder, Feed, queueVars, FinishSent
  <2> QED BY <1>3, <2>1, FeedPlaced DEF Kinds
<1>4. CASE Consumer
  <2>1. UNCHANGED FinishSent /\ (ConsumerTake => UNCHANGED dropped_samples)
    BY <1>4 DEF Consumer, ConsumerTake, ConsumerPut, mainVars, queueVars, FinishSent
  <2>2. CASE ConsumerTake
    BY <1>4, <2>1, <2>2, TakeResultPlaced DEF Consumer, Kinds
  <2>3. CASE ConsumerPut
    BY <1>4, <2>1, <2>3, PutPlaced DEF Consumer, Kinds
  <2> QED BY <1>4, <2>2, <2>3 DEF Consumer
<1>5. CASE Main
  BY <1>5, MainPlaced DEF Kinds
<1>6. CASE Monitor
  <2>1. UNCHANGED placeVars /\ UNCHANGED <<mpc, dropped_samples>>
    BY <1>6 DEF Monitor, MonitorTick, MonitorLocked, monitorFrame, mainVars, localQueues, taskVars,
         consumerVars, queueVars, trainerFrame, trainerVars, placeVars
  <2> QED BY <2>1, OtherPlaced
<1>7. CASE Pause \/ Update \/ Resume
  <2>1. UNCHANGED placeVars /\ UNCHANGED <<mpc, dropped_samples>>
    <3>1. CASE Pause
      BY <3>1 DEF Pause, PauseNext, PauseBegin, PauseCancel, PauseGather, PauseEnd, callFrame, mainVars,
         localQueues, consumerVars, queueVars, trainerFrame, trainerVars, placeVars
    <3>2. CASE Update
      BY <3>2 DEF Update, UpdateNext, UpdateBegin, UpdateMeasure, UpdateAssign, UpdateEnd, callFrame, mainVars,
         localQueues, consumerVars, queueVars, trainerFrame, trainerVars, placeVars,
         MQ!PutValidate, MQ!counterVars
    <3>3. CASE Resume
      BY <3>3 DEF Resume, ResumeNext, ResumeBegin, ResumeServers, callFrame, mainVars,
         localQueues, consumerVars, queueVars, trainerFrame, trainerVars, placeVars
    <3> QED BY <1>7, <3>1, <3>2, <3>3
  <2> QED BY <2>1, OtherPlaced
<1>8. CASE TrainerGet
  <2>1. UNCHANGED <<FinishSent, dropped_samples>>
    BY <1>8 DEF TrainerGet, rollouterVars, loopVars, mainVars, FinishSent, MQ!GetSample, MQ!GetResume,
         MQ!TakeOrWait, MQ!counterVars
  <2> QED BY <1>8, <2>1, GetPlaced DEF Kinds
<1>9. CASE TrainerStep
  <2>1. UNCHANGED <<FinishSent, dropped_samples>>
    BY <1>9 DEF TrainerStep, rollouterVars, loopVars, mainVars, queueVars, FinishSent
  <2> QED BY <1>9, <2>1, StepPlaced DEF Kinds
<1>10. CASE SyncPause \/ SyncQueue \/ SyncWeights \/ TrainerGetValidate \/ TrainerFinal \/ TrainerLastValid
  <2>1. UNCHANGED placeVars /\ UNCHANGED <<mpc, dropped_samples>>
    <3>1. SyncPause \/ SyncQueue \/ SyncWeights \/ TrainerFinal
          => UNCHANGED placeVars /\ UNCHANGED <<mpc, dropped_samples>>
      BY DEF SyncPause, SyncQueue, SyncWeights, TrainerFinal, rollouterVars, loopVars, mainVars,
         localQueues, taskVars, procVars, consumerVars, queueVars, placeVars,
         MQ!UpdateParamVersion, MQ!counterVars
    <3>2. TrainerGetValidate \/ TrainerLastValid
          => UNCHANGED placeVars /\ UNCHANGED <<mpc, dropped_samples>>
      BY DEF TrainerGetValidate, TrainerLastValid, ReadValidation, rollouterVars, loopVars, mainVars,
         localQueues, taskVars, procVars, consumerVars, queueVars, placeVars,
         MQ!GetValidate, MQ!counterVars
    <3> QED BY <1>10, <3>1, <3>2
  <2> QED BY <2>1, OtherPlaced
<1>11. CASE UNCHANGED vars
  <2>1. UNCHANGED placeVars /\ UNCHANGED <<mpc, dropped_samples>>
    BY <1>11 DEF vars, rollouterVars, loopVars, mainVars, localQueues, taskVars, procVars, consumerVars,
         queueVars, trainerVars, placeVars
  <2> QED BY <2>1, OtherPlaced
<1> QED BY <1>1, <1>2, <1>3, <1>4, <1>5, <1>6, <1>7, <1>8, <1>9, <1>10, <1>11 DEF Next, TrainerNext

\* No kind of step puts a sample in two places.
LEMMA KindsApart == Apart /\ Kinds => Apart'
BY RoutedApart DEF Kinds, Closes, Delivers, Quiet, Enters, Within, Breaks, Collects, Trains

\* At first every sample waits in the dataset.
LEMMA PlacedInit == Init => Placed
<1> SUFFICES ASSUME Init PROVE Placed
  OBVIOUS
<1>1. /\ fed \in 0..DoneItem /\ pending = [i \in 1..fed |-> i]
      /\ ready = {} /\ generating = {} /\ held = <<>> /\ cancelQ = <<>> /\ resultQ = <<>>
      /\ csample = <<>> /\ queue = <<>> /\ batch = <<>> /\ trained = {} /\ mpc = "feed"
  BY RollouterAssumption DEF Init, RollouterInit, TrainerInit, DoneItem
<1>2. NoDup(pending) /\ Members(pending) \subseteq 1..fed
  BY <1>1 DEF NoDup, Members
<1>3. /\ IdsOf(<<>>) = {} /\ Distinct(<<>>) /\ SetIds({}) = {} /\ Single({})
  BY IdsFew
<1>4. \A k \in Samples : \A c \in Names : At(k, c) => c = "waiting"
  BY <1>1, <1>3 DEF At, InQueue
<1>5. Len(queue) <= MaxRequired
  BY <1>1, MaxRequiredPositive
<1> QED BY <1>1, <1>2, <1>3, <1>4, <1>5 DEF Placed, Apart, Singly, AtEnd, FinishSent

\* Every step keeps each sample in one place.
LEMMA PlacedStep == SyncInv /\ Forms /\ Exit /\ Placed /\ [Next]_vars => Placed'
BY SamplesStep, KindsApart DEF Placed

\* Through every interleaving of feeder, processor, tasks, cancels, consumer, main and
\* trainer, no sample is in two places or twice in one, and the message queue keeps
\* to its size with the finish signal last (fully_async_rollouter.py:293-506,
\* message_queue.py:67-116).
THEOREM PlacedInvariant == Spec => []Placed
BY SyncInvariant, FormsInvariant, ExitInvariant, PlacedInit, PlacedStep, PTL DEF Spec

-----------------------------------------------------------------------------
\* The cardinality of the instance is the library's.
LEMMA SameCardinality ==
  \A S : Pipeline!Cardinality(S) = Cardinality(S)
BY DEF Pipeline!Cardinality, Cardinality

\* The stage of a sample says where it is.
LEMMA StageSets ==
  ASSUME Forms, Placed
  PROVE  /\ \A k \in Samples : Stages[k] = "waiting" <=> At(k, "waiting")
         /\ \A k \in Samples : Stages[k] = "queued" <=> At(k, "queue")
         /\ \A k \in Samples : Stages[k] = "taken" <=> At(k, "batch")
         /\ \A k \in Samples : \A c \in {"ready", "generating", "held", "cancelQ", "resultQ", "csample"} :
              At(k, c) => Stages[k] = "rollout"
         /\ Pipeline!At("taken") = IdsOf(batch) /\ Pipeline!Cardinality(Pipeline!At("taken")) = Len(batch)
         /\ ~FinishSent => Pipeline!Cardinality(Pipeline!At("queued")) = Len(queue)
<1>1. ASSUME NEW k \in Samples
      PROVE  /\ \A c \in Names : At(k, c) => Stages[k] = StageOf(c)
             /\ (\A c \in Names : ~At(k, c)) => Stages[k] = "lost"
  BY StagesNow DEF StagesFact, Placed
<1>2. ASSUME NEW k \in Samples
      PROVE  /\ Stages[k] = "waiting" <=> At(k, "waiting")
             /\ Stages[k] = "queued" <=> At(k, "queue")
             /\ Stages[k] = "taken" <=> At(k, "batch")
             /\ \A c \in {"ready", "generating", "held", "cancelQ", "resultQ", "csample"} :
                  At(k, c) => Stages[k] = "rollout"
  BY <1>1 DEF StageOf, Names
<1>3. /\ batch \in Seq(Full) /\ Distinct(batch) /\ IdsOf(batch) \subseteq Samples
      /\ queue \in Seq(Full \cup {Finish}) /\ Distinct(queue)
  <2>1. batch \in Seq(Full) /\ queue \in Seq(Full \cup {Finish})
    BY DEF Forms, QueueForms
  <2> QED BY <2>1, FormsIds, IdsOfSeq DEF Placed, Singly
<1>4. Pipeline!At("taken") = IdsOf(batch)
  BY <1>2, <1>3 DEF Pipeline!At, At
<1>5. ASSUME ~FinishSent PROVE Pipeline!At("queued") = IdsOf(queue)
  <2>1. \A t \in Full \cup {Finish} : t.id \in Samples \cup {Finish.id}
    BY FormsIds
  <2>2. IdsOf(queue) \subseteq Samples \cup {Finish.id}
    <3> DEFINE S == Full \cup {Finish}
               D == Samples \cup {Finish.id}
    <3>1. queue \in Seq(S) /\ \A s \in S : s.id \in D
      BY <1>3, <2>1
    <3> HIDE DEF S, D
    <3>2. IdsOf(queue) \subseteq D
      BY <3>1, IdsOfSeq
    <3> QED BY <3>2 DEF D
  <2>3. IdsOf(queue) \subseteq Samples
    BY <1>5, <2>2 DEF Placed, AtEnd
  <2> QED BY <1>2, <2>3, FormsIds DEF Pipeline!At, At, InQueue
<1>6. Cardinality(IdsOf(batch)) = Len(batch) /\ Cardinality(IdsOf(queue)) = Len(queue)
  BY <1>3, IdsCount
<1> QED BY <1>2, <1>4, <1>5, <1>6, SameCardinality

\* The stages are a function on the samples.
LEMMA StagesFunction == Stages = [k \in Samples |-> Stages[k]]
BY DEF Stages

\* Where the samples of a step come from, and what becomes of them.
LEMMA RoomSplits ==
  ASSUME NEW T, Room(T), Forms, AtEnd
  PROVE  \/ T = {} /\ Len(queue) < MaxRequired
         \/ Len(queue) = MaxRequired /\ \E t \in Samples : T = {t} /\ At(t, "queue")
<1>1. Len(queue) <= MaxRequired /\ Len(queue) \in Nat /\ MaxRequired \in Nat
  BY MaxRequiredPositive, LenProperties DEF AtEnd, Forms, QueueForms
<1> QED BY <1>1 DEF Room

\* A delivery is the abstract one, with or without an overflow.
LEMMA DeliversMaps ==
  ASSUME Forms, Placed, Delivers, UNCHANGED FinishSent
  PROVE  Pipeline!Next
<1>0. PICK k \in Samples, T \in SUBSET Samples :
        At(k, "csample") /\ Room(T) /\ Routed({k}, "queue", T) /\ k \notin T
  BY DEF Delivers
<1>1. /\ Stages' = [j \in Samples |-> IF j \in {k} THEN "queued"
                                      ELSE IF j \in T THEN "lost" ELSE Stages[j]]
  <2>1. "queue" \in Names /\ StageOf("queue") = "queued" /\ {k} \cap T = {} /\ Apart
    BY <1>0 DEF Names, StageOf, Placed
  <2> QED BY <1>0, <2>1, RoutedStages
<1>2. /\ ~FinishSent /\ k \in Pipeline!At("rollout")
      /\ Pipeline!Cardinality(Pipeline!At("queued")) = Len(queue)
  BY <1>0, StageSets DEF Delivers, Pipeline!At
<1>3. CASE T = {} /\ Len(queue) < MaxRequired
  <2>1. Pipeline!Move({k}, "queued")
    BY <1>1, <1>3 DEF Pipeline!Move
  <2>2. \E s \in Pipeline!At("rollout") : Pipeline!Move({s}, "queued")
    BY <1>2, <2>1, Zenon
  <2>3. Pipeline!Deliver
    BY <1>2, <1>3, <2>2 DEF Pipeline!Deliver
  <2> QED BY <2>3 DEF Pipeline!Next
<1>4. ASSUME Len(queue) = MaxRequired, NEW t \in Samples, T = {t}, At(t, "queue")
      PROVE  Pipeline!Next
  <2>1. t \in Pipeline!At("queued") /\ t # k
    BY <1>0, <1>4, StageSets DEF Pipeline!At
  <2>2. Stages' = [Stages EXCEPT ![k] = "queued", ![t] = "lost"]
    BY <1>1, <1>4, <2>1, StagesFunction
  <2>3. Pipeline!Overflow
    BY <1>2, <1>4, <2>1, <2>2 DEF Pipeline!Overflow
  <2> QED BY <2>3 DEF Pipeline!Next
<1>5. AtEnd
  BY DEF Placed
<1> QED BY <1>0, <1>3, <1>4, <1>5, RoomSplits

\* So is the finish signal.
LEMMA ClosesMaps ==
  ASSUME Forms, Placed, Closes
  PROVE  Pipeline!Next
<1>0. PICK T \in SUBSET Samples : Room(T) /\ Routed({}, "queue", T)
  BY DEF Closes
<1>1. /\ Stages' = [j \in Samples |-> IF j \in T THEN "lost" ELSE Stages[j]]
  <2>1. "queue" \in Names /\ {} \cap T = {} /\ Apart
    BY <1>0 DEF Names, Placed
  <2>2. Stages' = [j \in Samples |-> IF j \in {} THEN StageOf("queue")
                                     ELSE IF j \in T THEN "lost" ELSE Stages[j]]
    BY <1>0, <2>1, RoutedStages
  <2> QED BY <2>2
<1>2. ~FinishSent /\ FinishSent' /\ Pipeline!Cardinality(Pipeline!At("queued")) = Len(queue)
  BY StageSets DEF Closes
<1>3. FinishSent' = TRUE
  BY <1>2 DEF FinishSent
<1>4. CASE T = {} /\ Len(queue) < MaxRequired
  <2>1. Stages' = Stages
    BY <1>1, <1>4, StagesFunction
  <2>2. Pipeline!Close
    BY <1>2, <1>3, <1>4, <2>1 DEF Pipeline!Close
  <2> QED BY <2>2 DEF Pipeline!Next
<1>5. ASSUME Len(queue) = MaxRequired, NEW t \in Samples, T = {t}, At(t, "queue")
      PROVE  Pipeline!Next
  <2>1. t \in Pipeline!At("queued")
    BY <1>5, StageSets DEF Pipeline!At
  <2>2. Pipeline!Move({t}, "lost")
    BY <1>1, <1>5 DEF Pipeline!Move
  <2>3. ~(Pipeline!Cardinality(Pipeline!At("queued")) < MaxRequired)
    BY <1>2, <1>5, MaxRequiredPositive
  <2>4. \E s \in Pipeline!At("queued") : Pipeline!Move({s}, "lost")
    BY <2>1, <2>2, Zenon
  <2>5. Pipeline!Close
    BY <1>2, <1>3, <2>3, <2>4 DEF Pipeline!Close
  <2> QED BY <2>5 DEF Pipeline!Next
<1>6. AtEnd
  BY DEF Placed
<1> QED BY <1>0, <1>4, <1>5, <1>6, RoomSplits

\* The stages when one sample moves.
LEMMA RouteOne ==
  ASSUME Apart, NEW k \in Samples, NEW d \in Names, Routed({k}, d, {})
  PROVE  Stages' = [j \in Samples |-> IF j \in {k} THEN StageOf(d) ELSE Stages[j]]
<1>1. Stages' = [j \in Samples |-> IF j \in {k} THEN StageOf(d)
                                     ELSE IF j \in {} THEN "lost" ELSE Stages[j]]
  <2>1. {k} \cap {} = {}
    OBVIOUS
  <2> QED BY <2>1, RoutedStages
<1> QED BY <1>1

\* A move within the rollout is not seen by the abstract pipeline.
LEMMA StayMaps ==
  ASSUME Forms, Placed, Quiet \/ Within
  PROVE  Stages' = Stages
<1>1. CASE Quiet
  <2>1. "ready" \in Names /\ {} \cap {} = {} /\ Apart
    BY DEF Names, Placed
  <2>2. Stages' = [j \in Samples |-> IF j \in {} THEN StageOf("ready")
                                     ELSE IF j \in {} THEN "lost" ELSE Stages[j]]
    BY <1>1, <2>1, RoutedStages DEF Quiet
  <2> QED BY <2>2, StagesFunction
<1>2. CASE Within
  <2>1. PICK k \in Samples, c, d \in {"ready", "generating", "held", "cancelQ", "resultQ", "csample"} :
          At(k, c) /\ Routed({k}, d, {})
    BY <1>2 DEF Within
  <2>2. Stages[k] = "rollout" /\ d \in Names /\ StageOf(d) = "rollout" /\ Apart
    BY <2>1, StageSets DEF Names, StageOf, Placed
  <2>3. Stages' = [j \in Samples |-> IF j \in {k} THEN StageOf(d) ELSE Stages[j]]
    BY <2>1, <2>2, RouteOne
  <2> QED BY <2>2, <2>3, StagesFunction
<1> QED BY <1>1, <1>2

\* A sample that enters the rollout, and one that a task loses.
LEMMA RolloutMaps ==
  ASSUME Forms, Placed, (Enters /\ ~FinishSent) \/ Breaks, UNCHANGED FinishSent
  PROVE  Pipeline!Next
<1>1. CASE Enters /\ ~FinishSent
  <2>1. PICK k \in Samples, d \in {"ready", "held"} : At(k, "waiting") /\ Routed({k}, d, {})
    BY <1>1 DEF Enters
  <2>2. k \in Pipeline!At("waiting") /\ d \in Names /\ StageOf(d) = "rollout" /\ Apart
    BY <2>1, StageSets DEF Names, StageOf, Placed, Pipeline!At
  <2>3. Stages' = [j \in Samples |-> IF j \in {k} THEN "rollout" ELSE Stages[j]]
    BY <2>1, <2>2, RouteOne
  <2>4. Pipeline!Move({k}, "rollout")
    BY <2>3 DEF Pipeline!Move
  <2>5. \E s \in Pipeline!At("waiting") : Pipeline!Move({s}, "rollout")
    BY <2>2, <2>4, Zenon
  <2>6. Pipeline!Start
    BY <1>1, <2>5 DEF Pipeline!Start
  <2> QED BY <2>6 DEF Pipeline!Next
<1>2. CASE Breaks
  <2>1. PICK k \in Samples, c \in {"generating", "resultQ"} : At(k, c) /\ Routed({}, c, {k})
    BY <1>2 DEF Breaks
  <2>2. k \in Pipeline!At("rollout") /\ c \in Names /\ {} \cap {k} = {} /\ Apart
    BY <2>1, StageSets DEF Names, Placed, Pipeline!At
  <2>3. Stages' = [j \in Samples |-> IF j \in {} THEN StageOf(c)
                                     ELSE IF j \in {k} THEN "lost" ELSE Stages[j]]
    BY <2>1, <2>2, RoutedStages
  <2>4. Pipeline!Move({k}, "lost")
    BY <2>3 DEF Pipeline!Move
  <2>5. Failures # {}
    BY <1>2 DEF Breaks
  <2>6. \E s \in Pipeline!At("rollout") : Pipeline!Move({s}, "lost")
    BY <2>2, <2>4, Zenon
  <2>7. Pipeline!Break
    BY <2>5, <2>6 DEF Pipeline!Break
  <2> QED BY <2>7 DEF Pipeline!Next
<1> QED BY <1>1, <1>2

\* A sample that is collected, and a batch that is trained on.
LEMMA TrainerMaps ==
  ASSUME Forms, Placed, Collects \/ Trains, UNCHANGED FinishSent
  PROVE  Pipeline!Next
<1>0. Pipeline!Cardinality(Pipeline!At("taken")) = Len(batch) /\ Pipeline!At("taken") = IdsOf(batch) /\ Apart
  BY StageSets DEF Placed
<1>1. CASE Collects
  <2>1. PICK k \in Samples : At(k, "queue") /\ Routed({k}, "batch", {})
    BY <1>1 DEF Collects
  <2>2. k \in Pipeline!At("queued") /\ "batch" \in Names /\ StageOf("batch") = "taken"
    BY <2>1, StageSets DEF Names, StageOf, Pipeline!At
  <2>3. Stages' = [j \in Samples |-> IF j \in {k} THEN "taken" ELSE Stages[j]]
    BY <1>0, <2>1, <2>2, RouteOne
  <2>4. Len(batch) < RequiredSamples
    BY <1>1 DEF Collects
  <2>5. Pipeline!Move({k}, "taken")
    BY <2>3 DEF Pipeline!Move
  <2>6. \E s \in Pipeline!At("queued") : Pipeline!Move({s}, "taken")
    BY <2>2, <2>5, Zenon
  <2>7. Pipeline!Take
    BY <1>0, <2>4, <2>6 DEF Pipeline!Take
  <2> QED BY <2>7 DEF Pipeline!Next
<1>2. CASE Trains
  <2>1. "trained" \in Names /\ StageOf("trained") = "trained" /\ IdsOf(batch) \cap {} = {}
    BY DEF Names, StageOf
  <2>2. Stages' = [j \in Samples |-> IF j \in IdsOf(batch) THEN "trained"
                                     ELSE IF j \in {} THEN "lost" ELSE Stages[j]]
    BY <1>0, <1>2, <2>1, RoutedStages DEF Trains
  <2>3. Pipeline!Move(IdsOf(batch), "trained")
    BY <2>2 DEF Pipeline!Move
  <2>4. Pipeline!Train
    BY <1>0, <1>2, <2>3 DEF Trains, Pipeline!Train
  <2> QED BY <2>4 DEF Pipeline!Next
<1> QED BY <1>1, <1>2

\* Every step of the system is a step of the abstract pipeline, or none.
LEMMA PipelineMaps ==
  ASSUME SyncInv, Forms, Exit, Placed, [Next]_vars
  PROVE  [Pipeline!Next]_(Pipeline!vars)
<1>1. Kinds
  BY SamplesStep
<1>2. CASE Quiet \/ Within
  <2>1. Stages' = Stages
    BY <1>2, StayMaps
  <2>2. CASE UNCHANGED FinishSent
    BY <2>1, <2>2 DEF Pipeline!vars
  <2>3. CASE Delivers /\ UNCHANGED FinishSent
    BY <2>3, DeliversMaps
  <2>4. CASE Closes
    BY <2>4, ClosesMaps
  <2> QED BY <1>1, <2>2, <2>3, <2>4 DEF Kinds
<1> QED BY <1>1, <1>2, DeliversMaps, ClosesMaps, RolloutMaps, TrainerMaps DEF Kinds

\* The initial states map to the abstract ones.
LEMMA PipelineInit == Init => Pipeline!Init
<1> SUFFICES ASSUME Init PROVE Pipeline!Init
  OBVIOUS
<1>1. /\ fed \in 0..DoneItem /\ pending = [i \in 1..fed |-> i] /\ mpc = "feed"
  BY RollouterAssumption DEF Init, RollouterInit, DoneItem
<1>2. Waiting = Samples
  <2>1. \A k \in Samples : k # DoneItem
    BY RollouterAssumption DEF Samples, DoneItem
  <2>2. {pending[i] : i \in DOMAIN pending} = 1..fed
    BY <1>1
  <2>3. 1..fed \subseteq Samples \cup {DoneItem}
    BY <1>1, RollouterAssumption DEF Samples, DoneItem
  <2> QED BY <2>1, <2>2, <2>3 DEF Waiting
<1>3. Stages = [k \in Samples |-> "waiting"]
  <2>1. \A k \in Samples : Stages[k] = "waiting"
    BY <1>2, PlacedInit, StagesNow DEF StagesFact, Placed, At, Names, StageOf
  <2> QED BY <2>1, StagesFunction
<1>4. FinishSent = FALSE
  BY <1>1 DEF FinishSent
<1> QED BY <1>3, <1>4 DEF Pipeline!Init

\* The whole of the rollouter, its coroutines and tasks, the message queue and the
\* trainer implement SamplePipeline: a sample goes once from the dataset through
\* rollout and queue to one training step, and is lost only where the code drops it
\* (fully_async_rollouter.py:293-506, fully_async_trainer.py:126-182).
THEOREM ImplementsThePipeline == Spec => ImplementsPipeline
<1>1. SyncInv /\ Forms /\ Exit /\ Placed /\ [Next]_vars => [Pipeline!Next]_(Pipeline!vars)
  BY PipelineMaps
<1> QED BY <1>1, PipelineInit, SyncInvariant, FormsInvariant, ExitInvariant, PlacedInvariant, PTL
     DEF Spec, ImplementsPipeline, Pipeline!Spec

-----------------------------------------------------------------------------
\* Without a rollout that raises, only the queue loses samples.
LEMMA SomewhereNotLost ==
  ASSUME Placed, NEW k \in Samples, NEW c \in Names, At(k, c)
  PROVE  k \notin Lost
BY StagesNow DEF StagesFact, Placed

\* Where nothing raises, a step loses one sample and counts it, or loses none.
LEMMA LossStep ==
  ASSUME Failures = {}, SyncInv, Forms, Exit, Placed, [Next]_vars
  PROVE  \/ Lost' = Lost /\ dropped_samples' = dropped_samples
         \/ /\ dropped_samples' = dropped_samples + 1
            /\ \E t \in Samples \ Lost : Lost' = Lost \cup {t}
<1>0. Kinds /\ Apart
  BY SamplesStep DEF Placed
<1>1. ASSUME NEW S \in SUBSET Samples, NEW c \in Names, \A k \in S : At(k, c)
      PROVE  Lost \ S = Lost
  BY <1>1, SomewhereNotLost
<1>2. ASSUME NEW S \in SUBSET Samples, NEW c \in Names, \A k \in S : At(k, c),
             NEW d \in Names, Routed(S, d, {})
      PROVE  Lost' = Lost
  <2>1. S \cap {} = {}
    OBVIOUS
  <2>2. Lost' = (Lost \ S) \cup ({} \cap Samples)
    BY <1>0, <1>2, <2>1, RoutedStages
  <2> QED BY <1>1, <1>2, <2>2
<1>3. ASSUME NEW S \in SUBSET Samples, NEW c \in Names, \A k \in S : At(k, c),
             NEW T \in SUBSET Samples, Room(T), S \cap T = {}, Routed(S, "queue", T),
             dropped_samples' = IF T = {} THEN dropped_samples ELSE dropped_samples + 1
      PROVE  \/ Lost' = Lost /\ dropped_samples' = dropped_samples
             \/ /\ dropped_samples' = dropped_samples + 1
                /\ \E t \in Samples \ Lost : Lost' = Lost \cup {t}
  <2>1. "queue" \in Names /\ AtEnd
    BY DEF Names, Placed
  <2>2. Lost' = (Lost \ S) \cup (T \cap Samples)
    BY <1>0, <1>3, <2>1, RoutedStages
  <2>3. Lost' = Lost \cup T
    BY <1>1, <1>3, <2>2
  <2>4. CASE T = {}
    BY <1>3, <2>3, <2>4
  <2>5. ASSUME NEW t \in Samples, T = {t}, At(t, "queue") PROVE t \notin Lost
    BY <2>1, <2>5, SomewhereNotLost
  <2>6. T = {} \/ \E t \in Samples : T = {t} /\ At(t, "queue")
    BY <1>3, <2>1, RoomSplits
  <2> QED BY <1>3, <2>3, <2>4, <2>5, <2>6
<1> DEFINE R == {"ready", "generating", "held", "cancelQ", "resultQ", "csample"}
<1>4. R \cup {"waiting", "queue", "batch", "trained"} \subseteq Names
  BY DEF Names
<1>5. CASE Closes
  <2>1. PICK T \in SUBSET Samples :
          /\ Room(T) /\ Routed({}, "queue", T)
          /\ dropped_samples' = IF T = {} THEN dropped_samples ELSE dropped_samples + 1
    BY <1>5 DEF Closes
  <2>2. {} \in SUBSET Samples /\ {} \cap T = {} /\ \A k \in {} : At(k, "queue")
    OBVIOUS
  <2> QED BY <1>3, <1>4, <2>1, <2>2
<1>6. CASE Delivers
  <2>1. PICK k \in Samples, T \in SUBSET Samples :
          /\ At(k, "csample") /\ Room(T) /\ Routed({k}, "queue", T) /\ k \notin T
          /\ dropped_samples' = IF T = {} THEN dropped_samples ELSE dropped_samples + 1
    BY <1>6 DEF Delivers
  <2>2. {k} \in SUBSET Samples /\ {k} \cap T = {} /\ \A j \in {k} : At(j, "csample")
    BY <2>1
  <2> QED BY <1>3, <1>4, <2>1, <2>2
<1>7. CASE Quiet
  <2>1. {} \in SUBSET Samples /\ \A k \in {} : At(k, "ready")
    OBVIOUS
  <2> QED BY <1>2, <1>4, <2>1, <1>0, <1>5, <1>6, <1>7 DEF Quiet, Kinds
<1>8. CASE Enters \/ Within \/ Collects
  <2>1. PICK k \in Samples, c \in Names, d \in Names : At(k, c) /\ Routed({k}, d, {})
    BY <1>4, <1>8 DEF Enters, Within, Collects
  <2>2. {k} \in SUBSET Samples /\ \A j \in {k} : At(j, c)
    BY <2>1
  <2>3. Lost' = Lost
    BY <1>2, <2>1, <2>2
  <2> QED BY <1>0, <1>5, <1>6, <2>3 DEF Kinds
<1>9. CASE Trains
  <2>1. IdsOf(batch) \in SUBSET Samples
    <3>1. batch \in Seq(Full)
      BY DEF Forms, QueueForms
    <3> QED BY <3>1, FormsIds, IdsOfSeq
  <2>2. \A k \in IdsOf(batch) : At(k, "batch")
    BY DEF At
  <2>3. Lost' = Lost
    BY <1>2, <1>4, <1>9, <2>1, <2>2 DEF Trains
  <2> QED BY <1>0, <1>5, <1>6, <2>3 DEF Kinds
<1>10. ~Breaks
  BY DEF Breaks
<1> QED BY <1>0, <1>5, <1>6, <1>7, <1>8, <1>9, <1>10 DEF Kinds

\* At first nothing is lost and nothing counted.
LEMMA LossInit == Init => LossIsCounted
<1> SUFFICES ASSUME Init PROVE LossIsCounted
  OBVIOUS
<1>1. Pipeline!Init /\ Placed
  BY PipelineInit, PlacedInit
<1>2. \A k \in Samples : Stages[k] # "lost"
  BY <1>1 DEF Pipeline!Init
<1>3. Lost = {}
  BY <1>1, <1>2, StagesNow DEF StagesFact, Placed, Lost
<1>4. dropped_samples = 0
  BY DEF Init
<1> QED BY <1>3, <1>4, FS_EmptySet DEF LossIsCounted

\* Where no rollout and no merge raises, every sample that is lost is counted in
\* dropped_samples: the statistics account for every sample (message_queue.py:67-95).
THEOREM LossesAreCounted ==
  ASSUME Failures = {}
  PROVE  Spec => []LossIsCounted
<1>1. SyncInv /\ Forms /\ Exit /\ Placed /\ LossIsCounted /\ [Next]_vars => LossIsCounted'
  <2> SUFFICES ASSUME SyncInv, Forms, Exit, Placed, LossIsCounted, [Next]_vars
               PROVE  LossIsCounted'
    OBVIOUS
  <2>1. IsFiniteSet(Lost)
    <3>1. IsFiniteSet(Samples)
      BY RollouterAssumption, FS_Interval DEF Samples
    <3> QED BY <3>1, FS_Subset DEF Lost
  <2>2. Cardinality(Lost) = dropped_samples
    BY DEF LossIsCounted
  <2>3. CASE Lost' = Lost /\ dropped_samples' = dropped_samples
    BY <2>2, <2>3 DEF LossIsCounted
  <2>4. ASSUME dropped_samples' = dropped_samples + 1, NEW t \in Samples \ Lost, Lost' = Lost \cup {t}
        PROVE  LossIsCounted'
    <3>1. Cardinality(Lost \cup {t}) = Cardinality(Lost) + 1
      BY <2>1, <2>4, FS_AddElement
    <3> QED BY <2>2, <2>4, <3>1 DEF LossIsCounted
  <2> QED BY <2>3, <2>4, LossStep
<1> QED BY <1>1, LossInit, SyncInvariant, FormsInvariant, ExitInvariant, PlacedInvariant, PTL DEF Spec

-----------------------------------------------------------------------------
\* The versions: every one but the last takes a sample nobody has trained on.
Progress ==
  /\ last => tpc \in {"waitvalid", "pausing", "transfer", "lastvalid", "done"}
  /\ tversion <= Cardinality(trained) + (IF last THEN 1 ELSE 0)

\* The samples trained on can be counted.
LEMMA TrainedFinite ==
  ASSUME Forms
  PROVE  /\ IsFiniteSet(trained) /\ Cardinality(trained) \in Nat
         /\ Cardinality(trained) <= TotalRolloutSteps
<1>1. trained \subseteq Samples /\ IsFiniteSet(Samples) /\ Cardinality(Samples) = TotalRolloutSteps
  <2>1. TotalRolloutSteps \in Nat \ {0}
    BY RollouterAssumption
  <2>2. IsFiniteSet(1..TotalRolloutSteps) /\ Cardinality(1..TotalRolloutSteps) = TotalRolloutSteps
    BY <2>1, FS_Interval
  <2> QED BY <2>2 DEF Forms, QueueForms, Samples
<1>2. IsFiniteSet(trained) /\ Cardinality(trained) <= Cardinality(Samples)
  BY <1>1, FS_Subset
<1> QED BY <1>1, <1>2, FS_CardinalityType

\* At first there is no version and no trained sample.
LEMMA ProgressInit == Init => Progress
BY FS_EmptySet DEF Init, TrainerInit, Progress

\* A training step trains on one sample more at least.
LEMMA TrainsMore ==
  ASSUME Forms, Placed, TrainerStep
  PROVE  Cardinality(trained') >= Cardinality(trained) + 1 /\ Cardinality(trained') \in Nat
<1>1. /\ tpc = "train" /\ trained' = trained \cup IdsOf(batch)
  BY DEF TrainerStep, IdsOf
<1>2. /\ batch \in Seq(Full) /\ Distinct(batch) /\ Len(batch) = RequiredSamples
      /\ RequiredSamples \in Nat \ {0} /\ IdsOf(batch) \subseteq Samples
  <2>1. batch \in Seq(Full) /\ Len(batch) = RequiredSamples
    BY <1>1 DEF Forms, QueueForms
  <2> QED BY <2>1, FormsIds, IdsOfSeq, RollouterAssumption DEF Placed, Singly
<1>3. IsFiniteSet(IdsOf(batch)) /\ Cardinality(IdsOf(batch)) = RequiredSamples
  BY <1>2, IdsCount
<1>4. IdsOf(batch) \cap trained = {}
  BY <1>2 DEF Placed, Apart, Names, At
<1>5. Cardinality(trained \cup IdsOf(batch)) = Cardinality(trained) + Cardinality(IdsOf(batch))
  <2>1. trained \cap IdsOf(batch) = {} /\ Cardinality({}) = 0 /\ IsFiniteSet(trained)
    BY <1>4, TrainedFinite, FS_EmptySet
  <2>2. Cardinality(trained \cup IdsOf(batch))
          = Cardinality(trained) + Cardinality(IdsOf(batch)) - Cardinality(trained \cap IdsOf(batch))
    BY <1>3, <2>1, FS_Union
  <2>3. Cardinality(trained \cap IdsOf(batch)) = 0
    BY <2>1
  <2>4. Cardinality(trained) \in Nat /\ Cardinality(IdsOf(batch)) \in Nat
    BY <1>2, <1>3, TrainedFinite
  <2> QED BY <2>2, <2>3, <2>4
<1> QED BY <1>1, <1>2, <1>3, <1>5, TrainedFinite

\* Every step keeps the versions behind the trained samples.
LEMMA ProgressStep ==
  ASSUME SyncInv, Forms, Placed, Progress, [Next]_vars
  PROVE  Progress'
<1>0. tversion \in Nat /\ last \in BOOLEAN /\ Cardinality(trained) \in Nat
  BY TrainedFinite DEF SyncInv, VersionsInv
<1>1. CASE TrainerStep
  <2>1. /\ tpc = "train" /\ last' = last /\ tversion' \in {tversion, tversion + 1}
    BY <1>1 DEF TrainerStep
  <2>2. ~last
    BY <2>1 DEF Progress
  <2> QED BY <1>0, <1>1, <2>1, <2>2, TrainsMore DEF Progress
<1>2. CASE TrainerFinal
  <2>1. /\ tpc = "final" /\ trained' = trained
        /\ \/ last' = TRUE /\ tversion' = tversion + 1 /\ tpc' = "waitvalid"
           \/ last' = last /\ tversion' = tversion /\ tpc' = "done"
    BY <1>2 DEF TrainerFinal
  <2>2. ~last
    BY <2>1 DEF Progress
  <2> QED BY <1>0, <2>1, <2>2 DEF Progress
<1>3. ASSUME UNCHANGED <<trained, tversion, last>>,
             last /\ tpc' # tpc => tpc' \in {"pausing", "transfer", "lastvalid", "done"}
      PROVE  Progress'
  BY <1>3 DEF Progress
<1>4. CASE TrainerGet \/ SyncPause \/ SyncQueue \/ SyncWeights \/ TrainerGetValidate \/ TrainerLastValid
  <2>1. UNCHANGED <<trained, tversion, last>>
    BY <1>4 DEF TrainerGet, SyncPause, SyncQueue, SyncWeights, TrainerGetValidate, TrainerLastValid
  <2>2. last => tpc \notin {"collect", "getval"}
    BY DEF Progress
  <2>3. last /\ tpc' # tpc => tpc' \in {"pausing", "transfer", "lastvalid", "done"}
    BY <1>4, <2>2 DEF TrainerGet, SyncPause, SyncQueue, SyncWeights, TrainerGetValidate, TrainerLastValid
  <2> QED BY <1>3, <2>1, <2>3
<1>5. CASE ~TrainerNext
  <2>1. UNCHANGED <<trained, tversion, last, tpc>>
    BY <1>5 DEF Next, vars, trainerVars, Processor, Tasks, Feeder, Consumer, Main, Monitor, Pause, Update, Resume,
         trainerFrame
  <2> QED BY <1>3, <2>1
<1> QED BY <1>1, <1>2, <1>4, <1>5 DEF TrainerNext

\* There are no more versions than samples trained on, the last synchronization apart:
\* the versions are bounded by total_rollout_steps (fully_async_trainer.py:216-306).
THEOREM ProgressInvariant == Spec => []Progress
BY SyncInvariant, FormsInvariant, PlacedInvariant, ProgressInit, ProgressStep, PTL DEF Spec

\* The type invariant follows from the invariants before.
LEMMA TypesFollow ==
  ASSUME SyncInv, Line, Forms, Progress
  PROVE  TypeOK
<1>1. /\ tversion \in Versions /\ weights \in Versions /\ version \in Versions
      /\ updateArgs.version \in Versions /\ Labels \subseteq Versions
  <2>1. tversion <= TotalRolloutSteps + 1
    BY TrainedFinite, RollouterAssumption DEF Progress, SyncInv, VersionsInv
  <2>2. /\ tversion \in Nat /\ weights \in Nat /\ version \in Nat
        /\ version <= weights /\ weights <= tversion /\ updateArgs.version \in 0..weights
    BY DEF SyncInv, VersionsInv
  <2> QED BY <2>1, <2>2, RollouterAssumption DEF Versions, Labels
<1>2. Part \subseteq PartSample /\ Full \subseteq DoneSample /\ Item \subseteq NewSample \cup PartSample
  BY <1>1 DEF Part, Full, Item, PartSample, DoneSample
<1>3. Outcome \subseteq [version : Versions, metrics : BOOLEAN]
  BY <1>1 DEF Outcome
<1>4. /\ cancelQ \in Seq(PartSample) /\ resultQ \in Seq(DoneSample)
      /\ csample \in Seq(DoneSample) /\ Len(csample) <= 1
      /\ ready \subseteq (NewSample \cup PartSample) /\ generating \subseteq PartSample
  <2>1. cancelQ \in Seq(Part) /\ resultQ \in Seq(Full) /\ csample \in Seq(Full) /\ Len(csample) <= 1
        /\ ready \subseteq Item /\ generating \subseteq Part
    <3>1. Len(csample) \in {0, 1}
      BY DEF Forms, RollForms
    <3>2. Len(csample) <= 1
      BY <3>1
    <3> QED BY <3>2 DEF Forms, RollForms
  <2> QED BY <1>2, <2>1, SeqMonotonic
<1>5. held \in Seq(NewSample \cup PartSample) /\ Len(held) <= 1
  <2>1. held \in Seq(Item) /\ Len(held) \in {0, 1}
    BY DEF Forms, ProcForms
  <2>2. Len(held) <= 1
    BY <2>1
  <2> QED BY <1>2, <2>1, <2>2, SeqMonotonic
<1>6. /\ batch \in Seq(DoneSample) /\ queue \in Seq(DoneSample \cup {Finish})
      /\ valData \in Seq([version : Versions, metrics : BOOLEAN]) /\ Len(valData) <= 1
  <2>1. batch \in Seq(Full) /\ queue \in Seq(Full \cup {Finish}) /\ valData \in Seq(Outcome) /\ Len(valData) <= 1
    <3>1. Len(valData) \in {0, 1}
      BY DEF Forms, QueueForms
    <3>2. Len(valData) <= 1
      BY <3>1
    <3> QED BY <3>2 DEF Forms, QueueForms
  <2>2. Full \cup {Finish} \subseteq DoneSample \cup {Finish}
    BY <1>2
  <2>3. queue \in Seq(DoneSample \cup {Finish})
    BY <2>1, <2>2, SeqMonotonic, Zenon
  <2>4. batch \in Seq(DoneSample)
    BY <1>2, <2>1, SeqMonotonic, Zenon
  <2>5. valData \in Seq([version : Versions, metrics : BOOLEAN])
    BY <1>3, <2>1, SeqMonotonic, Zenon
  <2> QED BY <2>1, <2>3, <2>4, <2>5
<1>7. updateArgs \in [version : Versions, validate : BOOLEAN, sum : Nat]
  <2>1. /\ updateArgs = [version |-> updateArgs.version, validate |-> updateArgs.validate,
                         sum |-> updateArgs.sum]
        /\ updateArgs.validate \in BOOLEAN /\ updateArgs.sum \in Nat
    BY DEF SyncInv, VersionsInv, Forms, OtherForms
  <2> QED BY <1>1, <2>1
<1>8. /\ fed \in 0..DoneItem /\ pending \in Seq(1..DoneItem) /\ Len(pending) <= PendingCap
      /\ finished \in Nat /\ failed \in Nat
  BY DEF Forms, RollForms
<1>9. /\ ppc \in {"top", "get", "lock", "wait", "pauseLock", "idle", "idleWoken",
              "idleLock", "submitLock", "submitIdle", "submitWoken", "exited",
              "crashed"}
      /\ loop \in {"none", "drain", "limit", "done"} /\ bound \in BOOLEAN
  BY DEF Forms, ProcForms
<1>10. /\ consumer \in {"live", "dead"}
       /\ mpc \in {"feed", "proc", "join", "finish", "stop", "stopLock", "end"}
       /\ active \in BOOLEAN
       /\ monitor \in {"sleep", "wakeLock", "topLock", "exit"}
       /\ paused \in BOOLEAN /\ trigger \in BOOLEAN /\ staleness \in Nat
  BY DEF Forms, OtherForms
<1>11. /\ lockq \in Seq({"proc", "pause", "update", "resume", "monitor", "main"})
       /\ \A i, j \in DOMAIN lockq : i # j => lockq[i] # lockq[j]
  BY DEF Line, NoDup, Callers
<1>12. /\ pausePc \in {"idle", "called", "lock", "cancel", "gather", "reset", "done"}
       /\ updatePc \in {"called", "lock", "qsize", "assign", "validate", "done"}
       /\ resumePc \in {"called", "lock", "servers", "done"}
       /\ tpc \in {"collect", "train", "waitvalid", "pausing", "transfer", "getval",
              "final", "lastvalid", "done"}
       /\ serverPaused \in BOOLEAN /\ last \in BOOLEAN
  BY DEF SyncInv, Calls, VersionsInv, ServersInv
<1>13. Len(batch) <= RequiredSamples /\ trained \subseteq Samples /\ local \in 1..TriggerSteps
  BY DEF Forms, QueueForms
<1> QED BY <1>1, <1>4, <1>5, <1>6, <1>7, <1>8, <1>9, <1>10, <1>11, <1>12, <1>13, Zenon DEF TypeOK

\* Every variable of the composed system keeps its type, with the bounds of the queues.
THEOREM TypeCorrect == Spec => []TypeOK
BY TypesFollow, SyncInvariant, LineInvariant, FormsInvariant, ProgressInvariant, PTL
====
