------------------------- MODULE MessageQueueProofs -------------------------
(***************************************************************************)
(* Proofs about MessageQueue for every number of consumers, queue size and *)
(* bound.  DeliveredBelow is what the queue's content does not say by      *)
(* itself: everything returned so far is older than everything queued.     *)
(***************************************************************************)
EXTENDS MessageQueue, TLAPS

\* Every sample already returned to a consumer was produced before the oldest
\* sample still in the queue.
DeliveredBelow ==
  \A c \in Consumers : reply[c] <= total_produced - Len(queue)

IInv ==
  /\ TypeOK
  /\ HoldsTheNewest
  /\ Accounting
  /\ NoLostWakeup
  /\ DeliveredBelow

\* What put_sample leaves in the queue: the old content, without its oldest
\* sample if the queue was full, followed by the new sample.
LEMMA AppendDropOldest ==
  ASSUME NEW q \in Seq(Nat), NEW s \in Nat, NEW full \in BOOLEAN, full => q # <<>>,
         NEW r, r = Append(IF full THEN Tail(q) ELSE q, s)
  PROVE  /\ r \in Seq(Nat)
         /\ Len(r) = IF full THEN Len(q) ELSE Len(q) + 1
         /\ r[Len(r)] = s
         /\ \A i \in 1..(Len(r) - 1) : r[i] = IF full THEN q[i + 1] ELSE q[i]
<1>1. CASE full
  BY <1>1
<1>2. CASE ~full
  BY <1>2
<1> QED BY <1>1, <1>2

\* The queue is empty and nobody has called: the invariant holds initially.
LEMMA InitIInv == Init => IInv
BY MessageQueueAssumption
   DEF Init, IInv, TypeOK, HoldsTheNewest, Accounting, NoLostWakeup,
       DeliveredBelow

\* put_sample keeps the invariant: the new number extends the queue's run of
\* numbers, a full queue gives up its oldest, and no waiter stays asleep.
LEMMA PutIInv == IInv /\ Put => IInv'
<1> SUFFICES ASSUME IInv, Put PROVE IInv'
  OBVIOUS
<1>1. /\ queue' = Append(IF Full THEN Tail(queue) ELSE queue, total_produced + 1)
      /\ dropped_samples' = IF Full THEN dropped_samples + 1 ELSE dropped_samples
      /\ put_ok' = ~Full
      /\ total_produced' = total_produced + 1
      /\ call' = NotifyAll(call)
      /\ UNCHANGED <<running, total_consumed, cleared, reply,
                     current_param_version, val_queue>>
  BY DEF Put, PutSample, Counted, Result, sideVars
<1>2. Full \in BOOLEAN /\ (Full => queue # <<>> /\ Len(queue) = MaxQueueSize)
  BY MessageQueueAssumption DEF Full, IInv, TypeOK, HoldsTheNewest
<1>3. /\ queue' \in Seq(Nat)
      /\ Len(queue') = IF Full THEN Len(queue) ELSE Len(queue) + 1
      /\ queue'[Len(queue')] = total_produced + 1
      /\ \A i \in 1..(Len(queue') - 1) :
           queue'[i] = IF Full THEN queue[i + 1] ELSE queue[i]
  <2>1. queue \in Seq(Nat) /\ total_produced + 1 \in Nat
    BY DEF IInv, TypeOK
  <2> QED BY <1>1, <1>2, <2>1, AppendDropOldest
<1>4. /\ Len(queue) \in Nat
      /\ Len(queue') \in Nat
      /\ total_produced \in Nat
      /\ total_produced' = total_produced + 1
  BY <1>1, <1>3 DEF IInv, TypeOK
<1>5. call' \in [Consumers -> {"idle", "woken", "closed"}]
  BY <1>1 DEF NotifyAll, IInv, TypeOK
<1>6. TypeOK'
  BY <1>1, <1>2, <1>3, <1>5 DEF IInv, TypeOK
<1>7. HoldsTheNewest'
  <2>1. Len(queue') <= MaxQueueSize
    BY <1>2, <1>3, <1>4, MessageQueueAssumption DEF IInv, HoldsTheNewest, Full
  <2>2. ASSUME NEW i \in 1..Len(queue')
        PROVE  queue'[i] = total_produced' - Len(queue') + i
    <3>1. CASE i = Len(queue')
      <4>1. queue'[i] = total_produced + 1
        BY <1>3, <3>1
      <4> QED BY <4>1, <3>1, <1>4
    <3>2. CASE i # Len(queue') /\ Full
      <4>1. i + 1 \in 1..Len(queue) /\ Len(queue') = Len(queue)
        BY <1>3, <1>4, <3>2
      <4>2. queue'[i] = queue[i + 1]
        BY <1>3, <1>4, <3>2
      <4>3. queue[i + 1] = total_produced - Len(queue) + (i + 1)
        BY <4>1 DEF IInv, HoldsTheNewest
      <4> QED BY <1>4, <4>1, <4>2, <4>3
    <3>3. CASE i # Len(queue') /\ ~Full
      <4>1. i \in 1..Len(queue) /\ Len(queue') = Len(queue) + 1
        BY <1>3, <1>4, <3>3
      <4>2. queue'[i] = queue[i]
        BY <1>3, <1>4, <3>3
      <4>3. queue[i] = total_produced - Len(queue) + i
        BY <4>1 DEF IInv, HoldsTheNewest
      <4> QED BY <1>4, <4>1, <4>2, <4>3
    <3> QED BY <1>2, <3>1, <3>2, <3>3
  <2> QED BY <2>1, <2>2 DEF HoldsTheNewest
<1>8. Accounting'
  <2>1. /\ total_consumed' = total_consumed
        /\ cleared' = cleared
        /\ dropped_samples' + Len(queue') = dropped_samples + Len(queue) + 1
    <3>0. dropped_samples \in Nat /\ UNCHANGED <<total_consumed, cleared>>
      BY <1>1 DEF IInv, TypeOK
    <3>1. CASE Full
      BY <1>1, <1>3, <1>4, <3>0, <3>1
    <3>2. CASE ~Full
      BY <1>1, <1>3, <1>4, <3>0, <3>2
    <3> QED BY <3>1, <3>2
  <2>2. /\ dropped_samples \in Nat /\ dropped_samples' \in Nat
        /\ total_consumed \in Nat /\ cleared \in Nat
    BY <1>6 DEF IInv, TypeOK
  <2>3. total_produced = total_consumed + dropped_samples + cleared + Len(queue)
    BY DEF IInv, Accounting
  <2>4. total_produced' = total_consumed + cleared + (dropped_samples' + Len(queue'))
    BY <1>4, <2>1, <2>2, <2>3
  <2> QED BY <1>4, <2>1, <2>2, <2>4 DEF Accounting
<1>9. NoLostWakeup'
  BY <1>5 DEF NoLostWakeup
<1>10. DeliveredBelow'
  <2> SUFFICES ASSUME NEW c \in Consumers
               PROVE  reply'[c] <= total_produced' - Len(queue')
    BY DEF DeliveredBelow
  <2>1. reply[c] \in Nat /\ reply[c] <= total_produced - Len(queue)
    BY DEF IInv, TypeOK, DeliveredBelow
  <2>2. reply'[c] = reply[c]
    BY <1>1
  <2>3. Len(queue') <= Len(queue) + 1
    <3>1. CASE Full
      BY <1>3, <1>4, <3>1
    <3>2. CASE ~Full
      BY <1>3, <1>4, <3>2
    <3> QED BY <3>1, <3>2
  <2> QED BY <1>4, <2>1, <2>2, <2>3
<1> QED BY <1>6, <1>7, <1>8, <1>9, <1>10 DEF IInv

\* The loop of get_sample keeps the invariant: it takes the oldest number, or
\* goes to sleep only on an empty queue that runs.
LEMMA TakeOrWaitIInv ==
  ASSUME IInv, NEW c \in Consumers, TakeOrWait(c)
  PROVE  IInv'
<1> USE DEF IInv, TypeOK
<1>1. CASE queue # <<>>
  <2>1. /\ queue' = Tail(queue)
        /\ reply' = [reply EXCEPT ![c] = Head(queue)]
        /\ total_consumed' = total_consumed + 1
        /\ call' = [call EXCEPT ![c] = "idle"]
        /\ UNCHANGED <<running, total_produced, dropped_samples, cleared,
                       current_param_version, val_queue, put_ok>>
    BY <1>1 DEF TakeOrWait, Oldest, Rest, counterVars, sideVars
  <2>2. /\ queue' \in Seq(Nat)
        /\ Len(queue') = Len(queue) - 1
        /\ \A i \in 1..Len(queue') : queue'[i] = queue[i + 1]
        /\ Head(queue) = queue[1]
        /\ Head(queue) \in Nat
        /\ Len(queue) \in Nat \ {0}
    BY <1>1, <2>1
  <2>3. TypeOK'
    BY <2>1, <2>2
  <2>4. HoldsTheNewest'
    BY <2>1, <2>2, MessageQueueAssumption DEF HoldsTheNewest
  <2>5. Accounting'
    BY <2>1, <2>2 DEF Accounting
  <2>6. NoLostWakeup'
    BY <1>1, <2>1 DEF NoLostWakeup
  <2>7. DeliveredBelow'
    <3>1. Head(queue) = total_produced - Len(queue) + 1
      BY <2>2 DEF HoldsTheNewest
    <3> QED BY <2>1, <2>2, <3>1 DEF DeliveredBelow
  <2> QED BY <2>3, <2>4, <2>5, <2>6, <2>7
<1>2. CASE queue = <<>>
  <2>1. /\ call' = [call EXCEPT ![c] = IF running THEN "waiting" ELSE "closed"]
        /\ UNCHANGED <<queue, running, total_produced, total_consumed,
                       dropped_samples, cleared, current_param_version,
                       val_queue, reply, put_ok>>
    BY <1>2 DEF TakeOrWait, Oldest, Rest, counterVars, sideVars
  <2>2. TypeOK'
    BY <2>1
  <2>3. NoLostWakeup'
    BY <1>2, <2>1 DEF NoLostWakeup
  <2>4. HoldsTheNewest' /\ Accounting' /\ DeliveredBelow'
    BY <2>1 DEF HoldsTheNewest, Accounting, DeliveredBelow
  <2> QED BY <2>2, <2>3, <2>4
<1> QED BY <1>1, <1>2

\* clear_queue and shutdown keep the invariant.
LEMMA ClearIInv == IInv /\ ClearQueue => IInv'
<1> SUFFICES ASSUME IInv, ClearQueue PROVE IInv'
  OBVIOUS
<1> USE DEF IInv, TypeOK
<1>1. /\ cleared' = cleared + Len(queue)
      /\ queue' = <<>>
      /\ UNCHANGED <<running, total_produced, total_consumed, dropped_samples,
                     current_param_version, val_queue, call, reply, put_ok>>
  BY DEF ClearQueue, getVars, sideVars
<1>2. Len(queue) \in Nat /\ Len(queue') = 0
  BY <1>1
<1>3. TypeOK' /\ HoldsTheNewest' /\ Accounting'
  BY <1>1, <1>2, MessageQueueAssumption DEF HoldsTheNewest, Accounting
<1>4. NoLostWakeup' /\ DeliveredBelow'
  BY <1>1, <1>2 DEF NoLostWakeup, DeliveredBelow
<1> QED BY <1>3, <1>4

\* Shutdown wakes everybody.
LEMMA ShutdownIInv == IInv /\ Shutdown => IInv'
<1> SUFFICES ASSUME IInv, Shutdown PROVE IInv'
  OBVIOUS
<1> USE DEF IInv, TypeOK
<1>1. /\ running' = FALSE
      /\ UNCHANGED <<queue, total_produced, total_consumed, dropped_samples,
                     cleared, current_param_version, val_queue, reply, put_ok>>
  BY DEF Shutdown, counterVars, sideVars
<1>2. call' \in [Consumers -> {"idle", "woken", "closed"}]
  BY DEF Shutdown, NotifyAll
<1>3. TypeOK' /\ NoLostWakeup'
  BY <1>1, <1>2 DEF NoLostWakeup
<1>4. HoldsTheNewest' /\ Accounting' /\ DeliveredBelow'
  BY <1>1 DEF HoldsTheNewest, Accounting, DeliveredBelow
<1> QED BY <1>3, <1>4

\* The methods that only touch the version or the validation results.
LEMMA SideIInv ==
  IInv /\ (NextVersion \/ Validated \/ GetValidate \/ UNCHANGED vars) => IInv'
<1> SUFFICES ASSUME IInv, NextVersion \/ Validated \/ GetValidate \/ UNCHANGED vars
             PROVE  IInv'
  OBVIOUS
<1> USE DEF IInv, TypeOK
<1>1. /\ UNCHANGED <<queue, running, total_produced, total_consumed,
                     dropped_samples, cleared, call, reply, put_ok>>
      /\ current_param_version' \in Nat
      /\ val_queue' \in Seq(Nat)
  <2>1. CASE NextVersion
    BY <2>1 DEF NextVersion, UpdateParamVersion, counterVars, getVars
  <2>2. CASE Validated
    BY <2>2 DEF Validated, PutValidate, counterVars, getVars
  <2>3. CASE GetValidate
    BY <2>3 DEF GetValidate, counterVars, getVars
  <2>4. CASE UNCHANGED vars
    BY <2>4 DEF vars
  <2> QED BY <2>1, <2>2, <2>3, <2>4
<1>2. HoldsTheNewest' /\ Accounting' /\ NoLostWakeup' /\ DeliveredBelow'
  BY <1>1 DEF HoldsTheNewest, Accounting, NoLostWakeup, DeliveredBelow
<1> QED BY <1>1, <1>2

\* Every step keeps the invariant.
LEMMA NextIInv == IInv /\ [Next]_vars => IInv'
<1> SUFFICES ASSUME IInv, [Next]_vars PROVE IInv'
  OBVIOUS
<1>1. CASE Put
  BY <1>1, PutIInv
<1>2. ASSUME NEW c \in Consumers, GetSample(c) \/ GetResume(c)
      PROVE  IInv'
  <2>1. TakeOrWait(c)
    BY <1>2 DEF GetSample, GetResume
  <2> QED BY <2>1, TakeOrWaitIInv
<1>3. CASE ClearQueue
  BY <1>3, ClearIInv
<1>4. CASE Shutdown
  BY <1>4, ShutdownIInv
<1>5. CASE NextVersion \/ Validated \/ GetValidate \/ UNCHANGED vars
  BY <1>5, SideIInv
<1> QED BY <1>1, <1>2, <1>3, <1>4, <1>5 DEF Next

\* The strengthened invariant holds of every behaviour.
THEOREM Inductive == Spec => []IInv
BY InitIInv, NextIInv, PTL DEF Spec

\* Type correctness of the queue actor, for every size and bound.
THEOREM TypeCorrect == Spec => []TypeOK
<1>1. IInv => TypeOK
  BY DEF IInv
<1> QED BY <1>1, Inductive, PTL

\* For every queue size: the queue is bounded and holds an unbroken run of the
\* newest samples; put_sample's drop of the oldest never tears a hole.
THEOREM NewestHeld == Spec => []HoldsTheNewest
<1>1. IInv => HoldsTheNewest
  BY DEF IInv
<1> QED BY <1>1, Inductive, PTL

\* For every queue size: produced = consumed + dropped + cleared + queued.
THEOREM Accounted == Spec => []Accounting
<1>1. IInv => Accounting
  BY DEF IInv
<1> QED BY <1>1, Inductive, PTL

\* For any number of consumers: a consumer asleep in get_sample has nothing
\* to wake up for.
THEOREM NoWakeupLost == Spec => []NoLostWakeup
<1>1. IInv => NoLostWakeup
  BY DEF IInv
<1> QED BY <1>1, Inductive, PTL

\* For any number of consumers and any interleaving of their calls: a sample
\* returned is newer than every sample returned before it.
THEOREM DeliveredInOrder == Spec => InOrder
<1> DEFINE Newer == \A c \in Consumers :
             total_consumed' # total_consumed /\ reply'[c] # reply[c]
               => \A d \in Consumers : reply'[c] > reply[d]
<1>1. IInv /\ [Next]_vars => [Newer]_vars
  <2> SUFFICES ASSUME IInv, Next, NEW c \in Consumers,
                      total_consumed' # total_consumed, reply'[c] # reply[c],
                      NEW d \in Consumers
               PROVE  reply'[c] > reply[d]
    OBVIOUS
  <2> USE DEF IInv, TypeOK
  <2>1. PICK e \in Consumers : TakeOrWait(e)
    BY DEF Next, Put, PutSample, Counted, Result, NextVersion, UpdateParamVersion, ClearQueue,
           Shutdown, Validated, PutValidate, GetValidate, getVars,
           GetSample, GetResume
  <2>2. queue # <<>> /\ reply' = [reply EXCEPT ![e] = Head(queue)]
    BY <2>1 DEF TakeOrWait, Oldest, Rest
  <2>3. c = e /\ reply'[c] = queue[1] /\ Len(queue) \in Nat \ {0}
    BY <2>2
  <2>4. reply'[c] = total_produced - Len(queue) + 1
    BY <2>3 DEF HoldsTheNewest
  <2> QED BY <2>3, <2>4 DEF DeliveredBelow
<1> QED BY <1>1, Inductive, PTL DEF Spec, InOrder

-----------------------------------------------------------------------------
\* The newest sample delivered is the answer to one of the consumers.
Greatest(c) == \A d \in Consumers : reply[d] <= reply[c]

NewestFact ==
  reply \in [Consumers -> Nat] =>
    \A c \in Consumers : Greatest(c) => NewestDelivered = reply[c]

\* It is the answer no other exceeds.
LEMMA NewestNow == NewestFact
<1> SUFFICES ASSUME reply \in [Consumers -> Nat], NEW c \in Consumers, Greatest(c)
             PROVE  NewestDelivered = reply[c]
  BY DEF NewestFact
<1> DEFINE S == {reply[d] : d \in Consumers}
           P(m) == \A d \in Consumers : reply[d] <= m
<1>1. reply[c] \in S /\ P(reply[c])
  BY DEF Greatest
<1>2. NewestDelivered = CHOOSE m \in S : P(m)
  BY DEF NewestDelivered
<1>3. NewestDelivered \in S /\ P(NewestDelivered)
  BY <1>1, <1>2, Zenon
<1>4. PICK d \in Consumers : NewestDelivered = reply[d]
  BY <1>3
<1>5. reply[c] \in Nat /\ reply[d] \in Nat /\ reply[c] <= reply[d] /\ reply[d] <= reply[c]
  BY <1>3, <1>4 DEF Greatest
<1> QED BY <1>4, <1>5

\* The same in the next state.
LEMMA NewestNext == NewestFact'
BY NewestNow, PTL

\* A sample returned is newer than all before, and was produced.
LEMMA TakeDelivers ==
  ASSUME IInv, NEW c \in Consumers, TakeOrWait(c), NEW e \in Consumers, Greatest(e)
  PROVE  \/ UNCHANGED <<reply, total_produced, total_consumed>>
         \/ /\ reply' \in [Consumers -> Nat] /\ Greatest(c)'
            /\ reply'[c] \in (reply[e] + 1)..total_produced
            /\ total_consumed' = total_consumed + 1 /\ UNCHANGED total_produced
<1>0. reply \in [Consumers -> Nat] /\ queue \in Seq(Nat) /\ total_produced \in Nat
  BY DEF IInv, TypeOK
<1>1. CASE queue = <<>>
  BY <1>1 DEF TakeOrWait, counterVars
<1>2. CASE queue # <<>>
  <2>0. /\ reply' = [reply EXCEPT ![c] = Head(queue)]
        /\ total_consumed' = total_consumed + 1 /\ UNCHANGED total_produced
    BY <1>2 DEF TakeOrWait, Oldest, counterVars
  <2>1. Len(queue) \in Nat \ {0} /\ Head(queue) = queue[1] /\ Head(queue) \in Nat
    BY <1>0, <1>2
  <2>2. 1 \in 1..Len(queue)
    BY <2>1
  <2>3. Head(queue) = total_produced - Len(queue) + 1
    BY <2>1, <2>2 DEF IInv, HoldsTheNewest
  <2>4. \A d \in Consumers : reply[d] <= total_produced - Len(queue)
    BY DEF IInv, DeliveredBelow
  <2>5. reply' \in [Consumers -> Nat] /\ reply'[c] = Head(queue)
        /\ \A d \in Consumers : d # c => reply'[d] = reply[d]
    BY <1>0, <2>0, <2>1
  <2>6. \A d \in Consumers : reply'[d] <= reply'[c]
    <3> TAKE d \in Consumers
    <3>1. CASE d = c
      BY <2>1, <2>5, <3>1
    <3>2. CASE d # c
      <4>1. reply'[d] \in Nat /\ reply'[d] <= total_produced - Len(queue)
        BY <1>0, <2>4, <2>5, <3>2
      <4> QED BY <1>0, <2>1, <2>3, <2>5, <4>1
    <3> QED BY <3>1, <3>2
  <2>7. Head(queue) \in (reply[e] + 1)..total_produced
    <3>1. reply[e] \in Nat /\ reply[e] <= total_produced - Len(queue)
      BY <1>0, <2>4
    <3> QED BY <1>0, <2>1, <2>3, <3>1
  <2> QED BY <2>0, <2>5, <2>6, <2>7 DEF Greatest
<1> QED BY <1>1, <1>2

\* Every step of the queue is a step of the channel, or none, and leaves one
\* answer that no other exceeds.
LEMMA ChannelStep ==
  ASSUME IInv, NEW e \in Consumers, Greatest(e), [Next]_vars
  PROVE  [Channel!Next]_(Channel!vars) /\ \E c \in Consumers : Greatest(c)'
<1>0. reply \in [Consumers -> Nat] /\ NewestDelivered = reply[e]
  BY NewestNow DEF NewestFact, IInv, TypeOK
<1>1. ASSUME UNCHANGED reply
      PROVE  NewestDelivered' = NewestDelivered /\ \E c \in Consumers : Greatest(c)'
  BY <1>1 DEF NewestDelivered, Greatest
<1>2. CASE Put
  <2>1. UNCHANGED <<reply, total_consumed>> /\ total_produced' = total_produced + 1
    BY <1>2 DEF Put, PutSample
  <2>2. Channel!Send
    BY <1>1, <2>1 DEF Channel!Send
  <2> QED BY <1>1, <2>1, <2>2 DEF Channel!Next
<1>3. ASSUME NEW c \in Consumers, TakeOrWait(c)
      PROVE  [Channel!Next]_(Channel!vars) /\ \E d \in Consumers : Greatest(d)'
  <2>1. CASE UNCHANGED <<reply, total_produced, total_consumed>>
    BY <1>1, <2>1 DEF Channel!vars
  <2>2. CASE /\ reply' \in [Consumers -> Nat] /\ Greatest(c)'
             /\ reply'[c] \in (reply[e] + 1)..total_produced
             /\ total_consumed' = total_consumed + 1 /\ UNCHANGED total_produced
    <3>1. NewestDelivered' = reply'[c]
      BY <2>2, NewestNext DEF NewestFact
    <3>2. Channel!Deliver
      BY <1>0, <2>2, <3>1 DEF Channel!Deliver
    <3> QED BY <2>2, <3>2 DEF Channel!Next
  <2> QED BY <1>3, <2>1, <2>2, TakeDelivers
<1>4. CASE NextVersion \/ ClearQueue \/ Shutdown \/ Validated \/ GetValidate \/ UNCHANGED vars
  <2>1. UNCHANGED <<reply, total_produced, total_consumed>>
    BY <1>4 DEF NextVersion, UpdateParamVersion, ClearQueue, Shutdown, Validated, PutValidate,
       GetValidate, counterVars, getVars, vars
  <2> QED BY <1>1, <2>1 DEF Channel!vars
<1> QED BY <1>2, <1>3, <1>4 DEF Next, GetSample, GetResume

\* For any number of consumers but none, any sizes and bounds: the queue actor
\* is a lossy channel that keeps the order, whatever it drops, clears or is
\* asked for after its shutdown (message_queue.py:67-156).
THEOREM IsAChannel ==
  ASSUME Consumers # {}
  PROVE  Spec => ImplementsChannel
<1> DEFINE G == \E c \in Consumers : Greatest(c)
<1>1. Init => G /\ Channel!Init
  <2> SUFFICES ASSUME Init PROVE G /\ Channel!Init
    OBVIOUS
  <2>1. \A c \in Consumers : Greatest(c) /\ reply[c] = 0
    BY DEF Init, Greatest
  <2>2. PICK c \in Consumers : Greatest(c)
    BY <2>1
  <2>3. NewestDelivered = 0
    BY <2>1, <2>2, NewestNow DEF NewestFact, Init
  <2> QED BY <2>2, <2>3 DEF Init, Channel!Init
<1>2. IInv /\ G /\ [Next]_vars => G' /\ [Channel!Next]_(Channel!vars)
  BY ChannelStep
<1> HIDE DEF G
<1> QED BY <1>1, <1>2, Inductive, PTL DEF Spec, ImplementsChannel, Channel!Spec
====
