---------------------------- MODULE MessageQueue ----------------------------
(***************************************************************************)
(* The MessageQueue actor of recipe/fully_async_policy/message_queue.py:   *)
(* a bounded queue between the Rollouter, which calls put_sample, and the  *)
(* Trainer, which blocks in get_sample.  A full queue drops its OLDEST     *)
(* sample.  Every method body runs under one asyncio lock and suspends     *)
(* only in get_sample's condition wait, so a method is one action, and     *)
(* get_sample is two: the call, and its resumption after a notify.         *)
(*                                                                         *)
(* The operations take the sample as a parameter, and other modules use    *)
(* them with samples of their own.  This module's Next lets the producer   *)
(* name each sample by its production number: the queue never looks inside *)
(* a sample, and the number is all the properties tell apart.              *)
(***************************************************************************)
EXTENDS Integers, Sequences, FiniteSets

CONSTANTS
  Consumers,       \* the callers of get_sample
  MaxQueueSize,    \* max_queue_size
  MaxConcurrency,  \* the actor's max_concurrency: calls it runs at once
  MaxPut,          \* bound: how many samples are ever put
  MaxVersion,      \* bound: the last parameter version
  MaxVal           \* bound: validation results waiting in val_queue

ASSUME MessageQueueAssumption ==
  /\ MaxQueueSize \in Nat \ {0}
  /\ MaxConcurrency \in Nat \ {0}
  /\ MaxPut \in Nat
  /\ MaxVersion \in Nat
  /\ MaxVal \in Nat

VARIABLES
  queue,                \* self.queue
  running,              \* self.running
  total_produced,       \* self.total_produced
  total_consumed,       \* self.total_consumed
  dropped_samples,      \* self.dropped_samples
  cleared,              \* sum of the cleared_count of every clear_queue
  current_param_version,
  val_queue,            \* self.val_queue, as the versions of its entries
  call,                 \* where each consumer's get_sample call is
  reply,                \* the last sample get_sample returned to a consumer
  put_ok                \* what the last put_sample returned

getVars     == <<call, reply, total_consumed>>
counterVars == <<total_produced, dropped_samples, cleared>>
sideVars    == <<current_param_version, val_queue>>
vars == <<queue, running, total_produced, total_consumed, dropped_samples,
          cleared, current_param_version, val_queue, call, reply, put_ok>>

-----------------------------------------------------------------------------
\* get_sample is suspended in the condition, or notified and about to look.
Pending(c) == call[c] \in {"waiting", "woken"}

\* A method starts only while fewer than max_concurrency calls are running;
\* the only calls that stay are the suspended get_samples.
SlotFree == Cardinality({c \in Consumers : Pending(c)}) < MaxConcurrency

\* Mutant of NotifyAll: notify() wakes one waiter.
NotifyOne(calls) ==
  IF \E c \in Consumers : calls[c] = "waiting"
  THEN [calls EXCEPT ![CHOOSE c \in Consumers : calls[c] = "waiting"] = "woken"]
  ELSE calls

\* self._consumer_condition.notify_all()
NotifyAll(calls) ==
  [c \in Consumers |-> IF calls[c] = "waiting" THEN "woken" ELSE calls[c]]

\* Mutant of Full: the length check is off by one.
FullOffByOne == Len(queue) > MaxQueueSize

Full == Len(queue) >= MaxQueueSize

\* Mutants: a dropped sample is not counted; the count is taken from lengths.
Uncounted == dropped_samples
Excess == dropped_samples + Len(queue) + 1 - MaxQueueSize

Counted == IF Full THEN dropped_samples + 1 ELSE dropped_samples
Result == ~Full

\* put_sample: append, after dropping the oldest sample of a full queue; the
\* result is False when one was dropped.
PutSample(s) ==
  /\ SlotFree
  /\ queue' = Append(IF Full THEN Tail(queue) ELSE queue, s)
  /\ dropped_samples' = Counted
  /\ put_ok' = Result
  /\ total_produced' = total_produced + 1
  /\ call' = NotifyAll(call)
  /\ UNCHANGED <<running, total_consumed, cleared, reply, sideVars>>

\* Mutants: queue[-1] is returned; the sample returned stays in the queue.
Newest == queue[Len(queue)]
All == queue

Oldest == Head(queue)
Rest == Tail(queue)

\* The loop of get_sample, run under the lock: wait while the queue is empty
\* and running; return a bare None when it is empty and shut down ("closed");
\* otherwise return the oldest sample.
TakeOrWait(c) ==
  /\ \/ /\ queue # <<>>
        /\ queue' = Rest
        /\ reply' = [reply EXCEPT ![c] = Oldest]
        /\ total_consumed' = total_consumed + 1
        /\ call' = [call EXCEPT ![c] = "idle"]
     \/ /\ queue = <<>>
        /\ call' = [call EXCEPT ![c] = IF running THEN "waiting" ELSE "closed"]
        /\ UNCHANGED <<queue, reply, total_consumed>>
  /\ UNCHANGED <<running, counterVars, sideVars, put_ok>>

GetSample(c) ==
  /\ call[c] = "idle"
  /\ SlotFree
  /\ TakeOrWait(c)

GetResume(c) ==
  /\ call[c] = "woken"
  /\ TakeOrWait(c)

UpdateParamVersion(version) ==
  /\ SlotFree
  /\ current_param_version' = version
  /\ UNCHANGED <<queue, running, counterVars, getVars, val_queue, put_ok>>

ClearQueue ==
  /\ SlotFree
  /\ cleared' = cleared + Len(queue)
  /\ queue' = <<>>
  /\ UNCHANGED <<running, total_produced, dropped_samples, getVars, sideVars,
                 put_ok>>

\* Mutant of Shutdown: the waiters are not notified.
ShutdownSilently ==
  /\ SlotFree
  /\ running' = FALSE
  /\ UNCHANGED <<queue, counterVars, getVars, sideVars, put_ok>>

Shutdown ==
  /\ SlotFree
  /\ running' = FALSE
  /\ call' = NotifyAll(call)
  /\ UNCHANGED <<queue, counterVars, reply, total_consumed, sideVars, put_ok>>

PutValidate(data) ==
  /\ SlotFree
  /\ val_queue' = Append(val_queue, data)
  /\ UNCHANGED <<queue, running, counterVars, getVars, current_param_version,
                 put_ok>>

\* get_validate on a non-empty val_queue; on an empty one it returns None and
\* changes nothing.
GetValidate ==
  /\ SlotFree
  /\ val_queue # <<>>
  /\ val_queue' = Tail(val_queue)
  /\ UNCHANGED <<queue, running, counterVars, getVars, current_param_version,
                 put_ok>>

-----------------------------------------------------------------------------
Init ==
  /\ queue = <<>>
  /\ running = TRUE
  /\ total_produced = 0
  /\ total_consumed = 0
  /\ dropped_samples = 0
  /\ cleared = 0
  /\ current_param_version = 0
  /\ val_queue = <<>>
  /\ call = [c \in Consumers |-> "idle"]
  /\ reply = [c \in Consumers |-> 0]
  /\ put_ok = TRUE

Put == total_produced < MaxPut /\ PutSample(total_produced + 1)

NextVersion ==
  /\ current_param_version < MaxVersion
  /\ UpdateParamVersion(current_param_version + 1)

Validated == Len(val_queue) < MaxVal /\ PutValidate(current_param_version)

Next ==
  \/ Put
  \/ \E c \in Consumers : GetSample(c)
  \/ \E c \in Consumers : GetResume(c)
  \/ NextVersion
  \/ ClearQueue
  \/ Shutdown
  \/ Validated
  \/ GetValidate

\* The only progress the actor itself owes: a notified get_sample gets the
\* lock again (asyncio.Lock is first come, first served).  Whether anybody
\* calls is the environment's business.
Spec == Init /\ [][Next]_vars /\ \A c \in Consumers : WF_vars(GetResume(c))

-----------------------------------------------------------------------------
TypeOK ==
  /\ queue \in Seq(Nat)
  /\ running \in BOOLEAN
  /\ total_produced \in Nat
  /\ total_consumed \in Nat
  /\ dropped_samples \in Nat
  /\ cleared \in Nat
  /\ current_param_version \in Nat
  /\ val_queue \in Seq(Nat)
  /\ call \in [Consumers -> {"idle", "waiting", "woken", "closed"}]
  /\ reply \in [Consumers -> Nat]
  /\ put_ok \in BOOLEAN

\* The queue holds exactly the newest samples, oldest first, without a gap,
\* and never more than max_queue_size of them, whatever was taken, dropped or
\* cleared before.
HoldsTheNewest ==
  /\ Len(queue) <= MaxQueueSize
  /\ \A i \in 1..Len(queue) : queue[i] = total_produced - Len(queue) + i

\* No sample goes unaccounted for: the statistics the rollouter steers by
\* (total_produced, total_consumed, dropped_samples) and the queue's length
\* always add up, counting what clear_queue threw away.
Accounting ==
  total_produced = total_consumed + dropped_samples + cleared + Len(queue)

\* No lost wakeup: a get_sample that sleeps in the condition sleeps because
\* there is nothing to return, neither a sample nor the news of a shutdown.
NoLostWakeup ==
  \A c \in Consumers : call[c] = "waiting" => queue = <<>> /\ running

\* Samples come out in production order, each one once, to whichever consumer:
\* what get_sample returns is newer than everything it returned to anyone.
InOrder ==
  [][\A c \in Consumers : total_consumed' # total_consumed /\ reply'[c] # reply[c]
       => \A d \in Consumers : reply'[c] > reply[d]]_vars

\* After a shutdown every pending get_sample is answered, with a sample that
\* is left or with None: nobody stays blocked on a queue that is closed.
ShutdownAnswers ==
  \A c \in Consumers : (~running /\ Pending(c)) ~> ~Pending(c)

-----------------------------------------------------------------------------
\* The promise to both sides: a lossy channel that keeps the order.
NewestDelivered == CHOOSE m \in {reply[c] : c \in Consumers} :
                     \A c \in Consumers : reply[c] <= m

Channel == INSTANCE SampleChannel WITH sent <- total_produced,
                                       delivered <- NewestDelivered,
                                       count <- total_consumed

ImplementsChannel == Channel!Spec
=============================================================================
