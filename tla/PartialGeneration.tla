-------------------------- MODULE PartialGeneration -------------------------
(***************************************************************************)
(* How one sample is generated across synchronizations when                *)
(* partial_rollout is on: the servers (vllm_rollout/vllm_async_server.py), *)
(* the agent loop that sends a request for each of the sample's rollout.n  *)
(* sequences and merges what interrupted requests bring back (agent_loop/),*)
(* and of the rollouter what drives them: the sample's task, and pause(),  *)
(* update_param_version() and resume().                                    *)
(*                                                                         *)
(* Rollouter takes from here that a request at a paused server comes back  *)
(* at once and that one under way is interrupted; this module shows why.   *)
(*                                                                         *)
(* A token is the position it was generated for, the version of the        *)
(* weights that generated it, and whether it ends the generation; a log    *)
(* probability is written as the token it belongs to.                      *)
(***************************************************************************)
EXTENDS Integers, SequencesExt

CONSTANTS
  Copies,          \* the sample's sequences (rollout.n of them)
  Servers,         \* every server of every replica
  MaxTokens,       \* max_model_len less the prompt
  ResponseLength,  \* response_length, where a response is cut
  MaxSyncs         \* bound: synchronizations

ASSUME PartialGenerationAssumption ==
  /\ Copies # {} /\ Servers # {}
  /\ MaxTokens \in Nat \ {0}
  /\ ResponseLength \in 1..MaxTokens
  /\ MaxSyncs \in Nat

VARIABLES
  phase,        \* how far the synchronization is, "run" between two
  answered,     \* servers that have answered the call of this phase
  weights,      \* version of the weights on the servers
  version,      \* the rollouter's current_param_version
  paused,       \* self.paused of each server
  resetting,    \* servers in reset_prefix_cache, which keeps the lock
  task,         \* the sample: "queued", task "created", "active", or "done"
  label,        \* param_version in the sample's non_tensor_batch
  raced,        \* a task was created while a synchronization was under way
  request,      \* where the current request of each sequence is
  server,       \* the server it was sent to
  event,        \* its cancel_event is set
  req_output,   \* its req_output: the tokens so far, <<>> for None
  ended,        \* its generation_handle is done
  is_cancel,    \* the is_cancel of its generate_for_partial
  output        \* agent_loop_output_list, an entry for each sequence

syncVars   == <<phase, answered, weights, version>>
taskVars   == <<task, label, raced>>
serverVars == <<paused, resetting>>
requestVars == <<request, server, event, req_output, ended, is_cancel>>
vars == <<syncVars, taskVars, serverVars, requestVars, output>>

-----------------------------------------------------------------------------
\* The rollouter's side: the task of the sample.

\* The processor creates tasks while it is not paused.  That is between two
\* synchronizations, and also between two of its calls when the monitor has
\* undone the pause (FullyAsync!QuietTransfer): the lock is free then.
CreateTask ==
  /\ task = "queued"
  /\ phase \in {"run", "transfer", "loaded", "updated"}
  /\ task' = "created"
  /\ raced' = (raced \/ phase # "run")
  /\ UNCHANGED <<syncVars, label, serverVars, requestVars, output>>

\* Mutant: every sequence is sent again.
Everything(r) == TRUE

\* What goes out: a request for every sequence that is not complete yet.
Unfinished(r) == output[r].is_cancel

\* The task starts: it labels the sample and sends it to an agent loop worker.
StartTask ==
  /\ task = "created"
  /\ task' = "active"
  /\ label' = version
  /\ request' = [r \in Copies |-> IF Unfinished(r) THEN "sent" ELSE "none"]
  /\ UNCHANGED <<syncVars, raced, serverVars, server, event, req_output, ended,
                 is_cancel, output>>

\* All requests are back: interrupted samples are submitted again.
EndTask ==
  /\ task = "active"
  /\ \A r \in Copies : request[r] = "none"
  /\ task' = IF \E r \in Copies : output[r].is_cancel THEN "queued" ELSE "done"
  /\ UNCHANGED <<syncVars, label, raced, serverVars, requestVars, output>>

-----------------------------------------------------------------------------
\* A request.  self.lock is kept over a suspension by reset_prefix_cache only;
\* in which order those that wait for it get it then makes no difference here.
LockFree(v) == v \notin resetting

\* Mutants: the paused flag is not looked at; the prompt is sent without the
\* response so far; the limit is that of a first request; a resumed sequence
\* gets a new start version.
NeverRefused(v) == FALSE
PromptOnly(r) == <<>>
FullBudget(r) == MaxTokens
Relabelled(r) == label

Refused(v) == paused[v]

\* The response so far, cut at response_length.
Cut(tokens) ==
  IF Len(tokens) <= ResponseLength THEN tokens
  ELSE SubSeq(tokens, 1, ResponseLength)

\* What a request's prompt_ids hold behind the prompt.
Context(r) == output[r].tokens

\* max_tokens = max_model_len - len(prompt_ids)
Budget(r) == MaxTokens - Len(Context(r))

StartVersion(r) == IF output[r].start = -1 THEN label ELSE output[r].start

\* The agent loop merges what came back with what was there.
Merged(r, new, cancelled) ==
  [tokens    |-> Cut(output[r].tokens \o new),
   logps     |-> output[r].logps \o new,
   is_cancel |-> cancelled,
   start     |-> StartVersion(r),
   end       |-> label]

\* generate_for_partial begins: a paused server returns ([], [], True).
Arrive(r, v) ==
  /\ request[r] = "sent"
  /\ LockFree(v)
  /\ \/ /\ Refused(v)
        /\ request' = [request EXCEPT ![r] = "none"]
        /\ output' = [output EXCEPT ![r] = Merged(r, <<>>, TRUE)]
        /\ UNCHANGED <<server, event, req_output, ended, is_cancel>>
     \/ /\ ~Refused(v)
        /\ request' = [request EXCEPT ![r] = "running"]
        /\ server' = [server EXCEPT ![r] = v]
        /\ UNCHANGED <<event, req_output, ended, is_cancel, output>>
  /\ UNCHANGED <<syncVars, taskVars, serverVars>>

\* The engine yields one more token: the last one at the latest when
\* max_tokens is reached, and earlier when it is an end-of-sequence.
Generate(r) ==
  /\ request[r] = "running" /\ ~ended[r]
  /\ LET n == Len(req_output[r]) + 1
     IN  \E last \in IF n = Budget(r) THEN {TRUE} ELSE BOOLEAN :
           /\ req_output' = [req_output EXCEPT ![r] =
                Append(@, [pos  |-> Len(Context(r)) + n,
                           ver  |-> weights,
                           last |-> last])]
           /\ ended' = [ended EXCEPT ![r] = last]
  /\ UNCHANGED <<syncVars, taskVars, serverVars, request, server, event,
                 is_cancel, output>>

\* Mutant: whoever is cancelled was interrupted.
EventSet(r) == event[r]

Interrupted(r) == ~ended[r]

\* asyncio.wait returns, and the generation that is not done is cancelled:
\* it yields nothing any more.
Wake(r) ==
  /\ request[r] = "running"
  /\ event[r] \/ ended[r]
  /\ is_cancel' = [is_cancel EXCEPT ![r] = Interrupted(r)]
  /\ request' = [request EXCEPT ![r] = "returning"]
  /\ UNCHANGED <<syncVars, taskVars, serverVars, server, event, req_output,
                 ended, output>>

\* The lock again, and the answer: without any token it is ([], [], True).
\* What was kept for the request goes (or, without any token, stays behind in
\* the two dictionaries under an id that is never used again).
Return(r) ==
  /\ request[r] = "returning"
  /\ LockFree(server[r])
  /\ output' = [output EXCEPT ![r] =
       Merged(r, req_output[r], req_output[r] = <<>> \/ is_cancel[r])]
  /\ request' = [request EXCEPT ![r] = "none"]
  /\ req_output' = [req_output EXCEPT ![r] = <<>>]
  /\ event' = [event EXCEPT ![r] = FALSE]
  /\ ended' = [ended EXCEPT ![r] = FALSE]
  /\ is_cancel' = [is_cancel EXCEPT ![r] = FALSE]
  /\ UNCHANGED <<syncVars, taskVars, serverVars, server>>

-----------------------------------------------------------------------------
\* The synchronization: each call goes to all servers and waits for them.
Answer(v, next) ==
  IF answered \cup {v} = Servers
  THEN phase' = next /\ answered' = {}
  ELSE answered' = answered \cup {v} /\ UNCHANGED phase

\* pause() has the rollouter's lock.
Pause ==
  /\ phase = "run"
  /\ version < MaxSyncs
  /\ phase' = "cancel"
  /\ UNCHANGED <<answered, weights, version, taskVars, serverVars, requestVars,
                 output>>

\* Mutant: the events are not set.
NoEvents(v) == event

\* cancel() sets the event of every request it knows.
EventsOf(v) ==
  [r \in Copies |-> event[r] \/ (request[r] \in {"running", "returning"}
                                 /\ server[r] = v)]

Cancel(v) ==
  /\ phase = "cancel" /\ v \notin answered
  /\ LockFree(v)
  /\ paused' = [paused EXCEPT ![v] = TRUE]
  /\ event' = EventsOf(v)
  /\ Answer(v, "gather")
  /\ UNCHANGED <<weights, version, taskVars, resetting, request, server,
                 req_output, ended, is_cancel, output>>

Gather ==
  /\ phase = "gather"
  /\ task \notin {"created", "active"}
  /\ phase' = "reset"
  /\ UNCHANGED <<answered, weights, version, taskVars, serverVars, requestVars,
                 output>>

ResetBegin(v) ==
  /\ phase = "reset" /\ v \notin answered
  /\ LockFree(v)
  /\ resetting' = resetting \cup {v}
  /\ UNCHANGED <<syncVars, taskVars, paused, requestVars, output>>

ResetEnd(v) ==
  /\ v \in resetting
  /\ resetting' = resetting \ {v}
  /\ Answer(v, "transfer")
  /\ UNCHANGED <<weights, version, taskVars, paused, requestVars, output>>

\* The weights are sent by the trainer, update_param_version announces them.
Transfer ==
  /\ phase = "transfer"
  /\ weights' = weights + 1
  /\ phase' = "loaded"
  /\ UNCHANGED <<answered, version, taskVars, serverVars, requestVars, output>>

UpdateParamVersion ==
  /\ phase = "loaded"
  /\ version' = weights
  /\ phase' = "updated"
  /\ UNCHANGED <<answered, weights, taskVars, serverVars, requestVars, output>>

\* resume() has the rollouter's lock.
ResumeBegin ==
  /\ phase = "updated"
  /\ phase' = "resume"
  /\ UNCHANGED <<answered, weights, version, taskVars, serverVars, requestVars,
                 output>>

Resume(v) ==
  /\ phase = "resume" /\ v \notin answered
  /\ LockFree(v)
  /\ paused' = [paused EXCEPT ![v] = FALSE]
  /\ Answer(v, "run")
  /\ UNCHANGED <<weights, version, taskVars, resetting, requestVars, output>>

-----------------------------------------------------------------------------
Init ==
  /\ phase = "run" /\ answered = {}
  /\ weights = 0 /\ version = 0
  /\ paused = [v \in Servers |-> FALSE] /\ resetting = {}
  /\ task = "queued" /\ label = 0 /\ raced = FALSE
  /\ request = [r \in Copies |-> "none"]
  /\ server \in [Copies -> {CHOOSE v \in Servers : TRUE}]
  /\ event = [r \in Copies |-> FALSE]
  /\ req_output = [r \in Copies |-> <<>>]
  /\ ended = [r \in Copies |-> FALSE]
  /\ is_cancel = [r \in Copies |-> FALSE]
  /\ output = [r \in Copies |-> [tokens |-> <<>>, logps |-> <<>>,
                                 is_cancel |-> TRUE, start |-> -1, end |-> -1]]

Task == CreateTask \/ StartTask \/ EndTask
Requests ==
  \E r \in Copies : (\E v \in Servers : Arrive(r, v)) \/ Wake(r) \/ Return(r)
Engine == \E r \in Copies : Generate(r)
Calls ==
  \/ Gather \/ Transfer \/ UpdateParamVersion \/ ResumeBegin
  \/ \E v \in Servers : Cancel(v) \/ ResetBegin(v) \/ ResetEnd(v) \/ Resume(v)

Next == Task \/ Requests \/ Engine \/ Pause \/ Calls

\* Requests are delivered and the event loops run, and the task, once it
\* exists, with them.  Nothing is assumed of the engine: a generation may take
\* for ever, and the trainer need not synchronize.
Spec ==
  /\ Init /\ [][Next]_vars
  /\ WF_vars(StartTask) /\ WF_vars(EndTask)
  /\ \A r \in Copies : /\ WF_vars(\E v \in Servers : Arrive(r, v))
                       /\ WF_vars(Wake(r)) /\ WF_vars(Return(r))
  /\ WF_vars(Calls)

-----------------------------------------------------------------------------
Versions == 0..MaxSyncs
Tokens == [pos : 1..MaxTokens, ver : Versions, last : BOOLEAN]

TypeOK ==
  /\ phase \in {"run", "cancel", "gather", "reset", "transfer", "loaded",
                "updated", "resume"}
  /\ answered \subseteq Servers /\ answered # Servers
  /\ weights \in Versions /\ version \in Versions
  /\ paused \in [Servers -> BOOLEAN] /\ resetting \subseteq Servers
  /\ task \in {"queued", "created", "active", "done"}
  /\ label \in Versions /\ raced \in BOOLEAN
  /\ request \in [Copies -> {"none", "sent", "running", "returning"}]
  /\ server \in [Copies -> Servers]
  /\ event \in [Copies -> BOOLEAN] /\ ended \in [Copies -> BOOLEAN]
  /\ is_cancel \in [Copies -> BOOLEAN]
  /\ req_output \in [Copies -> Seq(Tokens)]
  /\ output \in [Copies -> [tokens : Seq(Tokens), logps : Seq(Tokens),
                            is_cancel : BOOLEAN, start : Versions \cup {-1},
                            end : Versions \cup {-1}]]

(***************************************************************************)
(* Over any number of interruptions nothing is lost, repeated or misplaced *)
(* when partial_single_turn_agent_loop.py puts a sequence together: its    *)
(* i-th token is the one generated for position i, and the i-th log        *)
(* probability is that of this token, although only the tokens are cut at  *)
(* response_length.                                                        *)
(***************************************************************************)
Seamless ==
  \A r \in Copies : \A i \in 1..Len(output[r].tokens) :
    /\ output[r].tokens[i].pos = i
    /\ i <= Len(output[r].logps) /\ output[r].logps[i] = output[r].tokens[i]

(***************************************************************************)
(* A sequence is complete exactly when its generation has ended: one that  *)
(* ends in the moment in which cancel() reaches it is not submitted again, *)
(* one that is interrupted is not trained on as it is.                     *)
(***************************************************************************)
CompleteWhenEnded ==
  \A r \in Copies : LET l == output[r].logps IN
    /\ output[r].is_cancel <=> (l = <<>> \/ ~Last(l).last)
    /\ \A i \in 1..(Len(l) - 1) : ~l[i].last

(***************************************************************************)
(* param_version_start and param_version_end ("Indicate start / end        *)
(* parameter version when this response is generated", agent_loop.py:63)   *)
(* bracket the versions of the tokens.  A task that the monitor's race     *)
(* lets in during a synchronization is labelled with a version that may be *)
(* replaced before its requests arrive: there only the start is right.     *)
(***************************************************************************)
LabelsBracket ==
  \A r \in Copies : \A i \in 1..Len(output[r].tokens) :
    /\ output[r].start <= output[r].tokens[i].ver
    /\ ~raced => output[r].tokens[i].ver <= output[r].end

(***************************************************************************)
(* No server generates while the weights are transferred, whenever its     *)
(* requests were sent and on whichever server they arrive.                 *)
(***************************************************************************)
ServersQuiet ==
  phase = "transfer" => \A r \in Copies : request[r] # "running"

(***************************************************************************)
(* A response only grows at its end, and a complete one stays as it is     *)
(* while the sample's other sequences are generated on.                    *)
(***************************************************************************)
GrowsAtTheEnd ==
  [][\A r \in Copies :
       /\ IsPrefix(output[r].tokens, output'[r].tokens)
       /\ ~output[r].is_cancel => output'[r] = output[r]]_vars

(***************************************************************************)
(* A pause completes without waiting for any generation: requests under    *)
(* way are interrupted, those that arrive later are sent back, and neither *)
(* waits for a lock that the pause holds.                                  *)
(***************************************************************************)
PauseCompletes == phase = "cancel" ~> phase = "transfer"
=============================================================================
