---------------------------- MODULE AgentRollout ----------------------------
(***************************************************************************)
(* The rollouts of PPO with agent loops in the hybrid engine: fit() and    *)
(* _validate() of RayPPOTrainer hand a batch to AgentLoopManager, which    *)
(* wakes the servers up with the weights of the actor, has the workers     *)
(* (AgentLoop) run the conversations, puts the servers to sleep and        *)
(* returns the answers; the trainer joins them to the rows it asked for    *)
(* and updates the actor.                                                  *)
(***************************************************************************)
EXTENDS AgentLoop

CONSTANTS
  Plan,             \* the batches, each "train" or "validate"
  FreeCacheEngine   \* rollout.free_cache_engine

ASSUME AgentRolloutAssumption ==
  /\ Plan \in Seq({"train", "validate"}) /\ Plan # <<>> /\ FreeCacheEngine \in BOOLEAN

VARIABLES
  phase,    \* where generate_sequences of the manager is, or how the run ended
  step,     \* the batch of Plan
  updates,  \* the updates of the actor
  awake,    \* the servers in rollout mode
  weights,  \* the updates that are in the weights of each server
  results   \* the output of the manager

vars == <<loopVars, phase, step, updates, awake, weights, results>>

Dummy == -1  \* load_format of a hybrid engine
Workers == 1..config.workers
Ids(k) == [i \in 1..k |-> i]

\* The rows of the batch of the trainer, and what it has the manager generate.
Rows(kind) ==
  IF kind = "train" THEN Repeat(Ids(config.prompts), config.n) ELSE Ids(config.tests)
\* Mutant: the copies of the rows for generation are not interleaved.
GenRowsStacked(kind) ==
  IF kind = "train" THEN Stacked(Ids(config.prompts), config.n)
  ELSE Pad(Ids(config.tests), config.workers)
GenRows(kind) ==
  IF kind = "train" THEN Repeat(Ids(config.prompts), config.n)
  ELSE Pad(Ids(config.tests), config.workers)

\* What the trainer joins to its rows.
Joined(kind) ==
  IF kind = "train" THEN results
  ELSE Unpad(results, PadSize(Ids(config.tests), config.workers))

\* __init__ of the manager puts the servers to sleep.
Init ==
  /\ LoopInit
  /\ phase = "waking" /\ step = 1 /\ updates = 0
  /\ awake = (IF FreeCacheEngine THEN {} ELSE Servers)
  /\ weights = [s \in Servers |-> Dummy] /\ results = <<>>

-----------------------------------------------------------------------------
\* wake_up of a replica: its workers enter rollout_mode.
\* Mutant: it resumes the engine and syncs no weights.
WakeUnsynced(s) ==
  /\ phase = "waking" /\ s \notin awake
  /\ awake' = awake \union {s}
  /\ UNCHANGED <<loopVars, phase, step, updates, weights, results>>
WakeUp(s) ==
  /\ phase = "waking" /\ s \notin awake
  /\ awake' = awake \union {s}
  /\ weights' = [weights EXCEPT ![s] = updates]
  /\ UNCHANGED <<loopVars, phase, step, updates, results>>

\* chunk, and a worker for each part.
Dispatch ==
  /\ phase = "waking" /\ awake = Servers
  /\ LET batch == GenRows(Plan[step])
         chunks == Chunk(batch, config.workers)
     IN  IF Divides(config.workers, batch)
           THEN /\ phase' = "running"
                /\ conv' = [w \in Workers |->
                              [j \in DOMAIN chunks[w] |-> NewConv(chunks[w][j])]]
           ELSE phase' = "raised" /\ UNCHANGED conv
  /\ UNCHANGED <<config, counts, cache, step, updates, awake, weights, results>>

Converse(w, j) ==
  /\ phase = "running"
  /\ \/ Prepare(w, j) \/ Request(w, j, <<step, w, j>>) \/ Respond(w, j, weights)
     \/ UseTools(w, j) \/ Interact(w, j)
  /\ UNCHANGED <<phase, step, updates, awake, weights, results>>

\* gather of every worker, ray.get, concat.
Gather ==
  /\ phase = "running"
  /\ \A w \in DOMAIN conv : \A j \in DOMAIN conv[w] : conv[w][j].state = "TERMINATED"
  /\ results' = Concat([w \in Workers |->
                          [j \in DOMAIN conv[w] |-> Output(conv[w][j])]], config.workers)
  /\ conv' = <<>>
  /\ phase' = IF FreeCacheEngine THEN "sleeping" ELSE "returned"
  /\ UNCHANGED <<config, counts, cache, step, updates, awake, weights>>

\* A conversation that raises fails the gather of its worker, and ray.get.
Fail ==
  /\ phase = "running"
  /\ \E w \in DOMAIN conv : \E j \in DOMAIN conv[w] : conv[w][j].state = "RAISED"
  /\ phase' = "raised"
  /\ UNCHANGED <<loopVars, step, updates, awake, weights, results>>

\* sleep of a replica: its workers enter trainer_mode.
Sleep(s) ==
  /\ phase = "sleeping" /\ s \in awake
  /\ awake' = awake \ {s}
  /\ phase' = IF awake = {s} THEN "returned" ELSE "sleeping"
  /\ UNCHANGED <<loopVars, step, updates, weights, results>>

\* fit() or _validate() goes on to its next batch.
Consume ==
  /\ phase = "returned"
  /\ updates' = IF Plan[step] = "train" THEN updates + 1 ELSE updates
  /\ results' = <<>>
  /\ step' = step + 1
  /\ phase' = IF step = Len(Plan) THEN "done" ELSE "waking"
  /\ UNCHANGED <<loopVars, awake, weights>>

Next ==
  \/ \E s \in Servers : WakeUp(s) \/ Sleep(s)
  \/ Dispatch \/ Gather \/ Fail \/ Consume
  \/ \E w \in DOMAIN conv : \E j \in DOMAIN conv[w] : Converse(w, j)

Spec == Init /\ [][Next]_vars

\* Every server and every conversation goes on; none of them can turn in
\* circles, for a turn makes the conversation longer.
FairSpec == Spec /\ WF_vars(Next)
-----------------------------------------------------------------------------
\* The outputs there are: of the conversations that have ended, and of the
\* manager.
Conversations == UNION {{conv[w][j] : j \in DOMAIN conv[w]} : w \in DOMAIN conv}
Ended == {c \in Conversations : c.state = "TERMINATED"}
Outputs == {Output(c) : c \in Ended} \union {results[i] : i \in DOMAIN results}

Versions == Dummy..Len(Plan)
Tokens == [server : Servers, version : Versions] \union {Observation}
Conversation ==
  [prompt : Nat,
   state : {"PENDING", "GENERATING", "REQUESTED", "PROCESSING_TOOLS",
            "INTERACTING", "TERMINATED", "RAISED"},
   server : Servers \union {NoServer}, tokens : Seq(Tokens), mask : Seq({0, 1}),
   logprobs : Seq({0, 1}), user_turns : Nat, assistant_turns : Nat]

\* The types of the variables.  A server is chosen by the conversation that
\* waits for it and by no other.
TypeOK ==
  /\ config \in Configs
  /\ conv \in Seq(Seq(Conversation)) /\ Len(conv) \in {0, config.workers}
  /\ counts \in [Workers -> [Servers -> Nat]]
  /\ \A w \in Workers : /\ Len(cache[w]) <= MaxCacheSize
                        /\ \A i \in DOMAIN cache[w] : cache[w][i].server \in Servers
  /\ phase \in {"waking", "running", "sleeping", "returned", "done", "raised"}
  /\ (phase = "running") => (Len(conv) = config.workers /\ awake = Servers)
  /\ step \in 1..(Len(Plan) + 1) /\ updates \in 0..Len(Plan)
  /\ awake \subseteq Servers /\ weights \in [Servers -> Versions]
  /\ \A c \in Conversations : (c.server # NoServer) <=> (c.state = "REQUESTED")

\* Through repeat, padding, chunk, the gathers, concat and unpadding, what the
\* trainer joins to a row is the answer to the prompt of that row, and there
\* is one for each.
RowsAligned ==
  (phase = "returned") =>
     LET rows == Rows(Plan[step])
         joined == Joined(Plan[step])
     IN  /\ Len(joined) = Len(rows)
         /\ \A i \in DOMAIN rows : joined[i].prompt = rows[i]

\* Whatever a conversation is given to train on was sampled with the weights
\* that the actor has when it is trained on, and no server answers asleep.
OnPolicyRollout ==
  /\ \A o \in Outputs : \A i \in DOMAIN o.tokens :
        IsLLM(o.tokens[i]) => o.tokens[i].version = updates
  /\ \A c \in Conversations :
        c.state = "REQUESTED" => c.server \in awake /\ weights[c.server] = updates

\* The response mask says which tokens of an output the LLM has sampled, the
\* logprobs are theirs, the output has its length, and, unless a user takes
\* part, the token the score is put on is one of them: the advantage is
\* computed over these tokens only.
WellScored(o) ==
  /\ Len(o.mask) = Len(o.tokens) /\ Len(o.logprobs) = Len(o.tokens)
  /\ Len(o.tokens) \in 1..ResponseLength
  /\ \A i \in DOMAIN o.tokens :
        LET bit == IF IsLLM(o.tokens[i]) THEN 1 ELSE 0
        IN  o.mask[i] = bit /\ o.logprobs[i] = bit
  /\ config.interactive \/ o.mask[ScoreAt(o)] = 1
ScoredOnAction == \A o \in Outputs : WellScored(o)

\* A conversation has all its turns on one server, whose prefix cache holds
\* it, and it counts as one request there.
SessionsStick ==
  /\ \A c \in Conversations : \A i, k \in DOMAIN c.tokens :
        IsLLM(c.tokens[i]) /\ IsLLM(c.tokens[k]) => c.tokens[i].server = c.tokens[k].server
  /\ \A w \in Workers : \A s, t \in Servers : counts[w][s] <= counts[w][t] + 1

\* Every batch comes back and the run ends, but for batches that are not equal
\* parts for the workers, and for users: an interaction may raise, and what it
\* says may leave no tokens for the LLM to answer.  Tools alone never do.
Uneven == \E i \in DOMAIN Plan : ~Divides(config.workers, GenRows(Plan[i]))
Completes ==
  <>(phase = "done" \/ (phase = "raised" /\ (config.interactive \/ Uneven)))
=============================================================================
