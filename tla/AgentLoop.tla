------------------------------ MODULE AgentLoop -----------------------------
(***************************************************************************)
(* The agent loop workers of verl/experimental/agent_loop: each runs one   *)
(* conversation per row of its chunk, concurrently, and sends every turn   *)
(* of it to a server that its AsyncLLMServerManager chooses.  A            *)
(* conversation is single-turn, or it is the state machine of              *)
(* ToolAgentLoop, which talks to tools and, if interactive, to a simulated *)
(* user.                                                                   *)
(*                                                                         *)
(* A token is known by the server and the weights it comes from; the text  *)
(* of a prompt, of a tool or of a user by its length in tokens.            *)
(***************************************************************************)
EXTENDS Batches, FiniteSets

CONSTANTS
  Servers,            \* the rollout replicas
  NoServer,
  Configs,            \* what is configured, and the sizes of the batches
  MaxCacheSize,       \* max_cache_size of AsyncLLMServerManager
  PromptLength,       \* rollout.prompt_length
  PromptLen,          \* tokens of a prompt
  ResponseLength,     \* rollout.response_length
  MaxAssistantTurns,  \* rollout.multi_turn, 0 for null
  MaxUserTurns,
  MaxNew,             \* bound on the tokens of an answer of the LLM
  MaxObservation      \* bound on those of tools or user

ASSUME AgentLoopAssumption ==
  /\ Servers # {} /\ IsFiniteSet(Servers) /\ NoServer \notin Servers
  /\ Configs \subseteq [agent : {"single_turn_agent", "tool_agent"},
                        interactive : BOOLEAN,   \* interaction_config_file
                        workers : Nat \ {0},     \* rollout.agent.num_workers
                        prompts : Nat \ {0},     \* of a batch to train on
                        n : Nat \ {0},           \* rollout.n
                        tests : Nat \ {0}]       \* of a batch to validate on
  /\ \A k \in Configs : k.interactive => k.agent = "tool_agent"
  /\ {MaxCacheSize, PromptLength, PromptLen, ResponseLength, MaxNew,
      MaxObservation} \subseteq Nat \ {0}
  /\ {MaxAssistantTurns, MaxUserTurns} \subseteq Nat
  /\ PromptLen <= PromptLength

VARIABLES
  config,  \* one of Configs
  conv,    \* the conversations: of each worker, one per row of its chunk
  counts,  \* weighted_serveres: requests each worker has sent to each server
  cache    \* request_id_to_server of each worker, least recently used first

loopVars == <<config, conv, counts, cache>>

MaxModelLen == PromptLength + ResponseLength
Observation == [server |-> NoServer, version |-> -1]
IsLLM(token) == token.server # NoServer
Copies(x, k) == [i \in 1..k |-> x]
Upto(s, k) == SubSeq(s, 1, IF Len(s) < k THEN Len(s) ELSE k)
Smaller(a, b) == IF a < b THEN a ELSE b

\* AgentData at the start of run.
NewConv(prompt) ==
  [prompt |-> prompt,
   state |-> IF config.agent = "tool_agent" THEN "PENDING" ELSE "GENERATING",
   server |-> NoServer, tokens |-> <<>>, mask |-> <<>>, logprobs |-> <<>>,
   user_turns |-> 0, assistant_turns |-> 0]

\* AgentLoopOutput: what a conversation that has ended returns.
Output(c) ==
  [prompt |-> c.prompt,
   tokens |-> Upto(c.tokens, ResponseLength),
   mask |-> Upto(c.mask, ResponseLength),
   logprobs |-> Upto(c.logprobs, ResponseLength)]

\* _postprocess puts the score on the last of the tokens that are no padding.
ScoreAt(output) == Len(output.tokens)

-----------------------------------------------------------------------------
\* _choose_server.
Cached(w, id) == {i \in 1..Len(cache[w]) : cache[w][i].id = id}
LeastUsed(w) == {s \in Servers : \A t \in Servers : counts[w][s] <= counts[w][t]}
\* An entry that is read becomes the most recently used.
Refreshed(entries, i) ==
  SubSeq(entries, 1, i - 1) \o SubSeq(entries, i + 1, Len(entries)) \o <<entries[i]>>
\* Mutant: the cache has no bound.
RoomAlways(entries) == entries
Room(entries) ==
  IF Len(entries) >= MaxCacheSize THEN Tail(entries) ELSE entries

ChooseLeast(w, id, s) ==
  /\ s \in LeastUsed(w)
  /\ counts' = [counts EXCEPT ![w][s] = @ + 1]
  /\ cache' = [cache EXCEPT ![w] = Append(Room(@), [id |-> id, server |-> s])]

\* Mutant: every turn is a request of its own.
ChooseAnew(w, id, s) == ChooseLeast(w, id, s)
ChooseServer(w, id, s) ==
  \/ /\ \E i \in Cached(w, id) : /\ cache[w][i].server = s
                                /\ cache' = [cache EXCEPT ![w] = Refreshed(@, i)]
     /\ UNCHANGED counts
  \/ Cached(w, id) = {} /\ ChooseLeast(w, id, s)

-----------------------------------------------------------------------------
\* The handlers of ToolAgentLoop, each giving the conversation as it leaves it.

Raised(c) == [c EXCEPT !.state = "RAISED", !.server = NoServer]

AddTokens(c, token, k, bit, lps) ==
  [c EXCEPT !.tokens = @ \o Copies(token, k), !.mask = @ \o Copies(bit, k),
            !.logprobs = @ \o lps]

\* Logprobs that are absent stay so.
Observe(c, k) ==
  AddTokens(c, Observation, k, 0, IF c.logprobs = <<>> THEN <<>> ELSE Copies(0, k))

\* Mutants: what just fills the response is taken; so is anything.
FitsExactly(c, k) == Len(c.mask) + k <= ResponseLength
FitsAlways(c, k) == TRUE
Fits(c, k) == Len(c.mask) + k < ResponseLength

MaxTokens(c) == MaxModelLen - (PromptLen + Len(c.mask))

TurnsOver(c) ==
  \/ Len(c.mask) >= ResponseLength
  \/ MaxAssistantTurns > 0 /\ c.assistant_turns >= MaxAssistantTurns
  \/ MaxUserTurns > 0 /\ c.user_turns >= MaxUserTurns

\* The state after a generation, of which calls says whether it calls tools.
AfterGenerating(c, calls) ==
  IF config.agent = "single_turn_agent" \/ TurnsOver(c) THEN "TERMINATED"
  ELSE IF calls THEN "PROCESSING_TOOLS"
  ELSE IF config.interactive THEN "INTERACTING" ELSE "TERMINATED"

\* run of SingleTurnAgentLoop, _handle_generating_state.
Generated(c, version, k, calls) ==
  LET said == AddTokens([c EXCEPT !.assistant_turns = @ + 1, !.server = NoServer],
                        [server |-> c.server, version |-> version], k, 1, Copies(1, k))
  IN  [said EXCEPT !.state = AfterGenerating(said, calls)]

\* _handle_processing_tools_state; _call_tool answers whatever a tool does.
ToolsAnswered(c, k) ==
  IF Fits(c, k)
    THEN [Observe(c, k) EXCEPT !.user_turns = @ + 1, !.state = "GENERATING"]
    ELSE [c EXCEPT !.state = "TERMINATED"]

\* _handle_interacting_state, which looks at no length.
UserAnswered(c, k, should_terminate) ==
  [Observe(c, k) EXCEPT
     !.user_turns = @ + 1,
     !.state = IF should_terminate THEN "TERMINATED" ELSE "GENERATING"]

-----------------------------------------------------------------------------
\* The steps of conversation j of worker w.
Set(w, j, c) == conv' = [conv EXCEPT ![w][j] = c]

\* _handle_pending_state.
Prepare(w, j) ==
  /\ conv[w][j].state = "PENDING"
  /\ Set(w, j, [conv[w][j] EXCEPT !.state = "GENERATING"])
  /\ UNCHANGED <<config, counts, cache>>

\* AsyncLLMServerManager.generate, to the remote call.
Request(w, j, id) ==
  /\ conv[w][j].state = "GENERATING"
  /\ \E s \in Servers :
       /\ ChooseServer(w, id, s)
       /\ Set(w, j, [conv[w][j] EXCEPT !.state = "REQUESTED", !.server = s])
  /\ UNCHANGED config

\* generate of the server, which has these weights, and what becomes of its
\* answer.  SamplingParams raises if there are no tokens left to generate.
Respond(w, j, weights) ==
  LET c == conv[w][j]
  IN  /\ c.state = "REQUESTED"
      /\ \/ MaxTokens(c) <= 0 /\ Set(w, j, Raised(c))
         \/ \E k \in 1..Smaller(MaxNew, MaxTokens(c)), calls \in BOOLEAN :
              Set(w, j, Generated(c, weights[c.server], k, calls))
      /\ UNCHANGED <<config, counts, cache>>

UseTools(w, j) ==
  /\ conv[w][j].state = "PROCESSING_TOOLS"
  /\ \E k \in 1..MaxObservation : Set(w, j, ToolsAnswered(conv[w][j], k))
  /\ UNCHANGED <<config, counts, cache>>

\* generate_response of the interaction, which may raise.
Interact(w, j) ==
  /\ conv[w][j].state = "INTERACTING"
  /\ \/ \E k \in 1..MaxObservation, stop \in BOOLEAN :
          Set(w, j, UserAnswered(conv[w][j], k, stop))
     \/ Set(w, j, Raised(conv[w][j]))
  /\ UNCHANGED <<config, counts, cache>>

-----------------------------------------------------------------------------
LoopInit ==
  /\ config \in Configs
  /\ conv = <<>>
  /\ counts = [w \in 1..config.workers |-> [s \in Servers |-> 0]]
  /\ cache = [w \in 1..config.workers |-> <<>>]
=============================================================================
