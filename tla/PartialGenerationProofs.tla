----------------------- MODULE PartialGenerationProofs ----------------------
(***************************************************************************)
(* Theorems about PartialGeneration, for any number of sequences and       *)
(* servers and any lengths and number of synchronizations.                 *)
(*                                                                         *)
(* The properties rest on two inductive invariants: Coordination, how the  *)
(* phases of a synchronization, the servers and the requests go together,  *)
(* and Assembly, what is in the requests and in the merged outputs, which  *)
(* needs Coordination where the version of a new token is concerned.       *)
(***************************************************************************)
EXTENDS PartialGeneration, SequenceTheorems, TLAPS

-----------------------------------------------------------------------------
\* Types without bounds: what the other invariants start from.
Token == [pos : Nat, ver : Nat, last : BOOLEAN]

Output == [tokens : Seq(Token), logps : Seq(Token), is_cancel : BOOLEAN,
           start : Int, end : Int]

Phases == {"run", "cancel", "gather", "reset", "transfer", "loaded",
           "updated", "resume"}

Types ==
  /\ phase \in Phases /\ answered \subseteq Servers
  /\ weights \in Nat /\ version \in Nat
  /\ paused \in [Servers -> BOOLEAN] /\ resetting \subseteq Servers
  /\ task \in {"queued", "created", "active", "done"}
  /\ label \in Nat /\ raced \in BOOLEAN
  /\ request \in [Copies -> {"none", "sent", "running", "returning"}]
  /\ server \in [Copies -> Servers]
  /\ event \in [Copies -> BOOLEAN] /\ ended \in [Copies -> BOOLEAN]
  /\ is_cancel \in [Copies -> BOOLEAN]
  /\ req_output \in [Copies -> Seq(Token)]
  /\ output \in [Copies -> Output]

\* Calls of a synchronization are answered phase by phase; servers stay paused
\* from the gather to the resume; and as pause() waits for the tasks, nothing
\* runs on the servers from then until they are resumed.
Coordination ==
  /\ answered # Servers
  /\ phase \notin {"cancel", "reset", "resume"} => answered = {}
  /\ resetting # {} => phase = "reset"
  /\ resetting \cap answered = {}
  /\ phase = "cancel" => \A v \in answered : paused[v]
  /\ phase \in {"gather", "reset", "transfer", "loaded", "updated"} =>
       \A v \in Servers : paused[v]
  /\ task # "active" => \A r \in Copies : request[r] = "none"
  /\ phase \in {"reset", "transfer", "loaded", "updated"} =>
       \A r \in Copies : request[r] \in {"none", "sent"}
  /\ ~raced /\ phase \notin {"run", "cancel", "gather"} =>
       task \notin {"created", "active"}
  /\ weights = IF phase = "loaded" THEN version + 1 ELSE version
  /\ weights <= MaxSyncs
  /\ phase \in {"cancel", "gather", "reset", "transfer"} => version < MaxSyncs
  /\ label <= version
  /\ ~raced /\ task = "active" => label = version

\* A request under way is for a sequence that is not complete, and what it has
\* generated continues the sequence, with weights not older than its label.
RequestFits(r) ==
  /\ request[r] \in {"none", "sent"} => req_output[r] = <<>> /\ ~ended[r]
  /\ request[r] # "none" => output[r].is_cancel
  /\ request[r] = "returning" => is_cancel[r] = ~ended[r]
  /\ ended[r] => req_output[r] # <<>>
  /\ Len(output[r].tokens) + Len(req_output[r]) <= MaxTokens
  /\ request[r] # "none" /\ ~ended[r] =>
       Len(output[r].tokens) + Len(req_output[r]) < MaxTokens
  /\ \A i \in 1..Len(req_output[r]) :
       /\ req_output[r][i].pos = Len(output[r].tokens) + i
       /\ label <= req_output[r][i].ver /\ req_output[r][i].ver <= weights
       /\ ~raced => req_output[r][i].ver <= label
       /\ req_output[r][i].last <=> (i = Len(req_output[r]) /\ ended[r])

\* A merged output is its log probabilities, cut at response_length.
OutputFits(r) ==
  LET o == output[r] IN
  /\ Len(o.tokens) <= ResponseLength
  /\ Len(o.tokens) <= Len(o.logps)
  /\ Len(o.tokens) < ResponseLength => Len(o.tokens) = Len(o.logps)
  /\ o.is_cancel => Len(o.tokens) < MaxTokens
  /\ ~o.is_cancel => o.logps # <<>>
  /\ o.start = -1 => o.logps = <<>>
  /\ -1 <= o.start /\ o.start <= label /\ -1 <= o.end /\ o.end <= label
  /\ \A i \in 1..Len(o.tokens) : o.tokens[i].pos = i /\ o.logps[i] = o.tokens[i]
  /\ \A i \in 1..Len(o.logps) :
       /\ o.start <= o.logps[i].ver /\ o.logps[i].ver <= weights
       /\ ~raced => o.logps[i].ver <= o.end
       /\ o.logps[i].last <=> (i = Len(o.logps) /\ ~o.is_cancel)

Assembly == \A r \in Copies : RequestFits(r) /\ OutputFits(r)

-----------------------------------------------------------------------------
\* What is assumed of the constants, in the form the proofs use.
LEMMA Constants ==
  /\ MaxTokens \in Nat \ {0}
  /\ ResponseLength \in Nat /\ 1 <= ResponseLength /\ ResponseLength <= MaxTokens
  /\ MaxSyncs \in Nat
  /\ Servers # {}
  BY PartialGenerationAssumption

\* What cutting a response keeps.
LEMMA CutProperties ==
  ASSUME NEW s \in Seq(Token)
  PROVE  /\ Cut(s) \in Seq(Token)
         /\ Len(Cut(s)) = IF Len(s) <= ResponseLength THEN Len(s)
                                                      ELSE ResponseLength
         /\ \A i \in 1..Len(Cut(s)) : Cut(s)[i] = s[i]
<1>0. Len(s) \in Nat
  BY LenProperties
<1>1. CASE Len(s) <= ResponseLength
  BY <1>1 DEF Cut
<1>2. CASE ~(Len(s) <= ResponseLength)
  <2>1. Cut(s) = SubSeq(s, 1, ResponseLength)
    BY <1>2 DEF Cut
  <2>2. \A i \in 1..ResponseLength : s[i] \in Token
    BY <1>0, <1>2, Constants, ElementOfSeq
  <2>3. /\ SubSeq(s, 1, ResponseLength) \in Seq(Token)
        /\ Len(SubSeq(s, 1, ResponseLength)) =
             IF 1 <= ResponseLength THEN ResponseLength - 1 + 1 ELSE 0
        /\ \A i \in 1..(ResponseLength - 1 + 1) :
             SubSeq(s, 1, ResponseLength)[i] = s[1 + i - 1]
    BY <2>2, Constants, SubSeqProperties
  <2> QED
    BY <2>1, <2>3, <1>2, Constants
<1> QED
  BY <1>1, <1>2

\* What merging new tokens yields, field by field.
LEMMA MergedProperties ==
  ASSUME Types, NEW r \in Copies, NEW new \in Seq(Token), NEW c \in BOOLEAN
  PROVE  /\ Merged(r, new, c) \in Output
         /\ Merged(r, new, c).tokens = Cut(output[r].tokens \o new)
         /\ Merged(r, new, c).logps = output[r].logps \o new
         /\ Merged(r, new, c).is_cancel = c
         /\ Merged(r, new, c).start = StartVersion(r)
         /\ Merged(r, new, c).end = label
<1>1. /\ output[r] \in Output /\ label \in Nat
  BY DEF Types
<1>2. /\ output[r].tokens \in Seq(Token) /\ output[r].logps \in Seq(Token)
      /\ output[r].start \in Int
  BY <1>1 DEF Output
<1>3. /\ output[r].tokens \o new \in Seq(Token)
      /\ output[r].logps \o new \in Seq(Token)
  BY <1>2, ConcatProperties
<1>4. Cut(output[r].tokens \o new) \in Seq(Token)
  BY <1>3, CutProperties
<1>5. StartVersion(r) \in Int
  BY <1>1, <1>2 DEF StartVersion
<1> QED
  BY <1>1, <1>3, <1>4, <1>5 DEF Merged, Output

-----------------------------------------------------------------------------
\* The initial values have their types.
LEMMA TypesInit == Init => Types
<1> SUFFICES ASSUME Init PROVE Types
  OBVIOUS
<1>1. <<>> \in Seq(Token)
  BY EmptySeq
<1>2. (CHOOSE v \in Servers : TRUE) \in Servers
  BY Constants
<1> DEFINE none == [tokens |-> <<>>, logps |-> <<>>, is_cancel |-> TRUE,
                    start |-> -1, end |-> -1]
<1>3. none \in Output
  BY <1>1 DEF Output
<1>4. output = [r \in Copies |-> none]
  BY DEF Init
<1>5. output \in [Copies -> Output]
  <2> HIDE DEF none
  <2> QED BY <1>3, <1>4
<1>6. server \in [Copies -> Servers]
  BY <1>2 DEF Init
<1>7. req_output \in [Copies -> Seq(Token)]
  BY <1>1 DEF Init
<1> QED
  BY <1>5, <1>6, <1>7 DEF Init, Types, Phases

\* A request that arrives, refused or not.
LEMMA TypesArrive ==
  ASSUME Types, NEW r \in Copies, NEW v \in Servers, Arrive(r, v)
  PROVE  Types'
<1>1. CASE Refused(v)
  <2>1. Merged(r, <<>>, TRUE) \in Output
    BY MergedProperties, EmptySeq
  <2> QED
    BY <1>1, <2>1 DEF Types, Arrive, syncVars, taskVars, serverVars
<1>2. CASE ~Refused(v)
  BY <1>2 DEF Types, Arrive, syncVars, taskVars, serverVars
<1> QED
  BY <1>1, <1>2

\* One token more.
LEMMA GenerateProperties ==
  ASSUME Types, NEW r \in Copies, Generate(r)
  PROVE  \E t \in Token :
           /\ t.pos = Len(output[r].tokens) + Len(req_output[r]) + 1
           /\ t.ver = weights
           /\ t.last = ended'[r]
           /\ Len(req_output[r]) + 1 = Budget(r) => t.last
           /\ req_output' = [req_output EXCEPT ![r] = Append(@, t)]
           /\ ended' = [ended EXCEPT ![r] = t.last]
<1>0. Len(output[r].tokens) \in Nat /\ Len(req_output[r]) \in Nat
  BY LenProperties DEF Types, Output
<1>1. weights \in Nat /\ ended \in [Copies -> BOOLEAN]
  BY DEF Types
<1> DEFINE n == Len(req_output[r]) + 1
           tok(l) == [pos |-> Len(Context(r)) + n, ver |-> weights, last |-> l]
<1>4. /\ Len(Context(r)) + n \in Nat
      /\ Len(Context(r)) + n = Len(output[r].tokens) + Len(req_output[r]) + 1
  <2>1. \A a, b \in Nat : a + (b + 1) \in Nat /\ a + (b + 1) = a + b + 1
    OBVIOUS
  <2> QED
    BY <1>0, <2>1 DEF Context
<1>2. PICK l \in IF n = Budget(r) THEN {TRUE} ELSE BOOLEAN :
        /\ req_output' = [req_output EXCEPT ![r] = Append(@, tok(l))]
        /\ ended' = [ended EXCEPT ![r] = l]
  BY DEF Generate
<1>3. /\ l \in BOOLEAN /\ (n = Budget(r) => l)
  BY <1>2
<1>5. /\ tok(l).pos = Len(Context(r)) + n
      /\ tok(l).ver = weights /\ tok(l).last = l
  BY Zenon
<1>7. tok(l) \in Token
  <2> HIDE DEF n
  <2> QED BY <1>1, <1>3, <1>4, Zenon DEF Token
<1>6. ended'[r] = l
  BY <1>1, <1>2
<1> QED
  BY <1>2, <1>3, <1>4, <1>5, <1>6, <1>7

\* A token more.
LEMMA TypesGenerate ==
  ASSUME Types, NEW r \in Copies, Generate(r)
  PROVE  Types'
<1>1. PICK t \in Token :
        /\ req_output' = [req_output EXCEPT ![r] = Append(@, t)]
        /\ ended' = [ended EXCEPT ![r] = t.last]
  BY GenerateProperties
<1>2. t.last \in BOOLEAN
  BY DEF Token
<1>3. req_output' \in [Copies -> Seq(Token)]
  BY <1>1 DEF Types
<1>4. ended' \in [Copies -> BOOLEAN]
  BY <1>1, <1>2 DEF Types
<1> QED
  BY <1>3, <1>4 DEF Types, Generate, syncVars, taskVars, serverVars

\* The generation is over or interrupted.
LEMMA TypesWake ==
  ASSUME Types, NEW r \in Copies, Wake(r)
  PROVE  Types'
BY DEF Types, Wake, Interrupted, syncVars, taskVars, serverVars

\* What comes back is merged into an output.
LEMMA TypesReturn ==
  ASSUME Types, NEW r \in Copies, Return(r)
  PROVE  Types'
<1>1. req_output[r] \in Seq(Token) /\ is_cancel[r] \in BOOLEAN
  BY DEF Types
<1>2. (req_output[r] = <<>> \/ is_cancel[r]) \in BOOLEAN
  OBVIOUS
<1>3. Merged(r, req_output[r], req_output[r] = <<>> \/ is_cancel[r]) \in Output
  BY <1>1, <1>2, MergedProperties
<1>4. output' \in [Copies -> Output]
  BY <1>3 DEF Types, Return
<1>5. <<>> \in Seq(Token)
  BY EmptySeq
<1> QED
  BY <1>4, <1>5 DEF Types, Return, syncVars, taskVars, serverVars

\* The steps of the sample's task.
LEMMA TypesTask ==
  ASSUME Types, Task
  PROVE  Types'
<1>1. CASE CreateTask
  BY <1>1 DEF Types, CreateTask, syncVars, serverVars, requestVars
<1>2. CASE StartTask
  BY <1>2 DEF Types, StartTask, syncVars, serverVars
<1>3. CASE EndTask
  BY <1>3 DEF Types, EndTask, syncVars, serverVars, requestVars
<1> QED
  BY <1>1, <1>2, <1>3 DEF Task

\* The steps of a synchronization.
LEMMA TypesCalls ==
  ASSUME Types, Pause \/ Calls
  PROVE  Types'
<1> USE DEF Types, Phases, taskVars, serverVars, requestVars, syncVars
<1>1. CASE Pause
  BY <1>1 DEF Pause
<1>2. CASE Gather
  BY <1>2 DEF Gather
<1>3. CASE Transfer
  BY <1>3 DEF Transfer
<1>4. CASE UpdateParamVersion
  BY <1>4 DEF UpdateParamVersion
<1>5. CASE ResumeBegin
  BY <1>5 DEF ResumeBegin
<1>6. ASSUME NEW v \in Servers, Cancel(v) PROVE Types'
  BY <1>6 DEF Cancel, Answer, EventsOf
<1>7. ASSUME NEW v \in Servers, ResetBegin(v) PROVE Types'
  BY <1>7 DEF ResetBegin
<1>8. ASSUME NEW v \in Servers, ResetEnd(v) PROVE Types'
  BY <1>8 DEF ResetEnd, Answer
<1>9. ASSUME NEW v \in Servers, Resume(v) PROVE Types'
  BY <1>9 DEF Resume, Answer
<1> QED
  BY <1>1, <1>2, <1>3, <1>4, <1>5, <1>6, <1>7, <1>8, <1>9 DEF Calls

\* The variables keep their types.
THEOREM TypesInvariant == Spec => []Types
<1>1. Types /\ [Next]_vars => Types'
  <2> SUFFICES ASSUME Types, [Next]_vars PROVE Types'
    OBVIOUS
  <2>1. CASE Task
    BY <2>1, TypesTask
  <2>2. CASE Requests
    BY <2>2, TypesArrive, TypesWake, TypesReturn DEF Requests
  <2>3. CASE Engine
    BY <2>3, TypesGenerate DEF Engine
  <2>4. CASE Pause \/ Calls
    BY <2>4, TypesCalls
  <2>5. CASE UNCHANGED vars
    BY <2>5 DEF Types, vars, syncVars, taskVars, serverVars, requestVars
  <2> QED
    BY <2>1, <2>2, <2>3, <2>4, <2>5 DEF Next
<1> QED
  BY <1>1, TypesInit, PTL DEF Spec

-----------------------------------------------------------------------------
\* Between two synchronizations nothing is paused or answered.
LEMMA CoordinationInit == Init => Coordination
  BY Constants DEF Init, Coordination

\* The task is created and labelled.
LEMMA CoordinationTask ==
  ASSUME Types, Coordination, Task
  PROVE  Coordination'
<1> USE DEF Types, Coordination, syncVars, serverVars, requestVars
<1>1. CASE CreateTask
  BY <1>1 DEF CreateTask
<1>2. CASE StartTask
  BY <1>2 DEF StartTask
<1>3. CASE EndTask
  BY <1>3 DEF EndTask
<1> QED
  BY <1>1, <1>2, <1>3 DEF Task

\* A request that arrives while the servers are paused is refused.
LEMMA CoordinationArrive ==
  ASSUME Types, Coordination, NEW r \in Copies, NEW v \in Servers, Arrive(r, v)
  PROVE  Coordination'
BY DEF Types, Coordination, Arrive, Refused, syncVars, taskVars, serverVars

\* What a running request does needs no phase.
LEMMA CoordinationRequest ==
  ASSUME Types, Coordination, NEW r \in Copies,
         Wake(r) \/ Return(r) \/ Generate(r)
  PROVE  Coordination'
<1> USE DEF Types, Coordination, syncVars, taskVars, serverVars
<1>1. CASE Wake(r)
  BY <1>1 DEF Wake
<1>2. CASE Return(r)
  BY <1>2 DEF Return
<1>3. CASE Generate(r)
  BY <1>3 DEF Generate
<1> QED
  BY <1>1, <1>2, <1>3

\* Each phase hands over to the next what it has established.
LEMMA CoordinationCalls ==
  ASSUME Types, Coordination, Pause \/ Calls
  PROVE  Coordination'
<1> USE Constants DEF Types, Coordination, Phases,
        syncVars, taskVars, serverVars, requestVars
<1>1. CASE Pause
  BY <1>1 DEF Pause
<1>2. CASE Gather
  BY <1>2 DEF Gather
<1>3. CASE Transfer
  BY <1>3 DEF Transfer
<1>4. CASE UpdateParamVersion
  BY <1>4 DEF UpdateParamVersion
<1>5. CASE ResumeBegin
  BY <1>5 DEF ResumeBegin
<1>6. ASSUME NEW v \in Servers, Cancel(v) PROVE Coordination'
  BY <1>6 DEF Cancel, Answer
<1>7. ASSUME NEW v \in Servers, ResetBegin(v) PROVE Coordination'
  BY <1>7 DEF ResetBegin
<1>8. ASSUME NEW v \in Servers, ResetEnd(v) PROVE Coordination'
  BY <1>8 DEF ResetEnd, Answer
<1>9. ASSUME NEW v \in Servers, Resume(v) PROVE Coordination'
  BY <1>9 DEF Resume, Answer
<1> QED
  BY <1>1, <1>2, <1>3, <1>4, <1>5, <1>6, <1>7, <1>8, <1>9 DEF Calls

\* Phases, servers and requests go together in every reachable state.
THEOREM CoordinationInvariant == Spec => []Coordination
<1>1. Types /\ Coordination /\ [Next]_vars => Coordination'
  <2> SUFFICES ASSUME Types, Coordination, [Next]_vars PROVE Coordination'
    OBVIOUS
  <2>1. CASE Task
    BY <2>1, CoordinationTask
  <2>2. CASE Requests
    BY <2>2, CoordinationArrive, CoordinationRequest DEF Requests
  <2>3. CASE Engine
    BY <2>3, CoordinationRequest DEF Engine
  <2>4. CASE Pause \/ Calls
    BY <2>4, CoordinationCalls
  <2>5. CASE UNCHANGED vars
    BY <2>5 DEF Coordination, vars, syncVars, taskVars, serverVars, requestVars
  <2> QED
    BY <2>1, <2>2, <2>3, <2>4, <2>5 DEF Next
<1> QED
  BY <1>1, CoordinationInit, TypesInvariant, PTL DEF Spec

-----------------------------------------------------------------------------
\* The types of what one sequence has, taken apart.
LEMMA SequenceTypes ==
  ASSUME Types, NEW r \in Copies
  PROVE  /\ output[r].tokens \in Seq(Token) /\ output[r].logps \in Seq(Token)
         /\ req_output[r] \in Seq(Token)
         /\ Len(output[r].tokens) \in Nat /\ Len(output[r].logps) \in Nat
         /\ Len(req_output[r]) \in Nat
         /\ output[r].start \in Int /\ output[r].end \in Int
         /\ output[r].is_cancel \in BOOLEAN
         /\ ended[r] \in BOOLEAN /\ is_cancel[r] \in BOOLEAN
         /\ weights \in Nat /\ version \in Nat /\ label \in Nat
<1>1. output[r] \in Output
  BY DEF Types
<1>2. /\ output[r].tokens \in Seq(Token) /\ output[r].logps \in Seq(Token)
      /\ output[r].start \in Int /\ output[r].end \in Int
      /\ output[r].is_cancel \in BOOLEAN
  BY <1>1 DEF Output
<1>3. /\ req_output[r] \in Seq(Token)
      /\ ended[r] \in BOOLEAN /\ is_cancel[r] \in BOOLEAN
  BY DEF Types
<1>4. /\ Len(output[r].tokens) \in Nat /\ Len(output[r].logps) \in Nat
      /\ Len(req_output[r]) \in Nat
  BY <1>2, <1>3, LenProperties
<1>5. weights \in Nat /\ version \in Nat /\ label \in Nat
  BY DEF Types
<1> QED
  BY <1>2, <1>3, <1>4, <1>5

\* The arithmetic of a merge: L tokens and P log probabilities get K more, and
\* the tokens are cut to M.
LEMMA Lengths ==
  ASSUME NEW L \in Nat, NEW P \in Nat, NEW K \in Nat,
         L <= ResponseLength, L <= P, L < ResponseLength => L = P,
         L + K <= MaxTokens,
         NEW M, M = IF L + K <= ResponseLength THEN L + K ELSE ResponseLength
  PROVE  /\ M \in Nat /\ M <= ResponseLength /\ M <= MaxTokens
         /\ M <= L + K /\ M <= P + K
         /\ M < ResponseLength => M = P + K
         /\ L + K < MaxTokens => M < MaxTokens
<1>1. CASE L + K <= ResponseLength
  BY <1>1, Constants
<1>2. CASE ~(L + K <= ResponseLength)
  BY <1>2, Constants
<1> QED
  BY <1>1, <1>2

\* Where the i-th token of a merged response comes from.
LEMMA Origin ==
  \A L, P, K, M \in Nat : \A i \in 1..M :
    /\ L <= P /\ (L < ResponseLength => L = P)
    /\ M <= ResponseLength /\ M <= L + K
    => /\ i \in 1..(L + K) /\ i \in 1..(P + K)
       /\ i <= L => i \in 1..L /\ i <= P
       /\ ~(i <= L) => /\ ~(i <= P) /\ i - L \in 1..K
                       /\ L + (i - L) = i /\ L = P
  BY Constants

\* Each token is the one for its position, and each has its log probability.
LEMMA TokensFit ==
  ASSUME NEW t \in Seq(Token), NEW g \in Seq(Token), NEW n \in Seq(Token),
         Len(t) <= ResponseLength, Len(t) <= Len(g),
         Len(t) < ResponseLength => Len(t) = Len(g),
         Len(t) + Len(n) <= MaxTokens,
         \A j \in 1..Len(t) : t[j].pos = j /\ g[j] = t[j],
         \A j \in 1..Len(n) : n[j].pos = Len(t) + j,
         NEW i \in 1..Len(Cut(t \o n))
  PROVE  Cut(t \o n)[i].pos = i /\ (g \o n)[i] = Cut(t \o n)[i]
<1>1. Len(t) \in Nat /\ Len(g) \in Nat /\ Len(n) \in Nat
  BY LenProperties
<1>2. /\ t \o n \in Seq(Token) /\ Len(t \o n) = Len(t) + Len(n)
      /\ \A j \in 1..(Len(t) + Len(n)) :
           (t \o n)[j] = IF j <= Len(t) THEN t[j] ELSE n[j - Len(t)]
  BY ConcatProperties
<1>3. \A j \in 1..(Len(g) + Len(n)) :
        (g \o n)[j] = IF j <= Len(g) THEN g[j] ELSE n[j - Len(g)]
  BY ConcatProperties
<1>4. /\ Len(Cut(t \o n)) = IF Len(t) + Len(n) <= ResponseLength
                            THEN Len(t) + Len(n) ELSE ResponseLength
      /\ Cut(t \o n)[i] = (t \o n)[i]
  BY <1>2, CutProperties
<1>5. /\ Len(Cut(t \o n)) \in Nat /\ Len(Cut(t \o n)) <= ResponseLength
      /\ Len(Cut(t \o n)) <= Len(t) + Len(n)
  BY <1>1, <1>4, Lengths
<1>6. /\ i \in 1..(Len(t) + Len(n)) /\ i \in 1..(Len(g) + Len(n))
      /\ i <= Len(t) => i \in 1..Len(t) /\ i <= Len(g)
      /\ ~(i <= Len(t)) => /\ ~(i <= Len(g)) /\ i - Len(t) \in 1..Len(n)
                           /\ Len(t) + (i - Len(t)) = i /\ Len(t) = Len(g)
  <2>1. /\ Len(t) <= Len(g) /\ (Len(t) < ResponseLength => Len(t) = Len(g))
        /\ Len(Cut(t \o n)) <= ResponseLength
        /\ Len(Cut(t \o n)) <= Len(t) + Len(n)
    BY <1>5
  <2> DEFINE M == Len(Cut(t \o n))
  <2>2. M \in Nat /\ i \in 1..M
    BY <1>5
  <2> HIDE DEF M
  <2>3. M <= ResponseLength /\ M <= Len(t) + Len(n)
    BY <2>1 DEF M
  <2> QED
    BY <1>1, <2>1, <2>2, <2>3, Origin, Zenon
<1>7. CASE i <= Len(t)
  <2>1. (t \o n)[i] = t[i] /\ (g \o n)[i] = g[i]
    BY <1>2, <1>3, <1>6, <1>7
  <2> QED
    BY <1>4, <1>6, <1>7, <2>1
<1>8. CASE ~(i <= Len(t))
  <2>1. (t \o n)[i] = n[i - Len(t)] /\ (g \o n)[i] = n[i - Len(t)]
    BY <1>2, <1>3, <1>6, <1>8
  <2>2. n[i - Len(t)].pos = i
    BY <1>6, <1>8
  <2> QED
    BY <1>4, <2>1, <2>2
<1> QED
  BY <1>7, <1>8

\* The log probabilities that were there, and those that a request brings back.
Kept(g, from, to, low) ==
  /\ \A j \in 1..Len(g) :
       /\ from <= g[j].ver /\ g[j].ver <= weights /\ ~g[j].last
       /\ ~raced => g[j].ver <= to
  /\ to <= label /\ low <= label
  /\ g # <<>> => low = from

Brought(n, fin) ==
  /\ \A j \in 1..Len(n) :
       /\ label <= n[j].ver /\ n[j].ver <= weights
       /\ ~raced => n[j].ver <= label
       /\ n[j].last <=> (j = Len(n) /\ fin)
  /\ fin => n # <<>>

Between(s, low, fin) ==
  \A i \in 1..Len(s) :
    /\ low <= s[i].ver /\ s[i].ver <= weights
    /\ ~raced => s[i].ver <= label
    /\ s[i].last <=> (i = Len(s) /\ fin)

\* The versions stay between the labels, and the last token is the only one
\* that may end the generation.
LEMMA VersionsFit ==
  ASSUME NEW g \in Seq(Token), NEW n \in Seq(Token),
         NEW low \in Int, NEW from \in Int, NEW to \in Int, NEW fin \in BOOLEAN,
         label \in Nat, weights \in Nat,
         Kept(g, from, to, low), Brought(n, fin)
  PROVE  Between(g \o n, low, fin)
<1> SUFFICES ASSUME NEW i \in 1..Len(g \o n)
             PROVE  /\ low <= (g \o n)[i].ver /\ (g \o n)[i].ver <= weights
                    /\ ~raced => (g \o n)[i].ver <= label
                    /\ (g \o n)[i].last <=> (i = Len(g \o n) /\ fin)
  BY Zenon DEF Between
<1>0. /\ to <= label /\ low <= label /\ (g # <<>> => low = from)
      /\ fin => n # <<>>
  BY Zenon DEF Kept, Brought
<1>1. Len(g) \in Nat /\ Len(n) \in Nat
  BY LenProperties
<1>2. /\ Len(g \o n) = Len(g) + Len(n)
      /\ (g \o n)[i] = IF i <= Len(g) THEN g[i] ELSE n[i - Len(g)]
  BY ConcatProperties
<1>3. /\ i <= Len(g) => i \in 1..Len(g)
      /\ ~(i <= Len(g)) => i - Len(g) \in 1..Len(n)
      /\ i = Len(g) + Len(n) <=> i - Len(g) = Len(n)
      /\ i <= Len(g) /\ Len(n) # 0 => i # Len(g) + Len(n)
  <2>1. \A a, b \in Nat : \A k \in 1..(a + b) :
          /\ k <= a => k \in 1..a
          /\ ~(k <= a) => k - a \in 1..b
          /\ k = a + b <=> k - a = b
          /\ k <= a /\ b # 0 => k # a + b
    OBVIOUS
  <2> QED
    BY <1>1, <1>2, <2>1
<1>4. CASE i <= Len(g)
  <2>1. (g \o n)[i] = g[i] /\ i \in 1..Len(g)
    BY <1>2, <1>3, <1>4
  <2>2. g # <<>>
    BY <1>1, <2>1, EmptySeq
  <2>3. g[i].ver \in Nat
    <3>1. g[i] \in Token
      BY <2>1, ElementOfSeq, Zenon
    <3> QED
      BY <3>1 DEF Token
  <2>4. /\ from <= g[i].ver /\ g[i].ver <= weights /\ ~g[i].last
        /\ ~raced => g[i].ver <= to
    BY <2>1, Zenon DEF Kept
  <2>5. ~raced => g[i].ver <= label
    <3>1. \A a, b, c \in Int : a <= b /\ b <= c => a <= c
      OBVIOUS
    <3> QED
      BY <1>0, <2>3, <2>4, <3>1
  <2>6. fin => Len(n) # 0
    BY <1>0, EmptySeq
  <2>7. ~(i = Len(g \o n) /\ fin)
    BY <1>2, <1>3, <1>4, <2>6
  <2> QED
    BY <1>0, <2>1, <2>2, <2>4, <2>5, <2>7
<1>5. CASE ~(i <= Len(g))
  <2>1. (g \o n)[i] = n[i - Len(g)] /\ i - Len(g) \in 1..Len(n)
    BY <1>2, <1>3, <1>5
  <2>2. n[i - Len(g)].ver \in Nat
    <3>1. n[i - Len(g)] \in Token
      BY <2>1, ElementOfSeq, Zenon
    <3> QED
      BY <3>1 DEF Token
  <2>3. /\ label <= n[i - Len(g)].ver /\ n[i - Len(g)].ver <= weights
        /\ ~raced => n[i - Len(g)].ver <= label
        /\ n[i - Len(g)].last <=> (i - Len(g) = Len(n) /\ fin)
    BY <2>1, Zenon DEF Brought
  <2>4. low <= n[i - Len(g)].ver
    <3>1. \A a, b, c \in Int : a <= b /\ b <= c => a <= c
      OBVIOUS
    <3> QED
      BY <1>0, <2>2, <2>3, <3>1
  <2>5. i = Len(g \o n) <=> i - Len(g) = Len(n)
    BY <1>2, <1>3
  <2> QED
    BY <2>1, <2>3, <2>4, <2>5
<1> QED
  BY <1>4, <1>5

(***************************************************************************)
(* What a request brings back, whether it was refused, interrupted or came *)
(* to its end, makes an output that fits again.                            *)
(***************************************************************************)
LEMMA MergeFits ==
  ASSUME Types, NEW r \in Copies, RequestFits(r), OutputFits(r),
         request[r] # "none",
         output' = [output EXCEPT ![r] = Merged(r, req_output[r], ~ended[r])],
         UNCHANGED <<weights, label, raced>>
  PROVE  OutputFits(r)' /\ Len(output'[r].tokens) <= MaxTokens
<1> DEFINE t == output[r].tokens
           g == output[r].logps
           n == req_output[r]
           from == output[r].start
           to == output[r].end
           low == StartVersion(r)
           fin == ended[r]
           m == output'[r]
<1>1. /\ t \in Seq(Token) /\ g \in Seq(Token) /\ n \in Seq(Token)
      /\ Len(t) \in Nat /\ Len(g) \in Nat /\ Len(n) \in Nat
      /\ from \in Int /\ to \in Int /\ label \in Nat /\ weights \in Nat
      /\ fin \in BOOLEAN /\ raced \in BOOLEAN
  BY SequenceTypes DEF Types
<1>2. /\ m.tokens = Cut(t \o n) /\ m.logps = g \o n
      /\ m.is_cancel = ~fin /\ m.start = low /\ m.end = label
  <2>1. m = Merged(r, n, ~fin)
    BY DEF Types
  <2>2. (~fin) \in BOOLEAN
    OBVIOUS
  <2>3. /\ Merged(r, n, ~fin).tokens = Cut(t \o n)
        /\ Merged(r, n, ~fin).logps = g \o n
        /\ Merged(r, n, ~fin).is_cancel = ~fin
        /\ Merged(r, n, ~fin).start = low
        /\ Merged(r, n, ~fin).end = label
    BY <1>1, <2>2, MergedProperties, Zenon
  <2> QED
    BY <2>1, <2>3, Zenon
<1>3. /\ Len(t) <= ResponseLength /\ Len(t) <= Len(g)
      /\ Len(t) < ResponseLength => Len(t) = Len(g)
      /\ output[r].is_cancel
      /\ from = -1 => g = <<>>
      /\ -1 <= from /\ from <= label /\ -1 <= to /\ to <= label
      /\ \A j \in 1..Len(t) : t[j].pos = j /\ g[j] = t[j]
      /\ \A j \in 1..Len(g) :
           /\ from <= g[j].ver /\ g[j].ver <= weights
           /\ ~raced => g[j].ver <= to
           /\ g[j].last <=> (j = Len(g) /\ ~output[r].is_cancel)
  BY Zenon DEF RequestFits, OutputFits
<1>4. /\ Len(t) + Len(n) <= MaxTokens
      /\ ~fin => Len(t) + Len(n) < MaxTokens
      /\ fin => n # <<>>
      /\ \A j \in 1..Len(n) :
           /\ n[j].pos = Len(t) + j
           /\ label <= n[j].ver /\ n[j].ver <= weights
           /\ ~raced => n[j].ver <= label
           /\ n[j].last <=> (j = Len(n) /\ fin)
  BY Zenon DEF RequestFits
<1>5. /\ -1 # low /\ -1 <= low /\ low <= label /\ low \in Int
      /\ g # <<>> => low = from
  <2>1. CASE from = -1
    BY <1>1, <1>3, <2>1 DEF StartVersion
  <2>2. CASE from # -1
    BY <1>1, <1>3, <2>2 DEF StartVersion
  <2> QED
    BY <2>1, <2>2
<1> HIDE DEF t, g, n, from, to, low, fin, m
<1>7. /\ Len(Cut(t \o n)) <= ResponseLength /\ Len(Cut(t \o n)) <= MaxTokens
      /\ Len(Cut(t \o n)) <= Len(g \o n)
      /\ Len(Cut(t \o n)) < ResponseLength => Len(Cut(t \o n)) = Len(g \o n)
      /\ ~fin => Len(Cut(t \o n)) < MaxTokens
      /\ fin => g \o n # <<>>
  <2>1. /\ t \o n \in Seq(Token) /\ Len(t \o n) = Len(t) + Len(n)
        /\ g \o n \in Seq(Token) /\ Len(g \o n) = Len(g) + Len(n)
    BY <1>1, ConcatProperties
  <2>2. Len(Cut(t \o n)) = IF Len(t) + Len(n) <= ResponseLength
                           THEN Len(t) + Len(n) ELSE ResponseLength
    BY <2>1, CutProperties
  <2>3. /\ Len(Cut(t \o n)) <= ResponseLength /\ Len(Cut(t \o n)) <= MaxTokens
        /\ Len(Cut(t \o n)) <= Len(g) + Len(n)
        /\ Len(Cut(t \o n)) < ResponseLength =>
             Len(Cut(t \o n)) = Len(g) + Len(n)
        /\ Len(t) + Len(n) < MaxTokens => Len(Cut(t \o n)) < MaxTokens
    BY <1>1, <1>3, <1>4, <2>2, Lengths
  <2>4. fin => g \o n # <<>>
    <3>1. fin => Len(n) # 0
      BY <1>1, <1>4, EmptySeq
    <3>2. Len(g \o n) = 0 => Len(n) = 0
      BY <1>1, <2>1
    <3> QED
      BY <3>1, <3>2, EmptySeq
  <2> QED
    BY <1>4, <2>1, <2>3, <2>4
<1>8. \A i \in 1..Len(Cut(t \o n)) :
        Cut(t \o n)[i].pos = i /\ (g \o n)[i] = Cut(t \o n)[i]
  <2>1. \A j \in 1..Len(n) : n[j].pos = Len(t) + j
    BY <1>4, Zenon
  <2>2. /\ Len(t) <= ResponseLength /\ Len(t) <= Len(g)
        /\ Len(t) < ResponseLength => Len(t) = Len(g)
        /\ Len(t) + Len(n) <= MaxTokens
        /\ \A j \in 1..Len(t) : t[j].pos = j /\ g[j] = t[j]
    BY <1>3, <1>4, Zenon
  <2> TAKE i \in 1..Len(Cut(t \o n))
  <2> QED
    BY <1>1, <2>2, <2>1, TokensFit, Zenon
<1>9. Between(g \o n, low, fin)
  <2>1. Kept(g, from, to, low)
    BY <1>3, <1>5, Zenon DEF Kept
  <2>2. Brought(n, fin)
    BY <1>4, Zenon DEF Brought
  <2> QED
    BY <1>1, <1>5, <2>1, <2>2, VersionsFit, Zenon
<1>10. -1 <= label
  BY <1>1
<1>11. weights' = weights /\ label' = label /\ raced' = raced
  OBVIOUS
<1>12. /\ Len(m.tokens) <= ResponseLength
       /\ Len(m.tokens) <= Len(m.logps)
       /\ Len(m.tokens) < ResponseLength => Len(m.tokens) = Len(m.logps)
       /\ m.is_cancel => Len(m.tokens) < MaxTokens
       /\ ~m.is_cancel => m.logps # <<>>
       /\ Len(m.tokens) <= MaxTokens
  BY <1>2, <1>7, Zenon
<1>13. /\ m.start = -1 => m.logps = <<>>
       /\ -1 <= m.start /\ m.start <= label /\ -1 <= m.end /\ m.end <= label
  BY <1>1, <1>2, <1>5, <1>10
<1>14. \A i \in 1..Len(m.tokens) :
         m.tokens[i].pos = i /\ m.logps[i] = m.tokens[i]
  BY <1>2, <1>8, Zenon
<1>15. \A i \in 1..Len(m.logps) :
         /\ m.start <= m.logps[i].ver /\ m.logps[i].ver <= weights
         /\ ~raced => m.logps[i].ver <= m.end
         /\ m.logps[i].last <=> (i = Len(m.logps) /\ ~m.is_cancel)
  BY <1>2, <1>9, Zenon DEF Between
<1> QED
  BY <1>11, <1>12, <1>13, <1>14, <1>15 DEF OutputFits, m

-----------------------------------------------------------------------------
\* The versions of tokens are numbers.
LEMMA VersionTypes ==
  ASSUME Types, NEW r \in Copies
  PROVE  /\ \A i \in 1..Len(req_output[r]) : req_output[r][i].ver \in Nat
         /\ \A i \in 1..Len(output[r].logps) : output[r].logps[i].ver \in Nat
<1>1. req_output[r] \in Seq(Token) /\ output[r].logps \in Seq(Token)
  BY SequenceTypes
<1>2. ASSUME NEW s \in Seq(Token), NEW i \in 1..Len(s) PROVE s[i].ver \in Nat
  <2>1. s[i] \in Token
    BY ElementOfSeq
  <2> QED
    BY <2>1 DEF Token
<1> QED
  BY <1>1, <1>2

\* What holds of a sequence stays true while others move, weights are replaced
\* and tasks are created.
LEMMA Frame ==
  ASSUME Types, NEW r \in Copies, RequestFits(r), OutputFits(r),
         output'[r] = output[r], req_output'[r] = req_output[r],
         ended'[r] = ended[r], is_cancel'[r] = is_cancel[r],
         request'[r] = request[r], label' = label, raced => raced',
         weights' \in Nat, weights <= weights'
  PROVE  RequestFits(r)' /\ OutputFits(r)'
<1>1. \A i \in 1..Len(req_output[r]) : req_output[r][i].ver <= weights'
  <2> SUFFICES ASSUME NEW i \in 1..Len(req_output[r])
               PROVE  req_output[r][i].ver <= weights'
    OBVIOUS
  <2>1. req_output[r][i].ver <= weights
    BY Zenon DEF RequestFits
  <2>2. req_output[r][i].ver \in Nat /\ weights \in Nat
    BY VersionTypes DEF Types
  <2> QED
    BY <2>1, <2>2
<1>2. \A i \in 1..Len(output[r].logps) : output[r].logps[i].ver <= weights'
  <2> SUFFICES ASSUME NEW i \in 1..Len(output[r].logps)
               PROVE  output[r].logps[i].ver <= weights'
    OBVIOUS
  <2>1. output[r].logps[i].ver <= weights
    BY Zenon DEF OutputFits
  <2>2. output[r].logps[i].ver \in Nat /\ weights \in Nat
    BY VersionTypes DEF Types
  <2> QED
    BY <2>1, <2>2
<1>3. RequestFits(r)'
  BY <1>1, Zenon DEF RequestFits
<1>4. OutputFits(r)'
  BY <1>2, Zenon DEF OutputFits
<1> QED
  BY <1>3, <1>4

\* Nothing has been generated yet.
LEMMA AssemblyInit == Init => Assembly
<1> SUFFICES ASSUME Init, NEW r \in Copies
             PROVE  RequestFits(r) /\ OutputFits(r)
  BY DEF Assembly
<1>1. /\ output[r] = [tokens |-> <<>>, logps |-> <<>>, is_cancel |-> TRUE,
                      start |-> -1, end |-> -1]
      /\ request[r] = "none" /\ req_output[r] = <<>> /\ ended[r] = FALSE
      /\ label = 0
  BY DEF Init
<1>2. Len(<<>>) = 0
  BY EmptySeq
<1>3. RequestFits(r)
  BY <1>1, <1>2, Constants DEF RequestFits
<1>4. OutputFits(r)
  BY <1>1, <1>2, Constants DEF OutputFits
<1> QED
  BY <1>3, <1>4

\* The task's label grows, and there is nothing under way that it is not for.
LEMMA AssemblyStartTask ==
  ASSUME Types, Coordination, Assembly, StartTask
  PROVE  Assembly'
<1> SUFFICES ASSUME NEW r \in Copies PROVE RequestFits(r)' /\ OutputFits(r)'
  BY DEF Assembly
<1>1. RequestFits(r) /\ OutputFits(r)
  BY DEF Assembly
<1>2. /\ request[r] = "none"
      /\ request'[r] = IF output[r].is_cancel THEN "sent" ELSE "none"
      /\ output' = output /\ req_output' = req_output /\ ended' = ended
      /\ is_cancel' = is_cancel /\ weights' = weights /\ raced' = raced
  BY DEF StartTask, Coordination, Types, Unfinished, syncVars, serverVars
<1>3. label' = version /\ label <= label' /\ label \in Nat /\ label' \in Nat
  BY DEF StartTask, Coordination, Types
<1>4. /\ req_output[r] = <<>> /\ ~ended[r] /\ Len(req_output[r]) = 0
      /\ Len(output[r].tokens) \in Nat
      /\ output[r].start \in Int /\ output[r].end \in Int
  BY <1>1, <1>2, EmptySeq, SequenceTypes, Zenon DEF RequestFits
<1>5. RequestFits(r)'
  <2>1. /\ output[r].is_cancel => Len(output[r].tokens) < MaxTokens
        /\ Len(output[r].tokens) <= ResponseLength
    BY <1>1, Zenon DEF OutputFits
  <2>2. Len(output[r].tokens) + Len(req_output[r]) = Len(output[r].tokens)
    BY <1>4
  <2>3. Len(output[r].tokens) <= MaxTokens
    BY <1>4, <2>1, Constants
  <2>4. request'[r] # "none" => output[r].is_cancel
    BY <1>2
  <2>5. request'[r] # "returning"
    BY <1>2
  <2>6. \A i \in 1..Len(req_output[r]) : FALSE
    BY <1>4
  <2> QED
    BY <1>2, <1>4, <2>1, <2>2, <2>3, <2>4, <2>5, <2>6, Zenon DEF RequestFits
<1>6. OutputFits(r)'
  <2>1. output[r].start <= label' /\ output[r].end <= label'
    <3>1. output[r].start <= label /\ output[r].end <= label
      BY <1>1, Zenon DEF OutputFits
    <3> QED
      BY <1>3, <1>4, <3>1
  <2> QED
    BY <1>1, <1>2, <2>1, Zenon DEF OutputFits
<1> QED
  BY <1>5, <1>6

\* The request is over: what it brought back has been merged.
LEMMA AnswerFits ==
  ASSUME Types, Assembly, NEW r \in Copies, request[r] # "none",
         output' = [output EXCEPT ![r] = Merged(r, req_output[r], ~ended[r])],
         request' = [request EXCEPT ![r] = "none"],
         req_output'[r] = <<>>, ended'[r] = FALSE,
         UNCHANGED <<weights, label, raced>>
  PROVE  RequestFits(r)' /\ OutputFits(r)'
<1>1. RequestFits(r) /\ OutputFits(r)
  BY DEF Assembly
<1>2. OutputFits(r)' /\ Len(output'[r].tokens) <= MaxTokens
  BY <1>1, MergeFits
<1>3. request'[r] = "none"
  BY DEF Types
<1>4. Merged(r, req_output[r], ~ended[r]) \in Output
  <2>1. (~ended[r]) \in BOOLEAN /\ req_output[r] \in Seq(Token)
    BY SequenceTypes
  <2> QED
    BY <2>1, MergedProperties
<1>5. Len(output'[r].tokens) \in Nat
  <2>1. output'[r] \in Output
    BY <1>4 DEF Types
  <2>2. output'[r].tokens \in Seq(Token)
    BY <2>1 DEF Output
  <2> QED
    BY <2>2, LenProperties
<1>6. Len(req_output'[r]) = 0
  BY EmptySeq
<1>7. Len(output'[r].tokens) + Len(req_output'[r]) <= MaxTokens
  BY <1>2, <1>5, <1>6
<1>8. \A i \in 1..Len(req_output'[r]) : FALSE
  BY <1>6
<1>9. RequestFits(r)'
  BY <1>3, <1>7, <1>8, Zenon DEF RequestFits
<1> QED
  BY <1>2, <1>9

\* A refused request brings back nothing.
LEMMA AssemblyArrive ==
  ASSUME Types, Assembly, NEW r \in Copies, NEW v \in Servers, Arrive(r, v)
  PROVE  Assembly'
<1> SUFFICES ASSUME NEW q \in Copies PROVE RequestFits(q)' /\ OutputFits(q)'
  BY DEF Assembly
<1>1. RequestFits(q) /\ OutputFits(q)
  BY DEF Assembly
<1>2. /\ request[r] = "sent"
      /\ req_output' = req_output /\ ended' = ended /\ is_cancel' = is_cancel
      /\ weights' = weights /\ label' = label /\ raced' = raced
      /\ weights' \in Nat /\ weights <= weights'
  <2>1. /\ request[r] = "sent"
        /\ req_output' = req_output /\ ended' = ended /\ is_cancel' = is_cancel
        /\ weights' = weights /\ label' = label /\ raced' = raced
    BY Zenon DEF Arrive, syncVars, taskVars
  <2>2. weights \in Nat
    BY DEF Types
  <2> QED
    BY <2>1, <2>2
<1>3. req_output[r] = <<>> /\ ended[r] = FALSE
  <2>1. RequestFits(r) /\ ended[r] \in BOOLEAN
    BY DEF Assembly, Types
  <2> QED
    BY <1>2, <2>1, Zenon DEF RequestFits
<1>4. CASE q # r
  <2>1. output'[q] = output[q] /\ request'[q] = request[q]
    BY <1>4 DEF Arrive, Types
  <2> QED
    BY <1>1, <1>2, <2>1, Frame
<1>5. CASE q = r /\ Refused(v)
  <2>1. /\ output' = [output EXCEPT ![r] = Merged(r, <<>>, TRUE)]
        /\ request' = [request EXCEPT ![r] = "none"]
    BY <1>5 DEF Arrive
  <2>2. (~ended[r]) = TRUE
    BY <1>3
  <2>3. output' = [output EXCEPT ![r] = Merged(r, req_output[r], ~ended[r])]
    BY <1>3, <2>1, <2>2
  <2>4. req_output'[r] = <<>> /\ ended'[r] = FALSE /\ request[r] # "none"
    BY <1>2, <1>3
  <2> QED
    BY <1>2, <1>5, <2>1, <2>3, <2>4, AnswerFits
<1>6. CASE q = r /\ ~Refused(v)
  <2>1. request'[r] = "running" /\ output' = output
    BY <1>6 DEF Arrive, Types
  <2>2. RequestFits(r)'
    <3>1. request[r] # "none"
      BY <1>2
    <3>2. request'[r] \notin {"none", "sent"} /\ request'[r] # "returning"
      BY <2>1
    <3> QED
      BY <1>1, <1>2, <1>6, <2>1, <3>1, <3>2, Zenon DEF RequestFits
  <2>3. OutputFits(r)'
    BY <1>1, <1>2, <1>6, <2>1, Zenon DEF OutputFits
  <2> QED
    BY <1>6, <2>2, <2>3
<1> QED
  BY <1>4, <1>5, <1>6

\* A finished or interrupted one brings back what it has.
LEMMA AssemblyReturn ==
  ASSUME Types, Assembly, NEW r \in Copies, Return(r)
  PROVE  Assembly'
<1> SUFFICES ASSUME NEW q \in Copies PROVE RequestFits(q)' /\ OutputFits(q)'
  BY DEF Assembly
<1>1. RequestFits(q) /\ OutputFits(q) /\ RequestFits(r)
  BY DEF Assembly
<1>2. /\ request[r] = "returning"
      /\ weights' = weights /\ label' = label /\ raced' = raced
      /\ weights' \in Nat /\ weights <= weights'
  BY DEF Return, Types, syncVars, taskVars
<1>3. CASE q # r
  <2>1. /\ output'[q] = output[q] /\ request'[q] = request[q]
        /\ req_output'[q] = req_output[q] /\ ended'[q] = ended[q]
        /\ is_cancel'[q] = is_cancel[q]
    BY <1>3 DEF Return, Types
  <2> QED
    BY <1>1, <1>2, <2>1, Frame
<1>4. CASE q = r
  <2>1. (req_output[r] = <<>> \/ is_cancel[r]) = ~ended[r]
    <3>1. is_cancel[r] = ~ended[r] /\ (ended[r] => req_output[r] # <<>>)
      BY <1>1, <1>2, Zenon DEF RequestFits
    <3>2. ended[r] \in BOOLEAN
      BY DEF Types
    <3> QED
      BY <3>1, <3>2
  <2>2. output' = [output EXCEPT ![r] = Merged(r, req_output[r], ~ended[r])]
    BY <2>1 DEF Return
  <2>3. /\ request' = [request EXCEPT ![r] = "none"]
        /\ req_output'[r] = <<>> /\ ended'[r] = FALSE /\ request[r] # "none"
    BY <1>2 DEF Return, Types
  <2> QED
    BY <1>2, <1>4, <2>2, <2>3, AnswerFits
<1> QED
  BY <1>3, <1>4

\* is_cancel says whether the generation had ended.
LEMMA AssemblyWake ==
  ASSUME Types, Assembly, NEW r \in Copies, Wake(r)
  PROVE  Assembly'
<1> SUFFICES ASSUME NEW q \in Copies PROVE RequestFits(q)' /\ OutputFits(q)'
  BY DEF Assembly
<1>1. RequestFits(q) /\ OutputFits(q)
  BY DEF Assembly
<1>2. /\ request[r] = "running"
      /\ output' = output /\ req_output' = req_output /\ ended' = ended
      /\ weights' = weights /\ label' = label /\ raced' = raced
      /\ weights' \in Nat /\ weights <= weights'
  BY DEF Wake, Types, syncVars, taskVars
<1>3. CASE q # r
  <2>1. request'[q] = request[q] /\ is_cancel'[q] = is_cancel[q]
    BY <1>3 DEF Wake, Types
  <2> QED
    BY <1>1, <1>2, <2>1, Frame
<1>4. CASE q = r
  <2>1. request'[r] = "returning" /\ is_cancel'[r] = ~ended[r]
    BY DEF Wake, Interrupted, Types
  <2>2. RequestFits(r)'
    <3>1. request[r] # "none"
      BY <1>2
    <3>2. request'[r] \notin {"none", "sent"}
      BY <2>1
    <3> QED
      BY <1>1, <1>2, <1>4, <2>1, <3>1, <3>2, Zenon DEF RequestFits
  <2>3. OutputFits(r)'
    BY <1>1, <1>2, <1>4, Zenon DEF OutputFits
  <2> QED
    BY <1>4, <2>2, <2>3
<1> QED
  BY <1>3, <1>4

\* The new token continues the sequence, with the weights its label names.
LEMMA AssemblyGenerate ==
  ASSUME Types, Coordination, Assembly, NEW r \in Copies, Generate(r)
  PROVE  Assembly'
<1> SUFFICES ASSUME NEW q \in Copies PROVE RequestFits(q)' /\ OutputFits(q)'
  BY DEF Assembly
<1>1. RequestFits(q) /\ OutputFits(q)
  BY DEF Assembly
<1>2. /\ request[r] = "running" /\ ~ended[r]
      /\ output' = output /\ request' = request /\ is_cancel' = is_cancel
      /\ weights' = weights /\ label' = label /\ raced' = raced
  BY DEF Generate, syncVars, taskVars
<1>3. weights \in Nat /\ label \in Nat
  BY DEF Types
<1>4. PICK t \in Token :
        /\ t.pos = Len(output[r].tokens) + Len(req_output[r]) + 1
        /\ t.ver = weights
        /\ t.last = ended'[r]
        /\ Len(req_output[r]) + 1 = Budget(r) => t.last
        /\ req_output' = [req_output EXCEPT ![r] = Append(@, t)]
        /\ ended' = [ended EXCEPT ![r] = t.last]
  BY GenerateProperties
<1>5. CASE q # r
  <2>1. req_output'[q] = req_output[q] /\ ended'[q] = ended[q]
    BY <1>4, <1>5 DEF Types
  <2>2. weights' \in Nat /\ weights <= weights'
    BY <1>2, <1>3
  <2> QED
    BY <1>1, <1>2, <2>1, <2>2, Frame
<1>6. CASE q = r
  <2> DEFINE n == req_output[r]
             L == Len(output[r].tokens)
             K == Len(req_output[r])
             s == req_output'[r]
  <2>1. n \in Seq(Token) /\ L \in Nat /\ K \in Nat
    BY SequenceTypes
  <2>2. s = Append(n, t)
    BY <1>4 DEF Types
  <2>3. /\ Len(s) = K + 1 /\ s # <<>>
        /\ s[K + 1] = t /\ \A i \in 1..K : s[i] = n[i]
    BY <2>1, <2>2, AppendProperties
  <2>4. L + K < MaxTokens
    BY <1>1, <1>2, <1>6, Zenon DEF RequestFits
  <2>5. L + Len(s) <= MaxTokens /\ (~ended'[r] => L + Len(s) < MaxTokens)
    <3>1. Budget(r) = MaxTokens - L
      BY DEF Budget, Context
    <3>2. ~ended'[r] => K + 1 # MaxTokens - L
      BY <1>4, <3>1, Zenon
    <3>3. L + (K + 1) <= MaxTokens
          /\ (K + 1 # MaxTokens - L => L + (K + 1) < MaxTokens)
      <4> HIDE DEF L, K
      <4> QED BY <2>1, <2>4, Constants
    <3> QED
      BY <2>3, <3>2, <3>3, Zenon
  <2>6. label <= weights /\ (~raced => weights <= label)
    <3>1. task = "active"
      BY <1>2 DEF Coordination
    <3>2. /\ weights = IF phase = "loaded" THEN version + 1 ELSE version
          /\ label <= version
          /\ ~raced => label = version
          /\ ~raced => phase # "loaded"
      BY <3>1 DEF Coordination
    <3>3. version \in Nat
      BY DEF Types
    <3>4. CASE raced
      BY <1>3, <3>2, <3>3, <3>4
    <3>5. CASE ~raced
      BY <1>3, <3>2, <3>3, <3>5
    <3> QED
      BY <3>4, <3>5
  <2>7. ASSUME NEW i \in 1..Len(s)
        PROVE  /\ s[i].pos = L + i
               /\ label <= s[i].ver /\ s[i].ver <= weights
               /\ ~raced => s[i].ver <= label
               /\ s[i].last <=> (i = Len(s) /\ ended'[r])
    <3>1. CASE i = K + 1
      <4>1. s[i] = t /\ i = Len(s)
        BY <2>3, <3>1
      <4>2. L + K + 1 = L + i
        <5> HIDE DEF L, K
        <5> QED BY <2>1, <3>1
      <4>3. weights <= weights
        BY <1>3
      <4> QED
        BY <1>4, <2>6, <4>1, <4>2, <4>3, Zenon
    <3>2. CASE i # K + 1
      <4>1. i \in 1..K
        <5> HIDE DEF K, s
        <5> QED BY <2>1, <2>3, <3>2
      <4>2. s[i] = n[i]
        BY <2>3, <4>1
      <4>3. /\ n[i].pos = L + i
            /\ label <= n[i].ver /\ n[i].ver <= weights
            /\ ~raced => n[i].ver <= label
            /\ n[i].last <=> (i = K /\ ended[r])
        BY <1>1, <1>6, <4>1, Zenon DEF RequestFits
      <4>4. ~n[i].last /\ i # Len(s)
        BY <1>2, <2>3, <3>2, <4>3, Zenon
      <4> QED
        BY <4>2, <4>3, <4>4, Zenon
    <3> QED
      BY <3>1, <3>2
  <2>8. RequestFits(r)'
    <3>1. /\ request[r] \notin {"none", "sent"} /\ request[r] # "returning"
          /\ output[r].is_cancel
      <4>1. request[r] # "none"
        BY <1>2
      <4>2. output[r].is_cancel
        BY <1>1, <1>6, <4>1, Zenon DEF RequestFits
      <4> QED
        BY <1>2, <4>2
    <3>2. ended'[r] => s # <<>>
      BY <2>3
    <3> QED
      BY <1>2, <2>5, <2>7, <3>1, <3>2, Zenon DEF RequestFits
  <2>9. OutputFits(r)'
    BY <1>1, <1>2, <1>6, Zenon DEF OutputFits
  <2> QED
    BY <1>6, <2>8, <2>9
<1> QED
  BY <1>5, <1>6

\* The rest changes neither the requests nor the outputs.
LEMMA AssemblyFrame ==
  ASSUME Types, Assembly, CreateTask \/ EndTask \/ Pause \/ Calls
  PROVE  Assembly'
<1>1. /\ output' = output /\ req_output' = req_output /\ ended' = ended
      /\ is_cancel' = is_cancel /\ request' = request /\ label' = label
      /\ raced => raced'
      /\ weights' = weights \/ weights' = weights + 1
  <2> USE DEF syncVars, taskVars, requestVars
  <2>1. CASE CreateTask
    BY <2>1 DEF CreateTask
  <2>2. CASE EndTask
    BY <2>2 DEF EndTask
  <2>3. CASE Pause
    BY <2>3 DEF Pause
  <2>4. CASE Gather
    BY <2>4 DEF Gather
  <2>5. CASE UpdateParamVersion
    BY <2>5 DEF UpdateParamVersion
  <2>6. CASE ResumeBegin
    BY <2>6 DEF ResumeBegin
  <2>7. CASE Transfer
    BY <2>7 DEF Transfer
  <2>8. CASE \E v \in Servers : Cancel(v)
    BY <2>8 DEF Cancel
  <2>9. CASE \E v \in Servers : ResetBegin(v)
    BY <2>9 DEF ResetBegin
  <2>10. CASE \E v \in Servers : ResetEnd(v)
    BY <2>10 DEF ResetEnd
  <2>11. CASE \E v \in Servers : Resume(v)
    BY <2>11 DEF Resume
  <2> QED
    BY <2>1, <2>2, <2>3, <2>4, <2>5, <2>6, <2>7, <2>8, <2>9, <2>10, <2>11
       DEF Calls
<1>2. weights' \in Nat /\ weights <= weights'
  BY <1>1 DEF Types
<1> SUFFICES ASSUME NEW r \in Copies PROVE RequestFits(r)' /\ OutputFits(r)'
  BY DEF Assembly
<1>3. RequestFits(r) /\ OutputFits(r)
  BY DEF Assembly
<1> QED
  BY <1>1, <1>2, <1>3, Frame

\* Requests and outputs fit together in every reachable state.
THEOREM AssemblyInvariant == Spec => []Assembly
<1>1. Types /\ Coordination /\ Assembly /\ [Next]_vars => Assembly'
  <2> SUFFICES ASSUME Types, Coordination, Assembly, [Next]_vars
               PROVE  Assembly'
    OBVIOUS
  <2>1. CASE Task
    BY <2>1, AssemblyFrame, AssemblyStartTask DEF Task
  <2>2. CASE Requests
    BY <2>2, AssemblyArrive, AssemblyWake, AssemblyReturn DEF Requests
  <2>3. CASE Engine
    BY <2>3, AssemblyGenerate DEF Engine
  <2>4. CASE Pause \/ Calls
    BY <2>4, AssemblyFrame
  <2>5. CASE UNCHANGED vars
    <3> SUFFICES ASSUME NEW r \in Copies PROVE RequestFits(r)' /\ OutputFits(r)'
      BY DEF Assembly
    <3>1. /\ output' = output /\ req_output' = req_output /\ ended' = ended
          /\ is_cancel' = is_cancel /\ request' = request /\ label' = label
          /\ raced' = raced /\ weights' = weights
      BY <2>5 DEF vars, syncVars, taskVars, requestVars
    <3>2. weights' \in Nat /\ weights <= weights'
      BY <3>1 DEF Types
    <3>3. RequestFits(r) /\ OutputFits(r)
      BY DEF Assembly
    <3> QED
      BY <3>1, <3>2, <3>3, Frame
  <2> QED
    BY <2>1, <2>2, <2>3, <2>4, <2>5 DEF Next
<1> QED
  BY <1>1, AssemblyInit, TypesInvariant, CoordinationInvariant, PTL DEF Spec

-----------------------------------------------------------------------------
(***************************************************************************)
(* No server generates while the weights are transferred: every server has *)
(* been paused before the tasks are waited for, and stays paused.          *)
(***************************************************************************)
THEOREM Quiet == Spec => []ServersQuiet
<1>1. Coordination => ServersQuiet
  BY DEF Coordination, ServersQuiet
<1> QED
  BY <1>1, CoordinationInvariant, PTL

(***************************************************************************)
(* Sequences are put together without a gap, a repetition or a             *)
(* displacement, and with the log probability of each token beside it.     *)
(***************************************************************************)
THEOREM Seams == Spec => []Seamless
<1>1. Types /\ Assembly => Seamless
  <2> SUFFICES ASSUME Types, Assembly, NEW r \in Copies,
                      NEW i \in 1..Len(output[r].tokens)
               PROVE  /\ output[r].tokens[i].pos = i
                      /\ i <= Len(output[r].logps)
                      /\ output[r].logps[i] = output[r].tokens[i]
    BY DEF Seamless
  <2>1. OutputFits(r)
    BY DEF Assembly
  <2>2. /\ Len(output[r].tokens) <= Len(output[r].logps)
        /\ output[r].tokens[i].pos = i
        /\ output[r].logps[i] = output[r].tokens[i]
    BY <2>1, Zenon DEF OutputFits
  <2>3. Len(output[r].tokens) \in Nat /\ Len(output[r].logps) \in Nat
    BY SequenceTypes
  <2> QED
    BY <2>2, <2>3
<1> QED
  BY <1>1, TypesInvariant, AssemblyInvariant, PTL

\* A sequence is complete exactly when its generation has ended.
THEOREM Completion == Spec => []CompleteWhenEnded
<1>1. Types /\ Assembly => CompleteWhenEnded
  <2> SUFFICES ASSUME Types, Assembly, NEW r \in Copies
               PROVE  /\ output[r].is_cancel <=>
                           \/ output[r].logps = <<>>
                           \/ ~Last(output[r].logps).last
                      /\ \A i \in 1..(Len(output[r].logps) - 1) :
                           ~output[r].logps[i].last
    BY DEF CompleteWhenEnded
  <2> DEFINE l == output[r].logps
             c == output[r].is_cancel
  <2>1. l \in Seq(Token) /\ Len(l) \in Nat
    BY SequenceTypes
  <2>2. /\ ~c => l # <<>>
        /\ \A i \in 1..Len(l) : l[i].last <=> (i = Len(l) /\ ~c)
    <3>1. OutputFits(r)
      BY DEF Assembly
    <3> QED
      BY <3>1, Zenon DEF OutputFits
  <2> HIDE DEF l, c
  <2>3. l # <<>> => Len(l) \in 1..Len(l)
    BY <2>1, EmptySeq
  <2>4. c <=> (l = <<>> \/ ~Last(l).last)
    BY <2>2, <2>3, Zenon DEF Last
  <2>5. \A i \in 1..(Len(l) - 1) : i \in 1..Len(l) /\ i # Len(l)
    BY <2>1
  <2>6. \A i \in 1..(Len(l) - 1) : ~l[i].last
    BY <2>2, <2>5, Zenon
  <2> QED
    BY <2>4, <2>6, Zenon DEF l, c
<1> QED
  BY <1>1, TypesInvariant, AssemblyInvariant, PTL

(***************************************************************************)
(* The versions an output is labelled with bracket those of its tokens,    *)
(* the end only when no task was created during a synchronization.         *)
(***************************************************************************)
THEOREM Labels == Spec => []LabelsBracket
<1>1. Types /\ Assembly => LabelsBracket
  <2> SUFFICES ASSUME Types, Assembly, NEW r \in Copies,
                      NEW i \in 1..Len(output[r].tokens)
               PROVE  /\ output[r].start <= output[r].tokens[i].ver
                      /\ ~raced => output[r].tokens[i].ver <= output[r].end
    BY DEF LabelsBracket
  <2>1. OutputFits(r)
    BY DEF Assembly
  <2>2. i \in 1..Len(output[r].logps)
    <3>1. Len(output[r].tokens) <= Len(output[r].logps)
      BY <2>1, Zenon DEF OutputFits
    <3>2. Len(output[r].tokens) \in Nat /\ Len(output[r].logps) \in Nat
      BY SequenceTypes
    <3> QED
      BY <3>1, <3>2
  <2> QED
    BY <2>1, <2>2, Zenon DEF OutputFits
<1> QED
  BY <1>1, TypesInvariant, AssemblyInvariant, PTL

\* A sequence that begins with another one has it as a prefix.
LEMMA Prefix ==
  ASSUME NEW s \in Seq(Token), NEW u \in Seq(Token), Len(s) <= Len(u),
         \A i \in 1..Len(s) : u[i] = s[i]
  PROVE  IsPrefix(s, u)
<1>1. Len(s) \in Nat /\ Len(u) \in Nat
  BY LenProperties
<1>2. \A i \in 1..Len(s) : s[i] \in Token /\ u[i] \in Token
  BY ElementOfSeq
<1>3. /\ SubSeq(s, 1, Len(s)) \in Seq(Token)
      /\ Len(SubSeq(s, 1, Len(s))) = IF 1 <= Len(s) THEN Len(s) - 1 + 1 ELSE 0
      /\ \A i \in 1..(Len(s) - 1 + 1) : SubSeq(s, 1, Len(s))[i] = s[1 + i - 1]
  BY <1>1, <1>2, SubSeqProperties
<1>4. /\ SubSeq(u, 1, Len(s)) \in Seq(Token)
      /\ Len(SubSeq(u, 1, Len(s))) = IF 1 <= Len(s) THEN Len(s) - 1 + 1 ELSE 0
      /\ \A i \in 1..(Len(s) - 1 + 1) : SubSeq(u, 1, Len(s))[i] = u[1 + i - 1]
  BY <1>1, <1>2, SubSeqProperties
<1>5. /\ Len(SubSeq(s, 1, Len(s))) = Len(s)
      /\ Len(SubSeq(u, 1, Len(s))) = Len(s)
  BY <1>1, <1>3, <1>4
<1>6. \A i \in 1..Len(s) : SubSeq(s, 1, Len(s))[i] = SubSeq(u, 1, Len(s))[i]
  <2> TAKE i \in 1..Len(s)
  <2>1. i \in 1..(Len(s) - 1 + 1) /\ 1 + i - 1 = i
    BY <1>1
  <2> QED
    BY <1>3, <1>4, <2>1
<1>7. SubSeq(s, 1, Len(s)) = SubSeq(u, 1, Len(s))
  BY <1>3, <1>4, <1>5, <1>6, SeqEqual
<1> QED
  BY <1>7 DEF IsPrefix

\* Merging keeps what is there.
LEMMA MergeGrows ==
  ASSUME Types, Assembly, NEW r \in Copies, NEW new \in Seq(Token),
         NEW c \in BOOLEAN
  PROVE  IsPrefix(output[r].tokens, Merged(r, new, c).tokens)
<1> DEFINE t == output[r].tokens
<1>1. t \in Seq(Token) /\ Len(t) \in Nat /\ Len(new) \in Nat
  BY SequenceTypes, LenProperties
<1>2. Len(t) <= ResponseLength
  BY Zenon DEF Assembly, OutputFits
<1>3. Merged(r, new, c).tokens = Cut(t \o new)
  BY MergedProperties
<1> HIDE DEF t
<1>4. /\ t \o new \in Seq(Token) /\ Len(t \o new) = Len(t) + Len(new)
      /\ \A i \in 1..(Len(t) + Len(new)) :
           (t \o new)[i] = IF i <= Len(t) THEN t[i] ELSE new[i - Len(t)]
  BY <1>1, ConcatProperties
<1>5. /\ Cut(t \o new) \in Seq(Token)
      /\ Len(Cut(t \o new)) = IF Len(t) + Len(new) <= ResponseLength
                              THEN Len(t) + Len(new) ELSE ResponseLength
      /\ \A i \in 1..Len(Cut(t \o new)) : Cut(t \o new)[i] = (t \o new)[i]
  BY <1>4, CutProperties
<1>6. Len(t) <= Len(Cut(t \o new))
  BY <1>1, <1>2, <1>5, Constants
<1>7. \A i \in 1..Len(t) : Cut(t \o new)[i] = t[i]
  <2> TAKE i \in 1..Len(t)
  <2>1. /\ i \in 1..Len(Cut(t \o new)) /\ i \in 1..(Len(t) + Len(new))
        /\ i <= Len(t)
    BY <1>1, <1>2, <1>5, Constants
  <2> QED
    BY <1>4, <1>5, <2>1
<1>8. IsPrefix(t, Cut(t \o new))
  BY <1>1, <1>5, <1>6, <1>7, Prefix
<1> QED
  BY <1>3, <1>8 DEF t

(***************************************************************************)
(* A response only grows at its end, and a complete one stays as it is: no *)
(* request is sent for it.                                                 *)
(***************************************************************************)
THEOREM Growth == Spec => GrowsAtTheEnd
<1>1. Types /\ Assembly /\ [Next]_vars =>
        [\A r \in Copies :
           /\ IsPrefix(output[r].tokens, output'[r].tokens)
           /\ ~output[r].is_cancel => output'[r] = output[r]]_vars
  <2> SUFFICES ASSUME Types, Assembly, Next, NEW q \in Copies
               PROVE  /\ IsPrefix(output[q].tokens, output'[q].tokens)
                      /\ ~output[q].is_cancel => output'[q] = output[q]
    OBVIOUS
  <2>1. CASE output'[q] = output[q]
    <3>1. output[q].tokens \in Seq(Token) /\ Len(output[q].tokens) \in Nat
      BY SequenceTypes
    <3>2. IsPrefix(output[q].tokens, output[q].tokens)
      BY <3>1, Prefix
    <3> QED
      BY <2>1, <3>2
  <2>2. ASSUME NEW new \in Seq(Token), NEW c \in BOOLEAN,
               request[q] # "none", output'[q] = Merged(q, new, c)
        PROVE  /\ IsPrefix(output[q].tokens, output'[q].tokens)
               /\ output[q].is_cancel
    <3>1. output[q].is_cancel
      BY <2>2, Zenon DEF Assembly, RequestFits
    <3> QED
      BY <2>2, <3>1, MergeGrows
  <2>3. ASSUME NEW r \in Copies, NEW v \in Servers, Arrive(r, v)
        PROVE  \/ output'[q] = output[q]
               \/ /\ request[q] # "none"
                  /\ \E new \in Seq(Token), c \in BOOLEAN :
                       output'[q] = Merged(q, new, c)
    <3>1. <<>> \in Seq(Token)
      BY EmptySeq
    <3>2. \/ output' = output
          \/ /\ request[r] = "sent"
             /\ output' = [output EXCEPT ![r] = Merged(r, <<>>, TRUE)]
      BY <2>3 DEF Arrive
    <3> QED
      BY <3>1, <3>2 DEF Types
  <2>4. ASSUME NEW r \in Copies, Return(r)
        PROVE  \/ output'[q] = output[q]
               \/ /\ request[q] # "none"
                  /\ \E new \in Seq(Token), c \in BOOLEAN :
                       output'[q] = Merged(q, new, c)
    <3> DEFINE d == req_output[r] = <<>> \/ is_cancel[r]
    <3>1. req_output[r] \in Seq(Token) /\ d \in BOOLEAN
      BY SequenceTypes
    <3>2. /\ request[r] = "returning"
          /\ output' = [output EXCEPT ![r] = Merged(r, req_output[r], d)]
      BY <2>4 DEF Return
    <3> HIDE DEF d
    <3> QED
      BY <3>1, <3>2 DEF Types
  <2>5. ASSUME NEW r \in Copies, Wake(r) \/ Generate(r)
        PROVE  output' = output
    BY <2>5 DEF Wake, Generate
  <2>6. CASE Task
    BY <2>1, <2>6 DEF Task, CreateTask, StartTask, EndTask
  <2>7. CASE Pause \/ Calls
    <3>1. output' = output
      BY <2>7 DEF Pause, Calls, Gather, Transfer, UpdateParamVersion,
                  ResumeBegin, Cancel, ResetBegin, ResetEnd, Resume
    <3> QED
      BY <2>1, <3>1
  <2>8. CASE Requests
    <3>1. \/ output'[q] = output[q]
          \/ /\ request[q] # "none"
             /\ \E new \in Seq(Token), c \in BOOLEAN :
                  output'[q] = Merged(q, new, c)
      BY <2>3, <2>4, <2>5, <2>8, Zenon DEF Requests
    <3> QED
      BY <2>1, <2>2, <3>1, Zenon
  <2>9. CASE Engine
    BY <2>1, <2>5, <2>9 DEF Engine
  <2> QED
    BY <2>6, <2>7, <2>8, <2>9 DEF Next
<1> QED
  BY <1>1, TypesInvariant, AssemblyInvariant, PTL DEF Spec, GrowsAtTheEnd

-----------------------------------------------------------------------------
\* The log probabilities are not cut, and yet within the model's length.
Within ==
  \A r \in Copies : \A i \in 1..Len(output[r].logps) :
    output[r].logps[i].pos \in 1..MaxTokens

\* What a request has generated is.
LEMMA RequestWithin ==
  ASSUME Types, Assembly, NEW r \in Copies, NEW i \in 1..Len(req_output[r])
  PROVE  req_output[r][i].pos \in 1..MaxTokens
<1>1. /\ Len(output[r].tokens) \in Nat /\ Len(req_output[r]) \in Nat
      /\ Len(output[r].tokens) + Len(req_output[r]) <= MaxTokens
      /\ req_output[r][i].pos = Len(output[r].tokens) + i
  <2>1. RequestFits(r)
    BY DEF Assembly
  <2> QED
    BY <2>1, SequenceTypes, Zenon DEF RequestFits
<1>2. \A L, K, M \in Nat : L + K <= M => \A n \in 1..K : L + n \in 1..M
  OBVIOUS
<1>3. MaxTokens \in Nat
  BY Constants
<1> QED
  BY <1>1, <1>2, <1>3

\* An output changes only by a merge of nothing or of what was generated.
LEMMA OutputChanges ==
  ASSUME Types, [Next]_vars, NEW q \in Copies
  PROVE  \/ output'[q] = output[q]
         \/ \E new \in {<<>>, req_output[q]}, c \in BOOLEAN :
              output'[q] = Merged(q, new, c)
<1>1. ASSUME NEW r \in Copies, NEW v \in Servers, Arrive(r, v)
      PROVE  \/ output'[q] = output[q]
             \/ output'[q] = Merged(q, <<>>, TRUE)
  <2>1. \/ output' = output
        \/ output' = [output EXCEPT ![r] = Merged(r, <<>>, TRUE)]
    BY <1>1 DEF Arrive
  <2> QED
    BY <2>1 DEF Types
<1>2. ASSUME NEW r \in Copies, Return(r)
      PROVE  \/ output'[q] = output[q]
             \/ \E c \in BOOLEAN : output'[q] = Merged(q, req_output[q], c)
  <2> DEFINE d == req_output[r] = <<>> \/ is_cancel[r]
  <2>1. d \in BOOLEAN
    BY SequenceTypes
  <2>2. output' = [output EXCEPT ![r] = Merged(r, req_output[r], d)]
    BY <1>2 DEF Return
  <2> HIDE DEF d
  <2> QED
    BY <2>1, <2>2 DEF Types
<1>3. CASE Requests
  <2>1. ASSUME NEW r \in Copies, Wake(r) PROVE output' = output
    BY <2>1 DEF Wake
  <2> QED
    BY <1>1, <1>2, <1>3, <2>1 DEF Requests
<1>4. CASE Task \/ Engine \/ Pause \/ Calls \/ UNCHANGED vars
  BY <1>4 DEF Task, CreateTask, StartTask, EndTask, Engine, Generate, Pause, Calls, Gather,
     Transfer, UpdateParamVersion, ResumeBegin, Cancel, ResetBegin, ResetEnd, Resume, vars
<1> QED
  BY <1>3, <1>4 DEF Next

\* A merge keeps the log probabilities within the length.
LEMMA WithinStep ==
  ASSUME Types, Assembly, Within, [Next]_vars
  PROVE  Within'
<1> SUFFICES ASSUME NEW q \in Copies
             PROVE  \A i \in 1..Len(output'[q].logps) : output'[q].logps[i].pos \in 1..MaxTokens
  BY DEF Within
<1>0. \A i \in 1..Len(output[q].logps) : output[q].logps[i].pos \in 1..MaxTokens
  BY DEF Within
<1>1. CASE output'[q] = output[q]
  BY <1>0, <1>1
<1>2. ASSUME NEW new \in {<<>>, req_output[q]}, NEW c \in BOOLEAN,
             output'[q] = Merged(q, new, c)
      PROVE  \A i \in 1..Len(output'[q].logps) : output'[q].logps[i].pos \in 1..MaxTokens
  <2> DEFINE p == output[q].logps
  <2>1. /\ p \in Seq(Token) /\ new \in Seq(Token) /\ Len(p) \in Nat /\ Len(new) \in Nat
        /\ \A i \in 1..Len(new) : new[i].pos \in 1..MaxTokens
    <3>1. <<>> \in Seq(Token) /\ Len(<<>>) = 0
      BY EmptySeq
    <3>2. \A i \in 1..Len(<<>>) : FALSE
      OBVIOUS
    <3>3. \A i \in 1..Len(req_output[q]) : req_output[q][i].pos \in 1..MaxTokens
      BY RequestWithin
    <3>4. CASE new = <<>>
      BY <3>1, <3>2, <3>4, SequenceTypes
    <3>5. CASE new = req_output[q]
      BY <3>3, <3>5, SequenceTypes
    <3> QED
      BY <3>4, <3>5
  <2>2. output'[q].logps = p \o new
    BY <1>2, <2>1, MergedProperties
  <2>3. \A i \in 1..Len(p) : p[i].pos \in 1..MaxTokens
    BY <1>0
  <2> HIDE DEF p
  <2>4. /\ Len(p \o new) = Len(p) + Len(new)
        /\ \A i \in 1..(Len(p) + Len(new)) :
             (p \o new)[i] = IF i <= Len(p) THEN p[i] ELSE new[i - Len(p)]
    BY <2>1, ConcatProperties
  <2>5. \A i \in 1..(Len(p) + Len(new)) :
           IF i <= Len(p) THEN i \in 1..Len(p) ELSE i - Len(p) \in 1..Len(new)
    BY <2>1
  <2>6. \A i \in 1..(Len(p) + Len(new)) : (p \o new)[i].pos \in 1..MaxTokens
    <3> TAKE i \in 1..(Len(p) + Len(new))
    <3>1. CASE i <= Len(p)
      BY <2>3, <2>4, <2>5, <3>1, Zenon
    <3>2. CASE ~(i <= Len(p))
      BY <2>1, <2>4, <2>5, <3>2, Zenon
    <3> QED
      BY <3>1, <3>2
  <2> QED
    BY <2>2, <2>4, <2>6, Zenon
<1> QED
  BY <1>1, <1>2, OutputChanges

\* A sequence of tokens within the bounds.
LEMMA TokensBounded ==
  ASSUME NEW s \in Seq(Token),
         \A i \in 1..Len(s) : s[i].pos \in 1..MaxTokens /\ s[i].ver \in Versions
  PROVE  s \in Seq(Tokens)
<1>1. \A i \in 1..Len(s) : s[i] \in Token
  BY ElementOfSeq, LenProperties
<1>2. \A i \in 1..Len(s) : s[i] \in Tokens
  BY <1>1 DEF Token, Tokens
<1>3. s \in [1..Len(s) -> Tokens] /\ Len(s) \in Nat
  BY <1>2, LenProperties
<1> DEFINE n == Len(s)
<1>4. s \in [1..n -> Tokens] /\ n \in Nat
  BY <1>3
<1> HIDE DEF n
<1> QED
  BY <1>4

(***************************************************************************)
(* Every variable has its type and stays within its bounds: no server is   *)
(* asked for more than max_model_len (vllm_async_server.py computes        *)
(* max_tokens from the prompt it is sent again with), no label is of a     *)
(* version there was not, and a phase never waits for a server that has    *)
(* answered.                                                               *)
(***************************************************************************)
THEOREM Bounds == Spec => []TypeOK
<1>1. Init => Within
  <2> SUFFICES ASSUME Init, NEW r \in Copies PROVE Len(output[r].logps) = 0
    BY DEF Within
  <2>1. output[r].logps = <<>>
    BY DEF Init
  <2> QED
    BY <2>1
<1>2. Types /\ Assembly /\ Within /\ [Next]_vars => Within'
  BY WithinStep
<1>3. Types /\ Coordination /\ Assembly /\ Within => TypeOK
  <2> SUFFICES ASSUME Types, Coordination, Assembly, Within PROVE TypeOK
    OBVIOUS
  <2>1. /\ weights \in Versions /\ version \in Versions /\ label \in Versions
        /\ \A k \in Nat : k <= weights => k \in Versions
    <3>1. weights \in Nat /\ version \in Nat /\ label \in Nat /\ MaxSyncs \in Nat
      BY Constants DEF Types
    <3>2. weights <= MaxSyncs /\ version <= weights /\ label <= version
      BY <3>1 DEF Coordination
    <3> QED
      BY <3>1, <3>2 DEF Versions
  <2>2. ASSUME NEW r \in Copies
        PROVE  /\ req_output[r] \in Seq(Tokens)
               /\ output[r] \in [tokens : Seq(Tokens), logps : Seq(Tokens),
                                 is_cancel : BOOLEAN, start : Versions \cup {-1},
                                 end : Versions \cup {-1}]
    <3> DEFINE o == output[r]
               q == req_output[r]
    <3>1. /\ o \in Output /\ o.tokens \in Seq(Token) /\ o.logps \in Seq(Token)
          /\ q \in Seq(Token) /\ o.start \in Int /\ o.end \in Int
          /\ Len(o.tokens) \in Nat /\ Len(o.logps) \in Nat
      BY SequenceTypes DEF Types
    <3>2. OutputFits(r) /\ RequestFits(r)
      BY DEF Assembly
    <3>3. \A i \in 1..Len(o.logps) : o.logps[i] \in Token /\ o.logps[i].ver <= weights
      BY <3>1, <3>2, ElementOfSeq, Zenon DEF OutputFits
    <3>4. \A i \in 1..Len(q) : q[i] \in Token /\ q[i].ver <= weights
      BY <3>1, <3>2, ElementOfSeq, Zenon DEF RequestFits
    <3>5. o.logps \in Seq(Tokens)
      <4>1. \A i \in 1..Len(o.logps) : o.logps[i].pos \in 1..MaxTokens
        BY DEF Within
      <4>2. \A i \in 1..Len(o.logps) : o.logps[i].ver \in Versions
        BY <2>1, <3>3 DEF Token
      <4> QED
        BY <3>1, <4>1, <4>2, TokensBounded
    <3>6. q \in Seq(Tokens)
      <4>1. \A i \in 1..Len(q) : q[i].pos \in 1..MaxTokens
        BY RequestWithin
      <4>2. \A i \in 1..Len(q) : q[i].ver \in Versions
        BY <2>1, <3>4 DEF Token
      <4> QED
        BY <3>1, <4>1, <4>2, TokensBounded
    <3>7. o.tokens \in Seq(Tokens)
      <4>1. Len(o.tokens) <= Len(o.logps)
            /\ \A i \in 1..Len(o.tokens) : o.logps[i] = o.tokens[i]
        BY <3>2, Zenon DEF OutputFits
      <4>2. \A i \in 1..Len(o.tokens) : i \in 1..Len(o.logps)
        BY <3>1, <4>1
      <4>3. \A i \in 1..Len(o.tokens) : o.tokens[i].pos \in 1..MaxTokens
        BY <4>1, <4>2 DEF Within
      <4>4. \A i \in 1..Len(o.tokens) : o.tokens[i].ver \in Versions
        BY <2>1, <3>3, <4>1, <4>2 DEF Token
      <4> QED
        BY <3>1, <4>3, <4>4, TokensBounded
    <3>8. o.start \in Versions \cup {-1} /\ o.end \in Versions \cup {-1}
      <4>1. -1 <= o.start /\ o.start <= label /\ -1 <= o.end /\ o.end <= label
        BY <3>2, Zenon DEF OutputFits
      <4>2. label \in Nat /\ label <= MaxSyncs /\ MaxSyncs \in Nat
        BY <2>1, Constants DEF Versions
      <4> QED
        BY <3>1, <4>1, <4>2 DEF Versions
    <3> QED
      BY <3>1, <3>5, <3>6, <3>7, <3>8 DEF Output
  <2>3. answered # Servers
    BY DEF Coordination
  <2> QED
    BY <2>1, <2>2, <2>3 DEF Types, TypeOK, Phases
<1> QED
  BY <1>1, <1>2, <1>3, TypesInvariant, CoordinationInvariant, AssemblyInvariant, PTL DEF Spec
=============================================================================
