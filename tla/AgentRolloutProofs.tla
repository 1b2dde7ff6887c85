------------------------- MODULE AgentRolloutProofs -------------------------
(***************************************************************************)
(* That answers reach the rows they answer, come from the weights that are *)
(* trained, are scored on a token the LLM has sampled, and that each       *)
(* conversation stays on one server: for every number of servers, workers, *)
(* rows and copies, every length and every plan.  The invariants say what  *)
(* a conversation may look like in each of its states, where the prompt of *)
(* every row is, and what the cache of a worker holds.  First, what the    *)
(* operations of Batches do to the rows of a batch, for batches, divisors  *)
(* and numbers of copies of every size.                                    *)
(***************************************************************************)
EXTENDS AgentRollout, FiniteSetTheorems, TLAPS

-----------------------------------------------------------------------------
\* The rows of a batch.

\* Products of naturals are monotone.
LEMMA MulMono ==
  ASSUME NEW a \in Nat, NEW b \in Nat, NEW c \in Nat, a <= b
  PROVE  a * c <= b * c /\ c * a <= c * b
  OBVIOUS

\* Quotient and remainder.
LEMMA DivMod ==
  ASSUME NEW x \in Nat, NEW n \in Nat \ {0}
  PROVE  /\ x \div n \in Nat /\ x % n \in 0..(n - 1)
         /\ x = n * (x \div n) + (x % n)
  OBVIOUS

\* The quotient of an index below k * n is an index below k.
LEMMA DivBound ==
  ASSUME NEW k \in Nat, NEW n \in Nat \ {0}, NEW x \in Nat, x < k * n
  PROVE  x \div n < k
  BY DivMod, MulMono

\* Quotient and remainder are the only ones.
LEMMA DivUnique ==
  ASSUME NEW q \in Nat, NEW n \in Nat \ {0}, NEW r \in 0..(n - 1)
  PROVE  /\ (q * n + r) \div n = q /\ (q * n + r) % n = r
  OBVIOUS

\* A function on 1..m with values in S is a sequence of length m.
LEMMA IsSeq ==
  ASSUME NEW S, NEW m \in Nat, NEW f, f \in [1..m -> S]
  PROVE  f \in Seq(S) /\ Len(f) = m /\ DOMAIN f = 1..m
  OBVIOUS

\* repeat gives n copies of every row.
LEMMA RepeatSeq ==
  ASSUME NEW S, NEW batch \in Seq(S), NEW n \in Nat \ {0}
  PROVE  Repeat(batch, n) \in Seq(S) /\ Len(Repeat(batch, n)) = n * Len(batch)
<1>1. n * Len(batch) \in Nat
  OBVIOUS
<1>2. ASSUME NEW i \in 1..(n * Len(batch))
      PROVE  batch[((i - 1) \div n) + 1] \in S
  <2>1. i - 1 \in Nat /\ i - 1 < Len(batch) * n /\ Len(batch) \in Nat
    BY <1>1
  <2>2. (i - 1) \div n \in Nat /\ (i - 1) \div n < Len(batch)
    BY <2>1, DivBound, DivMod
  <2> QED BY <2>2
<1>3. Repeat(batch, n) \in [1..(n * Len(batch)) -> S]
  BY <1>2 DEF Repeat
<1> QED BY <1>1, <1>3, IsSeq

\* A padded batch divides into k parts; its rows up to the padding are those
\* of the batch, and the padding consists of rows of it.
LEMMA PadSeq ==
  ASSUME NEW S, NEW batch \in Seq(S), Len(batch) # 0, NEW k \in Nat \ {0}
  PROVE  /\ Pad(batch, k) \in Seq(S)
         /\ PadSize(batch, k) \in 0..(k - 1)
         /\ Len(Pad(batch, k)) = Len(batch) + PadSize(batch, k)
         /\ Divides(k, Pad(batch, k))
         /\ \A i \in 1..Len(batch) : Pad(batch, k)[i] = batch[i]
<1> DEFINE len == Len(batch)
           pad == PadSize(batch, k)
<1>1. len \in Nat \ {0}
  OBVIOUS
<1>2. pad \in 0..(k - 1)
  <2>1. len % k \in 0..(k - 1)
    BY <1>1, DivMod
  <2>2. k - (len % k) \in Nat
    BY <2>1
  <2> QED BY <2>2, DivMod DEF PadSize
<1>3. ASSUME NEW i \in 1..(len + pad)
      PROVE  batch[((i - 1) % len) + 1] \in S
  <2>1. i - 1 \in Nat
    BY <1>1, <1>2
  <2>2. (i - 1) % len \in 0..(len - 1)
    BY <1>1, <2>1, DivMod
  <2> QED BY <1>1, <2>2
<1>4. Pad(batch, k) \in [1..(len + pad) -> S]
  BY <1>3 DEF Pad
<1>5. Pad(batch, k) \in Seq(S) /\ Len(Pad(batch, k)) = len + pad
  <2>1. len + pad \in Nat
    BY <1>1, <1>2
  <2> QED BY <1>4, <2>1, IsSeq
<1>6. (len + pad) % k = 0
  <2> DEFINE q == len \div k
             r == len % k
  <2>1. q \in Nat /\ r \in 0..(k - 1) /\ len = k * q + r
    BY <1>1, DivMod
  <2>4. ASSUME NEW m \in Nat
        PROVE  (m * k) % k = 0
    <3>1. 0 \in 0..(k - 1) /\ m * k + 0 = m * k
      OBVIOUS
    <3>2. (m * k + 0) % k = 0
      BY <3>1, DivUnique
    <3> QED BY <3>1, <3>2
  <2>2. CASE r = 0
    <3>1. pad = k % k
      BY <2>2 DEF PadSize
    <3>2. k % k = 0
      <4>1. (1 * k) % k = 0
        BY <2>4
      <4> QED BY <4>1
    <3>3. len + pad = q * k
      BY <2>1, <2>2, <3>1, <3>2
    <3> QED BY <2>1, <2>4, <3>3
  <2>3. CASE r # 0
    <3>1. pad = k - r
      <4>1. k - r \in 0..(k - 1)
        BY <2>1, <2>3
      <4>2. (0 * k + (k - r)) % k = k - r
        BY <4>1, DivUnique
      <4> QED BY <4>1, <4>2 DEF PadSize
    <3>2. len + pad = (q + 1) * k /\ q + 1 \in Nat
      BY <2>1, <3>1
    <3> QED BY <2>4, <3>2
  <2> QED BY <2>2, <2>3
<1>7. ASSUME NEW i \in 1..len
      PROVE  Pad(batch, k)[i] = batch[i]
  <2>1. i - 1 \in 0..(len - 1) /\ i \in 1..(len + pad)
    BY <1>1, <1>2
  <2>2. (0 * len + (i - 1)) % len = i - 1
    BY <1>1, <2>1, DivUnique
  <2>3. (i - 1) % len = i - 1
    BY <1>1, <2>1, <2>2
  <2>4. Pad(batch, k)[i] = batch[((i - 1) % len) + 1]
    BY <2>1 DEF Pad
  <2> QED BY <2>1, <2>3, <2>4
<1> QED BY <1>2, <1>5, <1>6, <1>7 DEF Divides

\* What the parts are, and where a row is among them.
Parts(S, parts, k, size) ==
  parts \in Seq(Seq(S)) /\ Len(parts) = k /\ \A w \in 1..k : Len(parts[w]) = size
InParts(row, i, parts, k, size) ==
  \E w \in 1..k, j \in 1..size : i = (w - 1) * size + j /\ row = parts[w][j]

\* chunk gives k parts of one size.
LEMMA ChunkSeq ==
  ASSUME NEW S, NEW batch \in Seq(S), NEW k \in Nat \ {0},
         Divides(k, batch), Len(batch) # 0
  PROVE  /\ Len(batch) \div k \in Nat \ {0}
         /\ Len(batch) = k * (Len(batch) \div k)
         /\ Parts(S, Chunk(batch, k), k, Len(batch) \div k)
<1> DEFINE size == Len(batch) \div k
<1>1. size \in Nat \ {0} /\ Len(batch) = k * size
  BY DivMod DEF Divides
<1>2. ASSUME NEW w \in 1..k
      PROVE  /\ Chunk(batch, k)[w] \in Seq(S)
             /\ Len(Chunk(batch, k)[w]) = size
  <2>1. ASSUME NEW j \in 1..size
        PROVE  batch[(w - 1) * size + j] \in S
    <3>1. (w - 1) * size + j \in Nat \ {0}
      BY <1>1, <2>1
    <3>2. (w - 1) * size + size = w * size
      BY <1>1
    <3>3. w * size <= k * size
      BY <1>1, MulMono
    <3>4. (w - 1) * size + j <= k * size
      BY <1>1, <3>1, <3>2, <3>3
    <3> QED BY <1>1, <3>1, <3>4
  <2>2. Chunk(batch, k)[w] = [j \in 1..size |-> batch[(w - 1) * size + j]]
    BY DEF Chunk
  <2>3. Chunk(batch, k)[w] \in [1..size -> S]
    BY <2>1, <2>2
  <2> QED BY <1>1, <2>3, IsSeq
<1>3. Chunk(batch, k) \in [1..k -> Seq(S)]
  <2>1. DOMAIN Chunk(batch, k) = 1..k /\ Chunk(batch, k) = [w \in 1..k |-> Chunk(batch, k)[w]]
    BY DEF Chunk
  <2> QED BY <1>2, <2>1
<1>4. Chunk(batch, k) \in Seq(Seq(S)) /\ Len(Chunk(batch, k)) = k
  BY <1>3, IsSeq
<1> QED BY <1>1, <1>2, <1>4 DEF Parts

\* concat puts row j of part w where chunk has taken it from.
LEMMA ConcatSeq ==
  ASSUME NEW S, NEW k \in Nat \ {0}, NEW size \in Nat \ {0}, NEW parts,
         Parts(S, parts, k, size)
  PROVE  /\ Concat(parts, k) \in Seq(S) /\ Len(Concat(parts, k)) = k * size
         /\ \A i \in 1..(k * size) : InParts(Concat(parts, k)[i], i, parts, k, size)
<1>0. /\ parts \in Seq(Seq(S)) /\ Len(parts) = k
      /\ \A w \in 1..k : Len(parts[w]) = size
  BY DEF Parts
<1>1. k * size \in Nat /\ Len(parts[1]) = size
  BY <1>0
<1>2. ASSUME NEW i \in 1..(k * size)
      PROVE  /\ ((i - 1) \div size) + 1 \in 1..k /\ ((i - 1) % size) + 1 \in 1..size
             /\ i = (((i - 1) \div size) + 1 - 1) * size + (((i - 1) % size) + 1)
  <2>1. i - 1 \in Nat /\ i - 1 < k * size
    BY <1>1
  <2>2. (i - 1) \div size < k
    BY <2>1, DivBound
  <2>3. /\ (i - 1) \div size \in Nat /\ (i - 1) % size \in 0..(size - 1)
        /\ i - 1 = size * ((i - 1) \div size) + ((i - 1) % size)
    BY <2>1, DivMod
  <2> QED BY <2>2, <2>3
<1>3. ASSUME NEW i \in 1..(k * size)
      PROVE  parts[((i - 1) \div size) + 1][((i - 1) % size) + 1] \in S
  <2>1. \A w \in 1..k, j \in 1..size : parts[w][j] \in S
    BY <1>0
  <2> QED BY <1>2, <2>1
<1>4. Concat(parts, k)
        = [i \in 1..(k * size) |-> parts[((i - 1) \div size) + 1][((i - 1) % size) + 1]]
  BY <1>1 DEF Concat
<1>5. Concat(parts, k) \in [1..(k * size) -> S]
  BY <1>3, <1>4
<1>6. Concat(parts, k) \in Seq(S) /\ Len(Concat(parts, k)) = k * size
  BY <1>1, <1>5, IsSeq
<1>7. ASSUME NEW i \in 1..(k * size)
      PROVE  \E w \in 1..k, j \in 1..size :
                i = (w - 1) * size + j /\ Concat(parts, k)[i] = parts[w][j]
  <2>1. Concat(parts, k)[i] = parts[((i - 1) \div size) + 1][((i - 1) % size) + 1]
    BY <1>4
  <2> DEFINE w == ((i - 1) \div size) + 1
             j == ((i - 1) % size) + 1
  <2>2. w \in 1..k /\ j \in 1..size
    BY <1>2
  <2>3. i = (w - 1) * size + j
    BY <1>2
  <2>4. Concat(parts, k)[i] = parts[w][j]
    BY <2>1
  <2> HIDE DEF w, j
  <2> QED BY <2>2, <2>3, <2>4
<1> QED BY <1>6, <1>7 DEF InParts

\* Where chunk takes a row from.
LEMMA ChunkAt ==
  ASSUME NEW S, NEW batch \in Seq(S), NEW k \in Nat \ {0},
         NEW w \in 1..k, NEW j \in 1..(Len(batch) \div k)
  PROVE  Chunk(batch, k)[w][j] = batch[(w - 1) * (Len(batch) \div k) + j]
  BY DEF Chunk

\* A batch that is chunked and put together again is the batch it was.
THEOREM ChunksJoin ==
  ASSUME NEW S, NEW batch \in Seq(S), Len(batch) # 0, NEW k \in Nat \ {0},
         Divides(k, batch)
  PROVE  Concat(Chunk(batch, k), k) = batch
<1> DEFINE size == Len(batch) \div k
           parts == Chunk(batch, k)
           whole == Concat(parts, k)
<1>1. /\ size \in Nat \ {0} /\ Len(batch) = k * size
      /\ Parts(S, parts, k, size)
  BY ChunkSeq
<1>2. \A w \in 1..k, j \in 1..size : parts[w][j] = batch[(w - 1) * size + j]
  BY ChunkAt
<1>3. /\ whole \in Seq(S) /\ Len(whole) = k * size
      /\ \A i \in 1..(k * size) : InParts(whole[i], i, parts, k, size)
  <2> HIDE DEF size, parts
  <2> QED BY <1>1, ConcatSeq DEF whole
<1> HIDE DEF size, parts, whole
<1>4. ASSUME NEW i \in 1..Len(batch)
      PROVE  whole[i] = batch[i]
  <2>1. InParts(whole[i], i, parts, k, size)
    BY <1>1, <1>3
  <2> QED BY <1>2, <2>1 DEF InParts
<1>5. Len(whole) = Len(batch)
  BY <1>1, <1>3
<1> QED BY <1>3, <1>4, <1>5 DEF whole, parts

-----------------------------------------------------------------------------
\* The rollouts.
Bits == {0, 1}
Bit(token) == IF IsLLM(token) THEN 1 ELSE 0
Toks == [server : Servers, version : Int] \union {Observation}
Conv ==
  [prompt : Nat,
   state : {"PENDING", "GENERATING", "REQUESTED", "PROCESSING_TOOLS",
            "INTERACTING", "TERMINATED", "RAISED"},
   server : Servers \union {NoServer}, tokens : Seq(Toks), mask : Seq(Bits),
   logprobs : Seq(Bits), user_turns : Nat, assistant_turns : Nat]

Current(token, u) == FreeCacheEngine /\ IsLLM(token) => token.version = u

\* Mask and logprobs are those of the tokens, which weights u have sampled.
Aligned(c, u) ==
  /\ Len(c.mask) = Len(c.tokens) /\ Len(c.logprobs) = Len(c.tokens)
  /\ \A i \in 1..Len(c.tokens) :
        /\ c.mask[i] = Bit(c.tokens[i]) /\ c.logprobs[i] = Bit(c.tokens[i])
        /\ Current(c.tokens[i], u)

\* What is true of a conversation in its state; x says whether users take part.
Placed(c, x) ==
  /\ c.state = "REQUESTED" => c.server \in Servers
  /\ c.state \in {"PROCESSING_TOOLS", "INTERACTING", "TERMINATED"} => Len(c.tokens) # 0
  /\ ~x => /\ c.state \in {"PENDING", "GENERATING", "REQUESTED", "PROCESSING_TOOLS"}
                => Len(c.tokens) < ResponseLength
           /\ c.state \in {"PROCESSING_TOOLS", "TERMINATED"}
                => IsLLM(c.tokens[Smaller(Len(c.tokens), ResponseLength)])
           /\ c.state # "INTERACTING"

Good(u, x) == {c \in Conv : Aligned(c, u) /\ Placed(c, x)}

-----------------------------------------------------------------------------
\* The constants the proofs are about.
LEMMA Lengths ==
  ResponseLength \in Nat \ {0} /\ MaxNew \in Nat \ {0} /\ MaxObservation \in Nat \ {0}
  BY AgentLoopAssumption

\* What a configuration consists of.
LEMMA Configured ==
  ASSUME config \in Configs
  PROVE  /\ config.interactive \in BOOLEAN /\ config.workers \in Nat \ {0}
         /\ config.prompts \in Nat \ {0} /\ config.n \in Nat \ {0}
         /\ config.tests \in Nat \ {0}
  BY AgentLoopAssumption

\* Only the tokens, their mask and their logprobs matter for alignment.
LEMMA SameAligned ==
  ASSUME NEW u, NEW c, NEW d, Aligned(c, u),
         d.tokens = c.tokens, d.mask = c.mask, d.logprobs = c.logprobs
  PROVE  Aligned(d, u)
  BY DEF Aligned

\* t is s with k copies of x at its end.
Grown(s, t, x, k) ==
  /\ Len(t) = Len(s) + k
  /\ \A i \in 1..Len(s) : t[i] = s[i]
  /\ \A j \in 1..k : t[Len(s) + j] = x

\* A sequence with copies of a token at its end.
LEMMA CopiesSeq ==
  ASSUME NEW S, NEW s \in Seq(S), NEW x \in S, NEW k \in Nat
  PROVE  s \o Copies(x, k) \in Seq(S) /\ Grown(s, s \o Copies(x, k), x, k)
<1>1. /\ s \o Copies(x, k) \in Seq(S) /\ Len(s \o Copies(x, k)) = Len(s) + k
      /\ \A i \in 1..Len(s) : (s \o Copies(x, k))[i] = s[i]
      /\ \A j \in 1..k : (s \o Copies(x, k))[Len(s) + j] = x
  BY DEF Copies
<1> QED BY <1>1 DEF Grown

\* d is c with k tokens more.
Longer(c, d, token, k) ==
  /\ Len(d.tokens) = Len(c.tokens) + k
  /\ \A j \in 1..k : d.tokens[Len(c.tokens) + j] = token

\* The tokens of a generation or an observation keep everything aligned.
LEMMA AddAligned ==
  ASSUME NEW u, NEW c \in Conv, Aligned(c, u), NEW token \in Toks, NEW k \in Nat,
         Current(token, u)
  PROVE  LET d == AddTokens(c, token, k, Bit(token), Copies(Bit(token), k))
         IN  d \in Conv /\ Aligned(d, u) /\ Longer(c, d, token, k)
<1> DEFINE len == Len(c.tokens)
           bit == Bit(token)
           d == AddTokens(c, token, k, bit, Copies(bit, k))
<1>1. /\ c.tokens \in Seq(Toks) /\ c.mask \in Seq(Bits) /\ c.logprobs \in Seq(Bits)
      /\ len \in Nat /\ Len(c.mask) = len /\ Len(c.logprobs) = len
  BY DEF Conv, Aligned
<1>2. bit \in Bits
  BY DEF Bit, Bits
<1>3. /\ d.tokens = c.tokens \o Copies(token, k) /\ d.mask = c.mask \o Copies(bit, k)
      /\ d.logprobs = c.logprobs \o Copies(bit, k)
      /\ d = [c EXCEPT !.tokens = d.tokens, !.mask = d.mask, !.logprobs = d.logprobs]
  <2> HIDE DEF bit
  <2> QED BY DEF AddTokens, Conv
<1> HIDE DEF bit, d
<1>4. d.tokens \in Seq(Toks) /\ Grown(c.tokens, d.tokens, token, k)
  <2>1. c.tokens \in Seq(Toks)
    BY <1>1
  <2>2. c.tokens \o Copies(token, k) \in Seq(Toks) /\ Grown(c.tokens, c.tokens \o Copies(token, k), token, k)
    BY <1>2, <2>1, CopiesSeq
  <2> QED BY <1>3, <2>2
<1>5. d.mask \in Seq(Bits) /\ Grown(c.mask, d.mask, bit, k)
  <2>1. c.mask \in Seq(Bits)
    BY <1>1
  <2>2. c.mask \o Copies(bit, k) \in Seq(Bits) /\ Grown(c.mask, c.mask \o Copies(bit, k), bit, k)
    BY <1>2, <2>1, CopiesSeq
  <2> QED BY <1>3, <2>2
<1>6. d.logprobs \in Seq(Bits) /\ Grown(c.logprobs, d.logprobs, bit, k)
  <2>1. c.logprobs \in Seq(Bits)
    BY <1>1
  <2>2. c.logprobs \o Copies(bit, k) \in Seq(Bits) /\ Grown(c.logprobs, c.logprobs \o Copies(bit, k), bit, k)
    BY <1>2, <2>1, CopiesSeq
  <2> QED BY <1>3, <2>2
<1>10. /\ Len(d.tokens) = len + k /\ Len(d.mask) = len + k /\ Len(d.logprobs) = len + k
       /\ \A i \in 1..len : /\ d.tokens[i] = c.tokens[i]
                             /\ d.mask[i] = c.mask[i] /\ d.logprobs[i] = c.logprobs[i]
       /\ \A j \in 1..k : /\ d.tokens[len + j] = token
                           /\ d.mask[len + j] = bit /\ d.logprobs[len + j] = bit
  <2> HIDE DEF len
  <2>1. Len(c.tokens) = len
    BY DEF len
  <2> QED BY <1>1, <1>4, <1>5, <1>6, <2>1 DEF Grown
<1>7. d \in Conv
  BY <1>3, <1>4, <1>5, <1>6 DEF Conv
<1>8. Aligned(d, u)
  <2> SUFFICES ASSUME NEW i \in 1..(len + k)
               PROVE  /\ d.mask[i] = Bit(d.tokens[i]) /\ d.logprobs[i] = Bit(d.tokens[i])
                      /\ Current(d.tokens[i], u)
    BY <1>10 DEF Aligned
  <2>1. CASE i \in 1..len
    BY <1>10, <2>1 DEF Aligned
  <2>2. CASE i \notin 1..len
    <3>1. i - len \in 1..k /\ i = len + (i - len)
      BY <1>1, <2>2
    <3>2. d.tokens[i] = token /\ d.mask[i] = bit /\ d.logprobs[i] = bit
      <4> HIDE DEF len
      <4> QED BY <1>10, <3>1
    <3> QED BY <3>2 DEF bit
  <2> QED BY <2>1, <2>2
<1>9. Longer(c, d, token, k)
  BY <1>10 DEF Longer
<1> QED BY <1>7, <1>8, <1>9 DEF d, bit

\* A conversation stays good from state to state.
LEMMA NewGood ==
  ASSUME config \in Configs, NEW u, NEW x, NEW prompt \in Nat
  PROVE  NewConv(prompt) \in Good(u, x)
<1> DEFINE c == NewConv(prompt)
<1>1. c \in Conv
  BY DEF NewConv, Conv
<1>2. c.tokens = <<>> /\ c.mask = <<>> /\ c.logprobs = <<>> /\ c.state \in {"PENDING", "GENERATING"}
  BY DEF NewConv
<1>3. c \in Good(u, x)
  <2> HIDE DEF c
  <2>1. Aligned(c, u)
    BY <1>2 DEF Aligned
  <2>2. Placed(c, x)
    BY <1>2, Lengths DEF Placed
  <2> QED BY <1>1, <2>1, <2>2 DEF Good
<1> QED BY <1>3

\* _handle_pending_state leaves a good conversation.
LEMMA PreparedGood ==
  ASSUME NEW u, NEW x, NEW c \in Good(u, x), c.state = "PENDING"
  PROVE  [c EXCEPT !.state = "GENERATING"] \in Good(u, x)
<1> DEFINE d == [c EXCEPT !.state = "GENERATING"]
<1>1. c \in Conv
  BY DEF Good
<1>2. /\ d \in Conv /\ d.tokens = c.tokens /\ d.mask = c.mask /\ d.logprobs = c.logprobs
      /\ d.state = "GENERATING"
  BY <1>1 DEF Conv
<1>3. d \in Good(u, x)
  <2> HIDE DEF d
  <2>1. Aligned(d, u)
    BY <1>2, SameAligned DEF Good
  <2>2. Placed(d, x)
    BY <1>2 DEF Good, Placed
  <2> QED BY <1>2, <2>1, <2>2 DEF Good
<1> QED BY <1>3

\* A server that is chosen for a conversation leaves it good.
LEMMA RequestedGood ==
  ASSUME NEW u, NEW x, NEW c \in Good(u, x), c.state = "GENERATING", NEW s \in Servers
  PROVE  [c EXCEPT !.state = "REQUESTED", !.server = s] \in Good(u, x)
<1> DEFINE d == [c EXCEPT !.state = "REQUESTED", !.server = s]
<1>1. c \in Conv
  BY DEF Good
<1>2. /\ d \in Conv /\ d.tokens = c.tokens /\ d.mask = c.mask /\ d.logprobs = c.logprobs
      /\ d.state = "REQUESTED" /\ d.server = s
  BY <1>1 DEF Conv
<1>3. d \in Good(u, x)
  <2> HIDE DEF d
  <2>1. Aligned(d, u)
    BY <1>2, SameAligned DEF Good
  <2>2. Placed(d, x)
    BY <1>2 DEF Good, Placed
  <2> QED BY <1>2, <2>1, <2>2 DEF Good
<1> QED BY <1>3

\* So does an exception.
LEMMA RaisedGood ==
  ASSUME NEW u, NEW x, NEW c \in Good(u, x)
  PROVE  Raised(c) \in Good(u, x)
<1> DEFINE d == Raised(c)
<1>1. c \in Conv
  BY DEF Good
<1>2. /\ d \in Conv /\ d.tokens = c.tokens /\ d.mask = c.mask /\ d.logprobs = c.logprobs
      /\ d.state = "RAISED"
  BY <1>1 DEF Conv, Raised
<1>3. d \in Good(u, x)
  <2> HIDE DEF d
  <2>1. Aligned(d, u)
    BY <1>2, SameAligned DEF Good
  <2>2. Placed(d, x)
    BY <1>2 DEF Good, Placed
  <2> QED BY <1>2, <2>1, <2>2 DEF Good
<1> QED BY <1>3

\* The answer of a server leaves a good conversation.
LEMMA GeneratedGood ==
  ASSUME config \in Configs, NEW u, NEW c \in Good(u, config.interactive),
         c.state = "REQUESTED", NEW version \in Int, FreeCacheEngine => version = u,
         NEW k \in Nat \ {0}, NEW calls \in BOOLEAN
  PROVE  Generated(c, version, k, calls) \in Good(u, config.interactive)
<1> DEFINE x == config.interactive
           b == [c EXCEPT !.assistant_turns = @ + 1, !.server = NoServer]
           token == [server |-> c.server, version |-> version]
           said == AddTokens(b, token, k, 1, Copies(1, k))
           d == Generated(c, version, k, calls)
<1>1. c \in Conv /\ Aligned(c, u) /\ Placed(c, x)
  BY DEF Good
<1>2. /\ b \in Conv /\ b.tokens = c.tokens /\ b.mask = c.mask /\ b.logprobs = c.logprobs
  <2>1. c.assistant_turns + 1 \in Nat
    BY <1>1 DEF Conv
  <2> QED BY <1>1, <2>1 DEF Conv
<1>3. Aligned(b, u)
  <2> HIDE DEF b
  <2> QED BY <1>1, <1>2 DEF Aligned
<1>4. c.server \in Servers
  BY <1>1 DEF Placed
<1>5. token \in Toks /\ IsLLM(token) /\ Bit(token) = 1 /\ 1 \in Bits
      /\ token.version = version
  BY <1>4, AgentLoopAssumption DEF Toks, IsLLM, Bit, Bits
<1>6. said \in Conv /\ Aligned(said, u) /\ Longer(b, said, token, k)
  <2>1. said = AddTokens(b, token, k, Bit(token), Copies(Bit(token), k))
    BY <1>5
  <2>2. b \in Conv /\ token \in Toks /\ k \in Nat
    BY <1>2, <1>5
  <2>3. Current(token, u)
    BY <1>5 DEF Current
  <2> HIDE DEF b, token, said
  <2> QED BY <1>3, <2>1, <2>2, <2>3, AddAligned
<1>15. /\ Len(said.tokens) = Len(c.tokens) + k
       /\ \A j \in 1..k : said.tokens[Len(c.tokens) + j] = token
  <2> HIDE DEF b, token, said
  <2> QED BY <1>2, <1>6 DEF Longer
<1>7. /\ d.tokens = said.tokens /\ d.mask = said.mask /\ d.logprobs = said.logprobs
      /\ d.state = AfterGenerating(said, calls) /\ d \in Conv
  <2>1. d = [said EXCEPT !.state = AfterGenerating(said, calls)]
    BY DEF Generated
  <2>2. AfterGenerating(said, calls) \in {"TERMINATED", "PROCESSING_TOOLS", "INTERACTING"}
    BY DEF AfterGenerating
  <2> HIDE DEF said, d
  <2> QED BY <1>6, <2>1, <2>2 DEF Conv
<1>8. Aligned(d, u)
  <2> HIDE DEF said, d
  <2> QED BY <1>6, <1>7 DEF Aligned
<1>9. Len(c.tokens) \in Nat /\ Len(d.tokens) = Len(c.tokens) + k /\ Len(said.mask) = Len(d.tokens)
  <2> HIDE DEF said, d
  <2> QED BY <1>1, <1>6, <1>7, <1>15 DEF Conv, Aligned
<1>10. ~x => IsLLM(d.tokens[Smaller(Len(d.tokens), ResponseLength)])
  <2> SUFFICES ASSUME ~x PROVE IsLLM(d.tokens[Smaller(Len(d.tokens), ResponseLength)])
    OBVIOUS
  <2>1. Len(c.tokens) < ResponseLength
    BY <1>1 DEF Placed
  <2>2. \E j \in 1..k : Smaller(Len(d.tokens), ResponseLength) = Len(c.tokens) + j
    <3> DEFINE j == Smaller(Len(d.tokens), ResponseLength) - Len(c.tokens)
    <3>1. j \in 1..k /\ Smaller(Len(d.tokens), ResponseLength) = Len(c.tokens) + j
      BY <1>9, <2>1, Lengths DEF Smaller
    <3> QED BY <3>1
  <2> HIDE DEF said, d, token
  <2> QED BY <1>5, <1>7, <1>15, <2>2
<1>11. d.state = "PROCESSING_TOOLS" => Len(d.tokens) < ResponseLength
  <2> HIDE DEF said, d
  <2> QED BY <1>7, <1>9, Lengths DEF AfterGenerating, TurnsOver
<1>12. d.state \in {"TERMINATED", "PROCESSING_TOOLS"} \/ (x /\ d.state = "INTERACTING")
  <2> HIDE DEF said, d
  <2> QED BY <1>7 DEF AfterGenerating
<1>13. Placed(d, x)
  <2> HIDE DEF said, d, x
  <2> QED BY <1>9, <1>10, <1>11, <1>12 DEF Placed
<1>14. d \in Good(u, x)
  <2> HIDE DEF d, x
  <2> QED BY <1>7, <1>8, <1>13 DEF Good
<1> QED BY <1>14

\* What tools or a user say is aligned with a mask of zeros.
LEMMA ObservedGood ==
  ASSUME NEW u, NEW c \in Conv, Aligned(c, u), Len(c.tokens) # 0, NEW k \in Nat \ {0}
  PROVE  /\ Observe(c, k) \in Conv /\ Aligned(Observe(c, k), u)
         /\ Len(Observe(c, k).tokens) = Len(c.tokens) + k
<1>1. Observation \in Toks /\ ~IsLLM(Observation) /\ Bit(Observation) = 0 /\ 0 \in Bits
      /\ Current(Observation, u)
  BY DEF Toks, Observation, IsLLM, Bit, Bits, Current
<1>2. c.logprobs # <<>>
  BY DEF Aligned, Conv
<1>3. Observe(c, k)
        = AddTokens(c, Observation, k, Bit(Observation), Copies(Bit(Observation), k))
  BY <1>1, <1>2 DEF Observe
<1>4. Observation \in Toks /\ Current(Observation, u) /\ k \in Nat
  BY <1>1
<1>5. LET d == AddTokens(c, Observation, k, Bit(Observation), Copies(Bit(Observation), k))
      IN  d \in Conv /\ Aligned(d, u) /\ Longer(c, d, Observation, k)
  BY <1>4, AddAligned
<1> QED BY <1>3, <1>5 DEF Longer

\* _handle_processing_tools_state leaves a good conversation.
LEMMA ToolsGood ==
  ASSUME NEW u, NEW x, NEW c \in Good(u, x), c.state = "PROCESSING_TOOLS",
         NEW k \in Nat \ {0}
  PROVE  ToolsAnswered(c, k) \in Good(u, x)
<1> DEFINE o == Observe(c, k)
           d == ToolsAnswered(c, k)
<1>1. c \in Conv /\ Aligned(c, u) /\ Placed(c, x) /\ Len(c.tokens) # 0
  BY DEF Good, Placed
<1>2. o \in Conv /\ Aligned(o, u) /\ Len(o.tokens) = Len(c.tokens) + k
  BY <1>1, ObservedGood
<1>3. CASE Fits(c, k)
  <2>1. /\ d.tokens = o.tokens /\ d.mask = o.mask /\ d.logprobs = o.logprobs
        /\ d.state = "GENERATING" /\ d \in Conv
    <3>1. d = [o EXCEPT !.user_turns = @ + 1, !.state = "GENERATING"]
      BY <1>3 DEF ToolsAnswered
    <3> HIDE DEF o, d
    <3>2. o.user_turns + 1 \in Nat
      BY <1>2 DEF Conv
    <3> QED BY <1>2, <3>1, <3>2 DEF Conv
  <2>2. Len(d.tokens) < ResponseLength
    <3> HIDE DEF o, d
    <3> QED BY <1>1, <1>2, <1>3, <2>1 DEF Fits, Aligned
  <2>3. d \in Good(u, x)
    <3> HIDE DEF o, d
    <3>1. Aligned(d, u)
      BY <1>2, <2>1, SameAligned
    <3>2. Placed(d, x)
      BY <2>1, <2>2 DEF Placed
    <3> QED BY <2>1, <3>1, <3>2 DEF Good
  <2> QED BY <2>3
<1>4. CASE ~Fits(c, k)
  <2>1. /\ d.tokens = c.tokens /\ d.mask = c.mask /\ d.logprobs = c.logprobs
        /\ d.state = "TERMINATED" /\ d \in Conv
    BY <1>1, <1>4 DEF ToolsAnswered, Conv
  <2>2. d \in Good(u, x)
    <3> HIDE DEF d
    <3>1. Aligned(d, u)
      BY <1>1, <2>1, SameAligned
    <3>2. Placed(d, x)
      BY <1>1, <2>1 DEF Placed
    <3> QED BY <2>1, <3>1, <3>2 DEF Good
  <2> QED BY <2>2
<1> QED BY <1>3, <1>4

\* _handle_interacting_state leaves a good conversation.
LEMMA UserGood ==
  ASSUME NEW u, NEW x, NEW c \in Good(u, x), c.state = "INTERACTING",
         NEW k \in Nat \ {0}, NEW stop \in BOOLEAN
  PROVE  UserAnswered(c, k, stop) \in Good(u, x)
<1> DEFINE o == Observe(c, k)
           d == UserAnswered(c, k, stop)
<1>1. c \in Conv /\ Aligned(c, u) /\ Placed(c, x) /\ Len(c.tokens) # 0 /\ x
  BY DEF Good, Placed
<1>2. o \in Conv /\ Aligned(o, u) /\ Len(o.tokens) = Len(c.tokens) + k
  BY <1>1, ObservedGood
<1>3. /\ d.tokens = o.tokens /\ d.mask = o.mask /\ d.logprobs = o.logprobs
      /\ d.state \in {"GENERATING", "TERMINATED"} /\ d \in Conv
  <2>1. d = [o EXCEPT !.user_turns = @ + 1,
                      !.state = IF stop THEN "TERMINATED" ELSE "GENERATING"]
    BY DEF UserAnswered
  <2> HIDE DEF o, d
  <2>2. o.user_turns + 1 \in Nat
    BY <1>2 DEF Conv
  <2> QED BY <1>2, <2>1, <2>2 DEF Conv
<1>4. Len(d.tokens) # 0
  <2> HIDE DEF o, d
  <2> QED BY <1>1, <1>2, <1>3 DEF Conv
<1>5. d \in Good(u, x)
  <2> HIDE DEF o, d
  <2>1. Aligned(d, u)
    BY <1>2, <1>3, SameAligned
  <2>2. Placed(d, x)
    BY <1>1, <1>3, <1>4 DEF Placed
  <2> QED BY <1>3, <2>1, <2>2 DEF Good
<1> QED BY <1>5

\* What a conversation that has ended returns is well scored.
Out == [prompt : Nat, tokens : Seq(Toks), mask : Seq(Bits), logprobs : Seq(Bits)]
Scored(o, u, x) ==
  /\ Len(o.mask) = Len(o.tokens) /\ Len(o.logprobs) = Len(o.tokens)
  /\ Len(o.tokens) \in 1..ResponseLength
  /\ \A i \in 1..Len(o.tokens) :
        /\ o.mask[i] = Bit(o.tokens[i]) /\ o.logprobs[i] = Bit(o.tokens[i])
        /\ Current(o.tokens[i], u)
  /\ x \/ o.mask[Len(o.tokens)] = 1
Returned(u, x) == {o \in Out : Scored(o, u, x)}

\* The beginning of a sequence.
LEMMA UptoSeq ==
  ASSUME NEW S, NEW s \in Seq(S), NEW k \in Nat
  PROVE  /\ Upto(s, k) \in Seq(S) /\ Len(Upto(s, k)) = Smaller(Len(s), k)
         /\ \A i \in 1..Smaller(Len(s), k) : Upto(s, k)[i] = s[i]
  BY DEF Upto, Smaller

\* A conversation that has ended returns a good output, for its prompt.
LEMMA OutputGood ==
  ASSUME NEW u, NEW x \in BOOLEAN, NEW c \in Good(u, x), c.state = "TERMINATED"
  PROVE  Output(c) \in Returned(u, x) /\ Output(c).prompt = c.prompt
<1> DEFINE o == Output(c)
           m == Smaller(Len(c.tokens), ResponseLength)
<1>1. c \in Conv /\ Aligned(c, u) /\ Placed(c, x)
  BY DEF Good
<1>2. /\ c.tokens \in Seq(Toks) /\ c.mask \in Seq(Bits) /\ c.logprobs \in Seq(Bits)
      /\ Len(c.mask) = Len(c.tokens) /\ Len(c.logprobs) = Len(c.tokens)
      /\ c.prompt \in Nat
  BY <1>1 DEF Conv, Aligned
<1>3. /\ o.tokens = Upto(c.tokens, ResponseLength) /\ o.mask = Upto(c.mask, ResponseLength)
      /\ o.logprobs = Upto(c.logprobs, ResponseLength) /\ o.prompt = c.prompt
  BY DEF Output
<1>4. /\ o.tokens \in Seq(Toks) /\ Len(o.tokens) = m
      /\ \A i \in 1..m : o.tokens[i] = c.tokens[i]
  <2>1. c.tokens \in Seq(Toks) /\ Smaller(Len(c.tokens), ResponseLength) = m
    BY <1>2
  <2>2. o.tokens = Upto(c.tokens, ResponseLength) /\ ResponseLength \in Nat
    BY <1>3, Lengths
  <2> HIDE DEF o, m
  <2> QED BY <2>1, <2>2, UptoSeq
<1>5. /\ o.mask \in Seq(Bits) /\ Len(o.mask) = m
      /\ \A i \in 1..m : o.mask[i] = c.mask[i]
  <2>1. c.mask \in Seq(Bits) /\ Smaller(Len(c.mask), ResponseLength) = m
    BY <1>2
  <2>2. o.mask = Upto(c.mask, ResponseLength) /\ ResponseLength \in Nat
    BY <1>3, Lengths
  <2> HIDE DEF o, m
  <2> QED BY <2>1, <2>2, UptoSeq
<1>6. /\ o.logprobs \in Seq(Bits) /\ Len(o.logprobs) = m
      /\ \A i \in 1..m : o.logprobs[i] = c.logprobs[i]
  <2>1. c.logprobs \in Seq(Bits) /\ Smaller(Len(c.logprobs), ResponseLength) = m
    BY <1>2
  <2>2. o.logprobs = Upto(c.logprobs, ResponseLength) /\ ResponseLength \in Nat
    BY <1>3, Lengths
  <2> HIDE DEF o, m
  <2> QED BY <2>1, <2>2, UptoSeq
<1>7. m \in 1..ResponseLength /\ m <= Len(c.tokens)
  <2>1. Len(c.tokens) \in Nat \ {0}
    BY <1>1, <1>2 DEF Placed
  <2> QED BY <2>1, Lengths DEF Smaller
<1>8. \A i \in 1..m :
         /\ o.mask[i] = Bit(o.tokens[i]) /\ o.logprobs[i] = Bit(o.tokens[i])
         /\ Current(o.tokens[i], u)
  <2> SUFFICES ASSUME NEW i \in 1..m
               PROVE  /\ o.mask[i] = Bit(o.tokens[i]) /\ o.logprobs[i] = Bit(o.tokens[i])
                      /\ Current(o.tokens[i], u)
    OBVIOUS
  <2>1. i \in 1..Len(c.tokens)
    BY <1>2, <1>7
  <2>2. /\ c.mask[i] = Bit(c.tokens[i]) /\ c.logprobs[i] = Bit(c.tokens[i])
        /\ Current(c.tokens[i], u)
    BY <1>1, <2>1 DEF Aligned
  <2> HIDE DEF o, m
  <2> QED BY <1>4, <1>5, <1>6, <2>2
<1>9. ~x => o.mask[m] = 1
  <2> SUFFICES ASSUME ~x PROVE o.mask[m] = 1
    OBVIOUS
  <2>1. IsLLM(c.tokens[m])
    BY <1>1 DEF Placed
  <2>2. IsLLM(o.tokens[m]) /\ o.mask[m] = Bit(o.tokens[m])
    <3> HIDE DEF o, m
    <3> QED BY <1>4, <1>7, <1>8, <2>1
  <2> HIDE DEF o, m
  <2> QED BY <2>2 DEF Bit
<1>10. o \in Out
  BY <1>2, <1>3, <1>4, <1>5, <1>6 DEF Output, Out
<1>11. Scored(o, u, x)
  <2> HIDE DEF o, m
  <2> QED BY <1>4, <1>5, <1>6, <1>7, <1>8, <1>9 DEF Scored
<1> QED BY <1>3, <1>10, <1>11 DEF Returned

-----------------------------------------------------------------------------
Batch == GenRows(Plan[step])

\* The rows for generation: there are some, and they are prompts.
LEMMA IdsSeq ==
  ASSUME NEW k \in Nat \ {0}
  PROVE  Ids(k) \in Seq(Nat) /\ Len(Ids(k)) = k /\ \A i \in 1..k : Ids(k)[i] = i
<1>1. Ids(k) \in [1..k -> Nat]
  BY DEF Ids
<1> QED BY <1>1, IsSeq DEF Ids

\* The rows for generation, repeated or padded, are prompts.
LEMMA GenRowsSeq ==
  ASSUME config \in Configs, NEW kind
  PROVE  GenRows(kind) \in Seq(Nat) /\ Len(GenRows(kind)) # 0
<1>1. /\ config.prompts \in Nat \ {0} /\ config.n \in Nat \ {0}
      /\ config.tests \in Nat \ {0} /\ config.workers \in Nat \ {0}
  BY Configured
<1>2. CASE kind = "train"
  <2>1. /\ Ids(config.prompts) \in Seq(Nat) /\ Len(Ids(config.prompts)) = config.prompts
    BY <1>1, IdsSeq
  <2>2. /\ GenRows(kind) \in Seq(Nat)
        /\ Len(GenRows(kind)) = config.n * config.prompts
    BY <1>1, <1>2, <2>1, RepeatSeq DEF GenRows
  <2>3. config.n * config.prompts # 0
    BY <1>1
  <2> QED BY <2>2, <2>3
<1>3. CASE kind # "train"
  <2>1. Ids(config.tests) \in Seq(Nat) /\ Len(Ids(config.tests)) = config.tests
    BY <1>1, IdsSeq
  <2>2. /\ GenRows(kind) \in Seq(Nat)
        /\ Len(GenRows(kind)) = config.tests + PadSize(Ids(config.tests), config.workers)
        /\ PadSize(Ids(config.tests), config.workers) \in 0..(config.workers - 1)
    <3>1. GenRows(kind) = Pad(Ids(config.tests), config.workers)
      BY <1>3 DEF GenRows
    <3>2. Ids(config.tests) \in Seq(Nat) /\ Len(Ids(config.tests)) # 0 /\ config.workers \in Nat \ {0}
      BY <1>1, <2>1
    <3>3. /\ Pad(Ids(config.tests), config.workers) \in Seq(Nat)
          /\ PadSize(Ids(config.tests), config.workers) \in 0..(config.workers - 1)
          /\ Len(Pad(Ids(config.tests), config.workers))
               = Len(Ids(config.tests)) + PadSize(Ids(config.tests), config.workers)
      BY <3>2, PadSeq
    <3> QED BY <2>1, <3>1, <3>3
  <2> QED BY <1>1, <2>2
<1> QED BY <1>2, <1>3

-----------------------------------------------------------------------------
\* The invariant: every conversation is good, of the row it is for, and runs
\* against servers that are awake with the weights of the actor; the results
\* are what such conversations return, in the order of the rows.
Size == Len(Batch) \div config.workers
Typed == conv \in [Workers -> [1..Size -> Good(updates, config.interactive)]]
RightPrompts ==
  \A w \in Workers, j \in 1..Size :
     conv[w][j].prompt = Chunk(Batch, config.workers)[w][j]
Loaded == FreeCacheEngine => \A s \in Servers : weights[s] = updates
Running ==
  /\ Divides(config.workers, Batch) /\ Typed /\ RightPrompts
  /\ awake = Servers /\ Loaded
Answered ==
  /\ results \in Seq(Returned(updates, config.interactive))
  /\ Len(results) = Len(Batch)
  /\ \A i \in 1..Len(Batch) : results[i].prompt = Batch[i]

Basics ==
  /\ config \in Configs /\ updates \in Int
  /\ awake \subseteq Servers /\ weights \in [Servers -> Int]
  /\ phase \in {"waking", "running", "sleeping", "returned", "done", "raised"}
ByPhase ==
  /\ phase = "running" => Running
  /\ phase = "raised" => conv = <<>> \/ Running
  /\ phase \notin {"running", "raised"} => conv = <<>>
  /\ phase \in {"sleeping", "returned"} => Answered
  /\ phase \notin {"sleeping", "returned"} => results = <<>>
Asleep ==
  FreeCacheEngine =>
     /\ phase = "waking" => \A s \in awake : weights[s] = updates
     /\ phase = "returned" => awake = {}
IInv == Basics /\ ByPhase /\ Asleep

\* The rows for generation depend on the batch and the configuration only.
LEMMA SameBatch ==
  ASSUME config' = config, step' = step
  PROVE  Batch' = Batch /\ Size' = Size /\ Workers' = Workers
<1>1. Batch' = Batch
  BY DEF Batch, GenRows
<1> QED BY <1>1 DEF Size, Workers

\* A step of one conversation replaces it.
LEMMA Replaced ==
  ASSUME NEW W, NEW J, NEW G, NEW f \in [W -> [J -> G]],
         NEW w \in W, NEW j \in J, NEW c \in G
  PROVE  /\ [f EXCEPT ![w][j] = c] \in [W -> [J -> G]]
         /\ \A v \in W, i \in J :
              [f EXCEPT ![w][j] = c][v][i] = IF v = w /\ i = j THEN c ELSE f[v][i]
  OBVIOUS

\* A step of a conversation that leaves it good, with the prompt it has.
LEMMA ConverseGood ==
  ASSUME IInv, phase = "running", NEW w \in DOMAIN conv, NEW j \in DOMAIN conv[w],
         Converse(w, j)
  PROVE  /\ w \in Workers /\ j \in 1..Size /\ config' = config
         /\ \E c \in Good(updates, config.interactive) :
              c.prompt = conv[w][j].prompt /\ conv' = [conv EXCEPT ![w][j] = c]
<1> DEFINE x == config.interactive
           old == conv[w][j]
<1>1. /\ config \in Configs /\ weights \in [Servers -> Int] /\ Typed /\ Loaded
      /\ x \in BOOLEAN
  BY Configured DEF IInv, Basics, ByPhase, Running
<1>2. w \in Workers /\ j \in 1..Size /\ old \in Good(updates, x) /\ old \in Conv
  BY <1>1 DEF Typed, Good
<1> HIDE DEF x, old
<1>3. CASE Prepare(w, j)
  <2>1. /\ old.state = "PENDING" /\ config' = config
        /\ conv' = [conv EXCEPT ![w][j] = [old EXCEPT !.state = "GENERATING"]]
    BY <1>3 DEF Prepare, Set, old
  <2>2. [old EXCEPT !.state = "GENERATING"] \in Good(updates, x)
    BY <1>2, <2>1, PreparedGood
  <2>3. [old EXCEPT !.state = "GENERATING"].prompt = old.prompt
    BY <1>2 DEF Conv
  <2> QED BY <1>2, <2>1, <2>2, <2>3 DEF x, old
<1>4. CASE Request(w, j, <<step, w, j>>)
  <2>1. PICK s \in Servers :
          conv' = [conv EXCEPT ![w][j] = [old EXCEPT !.state = "REQUESTED", !.server = s]]
    BY <1>4 DEF Request, Set, old
  <2>2. old.state = "GENERATING" /\ config' = config
    BY <1>4 DEF Request, old
  <2>3. [old EXCEPT !.state = "REQUESTED", !.server = s] \in Good(updates, x)
    BY <1>2, <2>2, RequestedGood
  <2>4. [old EXCEPT !.state = "REQUESTED", !.server = s].prompt = old.prompt
    BY <1>2 DEF Conv
  <2> QED BY <1>2, <2>1, <2>2, <2>3, <2>4 DEF x, old
<1>5. CASE Respond(w, j, weights)
  <2>1. old.state = "REQUESTED" /\ config' = config
    BY <1>5 DEF Respond, old
  <2>2. CASE conv' = [conv EXCEPT ![w][j] = Raised(old)]
    <3>1. Raised(old) \in Good(updates, x)
      BY <1>2, RaisedGood
    <3>2. Raised(old).prompt = old.prompt
      BY <1>2 DEF Conv, Raised
    <3> QED BY <1>2, <2>1, <2>2, <3>1, <3>2 DEF x, old
  <2>3. ASSUME NEW k \in 1..Smaller(MaxNew, MaxTokens(old)), NEW calls \in BOOLEAN,
               conv' = [conv EXCEPT ![w][j]
                          = Generated(old, weights[old.server], k, calls)]
        PROVE  \E c \in Good(updates, x) :
                  c.prompt = old.prompt /\ conv' = [conv EXCEPT ![w][j] = c]
    <3>1. old.server \in Servers
      BY <1>2, <2>1 DEF Good, Placed
    <3>2. weights[old.server] \in Int /\ (FreeCacheEngine => weights[old.server] = updates)
      BY <1>1, <3>1 DEF Loaded
    <3>3. k \in Nat \ {0}
      <4>1. MaxTokens(old) \in Int /\ MaxNew \in Int
        <5>1. Len(old.mask) \in Nat
          BY <1>2 DEF Conv
        <5> QED BY <5>1, AgentLoopAssumption DEF MaxTokens, MaxModelLen
      <4> QED BY <4>1 DEF Smaller
    <3>4. Generated(old, weights[old.server], k, calls) \in Good(updates, x)
      <4> DEFINE version == weights[old.server]
      <4>1. version \in Int /\ (FreeCacheEngine => version = updates)
        BY <3>2
      <4> HIDE DEF version
      <4>2. old \in Good(updates, config.interactive) /\ config \in Configs
        BY <1>1, <1>2 DEF x
      <4>3. Generated(old, version, k, calls) \in Good(updates, config.interactive)
        BY <2>1, <3>3, <4>1, <4>2, GeneratedGood
      <4> QED BY <4>3 DEF x, version
    <3>5. Generated(old, weights[old.server], k, calls).prompt = old.prompt
      BY <1>2 DEF Conv, Generated, AddTokens
    <3> QED BY <2>3, <3>4, <3>5
  <2>4. \/ conv' = [conv EXCEPT ![w][j] = Raised(old)]
        \/ \E k \in 1..Smaller(MaxNew, MaxTokens(old)), calls \in BOOLEAN :
             conv' = [conv EXCEPT ![w][j] = Generated(old, weights[old.server], k, calls)]
    BY <1>5 DEF Respond, Set, old
  <2> QED BY <1>2, <2>1, <2>2, <2>3, <2>4 DEF x, old
<1>6. CASE UseTools(w, j)
  <2>1. old.state = "PROCESSING_TOOLS" /\ config' = config
    BY <1>6 DEF UseTools, old
  <2>2. PICK k \in 1..MaxObservation : conv' = [conv EXCEPT ![w][j] = ToolsAnswered(old, k)]
    BY <1>6 DEF UseTools, Set, old
  <2>3. k \in Nat \ {0}
    BY Lengths
  <2>4. ToolsAnswered(old, k) \in Good(updates, x)
    BY <1>2, <2>1, <2>3, ToolsGood
  <2>5. ToolsAnswered(old, k).prompt = old.prompt
    BY <1>2 DEF Conv, ToolsAnswered, Observe, AddTokens
  <2> QED BY <1>2, <2>1, <2>2, <2>4, <2>5 DEF x, old
<1>7. CASE Interact(w, j)
  <2>1. old.state = "INTERACTING" /\ config' = config
    BY <1>7 DEF Interact, old
  <2>2. CASE conv' = [conv EXCEPT ![w][j] = Raised(old)]
    <3>1. Raised(old) \in Good(updates, x)
      BY <1>2, RaisedGood
    <3>2. Raised(old).prompt = old.prompt
      BY <1>2 DEF Conv, Raised
    <3> QED BY <1>2, <2>1, <2>2, <3>1, <3>2 DEF x, old
  <2>3. ASSUME NEW k \in 1..MaxObservation, NEW stop \in BOOLEAN,
               conv' = [conv EXCEPT ![w][j] = UserAnswered(old, k, stop)]
        PROVE  \E c \in Good(updates, x) :
                  c.prompt = old.prompt /\ conv' = [conv EXCEPT ![w][j] = c]
    <3>1. k \in Nat \ {0}
      BY Lengths
    <3>2. UserAnswered(old, k, stop) \in Good(updates, x)
      BY <1>2, <2>1, <3>1, UserGood
    <3>3. UserAnswered(old, k, stop).prompt = old.prompt
      BY <1>2 DEF Conv, UserAnswered, Observe, AddTokens
    <3> QED BY <2>3, <3>2, <3>3
  <2>4. \/ conv' = [conv EXCEPT ![w][j] = Raised(old)]
        \/ \E k \in 1..MaxObservation, stop \in BOOLEAN :
             conv' = [conv EXCEPT ![w][j] = UserAnswered(old, k, stop)]
    BY <1>7 DEF Interact, Set, old
  <2> QED BY <1>2, <2>1, <2>2, <2>3, <2>4 DEF x, old
<1> QED BY <1>3, <1>4, <1>5, <1>6, <1>7 DEF Converse

\* What workers return, put together, is in the order of the rows.
RowByRow(parts, batch, k) ==
  \A w \in 1..k, j \in 1..(Len(batch) \div k) :
     parts[w][j].prompt = Chunk(batch, k)[w][j]
InOrder(whole, batch) ==
  Len(whole) = Len(batch) /\ \A i \in 1..Len(batch) : whole[i].prompt = batch[i]

\* Parts that answer their rows make a whole that answers its own.
LEMMA GatherGood ==
  ASSUME NEW R, NEW batch \in Seq(Nat), Len(batch) # 0, NEW k \in Nat \ {0},
         Divides(k, batch),
         NEW parts \in [1..k -> [1..(Len(batch) \div k) -> R]],
         RowByRow(parts, batch, k)
  PROVE  Concat(parts, k) \in Seq(R) /\ InOrder(Concat(parts, k), batch)
<1> DEFINE size == Len(batch) \div k
           whole == Concat(parts, k)
<1>1. size \in Nat \ {0} /\ Len(batch) = k * size
  BY ChunkSeq
<1>2. \A w \in 1..k, j \in 1..size : parts[w][j].prompt = batch[(w - 1) * size + j]
  BY ChunkAt DEF RowByRow
<1>3. parts \in [1..k -> [1..size -> R]]
  OBVIOUS
<1> HIDE DEF size, whole
<1>4. Parts(R, parts, k, size)
  <2>1. ASSUME NEW w \in 1..k
        PROVE  parts[w] \in Seq(R) /\ Len(parts[w]) = size
    <3>1. parts[w] \in [1..size -> R] /\ size \in Nat
      BY <1>1, <1>3
    <3> QED BY <3>1, IsSeq
  <2>2. parts \in [1..k -> Seq(R)] /\ k \in Nat
    BY <1>3, <2>1
  <2>3. parts \in Seq(Seq(R)) /\ Len(parts) = k
    BY <2>2, IsSeq
  <2> QED BY <2>1, <2>3 DEF Parts
<1>5. /\ whole \in Seq(R) /\ Len(whole) = k * size
      /\ \A i \in 1..(k * size) : InParts(whole[i], i, parts, k, size)
  BY <1>1, <1>4, ConcatSeq DEF whole
<1>6. ASSUME NEW i \in 1..Len(batch)
      PROVE  whole[i].prompt = batch[i]
  <2>1. InParts(whole[i], i, parts, k, size)
    BY <1>1, <1>5
  <2> QED BY <1>2, <2>1 DEF InParts
<1> QED BY <1>1, <1>5, <1>6 DEF whole, InOrder

\* The gathers, ray.get and concat.
LEMMA GatherStep == ASSUME IInv, Gather PROVE IInv'
<1> DEFINE x == config.interactive
           parts == [w \in Workers |-> [j \in DOMAIN conv[w] |-> Output(conv[w][j])]]
           k == config.workers
<1>1. /\ config \in Configs /\ updates \in Int /\ awake \subseteq Servers
      /\ weights \in [Servers -> Int] /\ phase = "running" /\ Running
      /\ config' = config /\ step' = step /\ updates' = updates /\ awake' = awake
      /\ weights' = weights /\ conv' = <<>>
      /\ phase' = (IF FreeCacheEngine THEN "sleeping" ELSE "returned")
  BY DEF IInv, Basics, ByPhase, Gather
<1>2. results' = Concat(parts, k)
  BY DEF Gather
<1>3. \A w \in Workers, j \in 1..Size :
         /\ conv[w][j] \in Good(updates, x) /\ conv[w][j].state = "TERMINATED"
         /\ conv[w][j].prompt = Chunk(Batch, k)[w][j]
         /\ DOMAIN conv[w] = 1..Size
  BY <1>1 DEF Gather, Running, Typed, RightPrompts
<1>4. x \in BOOLEAN /\ k \in Nat \ {0} /\ Workers = 1..k
  BY <1>1, Configured DEF Workers
<1>5. Batch \in Seq(Nat) /\ Len(Batch) # 0 /\ Divides(k, Batch)
  BY <1>1, GenRowsSeq DEF Batch, Running
<1>6. parts \in [1..k -> [1..Size -> Returned(updates, x)]]
  <2>1. \A w \in Workers : conv[w] \in [1..Size -> Good(updates, x)]
    BY <1>1 DEF Running, Typed
  <2>2. ASSUME NEW w \in Workers
        PROVE  [j \in DOMAIN conv[w] |-> Output(conv[w][j])] \in [1..Size -> Returned(updates, x)]
    <3>1. DOMAIN conv[w] = 1..Size
      BY <2>1
    <3>2. \A j \in 1..Size : Output(conv[w][j]) \in Returned(updates, x)
      <4> HIDE DEF x
      <4> QED BY <1>3, <1>4, OutputGood
    <3> QED BY <3>1, <3>2
  <2> QED BY <1>4, <2>2
<1>7. \A w \in 1..k, j \in 1..Size : parts[w][j].prompt = Chunk(Batch, k)[w][j]
  <2> SUFFICES ASSUME NEW w \in 1..k, NEW j \in 1..Size
               PROVE  parts[w][j].prompt = Chunk(Batch, k)[w][j]
    OBVIOUS
  <2>1. parts[w][j] = Output(conv[w][j])
    BY <1>3, <1>4
  <2>2. Output(conv[w][j]).prompt = conv[w][j].prompt
    BY DEF Output
  <2> QED BY <1>3, <1>4, <2>1, <2>2
<1> HIDE DEF parts
<1>8. Concat(parts, k) \in Seq(Returned(updates, x)) /\ InOrder(Concat(parts, k), Batch)
  <2>1. RowByRow(parts, Batch, k)
    BY <1>7 DEF Size, RowByRow
  <2>2. parts \in [1..k -> [1..(Len(Batch) \div k) -> Returned(updates, x)]]
    BY <1>6 DEF Size
  <2> HIDE DEF x, k
  <2> QED BY <1>4, <1>5, <2>1, <2>2, GatherGood
<1>9. Batch' = Batch
  BY <1>1, SameBatch
<1>10. Answered'
  BY <1>1, <1>2, <1>8, <1>9 DEF Answered, InOrder
<1>11. Basics'
  BY <1>1 DEF Basics
<1>12. ByPhase'
  BY <1>1, <1>10 DEF ByPhase
<1>13. Asleep'
  BY <1>1 DEF Asleep
<1> QED BY <1>11, <1>12, <1>13 DEF IInv

\* A step of a conversation of a worker.
LEMMA ConverseStep ==
  ASSUME IInv, NEW w \in DOMAIN conv, NEW j \in DOMAIN conv[w], Converse(w, j)
  PROVE  IInv'
<1>1. /\ phase = "running" /\ phase' = phase /\ step' = step /\ updates' = updates
      /\ awake' = awake /\ weights' = weights /\ results' = results
  BY DEF Converse
<1>2. w \in Workers /\ j \in 1..Size /\ config' = config
  BY <1>1, ConverseGood
<1>3. PICK c \in Good(updates, config.interactive) :
        c.prompt = conv[w][j].prompt /\ conv' = [conv EXCEPT ![w][j] = c]
  BY <1>1, ConverseGood
<1>4. Batch' = Batch /\ Size' = Size /\ Workers' = Workers
  BY <1>1, <1>2, SameBatch
<1>5. Running
  BY <1>1 DEF IInv, ByPhase
<1>6. /\ conv' \in [Workers -> [1..Size -> Good(updates, config.interactive)]]
      /\ \A v \in Workers, i \in 1..Size :
           conv'[v][i] = IF v = w /\ i = j THEN c ELSE conv[v][i]
  <2>1. conv \in [Workers -> [1..Size -> Good(updates, config.interactive)]]
    BY <1>5 DEF Running, Typed
  <2> QED BY <1>2, <1>3, <2>1, Replaced
<1>7. Typed'
  BY <1>1, <1>2, <1>4, <1>6 DEF Typed
<1>8. RightPrompts'
  <2>1. RightPrompts
    BY <1>5 DEF Running
  <2>2. \A v \in Workers, i \in 1..Size : conv'[v][i].prompt = conv[v][i].prompt
    BY <1>3, <1>6
  <2> QED BY <1>2, <1>4, <2>1, <2>2 DEF RightPrompts
<1>9. Running'
  BY <1>1, <1>2, <1>4, <1>5, <1>7, <1>8 DEF Running, Loaded, Divides
<1> QED BY <1>1, <1>2, <1>9 DEF IInv, Basics, ByPhase, Asleep

\* chunk and the call of the workers.
LEMMA DispatchStep == ASSUME IInv, Dispatch PROVE IInv'
<1> DEFINE x == config.interactive
           k == config.workers
           chunks == Chunk(Batch, k)
<1>1. /\ config \in Configs /\ updates \in Int /\ weights \in [Servers -> Int]
      /\ phase = "waking" /\ awake = Servers /\ conv = <<>> /\ results = <<>>
      /\ config' = config /\ step' = step /\ updates' = updates /\ awake' = awake
      /\ weights' = weights /\ results' = results /\ Asleep
  BY DEF IInv, Basics, ByPhase, Dispatch
<1>2. Batch' = Batch /\ Size' = Size /\ Workers' = Workers
  BY <1>1, SameBatch
<1>3. CASE ~Divides(k, Batch)
  <2>1. phase' = "raised" /\ conv' = conv
    BY <1>3 DEF Dispatch, Batch
  <2> QED BY <1>1, <2>1 DEF IInv, Basics, ByPhase, Asleep
<1>4. CASE Divides(k, Batch)
  <2>1. /\ phase' = "running"
        /\ conv' = [w \in Workers |-> [j \in DOMAIN chunks[w] |-> NewConv(chunks[w][j])]]
    BY <1>4 DEF Dispatch, Batch
  <2>2. k \in Nat \ {0} /\ Workers = 1..k
    BY <1>1, Configured DEF Workers
  <2>3. Batch \in Seq(Nat) /\ Len(Batch) # 0
    BY <1>1, GenRowsSeq DEF Batch
  <2>4. Parts(Nat, chunks, k, Size)
    BY <1>4, <2>2, <2>3, ChunkSeq DEF Size
  <2>5. \A w \in Workers : /\ DOMAIN chunks[w] = 1..Size
                           /\ \A j \in 1..Size : chunks[w][j] \in Nat
    <3> HIDE DEF chunks
    <3> QED BY <2>2, <2>4 DEF Parts
  <2> HIDE DEF x, k, chunks
  <2>6. \A w \in Workers, j \in 1..Size : NewConv(chunks[w][j]) \in Good(updates, x)
    BY <1>1, <2>5, NewGood
  <2>7. conv' \in [Workers -> [1..Size -> Good(updates, x)]]
    BY <2>1, <2>5, <2>6
  <2>8. \A w \in Workers, j \in 1..Size : conv'[w][j].prompt = chunks[w][j]
    <3>1. \A w \in Workers, j \in 1..Size : conv'[w][j] = NewConv(chunks[w][j])
      BY <2>1, <2>5
    <3>2. \A p : NewConv(p).prompt = p
      BY DEF NewConv
    <3> QED BY <3>1, <3>2
  <2>9. Typed'
    BY <1>1, <1>2, <2>7 DEF Typed, x
  <2>10. RightPrompts'
    BY <1>1, <1>2, <2>8 DEF RightPrompts, chunks, k
  <2>11. Divides(config.workers, Batch)'
    BY <1>1, <1>2, <1>4 DEF Divides, k
  <2>12. Loaded'
    BY <1>1 DEF Asleep, Loaded
  <2>13. Running'
    BY <1>1, <2>9, <2>10, <2>11, <2>12 DEF Running
  <2> QED BY <1>1, <2>1, <2>13 DEF IInv, Basics, ByPhase, Asleep
<1> QED BY <1>3, <1>4

\* A server wakes up with the weights of the actor.
LEMMA WakeUpStep == ASSUME IInv, NEW s \in Servers, WakeUp(s) PROVE IInv'
<1>1. /\ phase = "waking" /\ phase' = phase /\ awake' = awake \union {s}
      /\ weights' = [weights EXCEPT ![s] = updates] /\ updates' = updates
      /\ config' = config /\ conv' = conv /\ results' = results /\ step' = step
  BY DEF WakeUp, loopVars
<1>2. Basics /\ conv = <<>> /\ results = <<>> /\ Asleep
  BY <1>1 DEF IInv, ByPhase
<1>3. Basics'
  BY <1>1, <1>2 DEF Basics
<1>4. ByPhase'
  BY <1>1, <1>2 DEF ByPhase
<1>5. Asleep'
  BY <1>1, <1>2 DEF Asleep, Basics
<1> QED BY <1>3, <1>4, <1>5 DEF IInv

\* A conversation that has raised ends the run.
LEMMA FailStep == ASSUME IInv, Fail PROVE IInv'
<1>1. /\ phase = "running" /\ phase' = "raised" /\ awake' = awake
      /\ weights' = weights /\ updates' = updates
      /\ config' = config /\ conv' = conv /\ results' = results /\ step' = step
  BY DEF Fail, loopVars
<1>2. Basics /\ Running /\ results = <<>>
  BY <1>1 DEF IInv, ByPhase
<1>3. Batch' = Batch /\ Size' = Size /\ Workers' = Workers
  BY <1>1, SameBatch
<1>4. Running'
  BY <1>1, <1>2, <1>3 DEF Running, Typed, RightPrompts, Loaded, Divides
<1> QED BY <1>1, <1>2, <1>4 DEF IInv, Basics, ByPhase, Asleep

\* A server goes to sleep.
LEMMA SleepStep == ASSUME IInv, NEW s \in Servers, Sleep(s) PROVE IInv'
<1>1. /\ phase = "sleeping" /\ awake' = awake \ {s} /\ s \in awake
      /\ phase' = (IF awake = {s} THEN "returned" ELSE "sleeping")
      /\ weights' = weights /\ updates' = updates
      /\ config' = config /\ conv' = conv /\ results' = results /\ step' = step
  BY DEF Sleep, loopVars
<1>2. Basics /\ Answered /\ conv = <<>>
  BY <1>1 DEF IInv, ByPhase
<1>3. Batch' = Batch
  BY <1>1, SameBatch
<1>4. Answered'
  BY <1>1, <1>2, <1>3 DEF Answered
<1>5. Basics'
  BY <1>1, <1>2 DEF Basics
<1>6. ByPhase'
  BY <1>1, <1>2, <1>4 DEF ByPhase
<1>7. Asleep'
  BY <1>1 DEF Asleep
<1> QED BY <1>5, <1>6, <1>7 DEF IInv

\* The trainer uses the answers and goes on.
LEMMA ConsumeStep == ASSUME IInv, Consume PROVE IInv'
<1>1. /\ phase = "returned" /\ phase' \in {"done", "waking"} /\ awake' = awake
      /\ weights' = weights /\ updates' \in {updates, updates + 1}
      /\ config' = config /\ conv' = conv /\ results' = <<>>
  BY DEF Consume, loopVars
<1>2. Basics /\ conv = <<>> /\ Asleep
  BY <1>1 DEF IInv, ByPhase
<1>3. Basics'
  BY <1>1, <1>2 DEF Basics
<1>4. ByPhase'
  BY <1>1, <1>2 DEF ByPhase
<1>5. Asleep'
  BY <1>1, <1>2 DEF Asleep
<1> QED BY <1>3, <1>4, <1>5 DEF IInv

\* The first state.
LEMMA InitIInv == Init => IInv
  BY DEF Init, LoopInit, IInv, Basics, ByPhase, Asleep, Dummy

\* A step that changes nothing.
LEMMA StutterStep == ASSUME IInv, UNCHANGED vars PROVE IInv'
<1>1. /\ phase' = phase /\ awake' = awake
      /\ weights' = weights /\ updates' = updates
      /\ config' = config /\ conv' = conv /\ results' = results /\ step' = step
  BY DEF vars, loopVars
<1>2. Batch' = Batch /\ Size' = Size /\ Workers' = Workers
  BY <1>1, SameBatch
<1>3. Basics' /\ Asleep'
  BY <1>1 DEF IInv, Basics, Asleep
<1>4. Running => Running'
  BY <1>1, <1>2 DEF Running, Typed, RightPrompts, Loaded, Divides
<1>5. Answered => Answered'
  BY <1>1, <1>2 DEF Answered
<1>6. ByPhase'
  BY <1>1, <1>4, <1>5 DEF IInv, ByPhase
<1> QED BY <1>3, <1>6 DEF IInv

\* The invariant holds always: one lemma for each action.
LEMMA Inductive == Spec => []IInv
<1>1. IInv /\ [Next]_vars => IInv'
  <2> SUFFICES ASSUME IInv, [Next]_vars PROVE IInv'
    OBVIOUS
  <2>1. CASE UNCHANGED vars
    BY <2>1, StutterStep
  <2>2. CASE \E s \in Servers : WakeUp(s) \/ Sleep(s)
    BY <2>2, WakeUpStep, SleepStep
  <2>3. CASE \E w \in DOMAIN conv : \E j \in DOMAIN conv[w] : Converse(w, j)
    BY <2>3, ConverseStep
  <2> QED BY <2>1, <2>2, <2>3, DispatchStep, GatherStep, FailStep, ConsumeStep DEF Next
<1> QED BY <1>1, InitIInv, PTL DEF Spec

-----------------------------------------------------------------------------
\* What the trainer joins to a row answers the prompt of that row, whatever
\* the numbers of rows, of copies and of workers are.
THEOREM AnswersInOrder == Spec => []RowsAligned
<1>1. ASSUME IInv, phase = "returned" PROVE
        LET rows == Rows(Plan[step])
            joined == Joined(Plan[step])
        IN  /\ Len(joined) = Len(rows)
            /\ \A i \in DOMAIN rows : joined[i].prompt = rows[i]
  <2> DEFINE rows == Rows(Plan[step])
             joined == Joined(Plan[step])
  <2>1. /\ Answered /\ config \in Configs
    BY <1>1 DEF IInv, ByPhase, Basics
  <2>2. /\ config.prompts \in Nat \ {0} /\ config.n \in Nat \ {0}
        /\ config.tests \in Nat \ {0} /\ config.workers \in Nat \ {0}
    BY <2>1, Configured
  <2>3. Batch \in Seq(Nat)
    BY <2>1, GenRowsSeq DEF Batch
  <2>4. CASE Plan[step] = "train"
    <3>1. rows = Batch /\ joined = results
      BY <2>4 DEF Rows, Batch, GenRows, Joined
    <3> QED BY <2>1, <2>3, <3>1 DEF Answered
  <2>5. CASE Plan[step] # "train"
    <3> DEFINE ids == Ids(config.tests)
               pad == PadSize(ids, config.workers)
    <3>1. ids \in Seq(Nat) /\ Len(ids) = config.tests /\ Len(ids) # 0
      BY <2>2, IdsSeq
    <3>2. rows = ids /\ joined = Unpad(results, pad) /\ Batch = Pad(ids, config.workers)
      BY <2>5 DEF Rows, Batch, GenRows, Joined
    <3> HIDE DEF ids, pad, rows, joined
    <3>3. /\ pad \in 0..(config.workers - 1) /\ Len(Batch) = Len(ids) + pad
          /\ \A i \in 1..Len(ids) : Batch[i] = ids[i]
      BY <2>2, <3>1, <3>2, PadSeq DEF pad
    <3>4. joined = SubSeq(results, 1, Len(ids))
      BY <2>1, <2>2, <3>1, <3>2, <3>3 DEF Unpad, Answered
    <3>5. /\ results \in Seq(Returned(updates, config.interactive))
          /\ Len(results) = Len(ids) + pad /\ pad \in Nat
          /\ \A i \in 1..Len(ids) : results[i].prompt = ids[i]
      BY <2>1, <2>2, <3>1, <3>3 DEF Answered
    <3>6. /\ Len(joined) = Len(ids)
          /\ \A i \in 1..Len(ids) : joined[i] = results[i]
      BY <3>1, <3>4, <3>5
    <3>7. DOMAIN rows = 1..Len(ids)
      BY <3>1, <3>2
    <3> QED BY <3>2, <3>5, <3>6, <3>7 DEF rows, joined
  <2> QED BY <2>4, <2>5
<1>2. IInv => RowsAligned
  BY <1>1 DEF RowsAligned
<1> QED BY <1>2, Inductive, PTL

\* The conversations there are.
LEMMA ConversationsGood ==
  ASSUME Typed, NEW c \in Conversations
  PROVE  c \in Good(updates, config.interactive)
<1>1. PICK w \in DOMAIN conv : c \in {conv[w][j] : j \in DOMAIN conv[w]}
  BY DEF Conversations
<1>2. PICK j \in DOMAIN conv[w] : c = conv[w][j]
  BY <1>1
<1>3. DOMAIN conv = Workers /\ conv[w] \in [1..Size -> Good(updates, config.interactive)]
  BY DEF Typed
<1> QED BY <1>2, <1>3

\* Between two batches there are none.
LEMMA NoConversations == ASSUME conv = <<>> PROVE Conversations = {}
<1>1. DOMAIN conv = {}
  OBVIOUS
<1> QED BY <1>1 DEF Conversations

\* Every output there is has been returned by a good conversation.
LEMMA OutputsGood ==
  ASSUME IInv
  PROVE  \A o \in Outputs : o \in Returned(updates, config.interactive)
<1> DEFINE x == config.interactive
<1>1. /\ config \in Configs /\ x \in BOOLEAN
      /\ conv = <<>> \/ Typed
      /\ results = <<>> \/ results \in Seq(Returned(updates, x))
  BY Configured DEF IInv, Basics, ByPhase, Running, Answered
<1>2. ASSUME NEW c \in Ended PROVE Output(c) \in Returned(updates, x)
  <2>1. c \in Conversations /\ c.state = "TERMINATED"
    BY DEF Ended
  <2>2. c \in Good(updates, x)
    BY <1>1, <2>1, ConversationsGood, NoConversations
  <2> HIDE DEF x
  <2> QED BY <1>1, <2>1, <2>2, OutputGood
<1>3. ASSUME NEW i \in DOMAIN results PROVE results[i] \in Returned(updates, x)
  BY <1>1
<1> QED BY <1>2, <1>3 DEF Outputs

\* Mask, logprobs and score are those of sampled tokens, for every length.
THEOREM ScoreOnSampled == Spec => []ScoredOnAction
<1>1. IInv => ScoredOnAction
  <2> SUFFICES ASSUME IInv, NEW o \in Outputs PROVE WellScored(o)
    BY DEF ScoredOnAction
  <2>1. o \in Out /\ Scored(o, updates, config.interactive)
    BY OutputsGood DEF Returned
  <2>2. o.tokens \in Seq(Toks)
    BY <2>1 DEF Out
  <2> QED BY <2>1, <2>2 DEF Scored, WellScored, Bit, ScoreAt
<1> QED BY <1>1, Inductive, PTL

\* With the cache engine freed after every rollout, no answer comes from
\* weights that are not those of the actor, for every number of servers.
THEOREM FreshWeights ==
  ASSUME FreeCacheEngine
  PROVE  Spec => []OnPolicyRollout
<1>1. IInv => OnPolicyRollout
  <2> SUFFICES ASSUME IInv PROVE OnPolicyRollout
    OBVIOUS
  <2>1. ASSUME NEW o \in Outputs, NEW i \in DOMAIN o.tokens, IsLLM(o.tokens[i])
        PROVE  o.tokens[i].version = updates
    <3>1. o \in Out /\ Scored(o, updates, config.interactive)
      BY OutputsGood DEF Returned
    <3>2. i \in 1..Len(o.tokens)
      BY <3>1 DEF Out
    <3> QED BY <2>1, <3>1, <3>2 DEF Scored, Current
  <2>2. ASSUME NEW c \in Conversations, c.state = "REQUESTED"
        PROVE  c.server \in awake /\ weights[c.server] = updates
    <3>1. conv # <<>>
      BY NoConversations
    <3>2. Running
      BY <3>1 DEF IInv, ByPhase, Basics
    <3>3. c \in Good(updates, config.interactive)
      BY <3>2, ConversationsGood DEF Running
    <3>4. c.server \in Servers
      BY <2>2, <3>3 DEF Good, Placed
    <3> QED BY <3>2, <3>4 DEF Running, Loaded
  <2> QED BY <2>1, <2>2 DEF OnPolicyRollout
<1> QED BY <1>1, Inductive, PTL

-----------------------------------------------------------------------------
\* The cache of a worker: entries with different requests, those of older
\* batches first, at most MaxCacheSize of them.
Entry == [id : Nat \X Nat \X Nat, server : Servers]
Sorted(e, t) ==
  \A i \in 1..Len(e) :
     /\ e[i].id[1] <= t
     /\ \A k \in 1..Len(e) : /\ e[i].id = e[k].id => i = k
                             /\ i < k => e[i].id[1] <= e[k].id[1]

\* The batch of an entry is a number.
LEMMA EntryTime == \A x \in Entry : x.id \in Nat \X Nat \X Nat /\ x.id[1] \in Nat
<1>1. \A x \in Entry : x.id \in Nat \X Nat \X Nat
  BY DEF Entry
<1>2. \A y \in Nat \X Nat \X Nat : y[1] \in Nat
  OBVIOUS
<1> QED BY <1>1, <1>2

\* f is e after server s has been chosen for request id.
Chosen(e, f, id, s) ==
  \/ \E i \in 1..Len(e) : e[i].id = id /\ e[i].server = s /\ f = Refreshed(e, i)
  \/ /\ \A i \in 1..Len(e) : e[i].id # id
     /\ f = Append(Room(e), [id |-> id, server |-> s])

\* What reading an entry does to the order of the cache.
LEMMA RefreshedSeq ==
  ASSUME NEW S, NEW e \in Seq(S), NEW i \in 1..Len(e)
  PROVE  /\ Refreshed(e, i) \in Seq(S) /\ Len(Refreshed(e, i)) = Len(e)
         /\ \A k \in 1..Len(e) : Refreshed(e, i)[k] =
              IF k < i THEN e[k] ELSE IF k < Len(e) THEN e[k + 1] ELSE e[i]
<1> DEFINE a == SubSeq(e, 1, i - 1)
           b == SubSeq(e, i + 1, Len(e))
<1>1. a \in Seq(S) /\ Len(a) = i - 1 /\ \A k \in 1..(i - 1) : a[k] = e[k]
  OBVIOUS
<1>2. b \in Seq(S) /\ Len(b) = Len(e) - i /\ \A k \in 1..(Len(e) - i) : b[k] = e[k + i]
  OBVIOUS
<1>3. e[i] \in S /\ Len(e) \in Nat
  OBVIOUS
<1>4. Refreshed(e, i) = a \o b \o <<e[i]>>
  BY DEF Refreshed
<1> HIDE DEF a, b
<1>5. /\ a \o b \in Seq(S) /\ Len(a \o b) = Len(e) - 1
      /\ \A k \in 1..(Len(e) - 1) : (a \o b)[k] = IF k < i THEN e[k] ELSE e[k + 1]
  <2>1. ASSUME NEW k \in 1..(Len(e) - 1), ~(k < i) PROVE (a \o b)[k] = e[k + 1]
    <3>1. k - (i - 1) \in 1..(Len(e) - i) /\ (k - (i - 1)) + i = k + 1
      BY <1>3, <2>1
    <3>2. (a \o b)[k] = b[k - (i - 1)]
      BY <1>1, <1>2, <1>3, <2>1
    <3>3. b[k - (i - 1)] = e[(k - (i - 1)) + i]
      BY <1>2, <3>1
    <3> QED BY <3>1, <3>2, <3>3
  <2>2. ASSUME NEW k \in 1..(Len(e) - 1), k < i PROVE (a \o b)[k] = e[k]
    BY <1>1, <1>2, <1>3, <2>2
  <2>3. a \o b \in Seq(S) /\ Len(a \o b) = Len(e) - 1
    BY <1>1, <1>2, <1>3
  <2> QED BY <2>1, <2>2, <2>3
<1> DEFINE c == a \o b
<1> HIDE DEF c
<1>6. /\ c \in Seq(S) /\ Len(c) = Len(e) - 1
      /\ \A k \in 1..(Len(e) - 1) : c[k] = IF k < i THEN e[k] ELSE e[k + 1]
  BY <1>5 DEF c
<1>7. /\ c \o <<e[i]>> \in Seq(S) /\ Len(c \o <<e[i]>>) = Len(e)
      /\ \A k \in 1..Len(e) : (c \o <<e[i]>>)[k] = IF k < Len(e) THEN c[k] ELSE e[i]
  BY <1>3, <1>6
<1>8. Refreshed(e, i) = c \o <<e[i]>>
  BY <1>4 DEF c
<1>9. ASSUME NEW k \in 1..Len(e)
      PROVE  (c \o <<e[i]>>)[k] = IF k < i THEN e[k] ELSE IF k < Len(e) THEN e[k + 1] ELSE e[i]
  <2>1. CASE k < Len(e)
    <3>1. k \in 1..(Len(e) - 1)
      BY <1>3, <2>1
    <3> QED BY <1>6, <1>7, <2>1, <3>1
  <2>2. CASE ~(k < Len(e))
    <3>1. ~(k < i)
      BY <1>3, <2>2
    <3> QED BY <1>7, <2>2, <3>1
  <2> QED BY <2>1, <2>2
<1> QED BY <1>7, <1>8, <1>9

\* What making room and adding an entry does to it; o entries are dropped.
LEMMA AddedSeq ==
  ASSUME NEW S, NEW e \in Seq(S), Len(e) <= MaxCacheSize, NEW x \in S
  PROVE  LET o == IF Len(e) = MaxCacheSize THEN 1 ELSE 0
             f == Append(Room(e), x)
         IN  /\ f \in Seq(S) /\ Len(f) = Len(e) + 1 - o /\ Len(f) <= MaxCacheSize
             /\ \A k \in 1..(Len(e) - o) : f[k] = e[k + o]
             /\ f[Len(f)] = x
<1> DEFINE o == IF Len(e) = MaxCacheSize THEN 1 ELSE 0
           r == Room(e)
<1>0. MaxCacheSize \in Nat \ {0} /\ Len(e) \in Nat
  BY AgentLoopAssumption
<1>1. /\ r \in Seq(S) /\ Len(r) = Len(e) - o
      /\ \A k \in 1..(Len(e) - o) : r[k] = e[k + o]
  <2>1. CASE Len(e) = MaxCacheSize
    <3>1. r = Tail(e) /\ o = 1 /\ e # <<>>
      BY <1>0, <2>1 DEF Room
    <3> QED BY <3>1
  <2>2. CASE Len(e) # MaxCacheSize
    <3>1. r = e /\ o = 0
      BY <1>0, <2>2 DEF Room
    <3> QED BY <3>1
  <2> QED BY <2>1, <2>2
<1>2. o \in {0, 1} /\ (o = 0 => Len(e) < MaxCacheSize)
  BY <1>0
<1> HIDE DEF o, r
<1>3. /\ Append(r, x) \in Seq(S) /\ Len(Append(r, x)) = Len(e) + 1 - o
      /\ \A k \in 1..(Len(e) - o) : Append(r, x)[k] = r[k]
      /\ Append(r, x)[Len(Append(r, x))] = x
  BY <1>0, <1>1, <1>2
<1>4. Len(e) + 1 - o <= MaxCacheSize
  BY <1>0, <1>2
<1> QED BY <1>1, <1>3, <1>4 DEF o, r

\* What f has of e, which was asked for id: nothing is lost but what had to be.
Follows(e, f, id, s) ==
  /\ \A k \in 1..Len(f) : f[k].id = id \/ \E i \in 1..Len(e) : f[k] = e[i]
  /\ \E k \in 1..Len(f) : f[k] = [id |-> id, server |-> s]
  /\ \A i \in 1..Len(e) :
       \/ \E k \in 1..Len(f) : f[k] = e[i]
       \/ i = 1 /\ Len(e) = MaxCacheSize /\ \A m \in 1..Len(e) : e[m].id # id

\* The cache stays sorted, and has the entry that was asked for.
LEMMA ChosenSorted ==
  ASSUME NEW t \in Nat, NEW id \in Nat \X Nat \X Nat, id[1] = t, NEW s \in Servers,
         NEW e \in Seq(Entry), Len(e) <= MaxCacheSize, Sorted(e, t),
         NEW f, Chosen(e, f, id, s)
  PROVE  /\ f \in Seq(Entry) /\ Len(f) <= MaxCacheSize /\ Sorted(f, t)
         /\ Follows(e, f, id, s)
<1> DEFINE x == [id |-> id, server |-> s]
<1>0. /\ x \in Entry /\ MaxCacheSize \in Nat \ {0} /\ Len(e) \in Nat
      /\ x.id = id /\ x.server = s
  BY AgentLoopAssumption DEF Entry
<1>00. \A i \in 1..Len(e) : e[i] \in Entry /\ e[i].id[1] \in Nat
  BY EntryTime
<1> HIDE DEF x
<1>1. CASE \E i \in 1..Len(e) : e[i].id = id /\ e[i].server = s /\ f = Refreshed(e, i)
  <2>1. PICK i \in 1..Len(e) : e[i].id = id /\ e[i].server = s /\ f = Refreshed(e, i)
    BY <1>1
  <2>2. e[i] = x
    BY <1>00, <2>1 DEF Entry, x
  <2>3. /\ f \in Seq(Entry) /\ Len(f) = Len(e)
        /\ \A k \in 1..Len(e) : f[k] =
             IF k < i THEN e[k] ELSE IF k < Len(e) THEN e[k + 1] ELSE e[i]
    BY <2>1, RefreshedSeq
  <2>4. Sorted(f, t)
    <3> DEFINE at(k) == IF k < i THEN k ELSE IF k < Len(e) THEN k + 1 ELSE i
    <3>1. \A k \in 1..Len(e) : at(k) \in 1..Len(e) /\ f[k] = e[at(k)]
      BY <1>0, <2>3
    <3>2. \A k, m \in 1..Len(e) : (at(k) = at(m) => k = m)
                                  /\ (k < m => at(k) < at(m) \/ at(m) = i)
      BY <1>0
    <3> HIDE DEF at
    <3>3. \A k, m \in 1..Len(e) : /\ e[k].id = e[m].id => k = m
                                  /\ k < m => e[k].id[1] <= e[m].id[1]
                                  /\ e[k].id[1] <= t
      BY DEF Sorted
    <3>4. e[i].id[1] = t
      BY <2>1
    <3>5. ASSUME NEW k \in 1..Len(e), NEW m \in 1..Len(e)
          PROVE  /\ f[k].id[1] <= t
                 /\ f[k].id = f[m].id => k = m
                 /\ k < m => f[k].id[1] <= f[m].id[1]
      <4>1. /\ at(k) \in 1..Len(e) /\ at(m) \in 1..Len(e)
            /\ f[k] = e[at(k)] /\ f[m] = e[at(m)]
        BY <3>1
      <4>2. (at(k) = at(m) => k = m) /\ (k < m => at(k) < at(m) \/ at(m) = i)
        BY <3>2
      <4>3. f[k].id = f[m].id => k = m
        BY <3>3, <4>1, <4>2
      <4>4. f[k].id[1] <= t
        BY <3>3, <4>1
      <4>5. k < m => f[k].id[1] <= f[m].id[1]
        BY <3>3, <3>4, <4>1, <4>2, <4>4
      <4> QED BY <4>3, <4>4, <4>5
    <3> QED BY <2>3, <3>5 DEF Sorted
  <2>5. ASSUME NEW k \in 1..Len(f) PROVE \E m \in 1..Len(e) : f[k] = e[m]
    <3>1. k \in 1..Len(e) /\ (k < Len(e) => k + 1 \in 1..Len(e))
      BY <1>0, <2>3
    <3> QED BY <2>3, <3>1
  <2>6. ASSUME NEW m \in 1..Len(e) PROVE \E k \in 1..Len(f) : f[k] = e[m]
    <3>1. CASE m < i
      BY <2>3, <3>1
    <3>2. CASE m = i
      <4>1. Len(e) \in 1..Len(f) /\ f[Len(e)] = e[i]
        BY <1>0, <2>3
      <4> QED BY <3>2, <4>1
    <3>3. CASE m > i
      <4>1. m - 1 \in 1..Len(f) /\ ~(m - 1 < i) /\ m - 1 < Len(e) /\ (m - 1) + 1 = m
        BY <1>0, <2>3, <3>3
      <4>2. f[m - 1] = e[m]
        BY <2>3, <4>1
      <4> QED BY <4>1, <4>2
    <3> QED BY <3>1, <3>2, <3>3
  <2> QED BY <2>2, <2>3, <2>4, <2>5, <2>6 DEF x, Follows
<1>2. CASE /\ \A i \in 1..Len(e) : e[i].id # id
           /\ f = Append(Room(e), x)
  <2> DEFINE o == IF Len(e) = MaxCacheSize THEN 1 ELSE 0
  <2>1. /\ f \in Seq(Entry) /\ Len(f) = Len(e) + 1 - o /\ Len(f) <= MaxCacheSize
        /\ \A k \in 1..(Len(e) - o) : f[k] = e[k + o]
        /\ f[Len(f)] = x
    BY <1>0, <1>2, AddedSeq
  <2>2. o \in {0, 1} /\ (o = 1 => Len(e) = MaxCacheSize)
    OBVIOUS
  <2> HIDE DEF o
  <2>3. Len(f) \in 1..Len(f) /\ \A k \in 1..Len(f) : k # Len(f) => k \in 1..(Len(e) - o) /\ k + o \in 1..Len(e)
    BY <1>0, <2>1, <2>2
  <2>4. Sorted(f, t)
    <3>1. \A k, m \in 1..Len(e) : /\ e[k].id = e[m].id => k = m
                                  /\ k < m => e[k].id[1] <= e[m].id[1]
                                  /\ e[k].id[1] <= t /\ e[k].id # id
      BY <1>2 DEF Sorted
    <3>2. f[Len(f)].id = id /\ f[Len(f)].id[1] = t
      BY <1>0, <2>1
    <3>3. ASSUME NEW k \in 1..Len(f), k # Len(f)
          PROVE  k + o \in 1..Len(e) /\ f[k] = e[k + o]
      BY <2>1, <2>3, <3>3
    <3>4. ASSUME NEW k \in 1..Len(f), NEW m \in 1..Len(f)
          PROVE  /\ f[k].id[1] <= t
                 /\ f[k].id = f[m].id => k = m
                 /\ k < m => f[k].id[1] <= f[m].id[1]
      <4>1. CASE k = Len(f) /\ m = Len(f)
        BY <3>2, <4>1
      <4>2. CASE k = Len(f) /\ m # Len(f)
        <5>1. m + o \in 1..Len(e) /\ f[m] = e[m + o] /\ ~(k < m)
          BY <3>3, <4>2
        <5> QED BY <3>1, <3>2, <4>2, <5>1
      <4>3. CASE k # Len(f) /\ m = Len(f)
        <5>1. k + o \in 1..Len(e) /\ f[k] = e[k + o]
          BY <3>3, <4>3
        <5> QED BY <3>1, <3>2, <4>3, <5>1
      <4>4. CASE k # Len(f) /\ m # Len(f)
        <5>1. k + o \in 1..Len(e) /\ f[k] = e[k + o] /\ m + o \in 1..Len(e) /\ f[m] = e[m + o]
          BY <3>3, <4>4
        <5>2. (k + o = m + o => k = m) /\ (k < m => k + o < m + o)
          BY <2>2
        <5> QED BY <3>1, <5>1, <5>2
      <4> QED BY <4>1, <4>2, <4>3, <4>4
    <3> QED BY <3>4 DEF Sorted
  <2>5. ASSUME NEW k \in 1..Len(f) PROVE f[k].id = id \/ \E m \in 1..Len(e) : f[k] = e[m]
    BY <1>0, <2>1, <2>3
  <2>6. ASSUME NEW m \in 1..Len(e), ~(m = 1 /\ Len(e) = MaxCacheSize)
        PROVE \E k \in 1..Len(f) : f[k] = e[m]
    <3>1. m - o \in 1..Len(f) /\ m - o \in 1..(Len(e) - o) /\ (m - o) + o = m
      BY <1>0, <2>1, <2>2, <2>6
    <3>2. f[m - o] = e[m]
      BY <2>1, <3>1
    <3> QED BY <3>1, <3>2
  <2> QED BY <1>2, <2>1, <2>3, <2>4, <2>5, <2>6 DEF x, Follows
<1> QED BY <1>1, <1>2 DEF Chosen, x

\* Of batch t, e has requests of conversations 1 to n only.
OfBatch(e, t, w, n) ==
  \A i \in 1..Len(e) : e[i].id[1] = t => \E m \in 1..n : e[i].id = <<t, w, m>>

\* A cache that is full has the entry of an older batch first, unless every
\* request of this batch is in it: n are not more than it has room for.
LEMMA OldestIsOld ==
  ASSUME NEW t, NEW w, NEW n \in Nat, n <= MaxCacheSize, NEW j \in 1..n,
         NEW e \in Seq(Entry), Len(e) = MaxCacheSize, Sorted(e, t),
         OfBatch(e, t, w, n), \A i \in 1..Len(e) : e[i].id # <<t, w, j>>
  PROVE  e[1].id[1] # t
<1> SUFFICES ASSUME e[1].id[1] = t PROVE FALSE
  OBVIOUS
<1>0. MaxCacheSize \in Nat \ {0} /\ \A i \in 1..MaxCacheSize : e[i].id[1] \in Nat
  BY AgentLoopAssumption, EntryTime
<1>1. ASSUME NEW i \in 1..MaxCacheSize PROVE e[i].id[1] = t
  BY <1>0 DEF Sorted
<1>2. ASSUME NEW i \in 1..MaxCacheSize
      PROVE  \E m \in (1..n) \ {j} : e[i].id = <<t, w, m>>
  BY <1>1 DEF OfBatch
<1> DEFINE S == 1..MaxCacheSize
           T == (1..n) \ {j}
           f == [i \in S |-> CHOOSE m \in T : e[i].id = <<t, w, m>>]
<1>3. \A i \in S : f[i] \in T /\ e[i].id = <<t, w, f[i]>>
  BY <1>2
<1>4. f \in [S -> T]
  BY <1>3
<1>5. IsFiniteSet(S) /\ Cardinality(S) = MaxCacheSize
  BY <1>0, FS_Interval
<1>6. IsFiniteSet(T) /\ Cardinality(T) = n - 1
  <2>1. IsFiniteSet(1..n) /\ Cardinality(1..n) = n
    BY FS_Interval
  <2> QED BY <2>1, FS_RemoveElement
<1>7. Cardinality(T) < Cardinality(S)
  BY <1>0, <1>5, <1>6
<1> HIDE DEF f, S, T
<1>8. \E x, y \in S : x # y /\ f[x] = f[y]
  BY <1>4, <1>5, <1>6, <1>7, FS_PigeonHole
<1>9. PICK x \in S, y \in S : x # y /\ f[x] = f[y]
  BY <1>8
<1>10. e[x].id = e[y].id
  BY <1>3, <1>9
<1>11. x \in 1..Len(e) /\ y \in 1..Len(e)
  BY DEF S
<1> QED BY <1>9, <1>10, <1>11 DEF Sorted

-----------------------------------------------------------------------------
\* A conversation waits for a server exactly when it has asked one.
Asks(c) == (c.server # NoServer) <=> (c.state = "REQUESTED")

\* The tokens of d are those of c, what tools or users say, and the answer.
Continues(c, d, answer) ==
  \A i \in 1..Len(d.tokens) :
     \/ d.tokens[i] \in {Observation} \cup answer
     \/ \E k \in 1..Len(c.tokens) : d.tokens[i] = c.tokens[k]

\* A conversation that keeps its tokens continues itself.
LEMMA SameContinues ==
  ASSUME NEW c, NEW d, d.tokens = c.tokens, NEW answer
  PROVE  Continues(c, d, answer)
  BY DEF Continues

\* So does one with copies of a token more.
LEMMA AddContinues ==
  ASSUME NEW c \in Conv, NEW token \in Toks, NEW k \in Nat, NEW bit, NEW lps, NEW answer,
         token = Observation \/ token \in answer
  PROVE  LET d == AddTokens(c, token, k, bit, lps)
         IN  d.server = c.server /\ d.state = c.state /\ Continues(c, d, answer)
<1> DEFINE d == AddTokens(c, token, k, bit, lps)
<1>1. d.tokens = c.tokens \o Copies(token, k) /\ d.server = c.server /\ d.state = c.state
  BY DEF AddTokens, Conv
<1>2. c.tokens \in Seq(Toks)
  BY DEF Conv
<1>3. Grown(c.tokens, c.tokens \o Copies(token, k), token, k)
  BY <1>2, CopiesSeq
<1> HIDE DEF d
<1>4. ASSUME NEW i \in 1..Len(d.tokens)
      PROVE  d.tokens[i] = token \/ \E m \in 1..Len(c.tokens) : d.tokens[i] = c.tokens[m]
  <2>1. Len(d.tokens) = Len(c.tokens) + k /\ Len(c.tokens) \in Nat
    BY <1>1, <1>2, <1>3 DEF Grown
  <2>2. CASE i \in 1..Len(c.tokens)
    BY <1>1, <1>3, <2>2 DEF Grown
  <2>3. CASE i \notin 1..Len(c.tokens)
    <3>1. i - Len(c.tokens) \in 1..k /\ i = Len(c.tokens) + (i - Len(c.tokens))
      BY <2>1, <2>3
    <3> QED BY <1>1, <1>3, <3>1 DEF Grown
  <2> QED BY <2>2, <2>3
<1>5. Continues(c, d, answer)
  BY <1>4 DEF Continues
<1> QED BY <1>1, <1>5 DEF d

\* The answer of a server to a conversation that waits for it.
Answer(c) ==
  IF c.state = "REQUESTED"
    THEN {[server |-> c.server, version |-> weights[c.server]]} ELSE {}

\* What a step of a conversation does to its tokens, and when a server is chosen.
Step(w, j, c, d) ==
  /\ Asks(d) /\ Continues(c, d, Answer(c))
  /\ d.state = "REQUESTED" =>
       d.server \in Servers /\ ChooseServer(w, <<step, w, j>>, d.server)
  /\ d.state # "REQUESTED" => UNCHANGED <<counts, cache>>

\* An exception, an answer, a tool or a user.
LEMMA AnsweredStep ==
  ASSUME NEW c \in Conv, c.state = "REQUESTED", c.server \in Servers,
         NEW version \in Int, NEW k \in Nat, NEW calls \in BOOLEAN
  PROVE  LET d == Generated(c, version, k, calls)
         IN  /\ d.server = NoServer /\ d.state # "REQUESTED"
             /\ Continues(c, d, {[server |-> c.server, version |-> version]})
<1> DEFINE token == [server |-> c.server, version |-> version]
           b == [c EXCEPT !.assistant_turns = @ + 1, !.server = NoServer]
           said == AddTokens(b, token, k, 1, Copies(1, k))
           d == Generated(c, version, k, calls)
<1>1. b \in Conv /\ b.tokens = c.tokens /\ b.server = NoServer
  <2>1. c.assistant_turns + 1 \in Nat
    BY DEF Conv
  <2> QED BY <2>1 DEF Conv
<1>2. token \in Toks
  BY DEF Toks
<1>3. d = [said EXCEPT !.state = AfterGenerating(said, calls)]
  BY DEF Generated
<1> DEFINE answer == {token}
           lps == Copies(1, k)
<1> HIDE DEF b, token
<1>4. said.server = b.server /\ Continues(b, said, {token})
  <2>1. token \in answer
    OBVIOUS
  <2>2. said = AddTokens(b, token, k, 1, lps)
    OBVIOUS
  <2> HIDE DEF answer, lps, said
  <2>3. LET e == AddTokens(b, token, k, 1, lps)
        IN  e.server = b.server /\ e.state = b.state /\ Continues(b, e, answer)
    BY <1>1, <1>2, <2>1, AddContinues
  <2> QED BY <2>2, <2>3 DEF answer
<1>5. AfterGenerating(said, calls) # "REQUESTED"
  BY DEF AfterGenerating
<1>6. d.tokens = said.tokens /\ d.server = said.server /\ d.state # "REQUESTED"
  <2>1. said = [b EXCEPT !.tokens = @ \o Copies(token, k), !.mask = @ \o Copies(1, k),
                         !.logprobs = @ \o Copies(1, k)]
    BY DEF AddTokens
  <2>2. "state" \in DOMAIN said /\ said.state = b.state
    BY <1>1, <2>1 DEF Conv
  <2> HIDE DEF said
  <2> QED BY <1>3, <1>5, <2>2
<1> HIDE DEF said, d
<1>7. Continues(c, d, {token})
  BY <1>1, <1>4, <1>6 DEF Continues
<1> QED BY <1>1, <1>4, <1>6, <1>7 DEF d, token

\* What tools or a user say.
LEMMA ObservedStep ==
  ASSUME NEW c \in Conv, NEW k \in Nat
  PROVE  /\ Observe(c, k).server = c.server /\ Observe(c, k).state = c.state
         /\ Continues(c, Observe(c, k), {})
         /\ DOMAIN Observe(c, k) = DOMAIN c
<1> DEFINE lps == IF c.logprobs = <<>> THEN <<>> ELSE Copies(0, k)
<1>1. Observe(c, k) = AddTokens(c, Observation, k, 0, lps)
  BY DEF Observe
<1> DEFINE answer == {}
<1>2. Observation \in Toks
  BY DEF Toks, Observation
<1> HIDE DEF lps
<1>3. DOMAIN AddTokens(c, Observation, k, 0, lps) = DOMAIN c
  BY DEF AddTokens
<1> HIDE DEF answer
<1>4. LET e == AddTokens(c, Observation, k, 0, lps)
      IN  e.server = c.server /\ e.state = c.state /\ Continues(c, e, answer)
  BY <1>2, AddContinues
<1> QED BY <1>1, <1>3, <1>4 DEF answer

\* Every step of a conversation.
LEMMA ConverseStepped ==
  ASSUME IInv, phase = "running", NEW w \in DOMAIN conv, NEW j \in DOMAIN conv[w],
         Converse(w, j), Asks(conv[w][j])
  PROVE  \E d : conv' = [conv EXCEPT ![w][j] = d] /\ Step(w, j, conv[w][j], d)
<1> DEFINE c == conv[w][j]
<1>1. /\ config \in Configs /\ weights \in [Servers -> Int] /\ Typed
  BY DEF IInv, Basics, ByPhase, Running
<1>2. w \in Workers /\ j \in 1..Size /\ c \in Good(updates, config.interactive)
  BY <1>1 DEF Typed
<1>3. c \in Conv /\ (c.state = "REQUESTED" => c.server \in Servers) /\ Asks(c)
  BY <1>2 DEF Good, Placed
<1> HIDE DEF c
<1>4. CASE Prepare(w, j)
  <2> DEFINE d == [c EXCEPT !.state = "GENERATING"]
  <2>1. c.state = "PENDING" /\ conv' = [conv EXCEPT ![w][j] = d] /\ UNCHANGED <<counts, cache>>
    BY <1>4 DEF Prepare, Set, c
  <2>2. d.tokens = c.tokens /\ d.state = "GENERATING" /\ d.server = c.server
    BY <1>3 DEF Conv
  <2> HIDE DEF d
  <2>3. Continues(c, d, Answer(c))
    BY <2>2, SameContinues
  <2>4. Asks(d)
    BY <1>3, <2>1, <2>2 DEF Asks
  <2> QED BY <2>1, <2>2, <2>3, <2>4 DEF Step, c
<1>5. CASE Request(w, j, <<step, w, j>>)
  <2>1. PICK s \in Servers :
          /\ ChooseServer(w, <<step, w, j>>, s)
          /\ conv' = [conv EXCEPT ![w][j] = [c EXCEPT !.state = "REQUESTED", !.server = s]]
    BY <1>5 DEF Request, Set, c
  <2> DEFINE d == [c EXCEPT !.state = "REQUESTED", !.server = s]
  <2>2. d.tokens = c.tokens /\ d.state = "REQUESTED" /\ d.server = s
    BY <1>3 DEF Conv
  <2>3. conv' = [conv EXCEPT ![w][j] = d]
    BY <2>1
  <2> HIDE DEF d
  <2>4. Continues(c, d, Answer(c))
    BY <2>2, SameContinues
  <2>5. Asks(d)
    BY <2>2, AgentLoopAssumption DEF Asks
  <2> QED BY <2>1, <2>2, <2>3, <2>4, <2>5 DEF Step, c
<1>6. ASSUME c.state \in {"REQUESTED", "INTERACTING"},
             conv' = [conv EXCEPT ![w][j] = Raised(c)], UNCHANGED <<counts, cache>>
      PROVE  \E d : conv' = [conv EXCEPT ![w][j] = d] /\ Step(w, j, c, d)
  <2> DEFINE d == Raised(c)
  <2>1. d.tokens = c.tokens /\ d.state = "RAISED" /\ d.server = NoServer
    BY <1>3 DEF Conv, Raised
  <2>2. conv' = [conv EXCEPT ![w][j] = d]
    BY <1>6
  <2> HIDE DEF d
  <2>3. Continues(c, d, Answer(c)) /\ Asks(d)
    BY <2>1, SameContinues DEF Asks
  <2> QED BY <1>6, <2>1, <2>2, <2>3 DEF Step
<1>7. CASE Respond(w, j, weights)
  <2>1. c.state = "REQUESTED" /\ UNCHANGED <<counts, cache>>
    BY <1>7 DEF Respond, c
  <2>2. \/ conv' = [conv EXCEPT ![w][j] = Raised(c)]
        \/ \E k \in 1..Smaller(MaxNew, MaxTokens(c)), calls \in BOOLEAN :
             conv' = [conv EXCEPT ![w][j] = Generated(c, weights[c.server], k, calls)]
    BY <1>7 DEF Respond, Set, c
  <2>3. ASSUME NEW k \in 1..Smaller(MaxNew, MaxTokens(c)), NEW calls \in BOOLEAN,
               conv' = [conv EXCEPT ![w][j] = Generated(c, weights[c.server], k, calls)]
        PROVE  \E d : conv' = [conv EXCEPT ![w][j] = d] /\ Step(w, j, c, d)
    <3> DEFINE version == weights[c.server]
               d == Generated(c, version, k, calls)
    <3>1. version \in Int /\ c.server \in Servers
      BY <1>1, <1>3, <2>1
    <3>2. k \in Nat
      OBVIOUS
    <3>3. Answer(c) = {[server |-> c.server, version |-> version]}
      BY <2>1 DEF Answer
    <3>4. conv' = [conv EXCEPT ![w][j] = d]
      BY <2>3
    <3> HIDE DEF version
    <3>5. /\ d.server = NoServer /\ d.state # "REQUESTED"
          /\ Continues(c, d, {[server |-> c.server, version |-> version]})
      BY <1>3, <2>1, <3>1, <3>2, AnsweredStep
    <3> HIDE DEF d
    <3> QED BY <2>1, <3>3, <3>4, <3>5 DEF Step, Asks
  <2> QED BY <1>6, <2>1, <2>2, <2>3 DEF c
<1>8. CASE UseTools(w, j)
  <2>1. c.state = "PROCESSING_TOOLS" /\ UNCHANGED <<counts, cache>>
    BY <1>8 DEF UseTools, c
  <2>2. PICK k \in 1..MaxObservation : conv' = [conv EXCEPT ![w][j] = ToolsAnswered(c, k)]
    BY <1>8 DEF UseTools, Set, c
  <2> DEFINE d == ToolsAnswered(c, k)
             o == Observe(c, k)
  <2>3. o.server = c.server /\ Continues(c, o, {}) /\ DOMAIN o = DOMAIN c
    BY <1>3, ObservedStep
  <2>4. /\ d.server = c.server /\ d.state # "REQUESTED"
        /\ d.tokens = c.tokens \/ d.tokens = o.tokens
    <3>1. d = IF Fits(c, k) THEN [o EXCEPT !.user_turns = @ + 1, !.state = "GENERATING"]
              ELSE [c EXCEPT !.state = "TERMINATED"]
      BY DEF ToolsAnswered
    <3>2. "state" \in DOMAIN c /\ "server" \in DOMAIN c
      BY <1>3 DEF Conv
    <3> HIDE DEF d, o
    <3> QED BY <2>3, <3>1, <3>2
  <2>5. conv' = [conv EXCEPT ![w][j] = d]
    BY <2>2
  <2> HIDE DEF d, o
  <2>6. Continues(c, d, Answer(c))
    BY <2>3, <2>4, SameContinues DEF Continues
  <2>7. Asks(d)
    BY <1>3, <2>1, <2>4 DEF Asks
  <2> QED BY <2>1, <2>4, <2>5, <2>6, <2>7 DEF Step, c
<1>9. CASE Interact(w, j)
  <2>1. c.state = "INTERACTING" /\ UNCHANGED <<counts, cache>>
    BY <1>9 DEF Interact, c
  <2>2. \/ conv' = [conv EXCEPT ![w][j] = Raised(c)]
        \/ \E k \in 1..MaxObservation, stop \in BOOLEAN :
             conv' = [conv EXCEPT ![w][j] = UserAnswered(c, k, stop)]
    BY <1>9 DEF Interact, Set, c
  <2>3. ASSUME NEW k \in 1..MaxObservation, NEW stop \in BOOLEAN,
               conv' = [conv EXCEPT ![w][j] = UserAnswered(c, k, stop)]
        PROVE  \E d : conv' = [conv EXCEPT ![w][j] = d] /\ Step(w, j, c, d)
    <3> DEFINE d == UserAnswered(c, k, stop)
               o == Observe(c, k)
    <3>1. o.server = c.server /\ Continues(c, o, {}) /\ DOMAIN o = DOMAIN c
      BY <1>3, ObservedStep
    <3>2. d.server = c.server /\ d.state # "REQUESTED" /\ d.tokens = o.tokens
      <4>1. d = [o EXCEPT !.user_turns = @ + 1,
                          !.state = IF stop THEN "TERMINATED" ELSE "GENERATING"]
        BY DEF UserAnswered
      <4>2. "state" \in DOMAIN c /\ "server" \in DOMAIN c
        BY <1>3 DEF Conv
      <4> HIDE DEF d, o
      <4> QED BY <3>1, <4>1, <4>2
    <3>3. conv' = [conv EXCEPT ![w][j] = d]
      BY <2>3
    <3> HIDE DEF d, o
    <3>4. Continues(c, d, Answer(c)) /\ Asks(d)
      BY <1>3, <2>1, <3>1, <3>2 DEF Continues, Asks
    <3> QED BY <2>1, <3>2, <3>3, <3>4 DEF Step
  <2> QED BY <1>6, <2>1, <2>2, <2>3 DEF c
<1> QED BY <1>4, <1>5, <1>7, <1>8, <1>9 DEF Converse, c

-----------------------------------------------------------------------------
\* The requests of the batch there is are those of its conversations.
Recent(e, w) ==
  \A i \in 1..Len(e) : e[i].id[1] = step =>
     phase \notin {"waking", "done"} /\ \E j \in 1..Size : e[i].id = <<step, w, j>>
Caches ==
  /\ cache \in [Workers -> Seq(Entry)]
  /\ \A w \in Workers : /\ Len(cache[w]) <= MaxCacheSize
                        /\ Sorted(cache[w], step) /\ Recent(cache[w], w)

\* Requests are spread evenly over the servers.
Even(f) == \A s, t \in Servers : f[s] <= f[t] + 1
Counted ==
  counts \in [Workers -> [Servers -> Nat]] /\ \A w \in Workers : Even(counts[w])

\* There are no more updates than batches, nor weights of later ones.
Timely ==
  /\ step \in 1..(Len(Plan) + 1) /\ updates \in 0..(step - 1)
  /\ phase # "done" => step <= Len(Plan)
  /\ weights \in [Servers -> Versions]

\* A conversation has tokens of such weights.
Speaks(c) == Asks(c) /\ \A i \in 1..Len(c.tokens) : c.tokens[i] \in Tokens
Speaking == \A w \in DOMAIN conv : \A j \in DOMAIN conv[w] : Speaks(conv[w][j])

Full == Caches /\ Counted /\ Timely /\ Speaking

\* What the plan and the cache are.
LEMMA Planned ==
  /\ Len(Plan) \in Nat \ {0} /\ MaxCacheSize \in Nat \ {0}
  /\ Versions = (-1)..Len(Plan) /\ NoServer \notin Servers
<1>1. Plan \in Seq({"train", "validate"}) /\ Plan # <<>>
  BY AgentRolloutAssumption
<1>2. Len(Plan) \in Nat \ {0}
  BY <1>1
<1> QED BY <1>2, AgentLoopAssumption DEF Versions, Dummy

\* A step that leaves caches, counts and weights alone, and goes on to no batch.
LEMMA KeepsFull ==
  ASSUME IInv, Full, UNCHANGED <<config, counts, cache, step>>,
         phase' \in {"running", "sleeping", "returned", "raised", phase},
         phase # "done" \/ phase' = phase,
         updates' = updates, weights' \in [Servers -> Versions],
         Speaking'
  PROVE  Full'
<1>1. Workers' = Workers /\ Size' = Size
  BY SameBatch
<1>2. Caches'
  <2>1. \A w \in Workers : Recent(cache[w], w)'
    BY <1>1 DEF Full, Caches, Recent
  <2> QED BY <1>1, <2>1 DEF Full, Caches
<1>3. Counted'
  BY <1>1 DEF Full, Counted
<1>4. Timely'
  BY DEF Full, Timely
<1> QED BY <1>2, <1>3, <1>4 DEF Full

\* A server is chosen for a request of a worker.
LEMMA ServerChosen ==
  ASSUME Caches, Counted, NEW w \in Workers, NEW id, NEW s \in Servers,
         ChooseServer(w, id, s)
  PROVE  /\ \E f : Chosen(cache[w], f, id, s) /\ cache' = [cache EXCEPT ![w] = f]
         /\ \/ counts' = counts
            \/ s \in LeastUsed(w) /\ counts' = [counts EXCEPT ![w][s] = @ + 1]
<1>1. CASE \E i \in Cached(w, id) : /\ cache[w][i].server = s
                                    /\ cache' = [cache EXCEPT ![w] = Refreshed(@, i)]
  <2>1. PICK i \in Cached(w, id) : /\ cache[w][i].server = s
                                   /\ cache' = [cache EXCEPT ![w] = Refreshed(@, i)]
    BY <1>1
  <2>2. i \in 1..Len(cache[w]) /\ cache[w][i].id = id
    BY <2>1 DEF Cached
  <2>3. Chosen(cache[w], Refreshed(cache[w], i), id, s)
    BY <2>1, <2>2 DEF Chosen
  <2>4. counts' = counts
    BY <2>1 DEF ChooseServer
  <2> QED BY <2>1, <2>3, <2>4
<1>2. CASE Cached(w, id) = {} /\ ChooseLeast(w, id, s)
  <2> DEFINE f == Append(Room(cache[w]), [id |-> id, server |-> s])
  <2>1. \A i \in 1..Len(cache[w]) : cache[w][i].id # id
    BY <1>2 DEF Cached
  <2>2. Chosen(cache[w], f, id, s)
    BY <2>1 DEF Chosen
  <2>3. cache' = [cache EXCEPT ![w] = f]
    BY <1>2 DEF ChooseLeast
  <2>4. s \in LeastUsed(w) /\ counts' = [counts EXCEPT ![w][s] = @ + 1]
    BY <1>2 DEF ChooseLeast
  <2> HIDE DEF f
  <2> QED BY <2>2, <2>3, <2>4
<1> QED BY <1>1, <1>2 DEF ChooseServer

\* A server that has the fewest requests may have one more.
LEMMA StaysEven ==
  ASSUME NEW f \in [Servers -> Nat], Even(f), NEW s \in Servers,
         \A t \in Servers : f[s] <= f[t]
  PROVE  [f EXCEPT ![s] = @ + 1] \in [Servers -> Nat] /\ Even([f EXCEPT ![s] = @ + 1])
<1> DEFINE g == [f EXCEPT ![s] = @ + 1]
<1>1. g \in [Servers -> Nat] /\ \A t \in Servers : g[t] = IF t = s THEN f[s] + 1 ELSE f[t]
  OBVIOUS
<1> HIDE DEF g
<1>2. ASSUME NEW a \in Servers, NEW b \in Servers PROVE g[a] <= g[b] + 1
  <2>1. f[a] \in Nat /\ f[b] \in Nat /\ f[s] \in Nat /\ f[a] <= f[b] + 1 /\ f[s] <= f[b]
    BY DEF Even
  <2> QED BY <1>1, <2>1
<1>3. Even(g)
  BY <1>2 DEF Even
<1> QED BY <1>1, <1>3 DEF g

\* A step of a conversation.
LEMMA ConverseFull ==
  ASSUME IInv, Full, NEW w \in DOMAIN conv, NEW j \in DOMAIN conv[w], Converse(w, j)
  PROVE  Full'
<1> DEFINE c == conv[w][j]
<1>1. /\ phase = "running" /\ phase' = phase /\ step' = step /\ updates' = updates
      /\ weights' = weights
  BY DEF Converse
<1>2. w \in Workers /\ j \in 1..Size /\ config' = config
  BY <1>1, ConverseGood
<1>3. Workers' = Workers /\ Size' = Size
  BY <1>1, <1>2, SameBatch
<1>4. Typed /\ config \in Configs
  BY <1>1 DEF IInv, Basics, ByPhase, Running
<1>5. c \in Conv /\ (c.state = "REQUESTED" => c.server \in Servers)
  <2>1. c \in Good(updates, config.interactive)
    BY <1>2, <1>4 DEF Typed
  <2> HIDE DEF c
  <2> QED BY <2>1 DEF Good, Placed
<1>6. Speaks(c)
  BY DEF Full, Speaking
<1>7. PICK d : conv' = [conv EXCEPT ![w][j] = d] /\ Step(w, j, c, d)
  BY <1>1, <1>6, ConverseStepped DEF Speaks
<1> HIDE DEF c
<1>8. Speaks(d)
  <2>1. ASSUME NEW i \in 1..Len(d.tokens) PROVE d.tokens[i] \in Tokens
    <3>1. CASE d.tokens[i] = Observation
      BY <3>1 DEF Tokens
    <3>2. CASE d.tokens[i] \in Answer(c)
      <4>1. c.state = "REQUESTED" /\ d.tokens[i] = [server |-> c.server, version |-> weights[c.server]]
        BY <3>2 DEF Answer
      <4>2. c.server \in Servers /\ weights[c.server] \in Versions
        BY <1>5, <4>1 DEF Full, Timely
      <4> QED BY <4>1, <4>2 DEF Tokens
    <3>3. CASE \E k \in 1..Len(c.tokens) : d.tokens[i] = c.tokens[k]
      BY <1>6, <3>3 DEF Speaks
    <3> QED BY <1>7, <3>1, <3>2, <3>3 DEF Step, Continues
  <2> QED BY <1>7, <2>1 DEF Step, Speaks
<1>9. Speaking'
  <2>1. conv \in [Workers -> [1..Size -> Good(updates, config.interactive)]]
    BY <1>4 DEF Typed
  <2>2. /\ DOMAIN conv' = DOMAIN conv
        /\ \A v \in DOMAIN conv : DOMAIN conv'[v] = DOMAIN conv[v]
        /\ \A v \in DOMAIN conv : \A i \in DOMAIN conv[v] :
             conv'[v][i] = IF v = w /\ i = j THEN d ELSE conv[v][i]
    BY <1>2, <1>7, <2>1
  <2>3. \A v \in DOMAIN conv : \A i \in DOMAIN conv[v] : Speaks(conv[v][i])
    BY DEF Full, Speaking
  <2>4. \A v \in DOMAIN conv : \A i \in DOMAIN conv[v] : Speaks(conv'[v][i])
    BY <1>8, <2>2, <2>3
  <2> QED BY <2>2, <2>4 DEF Speaking
<1>10. CASE d.state # "REQUESTED"
  <2>1. UNCHANGED <<counts, cache>>
    BY <1>7, <1>10 DEF Step
  <2>2. weights' \in [Servers -> Versions]
    BY <1>1 DEF Full, Timely
  <2> QED BY <1>1, <1>2, <1>9, <2>1, <2>2, KeepsFull
<1>11. CASE d.state = "REQUESTED"
  <2> DEFINE s == d.server
             id == <<step, w, j>>
  <2>1. s \in Servers /\ ChooseServer(w, id, s)
    BY <1>7, <1>11 DEF Step
  <2>2. /\ step \in Nat /\ w \in Nat /\ j \in Nat
    <3>1. config.workers \in Nat
      BY <1>4, Configured
    <3>2. step \in Nat /\ Workers = 1..config.workers
      BY Planned DEF Full, Timely, Workers
    <3> QED BY <1>2, <3>1, <3>2
  <2>3. id \in Nat \X Nat \X Nat /\ id[1] = step
    BY <2>2
  <2> HIDE DEF s, id
  <2>4. PICK f : Chosen(cache[w], f, id, s) /\ cache' = [cache EXCEPT ![w] = f]
    BY <1>2, <2>1, ServerChosen DEF Full
  <2>5. /\ cache \in [Workers -> Seq(Entry)]
        /\ \A v \in Workers : /\ cache[v] \in Seq(Entry) /\ Len(cache[v]) <= MaxCacheSize
                              /\ Sorted(cache[v], step) /\ Recent(cache[v], v)
    BY DEF Full, Caches
  <2>6. /\ f \in Seq(Entry) /\ Len(f) <= MaxCacheSize /\ Sorted(f, step)
        /\ Follows(cache[w], f, id, s)
    <3> DEFINE e == cache[w]
    <3>1. e \in Seq(Entry) /\ Len(e) <= MaxCacheSize /\ Sorted(e, step) /\ Chosen(e, f, id, s)
      BY <1>2, <2>4, <2>5
    <3> HIDE DEF e
    <3>2. step \in Nat /\ id \in Nat \X Nat \X Nat /\ id[1] = step /\ s \in Servers
      BY <2>1, <2>2, <2>3
    <3>3. f \in Seq(Entry) /\ Len(f) <= MaxCacheSize /\ Sorted(f, step) /\ Follows(e, f, id, s)
      BY <3>1, <3>2, ChosenSorted
    <3> QED BY <3>3 DEF e
  <2>7. Recent(f, w)
    <3>1. ASSUME NEW k \in 1..Len(f), f[k].id[1] = step
          PROVE  \E i \in 1..Size : f[k].id = <<step, w, i>>
      <4>1. CASE f[k].id = id
        BY <1>2, <4>1 DEF id
      <4>2. CASE \E i \in 1..Len(cache[w]) : f[k] = cache[w][i]
        <5>1. PICK i \in 1..Len(cache[w]) : f[k] = cache[w][i]
          BY <4>2
        <5>2. Recent(cache[w], w)
          BY <1>2, <2>5
        <5> QED BY <3>1, <5>1, <5>2 DEF Recent
      <4> QED BY <2>6, <4>1, <4>2 DEF Follows
    <3> QED BY <1>1, <3>1 DEF Recent
  <2>8. Caches'
    <3>1. /\ cache' \in [Workers -> Seq(Entry)]
          /\ \A v \in Workers : cache'[v] = IF v = w THEN f ELSE cache[v]
      BY <1>2, <2>4, <2>5, <2>6
    <3>2. \A v \in Workers : /\ Len(cache'[v]) <= MaxCacheSize
                             /\ Sorted(cache'[v], step) /\ Recent(cache'[v], v)
      BY <2>5, <2>6, <2>7, <3>1
    <3>3. \A v \in Workers : (Sorted(cache[v], step) /\ Recent(cache[v], v))'
      BY <1>1, <1>3, <3>2 DEF Recent, Sorted
    <3> QED BY <1>3, <3>1, <3>2, <3>3 DEF Caches
  <2>9. Counted'
    <3>1. counts' = counts \/ (s \in LeastUsed(w) /\ counts' = [counts EXCEPT ![w][s] = @ + 1])
      BY <1>2, <2>1, ServerChosen DEF Full
    <3>2. CASE counts' = counts
      BY <1>3, <3>2 DEF Full, Counted
    <3>3. CASE s \in LeastUsed(w) /\ counts' = [counts EXCEPT ![w][s] = @ + 1]
      <4> DEFINE g == [counts[w] EXCEPT ![s] = @ + 1]
      <4>1. /\ counts \in [Workers -> [Servers -> Nat]] /\ counts[w] \in [Servers -> Nat]
            /\ \A v \in Workers : Even(counts[v])
        BY <1>2 DEF Full, Counted
      <4>2. \A t \in Servers : counts[w][s] <= counts[w][t]
        BY <3>3 DEF LeastUsed
      <4>3. g \in [Servers -> Nat] /\ Even(g)
        BY <1>2, <2>1, <4>1, <4>2, StaysEven
      <4>4. counts' = [counts EXCEPT ![w] = g]
        BY <1>2, <3>3, <4>1
      <4> HIDE DEF g
      <4>5. /\ counts' \in [Workers -> [Servers -> Nat]]
            /\ \A v \in Workers : counts'[v] = IF v = w THEN g ELSE counts[v]
        BY <1>2, <4>1, <4>3, <4>4
      <4>6. \A v \in Workers : Even(counts'[v])
        BY <4>1, <4>3, <4>5
      <4> QED BY <1>3, <4>5, <4>6 DEF Counted
    <3> QED BY <3>1, <3>2, <3>3
  <2>10. Timely'
    BY <1>1 DEF Full, Timely
  <2> QED BY <1>9, <2>8, <2>9, <2>10 DEF Full
<1> QED BY <1>10, <1>11

\* The first state.
LEMMA InitFull == Init => Full
<1> SUFFICES ASSUME Init PROVE Full
  OBVIOUS
<1>1. /\ config \in Configs /\ conv = <<>> /\ phase = "waking" /\ step = 1 /\ updates = 0
      /\ counts = [w \in 1..config.workers |-> [s \in Servers |-> 0]]
      /\ cache = [w \in 1..config.workers |-> <<>>] /\ weights = [s \in Servers |-> -1]
  BY DEF Init, LoopInit, Dummy
<1>2. Caches
  <2>1. <<>> \in Seq(Entry) /\ Len(<<>>) = 0
    OBVIOUS
  <2>2. cache \in [Workers -> Seq(Entry)]
    BY <1>1, <2>1 DEF Workers
  <2>3. \A w \in Workers : cache[w] = <<>>
    BY <1>1 DEF Workers
  <2>4. \A w \in Workers : /\ Len(cache[w]) <= MaxCacheSize
                           /\ Sorted(cache[w], step) /\ Recent(cache[w], w)
    BY <2>1, <2>3, Planned DEF Sorted, Recent
  <2> QED BY <2>2, <2>4 DEF Caches
<1>3. Counted
  BY <1>1 DEF Counted, Workers, Even
<1>4. Timely
  BY <1>1, Planned DEF Timely
<1>5. Speaking
  <2>1. DOMAIN conv = {}
    BY <1>1
  <2> QED BY <2>1 DEF Speaking
<1> QED BY <1>2, <1>3, <1>4, <1>5 DEF Full

\* Where there are no conversations none speaks.
LEMMA Silent == conv' = <<>> => Speaking'
<1>1. DOMAIN <<>> = {}
  OBVIOUS
<1> QED BY <1>1 DEF Speaking

\* The conversations of a new batch have said nothing.
LEMMA DispatchFull == ASSUME IInv, Full, Dispatch PROVE Full'
<1>1. /\ phase = "waking" /\ phase' \in {"running", "raised"} /\ weights' = weights
      /\ updates' = updates /\ UNCHANGED <<config, counts, cache, step>>
  BY DEF Dispatch
<1>2. weights' \in [Servers -> Versions]
  BY <1>1 DEF Full, Timely
<1>3. ASSUME NEW prompt PROVE Speaks(NewConv(prompt))
  <2>1. /\ NewConv(prompt).tokens = <<>> /\ NewConv(prompt).server = NoServer
        /\ NewConv(prompt).state # "REQUESTED"
    BY DEF NewConv
  <2> QED BY <2>1 DEF Speaks, Asks
<1>4. Speaking'
  <2>1. CASE conv' = conv
    BY <2>1 DEF Full, Speaking
  <2>2. CASE \E chunks : conv' = [w \in Workers |-> [j \in DOMAIN chunks[w] |-> NewConv(chunks[w][j])]]
    BY <1>3, <2>2 DEF Speaking
  <2>3. (conv' = conv) \/ conv' = [w \in Workers |-> [j \in DOMAIN Chunk(GenRows(Plan[step]), config.workers)[w]
                         |-> NewConv(Chunk(GenRows(Plan[step]), config.workers)[w][j])]]
    BY DEF Dispatch
  <2> QED BY <2>1, <2>2, <2>3
<1> QED BY <1>1, <1>2, <1>4, KeepsFull

\* The steps between the conversations.
LEMMA OtherFull ==
  ASSUME IInv, Full,
         Gather \/ Fail \/ \E s \in Servers : WakeUp(s) \/ Sleep(s)
  PROVE  Full'
<1>1. weights \in [Servers -> Versions] /\ updates \in Versions
  BY Planned DEF Full, Timely
<1>2. CASE Gather
  <2>1. Speaking'
    BY <1>2, Silent DEF Gather
  <2> QED BY <1>1, <1>2, <2>1, KeepsFull DEF Gather
<1>3. ASSUME conv' = conv PROVE Speaking'
  BY <1>3 DEF Full, Speaking
<1>4. CASE Fail
  BY <1>1, <1>3, <1>4, KeepsFull DEF Fail, loopVars
<1>5. ASSUME NEW s \in Servers, WakeUp(s) PROVE Full'
  <2>1. weights' \in [Servers -> Versions]
    BY <1>1, <1>5 DEF WakeUp
  <2> QED BY <1>3, <1>5, <2>1, KeepsFull DEF WakeUp, loopVars
<1>6. ASSUME NEW s \in Servers, Sleep(s) PROVE Full'
  BY <1>1, <1>3, <1>6, KeepsFull DEF Sleep, loopVars
<1> QED BY <1>2, <1>4, <1>5, <1>6

\* Every request there is belongs to an earlier batch than the next.
LEMMA ConsumeFull == ASSUME IInv, Full, Consume PROVE Full'
<1>1. /\ phase = "returned" /\ step' = step + 1
      /\ phase' = (IF step = Len(Plan) THEN "done" ELSE "waking")
      /\ updates' \in {updates, updates + 1} /\ weights' = weights
      /\ UNCHANGED <<config, conv, counts, cache>>
  BY DEF Consume, loopVars
<1>2. /\ step \in 1..Len(Plan) /\ updates \in 0..(step - 1)
      /\ weights \in [Servers -> Versions]
  BY <1>1, Planned DEF Full, Timely
<1>3. Workers' = Workers
  BY <1>1 DEF Workers
<1>4. Timely'
  BY <1>1, <1>2, Planned DEF Timely
<1>5. Counted' /\ Speaking'
  BY <1>1, <1>3 DEF Full, Counted, Speaking
<1>6. Caches'
  <2>1. ASSUME NEW w \in Workers PROVE Sorted(cache[w], step') /\ Recent(cache[w], w)'
    <3>1. cache[w] \in Seq(Entry) /\ Sorted(cache[w], step)
      BY DEF Full, Caches
    <3>2. \A i \in 1..Len(cache[w]) : cache[w][i].id[1] \in Nat /\ cache[w][i].id[1] <= step
      BY <3>1, EntryTime DEF Sorted
    <3>3. \A i \in 1..Len(cache[w]) : cache[w][i].id[1] < step'
      BY <1>1, <1>2, <3>2
    <3>4. Recent(cache[w], w)'
      BY <1>1, <3>2, <3>3 DEF Recent
    <3>5. \A i \in 1..Len(cache[w]) : cache[w][i].id[1] <= step'
      BY <1>1, <1>2, <3>2
    <3> QED BY <3>1, <3>4, <3>5 DEF Sorted
  <2> QED BY <1>1, <1>3, <2>1 DEF Full, Caches
<1> QED BY <1>4, <1>5, <1>6 DEF Full

\* Every step keeps it.
LEMMA FullStep == ASSUME IInv, Full, [Next]_vars PROVE Full'
<1>1. CASE UNCHANGED vars
  <2>1. /\ UNCHANGED <<config, counts, cache, step>> /\ phase' = phase
        /\ updates' = updates /\ weights' = weights /\ conv' = conv
    BY <1>1 DEF vars, loopVars
  <2>2. Speaking' /\ weights' \in [Servers -> Versions]
    BY <2>1 DEF Full, Speaking, Timely
  <2> QED BY <2>1, <2>2, KeepsFull
<1>2. CASE \E w \in DOMAIN conv : \E j \in DOMAIN conv[w] : Converse(w, j)
  BY <1>2, ConverseFull
<1> QED BY <1>1, <1>2, OtherFull, DispatchFull, ConsumeFull DEF Next

\* So does this invariant.
LEMMA Fullness == Spec => [](IInv /\ Full)
<1>1. IInv /\ Full /\ [Next]_vars => Full'
  BY FullStep
<1> QED BY <1>1, InitFull, Inductive, PTL DEF Spec

-----------------------------------------------------------------------------
\* Every variable keeps its type and its bounds, whatever the sizes are: no
\* cache outgrows max_cache_size, no weights are newer than the updates, and a
\* conversation has a server exactly while it waits for it.
THEOREM RolloutTypes == Spec => []TypeOK
<1>1. ASSUME IInv, Full PROVE TypeOK
  <2>1. /\ config \in Configs /\ config.workers \in Nat \ {0}
        /\ phase \in {"waking", "running", "sleeping", "returned", "done", "raised"}
        /\ awake \subseteq Servers
        /\ conv = <<>> \/ Typed
        /\ phase = "running" => Typed /\ awake = Servers
    BY <1>1, Configured DEF IInv, Basics, ByPhase, Running
  <2>2. /\ counts \in [Workers -> [Servers -> Nat]]
        /\ step \in 1..(Len(Plan) + 1) /\ weights \in [Servers -> Versions]
    BY <1>1 DEF Full, Counted, Timely
  <2>3. updates \in 0..Len(Plan)
    BY <1>1, Planned DEF Full, Timely
  <2>4. \A w \in Workers : /\ Len(cache[w]) <= MaxCacheSize
                           /\ \A i \in DOMAIN cache[w] : cache[w][i].server \in Servers
    <3> SUFFICES ASSUME NEW w \in Workers
                 PROVE  /\ Len(cache[w]) <= MaxCacheSize
                        /\ \A i \in DOMAIN cache[w] : cache[w][i].server \in Servers
      OBVIOUS
    <3>1. cache[w] \in Seq(Entry) /\ Len(cache[w]) <= MaxCacheSize
      BY <1>1 DEF Full, Caches
    <3>2. \A e \in Entry : e.server \in Servers
      BY DEF Entry
    <3> QED BY <3>1, <3>2
  <2>5. ASSUME NEW c \in Good(updates, config.interactive), Speaks(c)
        PROVE  c \in Conversation
    <3>1. c \in Conv /\ c.tokens \in Seq(Toks)
      BY DEF Good, Conv
    <3>2. c.tokens \in Seq(Tokens)
      <4>1. Len(c.tokens) \in Nat /\ c.tokens \in [1..Len(c.tokens) -> Tokens]
        BY <2>5, <3>1 DEF Speaks
      <4> QED BY <4>1, IsSeq
    <3> QED BY <3>1, <3>2 DEF Conv, Conversation, Bits
  <2>6. ASSUME Typed PROVE conv \in Seq(Seq(Conversation)) /\ Len(conv) = config.workers
    <3>1. Workers = 1..config.workers /\ Size \in Nat
      <4>1. Len(Batch) \in Nat
        BY <2>1, GenRowsSeq DEF Batch
      <4> QED BY <2>1, <4>1 DEF Workers, Size
    <3>2. \A w \in Workers : conv[w] \in [1..Size -> Conversation]
      <4>1. \A w \in Workers : DOMAIN conv[w] = 1..Size /\ conv[w] \in [1..Size -> Good(updates, config.interactive)]
        BY <2>6 DEF Typed
      <4>2. \A w \in Workers, j \in 1..Size : Speaks(conv[w][j])
        BY <1>1, <2>6, <4>1 DEF Full, Speaking, Typed
      <4> QED BY <2>5, <4>1, <4>2
    <3>3. \A w \in Workers : conv[w] \in Seq(Conversation)
      BY <3>1, <3>2, IsSeq
    <3>4. conv \in [1..config.workers -> Seq(Conversation)]
      BY <2>6, <3>1, <3>3 DEF Typed
    <3> QED BY <2>1, <3>4, IsSeq
  <2>7. conv \in Seq(Seq(Conversation)) /\ Len(conv) \in {0, config.workers}
    <3>1. <<>> \in Seq(Seq(Conversation)) /\ Len(<<>>) = 0
      OBVIOUS
    <3> QED BY <2>1, <2>6, <3>1
  <2>8. \A c \in Conversations : (c.server # NoServer) <=> (c.state = "REQUESTED")
    BY <1>1 DEF Conversations, Full, Speaking, Speaks, Asks
  <2>9. (phase = "running") => (Len(conv) = config.workers /\ awake = Servers)
    BY <2>1, <2>6
  <2> QED BY <2>1, <2>2, <2>3, <2>4, <2>7, <2>8, <2>9 DEF TypeOK
<1> QED BY <1>1, Fullness, PTL

-----------------------------------------------------------------------------
\* The cache of a worker has room for the conversations of a batch.
Roomy ==
  \A k \in Configs : /\ k.n * k.prompts <= k.workers * MaxCacheSize
                     /\ k.tests <= k.workers * MaxCacheSize

\* The server that a conversation has been given is in the cache.
Known(w, j, s) ==
  \E i \in 1..Len(cache[w]) : cache[w][i] = [id |-> <<step, w, j>>, server |-> s]
Remembered(w, j, c) ==
  /\ c.state = "REQUESTED" => Known(w, j, c.server)
  /\ \A i \in 1..Len(c.tokens) : IsLLM(c.tokens[i]) => Known(w, j, c.tokens[i].server)
AllRemembered ==
  \A w \in DOMAIN conv : \A j \in DOMAIN conv[w] : Remembered(w, j, conv[w][j])

\* No worker has more conversations than that.
LEMMA ChunkFits ==
  ASSUME Roomy, config \in Configs, Divides(config.workers, Batch)
  PROVE  Size \in Nat /\ Size <= MaxCacheSize
<1> DEFINE k == config.workers
<1>1. /\ k \in Nat \ {0} /\ config.prompts \in Nat \ {0} /\ config.n \in Nat \ {0}
      /\ config.tests \in Nat \ {0} /\ MaxCacheSize \in Nat \ {0}
  BY Configured, Planned
<1>2. /\ config.n * config.prompts <= k * MaxCacheSize
      /\ config.tests <= k * MaxCacheSize
  BY DEF Roomy
<1>3. Batch \in Seq(Nat) /\ Len(Batch) # 0
  BY GenRowsSeq DEF Batch
<1> HIDE DEF k
<1>4. Size \in Nat \ {0} /\ Len(Batch) = k * Size
  BY <1>1, <1>3, ChunkSeq DEF Size, k
<1>5. Len(Batch) < k * MaxCacheSize + k
  <2>1. CASE Plan[step] = "train"
    <3>1. Ids(config.prompts) \in Seq(Nat) /\ Len(Ids(config.prompts)) = config.prompts
      BY <1>1, IdsSeq
    <3>2. Batch = Repeat(Ids(config.prompts), config.n)
      BY <2>1 DEF Batch, GenRows
    <3>3. Len(Batch) = config.n * config.prompts
      BY <1>1, <3>1, <3>2, RepeatSeq
    <3>4. k * MaxCacheSize \in Nat /\ config.n * config.prompts \in Nat
      BY <1>1
    <3> QED BY <1>1, <1>2, <3>3, <3>4
  <2>2. CASE Plan[step] # "train"
    <3> DEFINE ids == Ids(config.tests)
    <3>1. ids \in Seq(Nat) /\ Len(ids) = config.tests /\ Len(ids) # 0
      BY <1>1, IdsSeq
    <3>2. Batch = Pad(ids, k)
      BY <2>2 DEF Batch, GenRows, k
    <3> HIDE DEF ids
    <3>3. PadSize(ids, k) \in 0..(k - 1) /\ Len(Batch) = Len(ids) + PadSize(ids, k)
      BY <1>1, <3>1, <3>2, PadSeq
    <3>4. k * MaxCacheSize \in Nat
      BY <1>1
    <3> QED BY <1>1, <1>2, <3>1, <3>3, <3>4
  <2> QED BY <2>1, <2>2
<1>6. ASSUME Size >= MaxCacheSize + 1 PROVE FALSE
  <2>1. k * (MaxCacheSize + 1) <= k * Size
    BY <1>1, <1>4, <1>6, MulMono
  <2>2. k * (MaxCacheSize + 1) = k * MaxCacheSize + k
    BY <1>1
  <2>3. k * MaxCacheSize \in Nat /\ k * Size \in Nat
    BY <1>1, <1>4
  <2> QED BY <1>1, <1>4, <1>5, <2>1, <2>2, <2>3
<1> QED BY <1>1, <1>4, <1>6

\* What a conversation has been told stays in the cache while it goes on: what
\* has to make room is of an older batch.
LEMMA KnownStays ==
  ASSUME Roomy, IInv, Full, NEW w \in DOMAIN conv, NEW j \in DOMAIN conv[w],
         Converse(w, j),
         NEW v \in Workers, NEW i \in 1..Size, NEW s, Known(v, i, s)
  PROVE  Known(v, i, s)'
<1>1. /\ phase = "running" /\ step' = step /\ Typed /\ config \in Configs
      /\ Divides(config.workers, Batch)
  BY DEF Converse, IInv, Basics, ByPhase, Running
<1>2. w \in Workers /\ j \in 1..Size
  BY <1>1, ConverseGood
<1>3. CASE UNCHANGED cache
  BY <1>1, <1>3 DEF Known
<1>4. ASSUME NEW r \in Servers, ChooseServer(w, <<step, w, j>>, r)
      PROVE  Known(v, i, s)'
  <2> DEFINE e == cache[w]
             id == <<step, w, j>>
  <2>1. PICK f : Chosen(e, f, id, r) /\ cache' = [cache EXCEPT ![w] = f]
    BY <1>2, <1>4, ServerChosen DEF Full
  <2>2. /\ cache \in [Workers -> Seq(Entry)] /\ e \in Seq(Entry)
        /\ Len(e) <= MaxCacheSize /\ Sorted(e, step) /\ Recent(e, w)
    BY <1>2 DEF Full, Caches
  <2>3. Size \in Nat /\ Size <= MaxCacheSize
    BY <1>1, ChunkFits
  <2>4. step \in Nat /\ id \in Nat \X Nat \X Nat /\ id[1] = step
    <3>1. config.workers \in Nat /\ step \in Nat
      BY <1>1, Configured, Planned DEF Full, Timely
    <3> QED BY <1>2, <2>3, <3>1 DEF Workers
  <2>5. OfBatch(e, step, w, Size)
    BY <2>2 DEF Recent, OfBatch
  <2> HIDE DEF e
  <2>6. Follows(e, f, id, r)
    <3> HIDE DEF id
    <3> QED BY <2>1, <2>2, <2>4, ChosenSorted
  <2>7. CASE v # w
    <3>1. cache'[v] = cache[v]
      BY <2>1, <2>2, <2>7
    <3> QED BY <1>1, <3>1 DEF Known
  <2>8. CASE v = w
    <3>1. PICK m \in 1..Len(e) : e[m] = [id |-> <<step, w, i>>, server |-> s]
      BY <2>8 DEF Known, e
    <3>2. e[m].id = <<step, w, i>> /\ e[m].id[1] = step
      BY <3>1
    <3>3. \E k \in 1..Len(f) : f[k] = e[m]
      <4>1. ASSUME m = 1, Len(e) = MaxCacheSize, \A n \in 1..Len(e) : e[n].id # id
            PROVE  FALSE
        <5>1. e[1].id[1] # step
          BY <1>2, <2>2, <2>3, <2>5, <4>1, OldestIsOld
        <5> QED BY <3>2, <4>1, <5>1
      <4> QED BY <2>6, <4>1 DEF Follows
    <3>4. cache'[w] = f
      BY <1>2, <2>1, <2>2
    <3> QED BY <1>1, <2>8, <3>1, <3>3, <3>4 DEF Known
  <2> QED BY <2>7, <2>8
<1>5. UNCHANGED cache \/ \E r \in Servers : ChooseServer(w, <<step, w, j>>, r)
  BY DEF Converse, Prepare, Request, Respond, UseTools, Interact
<1> QED BY <1>3, <1>4, <1>5

\* The server that is chosen is the one that is known from then on.
LEMMA ChosenIsKnown ==
  ASSUME IInv, Full, NEW w \in Workers, NEW j \in 1..Size, NEW s \in Servers,
         ChooseServer(w, <<step, w, j>>, s), step' = step, config \in Configs
  PROVE  Known(w, j, s)'
<1> DEFINE e == cache[w]
           id == <<step, w, j>>
<1>1. PICK f : Chosen(e, f, id, s) /\ cache' = [cache EXCEPT ![w] = f]
  BY ServerChosen DEF Full
<1>2. /\ cache \in [Workers -> Seq(Entry)] /\ e \in Seq(Entry)
      /\ Len(e) <= MaxCacheSize /\ Sorted(e, step)
  BY DEF Full, Caches
<1>3. step \in Nat /\ id \in Nat \X Nat \X Nat /\ id[1] = step
  <2>1. config.workers \in Nat /\ step \in Nat
    BY Configured, Planned DEF Full, Timely
  <2> QED BY <2>1 DEF Workers
<1> HIDE DEF e
<1>4. Follows(e, f, id, s)
  <2> HIDE DEF id
  <2> QED BY <1>1, <1>2, <1>3, ChosenSorted
<1>5. cache'[w] = f
  BY <1>1, <1>2
<1> QED BY <1>4, <1>5 DEF Follows, Known

\* A step of a conversation: its tokens come from the server it had before.
LEMMA ConverseRemembered ==
  ASSUME Roomy, IInv, Full, AllRemembered,
         NEW w \in DOMAIN conv, NEW j \in DOMAIN conv[w], Converse(w, j)
  PROVE  AllRemembered'
<1> DEFINE c == conv[w][j]
<1>1. /\ phase = "running" /\ step' = step /\ Typed /\ config \in Configs
  BY DEF Converse, IInv, Basics, ByPhase, Running
<1>2. w \in Workers /\ j \in 1..Size
  BY <1>1, ConverseGood
<1>3. Speaks(c) /\ Remembered(w, j, c)
  BY DEF Full, Speaking, AllRemembered
<1>4. PICK d : conv' = [conv EXCEPT ![w][j] = d] /\ Step(w, j, c, d)
  BY <1>1, <1>3, ConverseStepped DEF Speaks
<1>5. ASSUME NEW s, Known(w, j, s) PROVE Known(w, j, s)'
  BY <1>2, <1>5, KnownStays
<1>6. c.state = "REQUESTED" => c.server # NoServer
  BY <1>3 DEF Speaks, Asks
<1> HIDE DEF c
<1>7. d.state = "REQUESTED" => Known(w, j, d.server)'
  <2> SUFFICES ASSUME d.state = "REQUESTED" PROVE Known(w, j, d.server)'
    OBVIOUS
  <2> DEFINE s == d.server
  <2>1. s \in Servers /\ ChooseServer(w, <<step, w, j>>, s)
    BY <1>4 DEF Step
  <2> HIDE DEF s
  <2>2. Known(w, j, s)'
    BY <1>1, <1>2, <2>1, ChosenIsKnown
  <2> QED BY <2>2 DEF s
<1>8. ASSUME NEW i \in 1..Len(d.tokens), IsLLM(d.tokens[i])
      PROVE  Known(w, j, d.tokens[i].server)'
  <2>1. Known(w, j, d.tokens[i].server)
    <3>1. CASE d.tokens[i] = Observation
      BY <1>8, <3>1 DEF Observation, IsLLM
    <3>2. CASE d.tokens[i] \in Answer(c)
      <4>1. c.state = "REQUESTED" /\ d.tokens[i].server = c.server
        BY <3>2 DEF Answer
      <4> QED BY <1>3, <4>1 DEF Remembered
    <3>3. CASE \E k \in 1..Len(c.tokens) : d.tokens[i] = c.tokens[k]
      BY <1>3, <1>8, <3>3 DEF Remembered
    <3> QED BY <1>4, <3>1, <3>2, <3>3 DEF Step, Continues
  <2> DEFINE s == d.tokens[i].server
  <2>2. Known(w, j, s)
    BY <2>1
  <2> HIDE DEF s
  <2>3. Known(w, j, s)'
    BY <1>5, <2>2
  <2> QED BY <2>3 DEF s
<1>9. ASSUME NEW v \in DOMAIN conv, NEW i \in DOMAIN conv[v], v # w \/ i # j
      PROVE  Remembered(v, i, conv[v][i])'
  <2>0. PICK b : b = conv[v][i]
    OBVIOUS
  <2>1. v \in Workers /\ i \in 1..Size
    BY <1>1 DEF Typed
  <2>2. conv'[v][i] = b
    BY <1>1, <1>2, <1>4, <1>9, <2>0, <2>1 DEF Typed
  <2>3. Remembered(v, i, b)
    BY <2>0 DEF AllRemembered
  <2>4. ASSUME NEW s, Known(v, i, s) PROVE Known(v, i, s)'
    BY <2>1, <2>4, KnownStays
  <2>5. b.state = "REQUESTED" => Known(v, i, b.server)'
    <3> DEFINE s == b.server
    <3>1. b.state = "REQUESTED" => Known(v, i, s)
      BY <2>3 DEF Remembered
    <3> HIDE DEF s
    <3>2. Known(v, i, s) => Known(v, i, s)'
      BY <2>4
    <3>3. b.state = "REQUESTED" => Known(v, i, s)'
      BY <3>1, <3>2
    <3> QED BY <3>3 DEF s
  <2>6. ASSUME NEW k \in 1..Len(b.tokens), IsLLM(b.tokens[k])
        PROVE  Known(v, i, b.tokens[k].server)'
    <3> DEFINE s == b.tokens[k].server
    <3>1. Known(v, i, s)
      BY <2>3, <2>6 DEF Remembered
    <3> HIDE DEF s
    <3>2. Known(v, i, s)'
      BY <2>4, <3>1
    <3> QED BY <3>2 DEF s
  <2>7. Remembered(v, i, b)'
    BY <2>5, <2>6 DEF Remembered
  <2> QED BY <2>2, <2>7
<1>10. Remembered(w, j, d)'
  BY <1>7, <1>8 DEF Remembered
<1>11. /\ DOMAIN conv' = DOMAIN conv /\ \A v \in DOMAIN conv : DOMAIN conv'[v] = DOMAIN conv[v]
       /\ conv'[w][j] = d
  BY <1>1, <1>2, <1>4 DEF Typed
<1>12. ASSUME NEW v \in DOMAIN conv, NEW i \in DOMAIN conv[v]
       PROVE  Remembered(v, i, conv[v][i])'
  BY <1>9, <1>10, <1>11
<1> QED BY <1>11, <1>12 DEF AllRemembered

\* Everything else begins, ends or does not touch the conversations.
LEMMA RememberedStep ==
  ASSUME Roomy, IInv, Full, AllRemembered, [Next]_vars
  PROVE  AllRemembered'
<1>1. ASSUME conv' = <<>> PROVE AllRemembered'
  <2>1. DOMAIN conv' = {}
    BY <1>1
  <2> QED BY <2>1 DEF AllRemembered
<1>2. ASSUME UNCHANGED <<conv, cache, step>> PROVE AllRemembered'
  BY <1>2 DEF AllRemembered, Remembered, Known
<1>3. CASE Dispatch
  <2>1. CASE conv' = conv
    BY <1>2, <1>3, <2>1 DEF Dispatch
  <2>2. CASE conv' # conv
    <3> DEFINE chunks == Chunk(GenRows(Plan[step]), config.workers)
    <3>1. PICK g : g = [w \in Workers |-> [j \in DOMAIN chunks[w] |-> NewConv(chunks[w][j])]]
      OBVIOUS
    <3>2. conv' = g
      BY <1>3, <2>2, <3>1 DEF Dispatch
    <3>3. ASSUME NEW w \in DOMAIN g, NEW j \in DOMAIN g[w]
          PROVE  Len(g[w][j].tokens) = 0 /\ g[w][j].state # "REQUESTED"
      <4>1. g[w][j] = NewConv(chunks[w][j])
        BY <3>1
      <4> HIDE DEF chunks
      <4> QED BY <4>1 DEF NewConv
    <3>4. ASSUME NEW w \in DOMAIN g, NEW j \in DOMAIN g[w]
          PROVE  Remembered(w, j, g[w][j])'
      <4>1. 1..Len(g[w][j].tokens) = {}
        BY <3>3
      <4> QED BY <3>3, <4>1 DEF Remembered
    <3> QED BY <3>2, <3>4 DEF AllRemembered
  <2> QED BY <2>1, <2>2
<1>4. CASE Gather
  BY <1>1, <1>4 DEF Gather
<1>5. CASE Fail \/ \E s \in Servers : WakeUp(s) \/ Sleep(s)
  BY <1>2, <1>5 DEF Fail, WakeUp, Sleep, loopVars
<1>6. CASE Consume
  <2>1. conv = <<>> /\ conv' = conv
    BY <1>6 DEF IInv, ByPhase, Consume, loopVars
  <2> QED BY <1>1, <2>1
<1>7. CASE \E w \in DOMAIN conv : \E j \in DOMAIN conv[w] : Converse(w, j)
  BY <1>7, ConverseRemembered
<1>8. CASE UNCHANGED vars
  BY <1>2, <1>8 DEF vars, loopVars
<1> QED BY <1>3, <1>4, <1>5, <1>6, <1>7, <1>8 DEF Next

\* Provided the cache has room for a batch, a conversation stays on the server
\* its first turn was sent to, for any number of turns and of batches; and the
\* conversations are spread over the servers as evenly as can be.
THEOREM OneServer ==
  ASSUME Roomy
  PROVE  Spec => []SessionsStick
<1>1. Init => AllRemembered
  <2> SUFFICES ASSUME Init PROVE AllRemembered
    OBVIOUS
  <2>1. DOMAIN conv = {}
    BY DEF Init, LoopInit
  <2> QED BY <2>1 DEF AllRemembered
<1>2. ASSUME IInv, Full, AllRemembered PROVE SessionsStick
  <2>1. ASSUME NEW w \in Workers, NEW j, NEW s, NEW t, Known(w, j, s), Known(w, j, t)
        PROVE  s = t
    <3>1. PICK i \in 1..Len(cache[w]) : cache[w][i] = [id |-> <<step, w, j>>, server |-> s]
      BY <2>1 DEF Known
    <3>2. PICK k \in 1..Len(cache[w]) : cache[w][k] = [id |-> <<step, w, j>>, server |-> t]
      BY <2>1 DEF Known
    <3>3. Sorted(cache[w], step)
      BY <1>2 DEF Full, Caches
    <3>4. cache[w][i].id = cache[w][k].id
      BY <3>1, <3>2
    <3>5. i = k
      BY <3>3, <3>4 DEF Sorted
    <3> QED BY <3>1, <3>2, <3>5
  <2>2. ASSUME NEW c \in Conversations, NEW i \in DOMAIN c.tokens, NEW k \in DOMAIN c.tokens,
               IsLLM(c.tokens[i]), IsLLM(c.tokens[k])
        PROVE  c.tokens[i].server = c.tokens[k].server
    <3>1. PICK w \in DOMAIN conv : c \in {conv[w][j] : j \in DOMAIN conv[w]}
      BY DEF Conversations
    <3>2. PICK j \in DOMAIN conv[w] : c = conv[w][j]
      BY <3>1
    <3>3. Typed
      BY <1>2, <2>2, NoConversations DEF IInv, ByPhase, Running
    <3>4. w \in Workers /\ DOMAIN c.tokens = 1..Len(c.tokens)
      <4>1. w \in Workers /\ c \in Conv
        BY <3>2, <3>3 DEF Typed, Good
      <4> QED BY <4>1 DEF Conv
    <3>5. Remembered(w, j, c)
      BY <1>2, <3>2 DEF AllRemembered
    <3>6. Known(w, j, c.tokens[i].server) /\ Known(w, j, c.tokens[k].server)
      BY <2>2, <3>4, <3>5 DEF Remembered
    <3> QED BY <2>1, <3>4, <3>6
  <2>3. \A w \in Workers : \A s, t \in Servers : counts[w][s] <= counts[w][t] + 1
    BY <1>2 DEF Full, Counted, Even
  <2> QED BY <2>2, <2>3 DEF SessionsStick
<1>3. IInv /\ Full /\ AllRemembered /\ [Next]_vars => AllRemembered'
  BY RememberedStep
<1> QED BY <1>1, <1>2, <1>3, Fullness, PTL DEF Spec
=============================================================================
