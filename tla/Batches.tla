------------------------------- MODULE Batches ------------------------------
(***************************************************************************)
(* What DataProto (verl/protocol.py) does to the rows of a batch on their  *)
(* way to the workers and back.  A batch is the sequence of its rows.      *)
(***************************************************************************)
EXTENDS Integers, Sequences

\* repeat with interleave = False, and with interleave = True.
Stacked(batch, n) ==
  [i \in 1..(n * Len(batch)) |-> batch[((i - 1) % Len(batch)) + 1]]
Repeat(batch, n) == [i \in 1..(n * Len(batch)) |-> batch[((i - 1) \div n) + 1]]

\* pad_dataproto_to_divisor: the rows that pad it are its first, over again.
PadSize(batch, k) == (k - (Len(batch) % k)) % k
Pad(batch, k) ==
  [i \in 1..(Len(batch) + PadSize(batch, k)) |-> batch[((i - 1) % Len(batch)) + 1]]

\* unpad_dataproto.
Unpad(batch, pad_size) == SubSeq(batch, 1, Len(batch) - pad_size)

\* chunk: equal parts, in order; it asserts that there are such parts.
Divides(k, batch) == (Len(batch) % k) = 0
Chunk(batch, k) ==
  LET size == Len(batch) \div k
  IN  [w \in 1..k |-> [j \in 1..size |-> batch[(w - 1) * size + j]]]

\* concat of k batches of one size.
Concat(batches, k) ==
  LET size == Len(batches[1])
  IN  [i \in 1..(k * size) |-> batches[((i - 1) \div size) + 1][((i - 1) % size) + 1]]
=============================================================================
