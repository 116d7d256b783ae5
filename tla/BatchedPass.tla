---------------------------- MODULE BatchedPass ----------------------------
(***************************************************************************)
(* Several sequences in one pass: batched_forward over the whole model and *)
(* batched_forward_node over the layers of one node of two.  The tokens of *)
(* all sequences are rows of one tensor; the cache and the attention work  *)
(* on slices of it, one sequence after the other, each with its own cache. *)
(*                                                                         *)
(* A row is named by what it must be: <<kind, layer, sequence, position>>; *)
(* an operation that meets the wrong operand gives Garbage.  The dense     *)
(* operations between two slicings are one step, ModelForward has them one *)
(* by one.  Blocks are in PagedKvCache, here a cache is rows by position.  *)
(***************************************************************************)
EXTENDS Naturals, Sequences, FiniteSets, SequencesExt

CONSTANTS Seqs,      \* sequences
          Layers,    \* num_layers
          Cut,       \* layers of the first of two nodes, or Layers
          MaxLen,    \* bound: tokens of a sequence
          MaxChunk,  \* bound: tokens of a sequence in one pass
          Vocab      \* vocab_size

BatchedAssumption ==
  /\ IsFiniteSet(Seqs)
  /\ {Layers, MaxLen, MaxChunk, Vocab} \subseteq Nat \ {0} /\ Cut \in 1 .. Layers

VARIABLES fed,     \* tokens the caller has fed of a sequence
          batch,   \* the slices of this pass
          at,      \* node, layer, what comes next and for which slice
          start,   \* start_positions
          hidden,  \* hidden_state
          q, k,    \* projections (V goes where K goes)
          attn,    \* attn_out_buf
          cache,   \* rows by node, layer, sequence and position
          len,     \* seq_len by node and sequence
          logits   \* what the last pass returned, by slice

vars == <<fed, batch, at, start, hidden, q, k, attn, cache, len, logits>>
dense == <<fed, batch, start, cache, len, logits>>

Garbage == <<"garbage", 0, 0, 0>>
Row(kind, layer, s, pos) == <<kind, layer, s, pos>>
Nodes == IF Cut = Layers THEN 1 .. 1 ELSE 1 .. 2
First(node) == IF node = 1 THEN 0 ELSE Cut
End(node) == IF node = 1 THEN Cut ELSE Layers

Init ==
  /\ fed = [s \in Seqs |-> 0]
  /\ batch = <<>> /\ start = <<>> /\ logits = <<>>
  /\ at = [node |-> 1, layer |-> 0, op |-> "idle", i |-> 1]
  /\ hidden = <<>> /\ q = <<>> /\ k = <<>> /\ attn = <<>>
  /\ cache = [nd \in Nodes |-> [c \in 0 .. Layers - 1 |-> [s \in Seqs |-> [p \in 0 .. MaxLen - 1 |-> Garbage]]]]
  /\ len = [nd \in Nodes |-> [s \in Seqs |-> 0]]

Becomes(from, to, layer, r) == IF r = Row(from, layer, r[3], r[4]) THEN Row(to, layer, r[3], r[4]) ELSE Garbage
Projected(to) == [j \in DOMAIN hidden |-> Becomes("h", to, at.layer, hidden[j])]

(***************************************************************************)
(* The batch: slices of different sequences in any order.                  *)
(***************************************************************************)
\* seq_boundaries: where the rows of slice i begin and end.
Bounds(i) ==
  LET before == FoldLeft(LAMBDA sum, b : sum + b.n, 0, SubSeq(batch, 1, i - 1))
  IN <<before, before + batch[i].n>>

Rows(bs) ==
  FlattenSeq([i \in DOMAIN bs |->
    [j \in 1 .. bs[i].n |-> Row("h", 0, bs[i].seq, fed[bs[i].seq] + j - 1)]])

Submit ==
  /\ at.op = "idle"
  /\ \E S \in SUBSET Seqs : \E order \in SetToSeqs(S) :
       /\ S # {}
       /\ \E ns \in [1 .. Len(order) -> 1 .. MaxChunk] :
            LET bs == [i \in DOMAIN order |-> [seq |-> order[i], n |-> ns[i]]]
            IN /\ \A i \in DOMAIN bs : fed[bs[i].seq] + bs[i].n <= MaxLen
               /\ batch' = bs
               /\ hidden' = Rows(bs)
               /\ start' = [i \in DOMAIN bs |-> len[1][bs[i].seq]]
  /\ at' = [node |-> 1, layer |-> 0, op |-> "project", i |-> 1]
  /\ logits' = <<>>
  /\ UNCHANGED <<fed, q, k, attn, cache, len>>

\* The next node: it reads the lengths of its own caches.  The activations
\* must have a row for every position.
NextNode ==
  /\ at.op = "hop"
  /\ Len(hidden) = Bounds(Len(batch))[2]
  /\ start' = [i \in DOMAIN batch |-> len[2][batch[i].seq]]
  /\ at' = [node |-> 2, layer |-> Cut, op |-> "project", i |-> 1]
  /\ UNCHANGED <<fed, batch, hidden, q, k, attn, cache, len, logits>>

\* RMSNorm, projections, and RoPE at the positions of each slice.
Project ==
  /\ at.op = "project"
  /\ q' = Projected("q")
  /\ k' = Projected("k")
  /\ at' = [at EXCEPT !.op = "append", !.i = 1]
  /\ UNCHANGED <<dense, hidden, attn>>

Slot == at.layer - First(at.node)

\* A slice of K and V goes to the cache of its sequence.
AppendFrom(s, n) == IF Slot = 0 THEN len[at.node][s] ELSE len[at.node][s] - n

GrownAlways(s, n) == [len EXCEPT ![at.node][s] = @ + n]
GrownLast(s, n) == IF at.layer = Layers - 1 THEN [len EXCEPT ![at.node][s] = @ + n] ELSE len
Grown(s, n) == IF Slot = 0 THEN [len EXCEPT ![at.node][s] = @ + n] ELSE len

AppendSlice ==
  /\ at.op = "append"
  /\ LET s == batch[at.i].seq
         n == batch[at.i].n
         from == AppendFrom(s, n)
     IN /\ cache' = [cache EXCEPT ![at.node][Slot][s] =
                       [p \in DOMAIN @ |-> IF p \in from .. from + n - 1
                                             THEN k[Bounds(at.i)[1] + p - from + 1] ELSE @[p]]]
        /\ len' = Grown(s, n)
  /\ at' = IF at.i = Len(batch) THEN [at EXCEPT !.op = "attend", !.i = 1] ELSE [at EXCEPT !.i = @ + 1]
  /\ UNCHANGED <<fed, batch, start, logits, hidden, q, k, attn>>

\* A slice of Q against the cache of its sequence, from start_pos; the result
\* goes back to the rows of the slice.
AttendedFirst(i, j) ==
  LET p == start[i] + j - 1
      rows == cache[at.node][Slot][batch[1].seq]
  IN IF \A older \in 0 .. p : rows[older] = Row("k", at.layer, batch[i].seq, older)
       THEN Row("a", at.layer, batch[i].seq, p) ELSE Garbage

Attended(i, j) ==
  LET s == batch[i].seq
      p == start[i] + j - 1
      rows == cache[at.node][Slot][s]
  IN IF /\ q[Bounds(i)[1] + j] = Row("q", at.layer, s, p)
        /\ \A older \in 0 .. p : rows[older] = Row("k", at.layer, s, older)
       THEN Row("a", at.layer, s, p) ELSE Garbage

Attend ==
  /\ at.op = "attend"
  /\ attn' = [j \in DOMAIN hidden |->
                IF j \in Bounds(at.i)[1] + 1 .. Bounds(at.i)[2]
                  THEN Attended(at.i, j - Bounds(at.i)[1])
                  ELSE IF j \in DOMAIN attn THEN attn[j] ELSE Garbage]
  /\ at' = IF at.i = Len(batch) THEN [at EXCEPT !.op = "dense"] ELSE [at EXCEPT !.i = @ + 1]
  /\ UNCHANGED <<dense, hidden, q, k>>

\* Output projection, residuals and feed-forward; then the next layer, the next
\* node or the logits.
Dense ==
  /\ at.op = "dense"
  /\ hidden' = [j \in DOMAIN hidden |->
                  LET r == hidden[j]
                  IN IF r = Row("h", at.layer, r[3], r[4]) /\ attn[j] = Row("a", at.layer, r[3], r[4])
                       THEN Row("h", at.layer + 1, r[3], r[4]) ELSE Garbage]
  /\ at' = IF at.layer + 1 < End(at.node) THEN [at EXCEPT !.op = "project", !.layer = @ + 1]
           ELSE IF at.layer + 1 < Layers THEN [at EXCEPT !.op = "hop"]
           ELSE [at EXCEPT !.op = "logits"]
  /\ UNCHANGED <<dense, q, k, attn>>

LastRowOfBatch(i) == Len(hidden)
LastRow(i) == Bounds(i)[2]

\* The logits of all slices one after the other, Vocab numbers each.
Flat ==
  FlattenSeq([i \in DOMAIN batch |->
    [v \in 1 .. Vocab |-> <<v, Becomes("h", "logits", Layers, hidden[LastRow(i)])>>]])

\* split_logits_per_sequence: as many equal parts as there are sequences.
Split(flat, count) ==
  LET each == Len(flat) \div count
  IN [i \in 1 .. count |-> SubSeq(flat, (i - 1) * each + 1, i * each)]

Logits ==
  /\ at.op = "logits"
  /\ logits' = Split(Flat, Len(batch))
  /\ fed' = [s \in Seqs |-> fed[s] + (IF \E i \in DOMAIN batch : batch[i].seq = s
                                        THEN batch[CHOOSE i \in DOMAIN batch : batch[i].seq = s].n ELSE 0)]
  /\ at' = [at EXCEPT !.op = "idle"]
  /\ hidden' = <<>> /\ q' = <<>> /\ k' = <<>> /\ attn' = <<>>
  /\ UNCHANGED <<batch, start, cache, len>>

\* An append finds no block or another operation fails: the error ends the pass
\* and the caller gives up the sequences of the batch.
Fail ==
  /\ at.op # "idle"
  /\ LET gone == {batch[i].seq : i \in DOMAIN batch}
     IN /\ fed' = [s \in Seqs |-> IF s \in gone THEN 0 ELSE fed[s]]
        /\ len' = [nd \in Nodes |-> [s \in Seqs |-> IF s \in gone THEN 0 ELSE len[nd][s]]]
        /\ cache' = [nd \in Nodes |-> [c \in 0 .. Layers - 1 |-> [s \in Seqs |->
                       IF s \in gone THEN [p \in 0 .. MaxLen - 1 |-> Garbage] ELSE cache[nd][c][s]]]]
  /\ batch' = <<>> /\ logits' = <<>> /\ start' = <<>>
  /\ hidden' = <<>> /\ q' = <<>> /\ k' = <<>> /\ attn' = <<>>
  /\ at' = [at EXCEPT !.op = "idle"]

Next == Submit \/ NextNode \/ Project \/ AppendSlice \/ Attend \/ Dense \/ Logits \/ Fail

Spec == Init /\ [][Next]_vars

(***************************************************************************)
(* Properties.                                                             *)
(***************************************************************************)
\* Whatever sequences share a pass, in whatever order and number of tokens, each
\* slice of the result is what its sequence alone would have got for its last
\* token: no row of one sequence is ever met by another.
EachItsOwn ==
  \A i \in DOMAIN logits :
    logits[i] = [v \in 1 .. Vocab |-> <<v, Row("logits", Layers, batch[i].seq, fed[batch[i].seq] - 1)>>]

\* Between passes the caches of all nodes hold the tokens the caller has fed, of
\* the sequences of the last batch and of those that sat it out, also when a
\* pass failed in the middle.
CachesFollow == at.op = "idle" => \A nd \in Nodes, s \in Seqs : len[nd][s] = fed[s]
=============================================================================
