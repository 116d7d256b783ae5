---------------------------- MODULE ModelForward ----------------------------
(***************************************************************************)
(* A sequence fed chunk by chunk through the transformer layers, which are *)
(* divided among the nodes of a pipeline: Engine::forward_node with the    *)
(* contiguous cache, forward_node_paged with a paged one, and the three    *)
(* ways to chain nodes (PipelineCoordinator in one process, IpcNodeServer  *)
(* and IpcNodeClient over a socket, the worker's handle_forward).          *)
(*                                                                         *)
(* A row of a tensor is named by what it must be in a pass over the whole  *)
(* sequence at once: <<kind, layer, position>>.  An operation whose        *)
(* operands are not the ones the transformer has at that place gives       *)
(* Garbage.  The backend is external: any operation may fail.              *)
(***************************************************************************)
EXTENDS Naturals, Sequences, FiniteSets

CONSTANTS Layers,      \* num_layers
          MaxNodes,    \* bound: nodes of the pipeline
          Paged,       \* forward_node_paged, or forward_node
          Hop,         \* how a node hands its output to the next one
          MaxLen,      \* max_seq_len, of the model and of the caches
          MaxChunk,    \* bound: tokens of one pass
          MaxSeqs,     \* bound: sequences, one after the other
          Faults       \* operations of the backend may fail

ForwardAssumption ==
  /\ {Layers, MaxNodes, MaxLen, MaxChunk, MaxSeqs} \subseteq Nat \ {0}
  /\ Paged \in BOOLEAN /\ Faults \in BOOLEAN
  /\ Hop \in {"local", "ipc", "worker"}

VARIABLES nodes,   \* the pipeline: layer_range and the engine's first layer
          status,  \* build, idle, run, or how the last pass ended
          fed,     \* tokens the caller has fed: the next position
          n,       \* tokens of this pass
          at,      \* the node that runs, its layer and operation
          start,   \* start_pos
          val,     \* rows of the tensors of this pass
          cache,   \* K and V rows of every node and layer
          len,     \* current_len of every node's cache
          acts,    \* activation tensors on the devices
          scratch, \* scratch tensors of this pass on the device
          left,    \* scratch tensors of failed passes, never freed
          logits,  \* what the last pass returned
          seqs     \* sequences so far

vars == <<nodes, status, fed, n, at, start, val, cache, len, acts, scratch, left, logits, seqs>>
fixed == <<nodes, fed, n, seqs>>

Garbage == <<"garbage", 0, 0>>
Unwritten == <<"unwritten", 0, 0>>
Row(kind, layer, pos) == <<kind, layer, pos>>

Ranges == {r \in [first : 0 .. Layers, last : 0 .. Layers, base : 0 .. Layers] :
             r.base \in {0, r.first}}

Tensors == {"hidden", "normed", "q", "k", "v", "attn", "projected", "gate", "up", "mid", "out"}
ScratchCount == Cardinality(Tensors) - 1
NoRows == [t \in Tensors |-> <<>>]
EmptyCache(ns) ==
  [i \in 1 .. Len(ns) |->
     [c \in 0 .. ns[i].last - ns[i].first - 1 |-> [p \in 0 .. MaxLen - 1 |-> <<Unwritten, Unwritten>>]]]

Init ==
  /\ nodes \in UNION {[1 .. k -> Ranges] : k \in 0 .. MaxNodes}
  /\ status = "build"
  /\ fed = 0 /\ n = 0 /\ start = 0 /\ acts = 0 /\ scratch = 0 /\ left = 0 /\ seqs = 0
  /\ at = [node |-> 1, layer |-> 0, op |-> 0]
  /\ val = NoRows /\ cache = <<>> /\ len = <<>> /\ logits = Garbage

(***************************************************************************)
(* NodeConfig::new and PipelineCoordinator::new.                           *)
(***************************************************************************)
IsHead(r) == r.first = 0
IsTail(r) == r.last = Layers
ValidConfig(r) == r.first < r.last /\ r.last <= Layers

InOrderHead(ns) == ns # <<>> /\ IsHead(ns[1]) /\ IsTail(ns[Len(ns)])

InOrder(ns) ==
  /\ ns # <<>> /\ IsHead(ns[1]) /\ IsTail(ns[Len(ns)])
  /\ \A i \in 2 .. Len(ns) : ns[i - 1].last = ns[i].first

Build ==
  /\ status = "build"
  /\ (\A i \in 1 .. Len(nodes) : ValidConfig(nodes[i])) /\ InOrder(nodes)
  /\ status' = "idle"
  /\ cache' = EmptyCache(nodes) /\ len' = [i \in 1 .. Len(nodes) |-> 0]
  /\ seqs' = 1
  /\ UNCHANGED <<nodes, fed, n, at, start, val, acts, scratch, left, logits>>

Reject ==
  /\ status = "build"
  /\ ~((\A i \in 1 .. Len(nodes) : ValidConfig(nodes[i])) /\ InOrder(nodes))
  /\ status' = "rejected"
  /\ UNCHANGED <<fixed, at, start, val, cache, len, acts, scratch, left, logits>>

Finished == status = "rejected" /\ UNCHANGED vars

(***************************************************************************)
(* One pass: the head looks up the embeddings, another node takes over the *)
(* activations.                                                            *)
(***************************************************************************)
Node == nodes[at.node]
Begin(k) == [node |-> k, layer |-> nodes[k].first, op |-> 0]

Submit ==
  /\ status = "idle"
  /\ \E k \in 1 .. MaxChunk :
       /\ n' = k
       /\ val' = [NoRows EXCEPT !.hidden = [i \in 1 .. k |-> Row("h", 0, fed + i - 1)]]
  /\ status' = "run" /\ at' = Begin(1)
  /\ acts' = acts + 1
  /\ logits' = Garbage
  /\ UNCHANGED <<nodes, fed, start, cache, len, scratch, left, seqs>>

\* Nothing to feed: refused before anything is allocated.
SubmitNothing ==
  /\ status = "idle" /\ n' = 0 /\ status' = "failed"
  /\ UNCHANGED <<nodes, fed, at, start, val, cache, len, acts, scratch, left, logits, seqs>>

Fits == fed + n <= MaxLen

\* A position beyond the RoPE table.
TooLong ==
  /\ status = "run" /\ at.op = 0 /\ ~Fits
  /\ status' = "failed"
  /\ UNCHANGED <<fixed, at, start, val, cache, len, acts, scratch, left, logits>>

\* The scratch tensors, then the length of the cache.
Scratch ==
  /\ status = "run" /\ at.op = 0 /\ Fits
  /\ scratch' = ScratchCount
  /\ start' = len[at.node]
  /\ at' = [at EXCEPT !.op = 1]
  /\ UNCHANGED <<fixed, status, val, cache, len, acts, left, logits>>

(***************************************************************************)
(* The operations of a layer.  weights.layers starts at the first layer of *)
(* the engine, the cache at the first one of the node.                     *)
(***************************************************************************)
WeightByCache(layer) == Node.base + (layer - Node.first)
Weight(layer) == Node.base + (layer - Node.base)

Turn(rows, from, to) ==
  [i \in DOMAIN rows |-> IF rows[i] = Row(from, Weight(at.layer), rows[i][3])
                           THEN Row(to, rows[i][2], rows[i][3]) ELSE Garbage]

\* rope at the positions of the request.
Rotate(rows, from, to) ==
  [i \in DOMAIN rows |-> IF rows[i] = Row(from, at.layer, fed + i - 1)
                           THEN Row(to, at.layer, fed + i - 1) ELSE Garbage]

Add(rows, more, from, with, to, layer) ==
  [i \in DOMAIN rows |-> IF rows[i] = Row(from, at.layer, rows[i][3]) /\ more[i] = Row(with, at.layer, rows[i][3])
                           THEN Row(to, layer, rows[i][3]) ELSE Garbage]

Slot == at.layer - Node.first
Here == cache[at.node][Slot]

\* Row i of the chunk attends to everything up to its own position.
Attend(rows) ==
  [i \in DOMAIN rows |->
     IF /\ rows[i] = Row("qr", at.layer, start + i - 1)
        /\ \A p \in 0 .. start + i - 1 : Here[p] = <<Row("kr", at.layer, p), Row("v", at.layer, p)>>
       THEN Row("a", at.layer, start + i - 1) ELSE Garbage]

Unary == [norm1 |-> [src |-> "hidden", dst |-> {"normed"}], oproj |-> [src |-> "attn", dst |-> {"projected"}],
          norm2 |-> [src |-> "hidden", dst |-> {"normed"}], gate |-> [src |-> "normed", dst |-> {"gate", "up"}],
          silu |-> [src |-> "gate", dst |-> {"mid"}], down |-> [src |-> "mid", dst |-> {"out"}]]

Turned(op, from, to) ==
  [t \in DOMAIN val |-> IF t \in Unary[op].dst THEN Turn(val[Unary[op].src], from, to) ELSE val[t]]

Does(op) == status = "run" /\ at.op = op /\ at.layer < Node.last
GoesOn == at' = [at EXCEPT !.op = @ + 1]
Pure == UNCHANGED <<fixed, status, start, cache, len, acts, scratch, left, logits>>

Norm1 == Does(1) /\ GoesOn /\ Pure /\ val' = Turned("norm1", "h", "n1")

Project ==
  /\ Does(2) /\ GoesOn /\ Pure
  /\ val' = [val EXCEPT !.q = Turn(val.normed, "n1", "q"), !.k = Turn(val.normed, "n1", "k"),
                        !.v = Turn(val.normed, "n1", "v")]

Rope ==
  /\ Does(3) /\ GoesOn /\ Pure
  /\ val' = [val EXCEPT !.q = Rotate(@, "q", "qr"), !.k = Rotate(@, "k", "kr")]

\* copy_rows into the contiguous cache at start_pos; append_kv at the end of
\* the rows, whose number it raises when it is given the first layer.
AppendAtEnd == len[at.node]
AppendAt == IF Slot > 0 THEN len[at.node] - n ELSE len[at.node]

WriteAt == IF Paged THEN AppendAt ELSE start

GrowAlways == IF Paged THEN [len EXCEPT ![at.node] = @ + n] ELSE len
Grow == IF Paged /\ Slot = 0 THEN [len EXCEPT ![at.node] = @ + n] ELSE len

WriteKv ==
  /\ Does(4) /\ GoesOn
  /\ cache' = [cache EXCEPT ![at.node][Slot] =
                 [p \in DOMAIN @ |-> IF p \in WriteAt .. WriteAt + n - 1
                                       THEN <<val.k[p - WriteAt + 1], val.v[p - WriteAt + 1]>> ELSE @[p]]]
  /\ len' = Grow
  /\ UNCHANGED <<fixed, status, start, val, acts, scratch, left, logits>>

Attention == Does(5) /\ GoesOn /\ Pure /\ val' = [val EXCEPT !.attn = Attend(val.q)]
OutProject == Does(6) /\ GoesOn /\ Pure /\ val' = Turned("oproj", "a", "o")
Residual1 == Does(7) /\ GoesOn /\ Pure /\ val' = [val EXCEPT !.hidden = Add(@, val.projected, "h", "o", "h1", at.layer)]
Norm2 == Does(8) /\ GoesOn /\ Pure /\ val' = Turned("norm2", "h1", "n2")
GateUp == Does(9) /\ GoesOn /\ Pure /\ val' = Turned("gate", "n2", "g")
Silu == Does(10) /\ GoesOn /\ Pure /\ val' = Turned("silu", "g", "m")
Down == Does(11) /\ GoesOn /\ Pure /\ val' = Turned("down", "m", "f")

SetLenModel == IF at.layer = 0 /\ ~Paged THEN [len EXCEPT ![at.node] = start + n] ELSE len

\* The contiguous cache is told its length after the first layer of the node.
SetLen == IF at.layer = Node.first /\ ~Paged THEN [len EXCEPT ![at.node] = start + n] ELSE len

Residual2 ==
  /\ Does(12)
  /\ val' = [val EXCEPT !.hidden = Add(@, val.out, "h1", "f", "h", at.layer + 1)]
  /\ len' = SetLen
  /\ at' = [at EXCEPT !.layer = @ + 1, !.op = 1]
  /\ UNCHANGED <<fixed, status, start, cache, acts, scratch, left, logits>>

LayerStep ==
  \/ Norm1 \/ Project \/ Rope \/ WriteKv \/ Attention \/ OutProject \/ Residual1
  \/ Norm2 \/ GateUp \/ Silu \/ Down \/ Residual2

(***************************************************************************)
(* The output of a node.                                                   *)
(***************************************************************************)
Done == status = "run" /\ at.op = 1 /\ at.layer = Node.last

FreedButOne == ScratchCount - 1
Freed == ScratchCount

\* A tail node frees its hidden state if it made it, and returns logits.
FreesHidden == IsHead(Node)

LastRow == val.hidden[n]

Logits ==
  /\ Done /\ IsTail(Node)
  /\ logits' = IF LastRow = Row("h", Layers, LastRow[3]) THEN Row("logits", Layers, LastRow[3]) ELSE Garbage
  /\ acts' = IF FreesHidden THEN acts - 1 ELSE acts
  /\ scratch' = scratch - Freed
  /\ fed' = fed + n
  /\ status' = "idle" /\ val' = NoRows
  /\ UNCHANGED <<nodes, n, at, start, cache, len, left, seqs>>

\* Between nodes: the tensor itself, or a copy on the next node's device, the
\* output being freed once it is serialized; a client of the socket makes one
\* more copy on its own device.
Copies == CASE Hop = "local" -> 0 [] Hop = "worker" -> 0 [] Hop = "ipc" -> 1

HandOver ==
  /\ Done /\ ~IsTail(Node)
  /\ scratch' = scratch - Freed
  /\ acts' = acts + Copies
  /\ at' = Begin(at.node + 1)
  /\ val' = [NoRows EXCEPT !.hidden = val.hidden]
  /\ UNCHANGED <<fixed, status, start, cache, len, left, logits>>

\* The tensors there may be when an operation fails: some of the scratch ones
\* while they are made, two more at the end of the tail node.
Partial ==
  IF at.op = 0 THEN 0 .. ScratchCount
  ELSE IF Done /\ IsTail(Node) THEN scratch .. scratch + 2 ELSE {scratch}

\* An operation fails: the error goes up and nothing is freed on the way.
Fail ==
  /\ Faults /\ status = "run"
  /\ status' = "failed"
  /\ scratch' \in Partial
  /\ UNCHANGED <<fixed, at, start, val, cache, len, acts, left, logits>>

\* The caller frees the caches of the sequence, and may begin another one.
NextSequence ==
  /\ status \in {"idle", "failed"} /\ seqs < MaxSeqs
  /\ status' = "idle" /\ fed' = 0 /\ seqs' = seqs + 1
  /\ cache' = EmptyCache(nodes) /\ len' = [i \in 1 .. Len(nodes) |-> 0]
  /\ val' = NoRows /\ scratch' = 0 /\ left' = left + scratch
  /\ UNCHANGED <<nodes, n, at, start, acts, logits>>

Next ==
  \/ Build \/ Reject \/ Finished \/ Submit \/ SubmitNothing \/ TooLong \/ Scratch \/ LayerStep \/ Logits \/ HandOver
  \/ Fail \/ NextSequence

Spec == Init /\ [][Next]_vars

(***************************************************************************)
(* Properties.                                                             *)
(***************************************************************************)
\* What a pass returns is what one pass over the whole sequence would return for
\* the last token: every operation of every layer met the operands it needs,
\* cached rows of earlier passes included, however the tokens were cut into
\* chunks and the layers into nodes.
SameAsWholeSequence ==
  status = "idle" /\ fed > 0 => logits = Row("logits", Layers, fed - 1)

\* After a pass every node's cache holds as many tokens as the caller has fed.
LengthsAgree == status = "idle" => \A i \in DOMAIN len : len[i] = fed

\* A pipeline that is accepted runs every layer exactly once, in order.
AcceptedCovers ==
  status \notin {"build", "rejected"} =>
    \A k \in 0 .. Layers - 1 :
      Cardinality({i \in 1 .. Len(nodes) : nodes[i].first <= k /\ k < nodes[i].last}) = 1

\* A pass that succeeds leaves none of its scratch tensors on the device.
ScratchReturned == status = "idle" => scratch = 0

\* Nor an activation tensor: its owner frees it.
ActivationsReturned == status = "idle" => acts = 0
=============================================================================
