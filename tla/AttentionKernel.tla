-------------------------- MODULE AttentionKernel --------------------------
(***************************************************************************)
(* One thread block of the attention kernels: the (token_idx, q_head) pair *)
(* of attention.cu over a contiguous cache, of attention_paged.cu over a   *)
(* block table, and of attention_paged_tq.cu over quantized blocks.  The   *)
(* three share their softmax; the quantized one first rotates the query    *)
(* and accumulates in rotated space.                                       *)
(*                                                                         *)
(* A warp runs the code between two __syncthreads() as one step.  That is  *)
(* sound because RaceFree holds: no thread reads or writes a shared cell   *)
(* that another thread writes between the same two barriers.               *)
(***************************************************************************)
EXTENDS ThreadBlock

CONSTANTS
    Calls,      \* the launches: kind, token, start_pos, kv_len, table, q_head, heads
    BlockSize,  \* PAGED_BLOCK_SIZE, TQ_ATTN_BLOCK_SIZE
    HeadDim,
    SharedLimit \* floats of dynamic shared memory a launch may ask for

VARIABLES
    call,       \* the launch's arguments and the block's (token_idx, q_head)
    max_score,  \* warp -> lane -> the positions the maximum is taken over
    local_sum,  \* warp -> lane -> the positions added up
    smem,       \* shared cell -> value
    out         \* dimension -> what out_vec holds

vars == <<call, max_score, local_sum, smem, out, blockVars>>

-----------------------------------------------------------------------------
(* The launch's data.                                                       *)

\* The terms of a sum or a maximum are the key/value positions; Junk is what
\* an unwritten cell holds.
Junk == -1

GroupSize == call.num_q_heads \div call.num_kv_heads

\* group_size and kv_head
KvHead == call.q_head \div GroupSize

\* Without the token's own position.
CausalLenExclusive ==
    LET len == call.start_pos + call.token_idx
    IN IF len > call.kv_len THEN call.kv_len ELSE len

\* causal_len
CausalLen ==
    LET len == call.start_pos + call.token_idx + 1
    IN IF len > call.kv_len THEN call.kv_len ELSE len

\* What append_kv left in row <<block, offset>> of the pool for a kv head: the
\* token at that place of the block table, or another sequence's.
CacheRow(block, offset, head) ==
    LET places == {i \in DOMAIN call.table : call.table[i] = block}
        tokens == {(i - 1) * BlockSize + offset : i \in places}
    IN [pos |-> IF \E t \in tokens : t < call.kv_len
                THEN CHOOSE t \in tokens : t < call.kv_len
                ELSE Junk,
        head |-> head]

\* logical_block, offset_in_block, physical_block and the row they name; the
\* contiguous kernel indexes k_cache by kv_pos.
KvRow(pos) ==
    IF call.kind = "contiguous"
    THEN [pos |-> pos, head |-> KvHead]
    ELSE CacheRow(call.table[pos \div BlockSize + 1], pos % BlockSize, KvHead)

\* shared_size of the three launchers, in floats.
SharedSize ==
    IF call.kind = "tq" THEN call.kv_len + 2 * HeadDim ELSE call.kv_len + 64

Dims == 0 .. (HeadDim - 1)
Positions == 0 .. (CausalLen - 1)

-----------------------------------------------------------------------------
(* The kernel's text: its segments and the barriers between them.           *)

Softmax == <<"score", "warp_max", "first_max", "exp", "warp_sum", "first_sum", "normalize">>

Program ==
    IF call.kind = "tq"
    THEN <<"rotate_query">> \o Softmax \o <<"clear", "accumulate", "unrotate">>
    ELSE Softmax \o <<"weigh">>

Segment(w) == IF pc[w] \in DOMAIN Program THEN Program[pc[w]] ELSE "done"

\* Not the barrier between the normalization and the weighted sum.
SyncedNotAfterNormalize(segment) == segment \notin {Program[1], "weigh"}

\* Whether __syncthreads() stands before a segment.
Synced(segment) == segment # Program[1]

At(w, segment) == Segment(w) = segment /\ Meets(w, Synced(segment))

Runs(w, segment, R, W) == Passes(w, Synced(segment), R, W) /\ UNCHANGED call

-----------------------------------------------------------------------------

\* A score: the key row it was computed from, the coordinates of the query it
\* used, and the maximum and the sum it was normalized by so far.
NoScore == [row |-> {}, query |-> {}, max |-> {}, sum |-> EmptyBag]

SharedCells ==
    Array("scores", call.kv_len) \union Array("q_rot", HeadDim) \union Array("acc_rot", HeadDim)
        \union Array("shared_max", NumWarps) \union Array("shared_sum", NumWarps)
        \union Array("global_max", 1) \union Array("global_sum", 1)

Unwritten(cell) ==
    CASE cell[1] = "scores" -> NoScore
      [] cell[1] = "q_rot" -> FALSE
      [] cell[1] = "acc_rot" -> {}
      [] cell[1] \in {"shared_max", "global_max"} -> {Junk}
      [] OTHER -> SetToBag({Junk})

Init ==
    /\ call \in Calls
    /\ BlockInit
    /\ max_score = [w \in Warps |-> [l \in Lanes |-> {}]]
    /\ local_sum = [w \in Warps |-> [l \in Lanes |-> EmptyBag]]
    /\ smem = [cell \in SharedCells |-> Unwritten(cell)]
    /\ out = [d \in Dims |-> {}]

\* launch_*: the kernel runs when its shared memory fits; otherwise the launch
\* fails, cudaGetLastError() says so and no thread starts.
Launch ==
    /\ \A w \in Warps : pc[w] = 0
    /\ SharedSize <= SharedLimit
    /\ Started
    /\ UNCHANGED <<call, max_score, local_sum, smem, out>>

LaunchFails ==
    /\ \A w \in Warps : pc[w] = 0
    /\ SharedSize > SharedLimit
    /\ pc' = [w \in Warps |-> -1]
    /\ UNCHANGED <<call, epoch, max_score, local_sum, smem, reads, writes, out>>

-----------------------------------------------------------------------------
(* Scores.                                                                  *)

\* Step 0 of the quantized kernel: q_rot = Pi_k @ q.
RotateQuery(w) ==
    /\ At(w, "rotate_query")
    /\ smem' = [cell \in {"q_rot"} \X OwnIndices(w, HeadDim) |-> TRUE] @@ smem
    /\ Runs(w, "rotate_query", {}, StridedCells(w, "q_rot", HeadDim))
    /\ UNCHANGED <<max_score, local_sum, out>>

QueryRead == IF call.kind = "tq" THEN {d \in Dims : smem[<<"q_rot", d>>]} ELSE Dims

\* Phase 1: scores[kv_pos] = dot, and the thread's own maximum.
Score(w) ==
    /\ At(w, "score")
    /\ smem' = [cell \in {"scores"} \X OwnIndices(w, CausalLen) |->
                   [NoScore EXCEPT !.row = {KvRow(cell[2])}, !.query = QueryRead]] @@ smem
    /\ max_score' = [max_score EXCEPT ![w] = [l \in Lanes |-> Strided(w, l, CausalLen)]]
    /\ Runs(w, "score",
              ByAll(w, CausalLen, IF call.kind = "tq" THEN Array("q_rot", HeadDim) ELSE {}),
              StridedCells(w, "scores", CausalLen))
    /\ UNCHANGED <<local_sum, out>>

-----------------------------------------------------------------------------
(* The block-wide maximum and sum: within a warp by shuffles, across warps    *)
(* through shared memory and the first warp.                                  *)

WarpMax(w) ==
    LET reduced == WarpReduce(max_score[w], "max")
    IN /\ At(w, "warp_max")
       /\ max_score' = [max_score EXCEPT ![w] = reduced]
       /\ smem' = [smem EXCEPT ![<<"shared_max", w>>] = reduced[0]]
       /\ Runs(w, "warp_max", {}, {<<0, <<"shared_max", w>>>>})
       /\ UNCHANGED <<local_sum, out>>

\* Lanes with no warp to stand for start from -FLT_MAX.
FirstMax(w) ==
    LET partial == [l \in Lanes |-> IF l < NumWarps THEN smem[<<"shared_max", l>>] ELSE {}]
        reduced == WarpReduce(partial, "max")
    IN /\ At(w, "first_max")
       /\ IF w = 0
          THEN /\ max_score' = [max_score EXCEPT ![w] = reduced]
               /\ smem' = [smem EXCEPT ![<<"global_max", 0>>] = reduced[0]]
               /\ Runs(w, "first_max",
                         {<<l, <<"shared_max", l>>>> : l \in Warps}, {<<0, <<"global_max", 0>>>>})
          ELSE /\ Runs(w, "first_max", {}, {})
               /\ UNCHANGED <<max_score, smem>>
       /\ UNCHANGED <<local_sum, out>>

\* Phase 2: exp(score - max), and the thread's own sum.
Exp(w) ==
    /\ At(w, "exp")
    /\ smem' = [cell \in {"scores"} \X OwnIndices(w, CausalLen) |->
                   [smem[cell] EXCEPT !.max = smem[<<"global_max", 0>>]]] @@ smem
    /\ local_sum' = [local_sum EXCEPT ![w] = [l \in Lanes |-> SetToBag(Strided(w, l, CausalLen))]]
    /\ Runs(w, "exp",
              StridedCells(w, "scores", CausalLen)
                  \union ByAll(w, CausalLen, {<<"global_max", 0>>}),
              StridedCells(w, "scores", CausalLen))
    /\ UNCHANGED <<max_score, out>>

WarpSum(w) ==
    LET reduced == WarpReduce(local_sum[w], "sum")
    IN /\ At(w, "warp_sum")
       /\ local_sum' = [local_sum EXCEPT ![w] = reduced]
       /\ smem' = [smem EXCEPT ![<<"shared_sum", w>>] = reduced[0]]
       /\ Runs(w, "warp_sum", {}, {<<0, <<"shared_sum", w>>>>})
       /\ UNCHANGED <<max_score, out>>

FirstSum(w) ==
    LET partial == [l \in Lanes |-> IF l < NumWarps THEN smem[<<"shared_sum", l>>] ELSE EmptyBag]
        reduced == WarpReduce(partial, "sum")
    IN /\ At(w, "first_sum")
       /\ IF w = 0
          THEN /\ local_sum' = [local_sum EXCEPT ![w] = reduced]
               /\ smem' = [smem EXCEPT ![<<"global_sum", 0>>] = reduced[0]]
               /\ Runs(w, "first_sum",
                         {<<l, <<"shared_sum", l>>>> : l \in Warps}, {<<0, <<"global_sum", 0>>>>})
          ELSE /\ Runs(w, "first_sum", {}, {})
               /\ UNCHANGED <<local_sum, smem>>
       /\ UNCHANGED <<max_score, out>>

\* scores[kv_pos] *= 1 / global_sum
Normalize(w) ==
    /\ At(w, "normalize")
    /\ smem' = [cell \in {"scores"} \X OwnIndices(w, CausalLen) |->
                   [smem[cell] EXCEPT !.sum = smem[<<"global_sum", 0>>]]] @@ smem
    /\ Runs(w, "normalize",
              StridedCells(w, "scores", CausalLen) \union (Lanes \X {<<"global_sum", 0>>}),
              StridedCells(w, "scores", CausalLen))
    /\ UNCHANGED <<max_score, local_sum, out>>

-----------------------------------------------------------------------------
(* The weighted sum of the value rows.                                        *)

Terms(d) == {[dim |-> d, value |-> KvRow(p), score |-> smem[<<"scores", p>>]] : p \in Positions}

\* Phase 3 of the FP16 kernels: every thread owns some of the dimensions.
Weigh(w) ==
    /\ At(w, "weigh")
    /\ out' = [d \in Dims |-> IF d \in OwnIndices(w, HeadDim) THEN Terms(d) ELSE out[d]]
    /\ Runs(w, "weigh", ByAll(w, HeadDim, {"scores"} \X Positions), {})
    /\ UNCHANGED <<max_score, local_sum, smem>>

\* The accumulator of the quantized kernel is zeroed, filled by dimension, and
\* unrotated: out = Pi_v^T @ acc_rot.
Clear(w) ==
    /\ At(w, "clear")
    /\ smem' = [cell \in {"acc_rot"} \X OwnIndices(w, HeadDim) |-> {}] @@ smem
    /\ Runs(w, "clear", {}, StridedCells(w, "acc_rot", HeadDim))
    /\ UNCHANGED <<max_score, local_sum, out>>

Accumulate(w) ==
    /\ At(w, "accumulate")
    /\ smem' = [cell \in {"acc_rot"} \X OwnIndices(w, HeadDim) |-> Terms(cell[2])] @@ smem
    /\ Runs(w, "accumulate", ByAll(w, HeadDim, {"scores"} \X Positions),
              StridedCells(w, "acc_rot", HeadDim))
    /\ UNCHANGED <<max_score, local_sum, out>>

Unrotate(w) ==
    /\ At(w, "unrotate")
    /\ out' = [d \in Dims |-> IF d \in OwnIndices(w, HeadDim)
                              THEN UNION {smem[<<"acc_rot", j>>] : j \in Dims}
                              ELSE out[d]]
    /\ Runs(w, "unrotate", ByAll(w, HeadDim, Array("acc_rot", HeadDim)), {})
    /\ UNCHANGED <<max_score, local_sum, smem>>

Done ==
    /\ \A w \in Warps : pc[w] < 0 \/ pc[w] > Len(Program)
    /\ UNCHANGED vars

Next ==
    \/ Launch
    \/ LaunchFails
    \/ \E w \in Warps :
          \/ RotateQuery(w) \/ Score(w)
          \/ WarpMax(w) \/ FirstMax(w) \/ Exp(w)
          \/ WarpSum(w) \/ FirstSum(w) \/ Normalize(w)
          \/ Weigh(w) \/ Clear(w) \/ Accumulate(w) \/ Unrotate(w)
    \/ Done

Spec == Init /\ [][Next]_vars

-----------------------------------------------------------------------------
(* Properties.                                                                *)

\* What the softmax of this token's row is: every position up to the token's
\* own, once, weighted against the maximum and the sum over the same positions.
Softmaxed(d) ==
    LET seen == 0 .. (call.start_pos + call.token_idx)
        head == [p \in seen |-> [pos |-> p, head |-> (call.q_head * call.num_kv_heads) \div call.num_q_heads]]
    IN {[dim |-> d, value |-> head[p],
         score |-> [row |-> {head[p]}, query |-> Dims, max |-> seen, sum |-> SetToBag(seen)]] : p \in seen}

\* When all warps are through, every output dimension is the causal softmax of
\* the sequence's own rows for the query head's kv head: no position is lost,
\* counted twice, read through the wrong block or weighted by a partial
\* reduction, whatever the order in which the warps ran.
AttendsCausally ==
    (\A w \in Warps : pc[w] > Len(Program)) =>
        \A d \in Dims :
            out[d] = IF call.kind = "tq" THEN UNION {Softmaxed(j) : j \in Dims} ELSE Softmaxed(d)

=============================================================================
