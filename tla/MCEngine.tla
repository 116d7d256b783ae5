------------------------------ MODULE MCEngine ------------------------------
(*****************************************************************************)
(* The caches and the forward passes of fracture-engine, and the backend's   *)
(* methods under them, on small instances. They meet only in the calls of a  *)
(* pass, so here each is checked on its own: `part' names the one that runs  *)
(* in a behaviour, the variables of the others are Off, and the paged cache  *)
(* stays in its first state.                                                 *)
(*****************************************************************************)
EXTENDS PagedKvCache

VARIABLES part,   \* which of them runs
          phase, made, q_free_list, q_sequences, q_next_id, scratch, q_store, q_written,
          q_broken, refused,
          nodes, status, fed, n, at, start, val, cache, len, acts, f_scratch, left, logits,
          seqs,
          b_fed, batch, b_at, b_start, hidden, q, k, attn, b_cache, b_len, b_logits,
          tensors, live, filled, stream, freqs, op, ops, ranges, timers, events, nextTimer,
          measured

Q == INSTANCE QuantizedCache WITH
  Total <- 2, First <- 0, NumLayers <- 2, KeyBits <- 4, ValueBits <- 2, ProtectedBits <- 8,
  KvHeads <- 2, HeadDim <- 6, BlockSize <- 2, ScratchReserve <- 40, MaxCompress <- 3,
  MaxLen <- 4, ProtectedLayers <- 0, GpuAvailable <- 250, MaxIds <- 2, Faults <- TRUE,
  free_list <- q_free_list, sequences <- q_sequences, next_id <- q_next_id,
  store <- q_store, written <- q_written, broken <- q_broken
ASSUME Q!QuantizedAssumption

QP == INSTANCE QuantizedCache WITH
  Total <- 2, First <- 0, NumLayers <- 2, KeyBits <- 4, ValueBits <- 2, ProtectedBits <- 8,
  KvHeads <- 2, HeadDim <- 6, BlockSize <- 2, ScratchReserve <- 40, MaxCompress <- 3,
  MaxLen <- 4, ProtectedLayers <- 1, GpuAvailable <- 360, MaxIds <- 2, Faults <- FALSE,
  free_list <- q_free_list, sequences <- q_sequences, next_id <- q_next_id,
  store <- q_store, written <- q_written, broken <- q_broken
ASSUME QP!QuantizedAssumption

F == INSTANCE ModelForward WITH
  Layers <- 2, MaxNodes <- 2, Paged <- FALSE, Hop <- "local", MaxLen <- 3, MaxChunk <- 2,
  MaxSeqs <- 2, Faults <- TRUE, scratch <- f_scratch
ASSUME F!ForwardAssumption

FP == INSTANCE ModelForward WITH
  Layers <- 2, MaxNodes <- 2, Paged <- TRUE, Hop <- "ipc", MaxLen <- 4, MaxChunk <- 3,
  MaxSeqs <- 2, Faults <- TRUE, scratch <- f_scratch
ASSUME FP!ForwardAssumption

B == INSTANCE BatchedPass WITH
  Seqs <- {"s1", "s2"}, Layers <- 2, Cut <- 2, MaxLen <- 3, MaxChunk <- 2, Vocab <- 2,
  fed <- b_fed, at <- b_at, start <- b_start, cache <- b_cache, len <- b_len,
  logits <- b_logits
ASSUME B!BatchedAssumption

BN == INSTANCE BatchedPass WITH
  Seqs <- {"s1", "s2", "s3"}, Layers <- 3, Cut <- 2, MaxLen <- 3, MaxChunk <- 2, Vocab <- 2,
  fed <- b_fed, at <- b_at, start <- b_start, cache <- b_cache, len <- b_len,
  logits <- b_logits
ASSUME BN!BatchedAssumption

D == INSTANCE DeviceOps WITH
  Buffers <- 1 .. 7, Arguments <- {1, 2}, Failures <- TRUE, MaxOps <- 2

Off == "off"
quantizedVars == <<phase, made, q_free_list, q_sequences, q_next_id, scratch, q_store,
                   q_written, q_broken, refused>>
QuantizedOff ==
  /\ phase = Off /\ made = Off /\ q_free_list = Off /\ q_sequences = Off /\ q_next_id = Off
  /\ scratch = Off /\ q_store = Off /\ q_written = Off /\ q_broken = Off /\ refused = Off
forwardVars == <<nodes, status, fed, n, at, start, val, cache, len, acts, f_scratch, left,
                 logits, seqs>>
ForwardOff ==
  /\ nodes = Off /\ status = Off /\ fed = Off /\ n = Off /\ at = Off /\ start = Off
  /\ val = Off /\ cache = Off /\ len = Off /\ acts = Off /\ f_scratch = Off /\ left = Off
  /\ logits = Off /\ seqs = Off
batchedVars == <<b_fed, batch, b_at, b_start, hidden, q, k, attn, b_cache, b_len, b_logits>>
BatchedOff ==
  /\ b_fed = Off /\ batch = Off /\ b_at = Off /\ b_start = Off /\ hidden = Off /\ q = Off
  /\ k = Off /\ attn = Off /\ b_cache = Off /\ b_len = Off /\ b_logits = Off
opsVars == <<tensors, live, filled, stream, freqs, op, ops, ranges, timers, events,
             nextTimer, measured>>
OpsOff ==
  /\ tensors = Off /\ live = Off /\ filled = Off /\ stream = Off /\ freqs = Off /\ op = Off
  /\ ops = Off /\ ranges = Off /\ timers = Off /\ events = Off /\ nextTimer = Off
  /\ measured = Off

mcVars == <<part, vars, quantizedVars, forwardVars, batchedVars, opsVars>>

MCInit ==
  /\ Init
  /\ \/ part = "paged" /\ QuantizedOff /\ ForwardOff /\ BatchedOff /\ OpsOff
     \/ part = "quantized" /\ Q!Init /\ ForwardOff /\ BatchedOff /\ OpsOff
     \/ part = "protected" /\ QP!Init /\ ForwardOff /\ BatchedOff /\ OpsOff
     \/ part = "forward" /\ F!Init /\ QuantizedOff /\ BatchedOff /\ OpsOff
     \/ part = "forward paged" /\ FP!Init /\ QuantizedOff /\ BatchedOff /\ OpsOff
     \/ part = "batched" /\ B!Init /\ QuantizedOff /\ ForwardOff /\ OpsOff
     \/ part = "batched nodes" /\ BN!Init /\ QuantizedOff /\ ForwardOff /\ OpsOff
     \/ part = "ops" /\ D!Init /\ QuantizedOff /\ ForwardOff /\ BatchedOff

MCNext ==
  \/ part = "paged" /\ Next /\ UNCHANGED <<part, quantizedVars, forwardVars, batchedVars, opsVars>>
  \/ part = "quantized" /\ Q!Next
     /\ UNCHANGED <<part, vars, forwardVars, batchedVars, opsVars>>
  \/ part = "protected" /\ QP!Next
     /\ UNCHANGED <<part, vars, forwardVars, batchedVars, opsVars>>
  \/ part = "forward" /\ F!Next
     /\ UNCHANGED <<part, vars, quantizedVars, batchedVars, opsVars>>
  \/ part = "forward paged" /\ FP!Next
     /\ UNCHANGED <<part, vars, quantizedVars, batchedVars, opsVars>>
  \/ part = "batched" /\ B!Next
     /\ UNCHANGED <<part, vars, quantizedVars, forwardVars, opsVars>>
  \/ part = "batched nodes" /\ BN!Next
     /\ UNCHANGED <<part, vars, quantizedVars, forwardVars, opsVars>>
  \/ part = "ops" /\ D!Next
     /\ UNCHANGED <<part, vars, quantizedVars, forwardVars, batchedVars>>

MCSpec == MCInit /\ [][MCNext]_mcVars

-----------------------------------------------------------------------------
\* What attention reads of a sequence in the quantized cache, in every layer and
\* all four tensors, was compressed from this sequence's rows at this position
\* with the widths of this layer, although all sequences go through the same
\* scratch tensors (append_kv of QuantizedPagedKvCacheManager).
QuantizedRowsIntact == /\ part = "quantized" => Q!RowsIntact
                       /\ part = "protected" => QP!RowsIntact

\* The pool keeps the memory that was set aside for the passes: the size the
\* number of blocks is computed from is the size of what is allocated.
QuantizedReserveKept == /\ part = "quantized" => Q!ReserveKept
                        /\ part = "protected" => QP!ReserveKept

\* Every width a layer asks for has its centroid table, protected or not: the
\* lookup would panic.
QuantizedTablesThere == /\ part = "quantized" => Q!TablesThere
                        /\ part = "protected" => QP!TablesThere

\* The quantized cache promises its callers what the plain one does: from its
\* first state on, every step is one of the same accounting or changes none of it.
QuantizedAccounting ==
  /\ part = "quantized" => Q!Accounting!AccountingInit
  /\ [][part = "quantized" =>
          Q!Accounting!AccountingNext \/ UNCHANGED Q!Accounting!cacheVars]_mcVars

\* What a pass returns is what one pass over the whole sequence would return for
\* the last token, however the tokens were cut into chunks and the layers into
\* nodes (forward_node, forward_node_paged).
SameAsWholeSequence == /\ part = "forward" => F!SameAsWholeSequence
                       /\ part = "forward paged" => FP!SameAsWholeSequence

\* After a pass every node's cache holds as many tokens as the caller has fed,
\* whichever of the two caches counts them.
LengthsAgree == /\ part = "forward" => F!LengthsAgree
                /\ part = "forward paged" => FP!LengthsAgree

\* A pipeline that PipelineCoordinator::new accepts runs every layer exactly once.
AcceptedCovers == part = "forward" => F!AcceptedCovers

\* A pass that succeeds leaves none of its scratch tensors on the device.
ScratchReturned == part = "forward" => F!ScratchReturned

\* Whatever sequences share a pass, in whatever order and number of tokens, each
\* slice of the result is what its sequence alone would have got for its last
\* token (batched_forward, batched_forward_node).
EachItsOwn == /\ part = "batched" => B!EachItsOwn
              /\ part = "batched nodes" => BN!EachItsOwn

\* Between passes the caches of all nodes hold the tokens the caller has fed, of
\* the sequences of the last batch and of those that sat it out, also when a
\* pass failed in the middle.
CachesFollow == /\ part = "batched" => B!CachesFollow
                /\ part = "batched nodes" => BN!CachesFollow

\* No kernel runs on memory the host has given back, and none on temporaries
\* that were not filled (methods of CudaBackend).
QueuedBuffersLive == part = "ops" => D!QueuedBuffersLive

\* Events exist in the pairs the timer table holds, also after one could not be
\* created (TimerManager).
EventsPaired == part = "ops" => D!EventsPaired

\* The time stop_timer returns is that of the method it was put around.
MeasuresItsMethod == [][part = "ops" => D!MeasuresItsStep]_mcVars

(***************************************************************************)
(* What the run checks.                                                    *)
(***************************************************************************)
\* A pool that is built has what its layers look up and leaves the reserve alone,
\* what attention reads of a sequence is what the sequence appended, and callers
\* can rely on the accounting of the plain cache.
QuantizedIntact ==
  [](QuantizedRowsIntact /\ QuantizedReserveKept /\ QuantizedTablesThere) /\ QuantizedAccounting

\* Chunks, nodes and batches are invisible in the result: each pass, over an
\* accepted pipeline or in a batch, returns what its sequence alone would have
\* got from one pass over all its tokens.
PassesCompute == SameAsWholeSequence /\ AcceptedCovers /\ EachItsOwn

\* Between passes, failed ones included, every cache of every node holds the
\* tokens its caller has fed, and a pass that succeeds leaves no scratch tensor.
PassesLeaveCachesRight == LengthsAgree /\ CachesFollow /\ ScratchReturned

\* The host never overtakes the stream: kernels run on live, filled memory, and
\* timers come in pairs and measure the method they were put around.
OpsInOrder == [](QueuedBuffersLive /\ EventsPaired) /\ MeasuresItsMethod
=============================================================================
