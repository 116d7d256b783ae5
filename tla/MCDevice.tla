------------------------------ MODULE MCDevice ------------------------------
(*****************************************************************************)
(* What a worker does with its device on small instances: the file it reads, *)
(* the tensors it holds, and the kernels that run. Each meets the next       *)
(* through the results of a call only, so each is checked on its own: `part' *)
(* names the one that runs in a behaviour, and the variables of the others   *)
(* are Off.                                                                  *)
(*****************************************************************************)
EXTENDS Integers, Sequences, SequencesExt, FiniteSets

VARIABLES part,   \* which of them runs
          len, pos, pc, left, tensorCount, key, arrays, metadata, tensors, config,
          tensorDataOffset, reserved, rounds,
          m_pc, file, m_tensors, nextId, calUsed, range, todo, loaded, node, content, cache,
          handles, dropped, runs, reconfs,
          a_pc, epoch, reads, writes, call, max_score, local_sum, smem, out,
          k_pc, k_epoch, k_reads, k_writes, k_call, kernel, k_local_sum, mem

-----------------------------------------------------------------------------
(* Files: short ones with any content, and ones that list the keys of a    *)
(* configuration in the order converters write them.                       *)
AnyFileLen == {0, 23, 24, 36, 41, 56, 70, 85}
AnyKeysAt == [i \in 1 .. 3 |-> {"alignment", "other"}]
AnyTypesAt == [i \in 1 .. 3 |-> {"Uint8", "Int16", "Float64", "String", "Array"}]
AnyNumAt == [i \in 1 .. 3 |-> {0, 24}]

ConfigFileLen == {24 + 7 * 16, 24 + 7 * 16 + 40}
ConfigKeysAt == <<{"hidden"}, {"layers"}, {"q_heads"}, {"kv_heads"}, {"ffn"}, {"vocab"},
                  {"alignment"}, {"other"}, {"other"}>>
ConfigTypesAt ==
  [i \in 1 .. 9 |-> IF i \in {3, 4} THEN {"Uint32", "Float32"}
                    ELSE IF i = 7 THEN {"Uint32", "Int16"} ELSE {"Uint32"}]
\* The last of q_heads does not fit 32 bits.
ConfigNumAt == <<{0, 6, 24}, {2}, {0, 2, 3, 66}, {0, 2, 3}, {1}, {0, 5},
                 {0, 1, 24, 32}, {0}, {0}>>

(* A model of three layers, with the tensors that are treated differently: *)
(* a permuted one, a plain one and a norm.                                 *)
ModelFields == <<"attn_q", "ffn_up", "ffn_norm">>
ModelQkHeads == [f \in {"attn_q"} |-> 2]
Ranges == {<<0, 1>>, <<1, 3>>, <<2, 3>>}

AllNames == {<<-1, g>> : g \in {"token_embd", "output_norm", "output"}}
            \cup (0 .. 2) \X ToSet(ModelFields)
WithDtypes(q, plain, norm) ==
  [n \in AllNames |-> CASE n[2] = "attn_q" -> q [] n[2] \in {"ffn_norm", "output_norm"} -> norm
                        [] OTHER -> plain]

\* What converters write: matrices in FP16, norms in FP32; matrices other than
\* the permuted ones in BF16; files with a tensor missing, cut off or of a
\* dtype load refuses.
MixedFiles ==
  LET usual == WithDtypes("FP16", "FP16", "FP32")
  IN {usual, WithDtypes("FP16", "BF16", "BF16"), [usual EXCEPT ![<<2, "ffn_up">>] = "absent"],
      [usual EXCEPT ![<<-1, "output">>] = "absent"], [usual EXCEPT ![<<2, "ffn_norm">>] = "short"],
      WithDtypes("INT8", "FP16", "FP32")}

(* Launches of the attention kernels: prefills and decode steps whose rows *)
(* end before, at and past one round of the block's threads, block tables  *)
(* in every order of the pool, grouped and ungrouped query heads, and a    *)
(* row too long for the shared memory of a launch.                         *)
Lengths == {<<0, 1>>, <<0, 3>>, <<3, 2>>, <<7, 1>>, <<6, 4>>, <<11, 1>>}
Heads == {[q |-> 2, kv |-> 1], [q |-> 2, kv |-> 2], [q |-> 4, kv |-> 2]}
Tables(rows) == {t \in [1 .. (rows + 3) \div 4 -> 0 .. 2] : \A i, j \in DOMAIN t : t[i] = t[j] => i = j}
MCCalls ==
  {[kind |-> k, start_pos |-> c[1], kv_len |-> c[1] + c[2], token_idx |-> i, table |-> t,
    q_head |-> h, num_q_heads |-> n.q, num_kv_heads |-> n.kv] :
      <<k, c, i, t, h, n>> \in
          UNION {{"contiguous", "paged", "tq"} \X {c} \X (0 .. (c[2] - 1))
                  \X Tables(c[1] + c[2]) \X {n.q - 1} \X {n} : c \in Lengths, n \in Heads}}

\* Vectors to compress, for each of the three bit widths: coordinates below,
\* at, between and above the centroids.
MCRotations ==
  [b \in {2, 4, 8} |-> [0 .. 4 -> {-3, 3} \union {2 ^ (b + 1) - 3, 2 ^ (b + 1) - 2}]]

-----------------------------------------------------------------------------

G == INSTANCE GgufFile WITH
  FileLen <- AnyFileLen, KeysAt <- AnyKeysAt, TypesAt <- AnyTypesAt,
  Elements <- {"Uint8", "String", "Array"}, NumAt <- AnyNumAt, U32 <- 32,
  Count <- {0, 1, 3, 1000}, StrLen <- {0, 5, 1000}, TensorCount <- {0, 1, 1000},
  Offsets <- {0, 32}, Many <- 1000, Dims <- {2, 3}
ASSUME G!GgufAssumption

GC == INSTANCE GgufFile WITH
  FileLen <- ConfigFileLen, KeysAt <- ConfigKeysAt, TypesAt <- ConfigTypesAt,
  Elements <- {}, NumAt <- ConfigNumAt, U32 <- 64, Count <- {0, 7, 1000},
  StrLen <- {0, 1000}, TensorCount <- {0, 1}, Offsets <- {0, 32}, Many <- 1000,
  Dims <- {2, 3}
ASSUME GC!GgufAssumption

W == INSTANCE WorkerMemory WITH
  Assigned <- Ranges, Fields <- ModelFields, QkHeads <- ModelQkHeads, HeadDim <- 4,
  Files <- MixedFiles, Memory <- 36, Scratch <- 14, Runs <- 2, SeqId <- {1, 2},
  MaxIds <- 45, MaxReconf <- 2, pc <- m_pc, tensors <- m_tensors

A == INSTANCE AttentionKernel WITH
  WarpSize <- 4, NumWarps <- 2, BlockSize <- 4, HeadDim <- 9, SharedLimit <- 74,
  Calls <- MCCalls, pc <- a_pc
ASSUME A!WarpsFitOneWarp

K == INSTANCE QuantizeKernels WITH
  WarpSize <- 2, NumWarps <- 2, HeadDim <- 5, Rotations <- MCRotations, pc <- k_pc,
  epoch <- k_epoch, reads <- k_reads, writes <- k_writes, call <- k_call,
  local_sum <- k_local_sum
ASSUME K!WarpsFitOneWarp

Off == "off"
ggufVars == <<len, pos, pc, left, tensorCount, key, arrays, metadata, tensors, config,
              tensorDataOffset, reserved, rounds>>
GgufOff ==
  /\ len = Off /\ pos = Off /\ pc = Off /\ left = Off /\ tensorCount = Off /\ key = Off
  /\ arrays = Off /\ metadata = Off /\ tensors = Off /\ config = Off
  /\ tensorDataOffset = Off /\ reserved = Off /\ rounds = Off
memoryVars == <<m_pc, file, m_tensors, nextId, calUsed, range, todo, loaded, node, content,
                cache, handles, dropped, runs, reconfs>>
MemoryOff ==
  /\ m_pc = Off /\ file = Off /\ m_tensors = Off /\ nextId = Off /\ calUsed = Off
  /\ range = Off /\ todo = Off /\ loaded = Off /\ node = Off /\ content = Off /\ cache = Off
  /\ handles = Off /\ dropped = Off /\ runs = Off /\ reconfs = Off
attentionVars == <<a_pc, epoch, reads, writes, call, max_score, local_sum, smem, out>>
AttentionOff ==
  /\ a_pc = Off /\ epoch = Off /\ reads = Off /\ writes = Off /\ call = Off
  /\ max_score = Off /\ local_sum = Off /\ smem = Off /\ out = Off
quantizeVars == <<k_pc, k_epoch, k_reads, k_writes, k_call, kernel, k_local_sum, mem>>
QuantizeOff ==
  /\ k_pc = Off /\ k_epoch = Off /\ k_reads = Off /\ k_writes = Off /\ k_call = Off
  /\ kernel = Off /\ k_local_sum = Off /\ mem = Off

mcVars == <<part, ggufVars, memoryVars, attentionVars, quantizeVars>>

MCInit ==
  \/ part = "gguf" /\ G!Init /\ MemoryOff /\ AttentionOff /\ QuantizeOff
  \/ part = "gguf config" /\ GC!Init /\ MemoryOff /\ AttentionOff /\ QuantizeOff
  \/ part = "memory" /\ W!Init /\ GgufOff /\ AttentionOff /\ QuantizeOff
  \/ part = "attention" /\ A!Init /\ GgufOff /\ MemoryOff /\ QuantizeOff
  \/ part = "quantize" /\ K!Init /\ GgufOff /\ MemoryOff /\ AttentionOff

MCNext ==
  \/ part = "gguf" /\ G!Next
     /\ UNCHANGED <<part, memoryVars, attentionVars, quantizeVars>>
  \/ part = "gguf config" /\ GC!Next
     /\ UNCHANGED <<part, memoryVars, attentionVars, quantizeVars>>
  \/ part = "memory" /\ W!Next
     /\ UNCHANGED <<part, ggufVars, attentionVars, quantizeVars>>
  \/ part = "attention" /\ A!Next
     /\ UNCHANGED <<part, ggufVars, memoryVars, quantizeVars>>
  \/ part = "quantize" /\ K!Next
     /\ UNCHANGED <<part, ggufVars, memoryVars, attentionVars>>

MCSpec == MCInit /\ [][MCNext]_mcVars

-----------------------------------------------------------------------------
\* No count read from a file makes the parser reserve more than the file could
\* hold (parse_header_bytes, with_capacity).
ReservedBounded == part = "gguf" => G!ReservedBounded

\* No loop over a count read from the file outlives the file, nested arrays
\* included (parse_header_bytes, read_typed_value).
WorkBounded == part = "gguf" => G!WorkBounded

\* The data of the tensors starts after the header that describes them, on the
\* next multiple of the file's alignment (align_offset, get_alignment).
DataPastHeader == part = "gguf config" => GC!DataPastHeader

\* A configuration the parser accepts is one the attention can run with: whole
\* groups of query heads per key-value head, and heads that fit the hidden size
\* (extract_model_config, ModelConfig::validate).
ConfigServable == part = "gguf config" => GC!ConfigServable

\* Every tensor id a worker holds in its weights and caches is live in the
\* backend, over loads that fail and Reconfigure after Reconfigure.
HandlesLive == part = "memory" => W!HandlesLive

\* Reconfiguring gives back every cache: what is live and not in use is a weight
\* of an engine that is gone.
OnlyWeightsRemain == part = "memory" => W!OnlyWeightsRemain

\* The engine's layers are those of the range it was assigned, in order
\* (WeightStore::load, builder_idx).
LayersAreRange == part = "memory" => W!LayersAreRange

\* The engine's tensors hold the model's weights, FP16 and with the rows of each
\* head in the order from before the conversion, for files whose query and key
\* projections are FP16 (upload_tensor, upload_qk_tensor).
WeightsRight == part = "memory" => W!WeightsRight

\* No thread of an attention or quantization kernel touches a shared cell that
\* another thread writes between the same two barriers.
RaceFree == /\ part = "attention" => A!RaceFree
            /\ part = "quantize" => K!RaceFree

\* When all warps are through, every output dimension is the causal softmax of
\* the sequence's own rows for the query head's kv head, through any block table.
AttendsCausally == part = "attention" => A!AttendsCausally

\* After compression and decompression every coordinate is a centroid with none
\* nearer, rescaled by the norm of all of them, whatever the bits, the tail of
\* the last byte and the order of the warps.
RoundTrips == part = "quantize" => K!RoundTrips

(***************************************************************************)
(* What the run checks.                                                    *)
(***************************************************************************)
\* Whatever a GGUF file says, the parser neither reserves nor loops beyond it;
\* and what it accepts has its data behind the header and can be served.
GgufSound == ReservedBounded /\ WorkBounded /\ DataPastHeader /\ ConfigServable

\* A worker's ids are live and its caches are given back, over loads that fail
\* and Reconfigure after Reconfigure.
MemoryHeld == HandlesLive /\ OnlyWeightsRemain

\* An engine holds exactly the weights of its range, in the rows' right order.
EngineLoaded == LayersAreRange /\ WeightsRight

\* In every order of the warps the kernels have no data race and give the causal
\* softmax of the sequence's own rows, or the nearest centroids and the norm.
KernelsExact == RaceFree /\ AttendsCausally /\ RoundTrips
=============================================================================
