--------------------------- MODULE QuantizedCache ---------------------------
(***************************************************************************)
(* The quantized paged cache: a pool sized from a memory budget and made   *)
(* tensor by tensor, sequences with block tables as in PagedKvCache, and   *)
(* appends that compress K and V into shared scratch tensors first and     *)
(* copy packed indices and norms from there into the blocks.  Layers at    *)
(* the edges may have their own bit width.  What the bits mean is left out *)
(* (the arithmetic of rotation and codebooks); a row carries the sequence, *)
(* the position and the width it was packed with.                          *)
(***************************************************************************)
EXTENDS Integers, Sequences, FiniteSets, FiniteSetsExt

CONSTANTS Total,            \* layers of the model
          First, NumLayers, \* the worker's layers begin at First
          KeyBits, ValueBits, ProtectedBits,
          ProtectedLayers,  \* protected_layers
          KvHeads, HeadDim,
          BlockSize,        \* BLOCK_SIZE, and the literal in bytes_per_block_layer
          GpuAvailable,     \* available_memory when the pool is made
          ScratchReserve,   \* what is kept for the passes
          MaxCompress,      \* max_compress_tokens
          MaxIds, MaxLen,   \* bounds: calls of alloc, tokens of a sequence
          Faults            \* the device may refuse memory, kernels and copies

QuantizedAssumption ==
  /\ {Total, NumLayers, KvHeads, HeadDim, BlockSize, MaxCompress, MaxIds, MaxLen} \subseteq Nat \ {0}
  /\ {First, ProtectedLayers, GpuAvailable, ScratchReserve} \subseteq Nat /\ First + NumLayers <= Total
  /\ {KeyBits, ValueBits, ProtectedBits} \subseteq {2, 4, 8}
  /\ Faults \in BOOLEAN

VARIABLES phase,      \* building, ready, failed or destroyed
          made,       \* kind of tensor -> how many are on the device
          free_list, sequences, next_id,
          scratch,    \* rows of the last compression
          store,      \* layer, block, row -> the four parts of a cell
          written,    \* live handle -> layer -> rows appended without error
          broken,     \* live handles one of whose appends returned an error
          refused     \* an append failed although device and pool did not

vars == <<phase, made, free_list, sequences, next_id, scratch, store, written, broken, refused>>
pool == <<phase, made>>

Layers == 0 .. NumLayers - 1

(***************************************************************************)
(* Bit widths and sizes.                                                   *)
(***************************************************************************)
IsProtected(l) ==
  ProtectedLayers > 0 /\ (l < ProtectedLayers \/ l >= NumLayers - ProtectedLayers)

KeyBitsFor(l) == IF IsProtected(l) THEN ProtectedBits ELSE KeyBits
ValueBitsFor(l) == IF IsProtected(l) THEN ProtectedBits ELSE ValueBits

DistinctNormal == {KeyBits, ValueBits}
DistinctBitWidths == {KeyBits, ValueBits} \cup (IF ProtectedLayers > 0 THEN {ProtectedBits} ELSE {})

Ceil(a, b) == (a + b - 1) \div b
PackedDim(bits) == Ceil(HeadDim * bits, 8)
PackedRow(bits) == KvHeads * PackedDim(bits)

BytesNoNorms(l) ==
  BlockSize * KvHeads * (PackedDim(KeyBitsFor(l)) + PackedDim(ValueBitsFor(l)))

\* K and V, packed and norms (2 bytes each).
BytesPerBlockLayer(l) ==
  BlockSize * KvHeads * (PackedDim(KeyBitsFor(l)) + PackedDim(ValueBitsFor(l)) + 4)

BytesPerBlock == MapThenSumSet(BytesPerBlockLayer, Layers)

PoolBlocks ==
  (IF GpuAvailable > ScratchReserve THEN GpuAvailable - ScratchReserve ELSE 0) \div BytesPerBlock

Blocks == 0 .. PoolBlocks - 1
Slots == 0 .. BlockSize - 1

\* The columns of the scratch tensors: the widest layer.
ScratchKeyRow == Max({PackedRow(KeyBitsFor(l)) : l \in Layers})
ScratchValueRow == Max({PackedRow(ValueBitsFor(l)) : l \in Layers})

(***************************************************************************)
(* Building the pool.                                                      *)
(***************************************************************************)
Kinds == {"block", "rotation", "centroids", "scratch"}

Wanted == [block |-> 4 * PoolBlocks * NumLayers, rotation |-> 2 * NumLayers,
           centroids |-> Cardinality(DistinctBitWidths), scratch |-> 4]

Order == <<"block", "rotation", "centroids", "scratch">>
Blank == [kp |-> <<>>, kn |-> <<>>, vp |-> <<>>, vn |-> <<>>]

Init ==
  /\ phase = "building" /\ made = [k \in Kinds |-> 0]
  /\ free_list = <<>> /\ sequences = [x \in {} |-> 0] /\ next_id = 0
  /\ scratch = Blank
  /\ store = [c \in Layers \X Blocks \X Slots |-> Blank]
  /\ written = [x \in {} |-> 0] /\ broken = {} /\ refused = FALSE

Missing == {i \in DOMAIN Order : made[Order[i]] < Wanted[Order[i]]}

MakeTensor ==
  /\ phase = "building" /\ Missing # {}
  /\ made' = [made EXCEPT ![Order[Min(Missing)]] = @ + 1]
  /\ UNCHANGED <<phase, free_list, sequences, next_id, scratch, store, written, broken, refused>>

\* The error leaves the constructor; what has been made stays on the device.
MakeFails ==
  /\ Faults /\ phase = "building" /\ Missing # {}
  /\ phase' = "failed"
  /\ UNCHANGED <<made, free_list, sequences, next_id, scratch, store, written, broken, refused>>

Ready ==
  /\ phase = "building" /\ Missing = {}
  /\ phase' = "ready"
  /\ free_list' = [i \in 1 .. PoolBlocks |-> PoolBlocks - i]
  /\ UNCHANGED <<made, sequences, next_id, scratch, store, written, broken, refused>>

\* The worker destroys the pool when it is reconfigured, its sequences with it;
\* a free that fails ends the destruction.
Destroy ==
  /\ phase = "ready"
  /\ phase' = "destroyed"
  /\ made' \in IF Faults THEN [Kinds -> {0}] \cup {made} ELSE [Kinds -> {0}]
  /\ UNCHANGED <<free_list, sequences, next_id, scratch, store, written, broken, refused>>

(***************************************************************************)
(* Sequences.                                                              *)
(***************************************************************************)
Live == DOMAIN sequences
Popped(k) == SubSeq(free_list, 1, Len(free_list) - k)
Taken(k) == [i \in 1 .. k |-> free_list[Len(free_list) + 1 - i]]

With(f, h, v) == [g \in DOMAIN f \cup {h} |-> IF g = h THEN v ELSE f[g]]
Without(f, h) == [g \in DOMAIN f \ {h} |-> f[g]]

Alloc ==
  /\ phase = "ready" /\ next_id < MaxIds
  /\ next_id' = next_id + 1
  /\ \/ /\ free_list # <<>>
        /\ free_list' = Popped(1)
        /\ sequences' = With(sequences, next_id, [table |-> Taken(1), fill |-> 0, len |-> 0])
        /\ written' = With(written, next_id, [l \in Layers |-> 0])
     \/ free_list = <<>> /\ UNCHANGED <<free_list, sequences, written>>
  /\ UNCHANGED <<pool, scratch, store, broken, refused>>

Free(h) ==
  /\ phase = "ready"
  /\ free_list' = free_list \o sequences[h].table
  /\ sequences' = Without(sequences, h) /\ written' = Without(written, h)
  /\ broken' = broken \ {h}
  /\ UNCHANGED <<pool, next_id, scratch, store, refused>>

\* The rows of a compression: where they come from and how they are packed.
Packed(h, from, n, bits) == [i \in 1 .. n |-> <<h, from + i - 1, bits>>]

Compressed(h, l, from, n) ==
  [kp |-> Packed(h, from, n, KeyBitsFor(l)), kn |-> Packed(h, from, n, KeyBitsFor(l)),
   vp |-> Packed(h, from, n, ValueBitsFor(l)), vn |-> Packed(h, from, n, ValueBitsFor(l))]

NewBlocksOfWhole(fill, n) == n \div BlockSize
NewBlocks(fill, n) == IF n <= BlockSize - fill THEN 0 ELSE Ceil(n - (BlockSize - fill), BlockSize)

Grown(h, n) ==
  LET s == sequences[h]
      k == NewBlocks(s.fill, n)
  IN [table |-> s.table \o Taken(k), fill |-> s.fill + n - BlockSize * k, len |-> s.len + n]

Cell(table, l, p) == <<l, table[p \div BlockSize + 1], p % BlockSize>>

\* Position p of the append takes the row of the scratch with its own number.
SourceInChunk(p, from) == (p % BlockSize) + 1
Source(p, from) == p - from + 1

\* The store after the copies of the positions ps, of the parts given.
Copied(table, l, from, ps, parts, rows) ==
  [c \in DOMAIN store |->
     IF \E p \in ps : Cell(table, l, p) = c
       THEN LET i == Source(CHOOSE p \in ps : Cell(table, l, p) = c, from)
            IN [t \in DOMAIN Blank |-> IF t \in parts THEN rows[t][i] ELSE store[c][t]]
       ELSE store[c]]

Parts == {"kp", "kn", "vp", "vn"}
ChunkStarts(lo, hi) == {p \in lo .. hi - 1 : p = lo \/ p % BlockSize = 0}
ChunkOf(p, hi) == {q \in p .. hi - 1 : q \div BlockSize = p \div BlockSize}

\* copy_rows demands equal columns of its two tensors.
KeyColumnsAgree(l) == PackedRow(KeyBitsFor(l)) = ScratchKeyRow
ValueColumnsAgree(l) == PackedRow(ValueBitsFor(l)) = ScratchValueRow

WriteOk(h, table, l, from, n) ==
  /\ KeyColumnsAgree(l) /\ ValueColumnsAgree(l)
  /\ store' = Copied(table, l, from, from .. from + n - 1, Parts, scratch')
  /\ written' = [written EXCEPT ![h][l] = from + n]
  /\ UNCHANGED <<broken, refused>>

\* A copy of the chunk at p fails, after some of the four of that chunk: by a
\* fault, or because the columns differ, at the first chunk then.
WriteFails(h, table, l, from, n) ==
  /\ \E p \in ChunkStarts(from, from + n), parts \in {{}, {"kp"}, {"kp", "kn"}, {"kp", "kn", "vp"}} :
       /\ \/ Faults /\ KeyColumnsAgree(l) /\ (parts = {"kp", "kn", "vp"} => ValueColumnsAgree(l))
          \/ p = from /\ parts = {} /\ ~KeyColumnsAgree(l)
          \/ p = from /\ parts = {"kp", "kn"} /\ KeyColumnsAgree(l) /\ ~ValueColumnsAgree(l)
       /\ (~ValueColumnsAgree(l) => p = from)
       /\ LET whole == Copied(table, l, from, from .. p - 1, Parts, scratch')
              part == Copied(table, l, from, ChunkOf(p, from + n), parts, scratch')
          IN store' = [c \in DOMAIN store |-> IF \E q \in ChunkOf(p, from + n) : Cell(table, l, q) = c
                                                THEN part[c] ELSE whole[c]]
  /\ broken' = broken \cup {h}
  /\ refused' = (refused \/ ~(KeyColumnsAgree(l) /\ ValueColumnsAgree(l)))
  /\ UNCHANGED written

Write(h, table, l, from, n) == WriteOk(h, table, l, from, n) \/ WriteFails(h, table, l, from, n)

\* A kernel fails before the sequence is looked at.
CompressFails(h, l, from, n) ==
  /\ Faults
  /\ \/ scratch' = scratch
     \/ scratch' = [Compressed(h, l, from, n) EXCEPT !.vp = scratch.vp, !.vn = scratch.vn]
  /\ broken' = broken \cup {h}
  /\ UNCHANGED <<free_list, sequences, store, written, refused>>

\* append_kv on the first layer: rows for positions behind the current ones.
AppendFirst(h, n) ==
  LET s == sequences[h]
  IN \/ CompressFails(h, 0, s.len, n)
     \/ /\ scratch' = Compressed(h, 0, s.len, n)
        /\ \/ /\ NewBlocks(s.fill, n) <= Len(free_list)
              /\ free_list' = Popped(NewBlocks(s.fill, n))
              /\ sequences' = [sequences EXCEPT ![h] = Grown(h, n)]
              /\ Write(h, Grown(h, n).table, 0, s.len, n)
           \/ /\ NewBlocks(s.fill, n) > Len(free_list)
              /\ free_list' = <<>>
              /\ sequences' = [sequences EXCEPT ![h].table = @ \o Taken(Len(free_list))]
              /\ broken' = broken \cup {h}
              /\ UNCHANGED <<store, written, refused>>

AppendNext(h, l, n) ==
  LET s == sequences[h]
  IN \/ CompressFails(h, l, s.len - n, n)
     \/ /\ scratch' = Compressed(h, l, s.len - n, n)
        /\ UNCHANGED <<free_list, sequences>>
        /\ Write(h, s.table, l, s.len - n, n)

\* The callers append layer after layer, and only free after an error.
AppendKv ==
  \E h \in Live \ broken :
    /\ phase = "ready"
    /\ \/ \E n \in 1 .. MaxCompress :
            /\ sequences[h].len + n <= MaxLen
            /\ \A l \in Layers : written[h][l] = sequences[h].len
            /\ AppendFirst(h, n)
       \/ \E l \in Layers \ {0} :
            /\ written[h][l - 1] = sequences[h].len /\ written[h][l] < sequences[h].len
            /\ AppendNext(h, l, sequences[h].len - written[h][l])
    /\ UNCHANGED <<pool, next_id>>

Next ==
  \/ MakeTensor \/ MakeFails \/ Ready \/ Destroy \/ Alloc \/ AppendKv
  \/ \E h \in Live : Free(h)

Spec == Init /\ [][Next]_vars

(***************************************************************************)
(* Properties.                                                             *)
(***************************************************************************)
\* What attention reads of a sequence, in every layer and all four tensors, was
\* compressed from this sequence's rows at this position with the widths of this
\* layer, although all sequences go through the same scratch tensors.
RowsIntact ==
  \A h \in Live, l \in Layers : \A p \in 0 .. written[h][l] - 1 :
    LET k == <<h, p, KeyBitsFor(l)>>
        v == <<h, p, ValueBitsFor(l)>>
    IN store[Cell(sequences[h].table, l, p)] = [kp |-> k, kn |-> k, vp |-> v, vn |-> v]

\* Every width a layer asks for has its table: the lookup would panic.
TablesThere ==
  phase = "ready" =>
    /\ \A l \in Layers : {KeyBitsFor(l), ValueBitsFor(l)} \subseteq DistinctBitWidths
    /\ made.centroids = Cardinality(DistinctBitWidths)

BlockBytes(l) == BlockSize * (PackedRow(KeyBitsFor(l)) + PackedRow(ValueBitsFor(l)) + 2 * KvHeads * 2)

\* The tensors of all blocks leave the reserve untouched: the size the number of
\* blocks is computed from is the size of what is allocated.
ReserveKept ==
  phase = "ready" /\ PoolBlocks > 0 => PoolBlocks * MapThenSumSet(BlockBytes, Layers) + ScratchReserve <= GpuAvailable

Accounting == INSTANCE CacheAccounting WITH
  NumBlocks <- PoolBlocks, MaxAppend <- MaxCompress,
  num_free  <- IF phase = "building" \/ phase = "failed" THEN PoolBlocks ELSE Len(free_list),
  owned     <- [h \in Live |-> Len(sequences[h].table)],
  len       <- [h \in Live |-> sequences[h].len]

\* The quantized cache promises its callers what the plain one does: it
\* implements the same accounting.
ImplementsAccounting == Accounting!AccountingSpec

\* "First/last 4 layers use 8-bit for quality": with protected layers an append
\* succeeds when there are blocks and the device works.
ProtectedWorks == ~refused

\* "The first and last N layers of the transformer": the protected layers are
\* those of the model.
EdgesProtected ==
  phase = "ready" =>
    \A l \in Layers : IsProtected(l) <=> \/ First + l < ProtectedLayers
                                         \/ First + l >= Total - ProtectedLayers
=============================================================================
