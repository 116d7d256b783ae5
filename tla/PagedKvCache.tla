---------------------------- MODULE PagedKvCache ----------------------------
(***************************************************************************)
(* The paged KV cache: a pool of blocks with a stack of free block ids,    *)
(* and per sequence a block table, the fill of its last block and its      *)
(* length.  One action per method that changes state.  The callers are     *)
(* batched_forward and its node variant: for each layer in turn they       *)
(* append the rows of every sequence of the batch, layer 0 being the one   *)
(* that grows the table, and after an error they only free the sequence.   *)
(* A method called with a handle that is not live returns an error and     *)
(* changes nothing.                                                        *)
(*                                                                         *)
(* The K and V rows of one token are one cell, tagged with the sequence    *)
(* and the position the rows were computed for.                            *)
(***************************************************************************)
EXTENDS Integers, Sequences

CONSTANTS NumBlocks,  \* capacity of the pool
          BlockSize,  \* BLOCK_SIZE
          NumLayers,  \* layers of this engine or worker
          MaxAppend,  \* bound: tokens per append
          MaxIds,     \* bound: calls of alloc
          MaxLen      \* bound: tokens per sequence

ASSUME CacheAssumption ==
  /\ NumBlocks \in Nat
  /\ BlockSize \in Nat \ {0}
  /\ NumLayers \in Nat \ {0}
  /\ MaxAppend \in Nat
  /\ MaxIds \in Nat
  /\ MaxLen \in Nat

VARIABLES free_list,  \* BlockPool.free_list: Vec used as a stack
          sequences,  \* live handle -> SequenceBlocks
          next_id,
          store,      \* k_blocks and v_blocks: layer, block, row -> contents
          written,    \* live handle -> layer -> rows appended without error
          broken      \* live handles one of whose appends returned an error

vars == <<free_list, sequences, next_id, store, written, broken>>

Blocks == 0 .. NumBlocks - 1
Rows   == 0 .. BlockSize - 1
Layers == 0 .. NumLayers - 1
Live   == DOMAIN sequences

BlocksFor(n) == IF n = 0 THEN 1 ELSE (n + BlockSize - 1) \div BlockSize

Row(h, p) == [seq |-> h, pos |-> p]
Blank     == Row(-1, 0)   \* contents of a row before its first use
KeysOnly  == Row(-1, 1)   \* K rows copied, V copy failed

(* free_list is (0..num_blocks).rev(): pop hands out block 0 first.        *)
Init ==
  /\ free_list = [i \in 1 .. NumBlocks |-> NumBlocks - i]
  /\ sequences = [h \in {} |-> 0]
  /\ next_id = 0
  /\ store = [c \in Layers \X Blocks \X Rows |-> Blank]
  /\ written = [h \in {} |-> 0]
  /\ broken = {}

-----------------------------------------------------------------------------
(* alloc_block k times: k pops, and the ids popped, last free id first.    *)
Popped(k) == SubSeq(free_list, 1, Len(free_list) - k)
Taken(k) == [i \in 1 .. k |-> free_list[Len(free_list) + 1 - i]]

(* alloc: the id is consumed before alloc_block can fail.                  *)
Alloc ==
  /\ next_id' = next_id + 1
  /\ UNCHANGED <<store, broken>>
  /\ \/ /\ free_list # <<>>
        /\ free_list' = Popped(1)
        /\ sequences' = [h \in Live \cup {next_id} |->
             IF h = next_id
             THEN [block_table |-> Taken(1),
                   last_block_fill |-> 0, current_len |-> 0]
             ELSE sequences[h]]
        /\ written' = [h \in Live \cup {next_id} |->
             IF h = next_id THEN [l \in Layers |-> 0] ELSE written[h]]
     \/ /\ free_list = <<>>
        /\ UNCHANGED <<free_list, sequences, written>>

(***************************************************************************)
(* The growth loop of append_kv on layer 0: a new block each time the last *)
(* one is full and tokens remain.                                          *)
(***************************************************************************)
NewBlocksEager(fill, n) ==   \* variant: a block as soon as the last is full
  (fill + n) \div BlockSize

NewBlocks(fill, n) ==
  IF n <= BlockSize - fill THEN 0
  ELSE (n - (BlockSize - fill) + BlockSize - 1) \div BlockSize

NewFillNoReset(fill, n) == fill + n   \* variant: without fill = 0

NewFill(fill, n) == fill + n - BlockSize * NewBlocks(fill, n)

(***************************************************************************)
(* The write loop: position p goes to row p % BLOCK_SIZE of block          *)
(* block_table[p / BLOCK_SIZE], in chunks that end at block boundaries.    *)
(***************************************************************************)
Cell(table, layer, p) == <<layer, table[p \div BlockSize + 1], p % BlockSize>>

StoreAfterInLast(h, table, layer, ps) ==   \* variant: only the last block
  [c \in DOMAIN store |->
     IF \E p \in ps : <<layer, table[Len(table)], p % BlockSize>> = c
     THEN Row(h, CHOOSE p \in ps : p % BlockSize = c[3])
     ELSE store[c]]

StoreAfter(h, table, layer, ps) ==
  [c \in DOMAIN store |->
     IF \E p \in ps : Cell(table, layer, p) = c
     THEN Row(h, CHOOSE p \in ps : Cell(table, layer, p) = c)
     ELSE store[c]]

ChunkStarts(lo, hi) == {p \in lo .. hi - 1 : p = lo \/ p % BlockSize = 0}
ChunkOf(p, hi) == {q \in p .. hi - 1 : q \div BlockSize = p \div BlockSize}

(* Every copy_rows succeeds.                                               *)
WriteOk(h, table, layer, lo, hi) ==
  /\ store' = StoreAfter(h, table, layer, lo .. hi - 1)
  /\ written' = [written EXCEPT ![h][layer] = hi]
  /\ UNCHANGED broken

(* The copy of K, or of V after K, fails for the chunk that starts at p.   *)
WriteFails(h, table, layer, lo, hi) ==
  /\ \E p \in ChunkStarts(lo, hi), k_copied \in BOOLEAN :
       LET done == StoreAfter(h, table, layer, lo .. p - 1)
           torn == {Cell(table, layer, q) : q \in ChunkOf(p, hi)}
       IN  store' = [c \in DOMAIN store |->
                       IF k_copied /\ c \in torn THEN KeysOnly ELSE done[c]]
  /\ broken' = broken \cup {h}
  /\ UNCHANGED written

(* append_kv on layer 0 when the pool has the blocks.                      *)
AppendGrown(h, n) ==
  LET s == sequences[h]
      k == NewBlocks(s.last_block_fill, n)
      table == s.block_table \o Taken(k)
  IN  /\ k <= Len(free_list)
      /\ free_list' = Popped(k)
      /\ sequences' = [sequences EXCEPT ![h] =
           [block_table |-> table,
            last_block_fill |-> NewFill(s.last_block_fill, n),
            current_len |-> s.current_len + n]]
      /\ \/ WriteOk(h, table, 0, s.current_len, s.current_len + n)
         \/ WriteFails(h, table, 0, s.current_len, s.current_len + n)
      /\ UNCHANGED next_id

(* append_kv on layer 0 when alloc_block fails on the way: the blocks      *)
(* pushed so far stay in the table, the fill and the length do not change. *)
AppendOom(h, n) ==
  /\ NewBlocks(sequences[h].last_block_fill, n) > Len(free_list)
  /\ free_list' = Popped(Len(free_list))
  /\ sequences' = [sequences EXCEPT
       ![h].block_table = sequences[h].block_table \o Taken(Len(free_list))]
  /\ broken' = broken \cup {h}
  /\ UNCHANGED <<next_id, store, written>>

(* append_kv on the other layers: blocks are there, rows are written.      *)
AppendNextLayer(h, layer, n) ==
  LET s == sequences[h]
      lo == s.current_len - n
  IN  /\ UNCHANGED <<free_list, sequences, next_id>>
      /\ \/ WriteOk(h, s.block_table, layer, lo, s.current_len)
         \/ WriteFails(h, s.block_table, layer, lo, s.current_len)

FreeUsedBlocks(h) ==   \* variant: only the blocks that hold tokens go back
  /\ free_list' = free_list
       \o SubSeq(sequences[h].block_table, 1, BlocksFor(sequences[h].current_len))
  /\ sequences' = [g \in Live \ {h} |-> sequences[g]]
  /\ written' = [g \in Live \ {h} |-> written[g]]
  /\ broken' = broken \ {h}
  /\ UNCHANGED <<next_id, store>>

(* free: the blocks go back in table order.                                *)
Free(h) ==
  /\ free_list' = free_list \o sequences[h].block_table
  /\ sequences' = [g \in Live \ {h} |-> sequences[g]]
  /\ written' = [g \in Live \ {h} |-> written[g]]
  /\ broken' = broken \ {h}
  /\ UNCHANGED <<next_id, store>>

-----------------------------------------------------------------------------
(***************************************************************************)
(* The callers' protocol.  A batch reaches layer 0 of a sequence when all  *)
(* layers hold the tokens of the previous batch, and layer l after layer   *)
(* l - 1, with the same rows.                                              *)
(***************************************************************************)
CallFirstLayer(h, n) ==
  /\ h \notin broken
  /\ \A l \in Layers : written[h][l] = sequences[h].current_len
  /\ AppendGrown(h, n) \/ AppendOom(h, n)

CallNextLayer(h, layer) ==
  /\ h \notin broken
  /\ written[h][layer - 1] = sequences[h].current_len
  /\ written[h][layer] < sequences[h].current_len
  /\ AppendNextLayer(h, layer, sequences[h].current_len - written[h][layer])

Next ==
  \/ next_id < MaxIds /\ Alloc
  \/ \E h \in Live, n \in 1 .. MaxAppend :
       sequences[h].current_len + n <= MaxLen /\ CallFirstLayer(h, n)
  \/ \E h \in Live, layer \in Layers \ {0} : CallNextLayer(h, layer)
  \/ \E h \in Live : Free(h)

Spec == Init /\ [][Next]_vars

-----------------------------------------------------------------------------
Table(h) == sequences[h].block_table

(* The state of the manager is well formed: the fields of the structs.     *)
TypeOK ==
  /\ free_list \in Seq(Blocks)
  /\ next_id \in Nat
  /\ Live \subseteq 0 .. next_id - 1
  /\ sequences \in [Live -> [block_table : Seq(Blocks),
                             last_block_fill : 0 .. BlockSize,
                             current_len : Nat]]
  /\ store \in [Layers \X Blocks \X Rows ->
                  {Blank, KeysOnly} \cup [seq : Nat, pos : Nat]]
  /\ written \in [Live -> [Layers -> Nat]]
  /\ broken \subseteq Live

FreeListDistinct ==
  \A i, j \in DOMAIN free_list : free_list[i] = free_list[j] => i = j

OwnedOnce ==
  \A g, h \in Live : \A i \in DOMAIN Table(g), j \in DOMAIN Table(h) :
    Table(g)[i] = Table(h)[j] => g = h /\ i = j

NotFreeWhileOwned ==
  \A h \in Live : \A i \in DOMAIN Table(h), j \in DOMAIN free_list :
    Table(h)[i] # free_list[j]

NoneLost ==
  \A b \in Blocks : \/ \E i \in DOMAIN free_list : free_list[i] = b
                    \/ \E h \in Live : \E i \in DOMAIN Table(h) : Table(h)[i] = b

(***************************************************************************)
(* At all times, and after every failed alloc or append, every block of    *)
(* the pool is in exactly one place: once in the free list, or once in the *)
(* block table of one live sequence.  free_block pushes what it is given,  *)
(* so a double free or a lost block would go unnoticed by the code.        *)
(***************************************************************************)
BlocksPartitioned ==
  FreeListDistinct /\ OwnedOnce /\ NotFreeWhileOwned /\ NoneLost

(***************************************************************************)
(* The block table, the fill of the last block and the length agree: the   *)
(* table covers every stored token (so block_table[block_idx] of the write *)
(* loop is in range), has no spare block unless an append ran out of       *)
(* memory, and the fill is the number of tokens in the last used block.    *)
(***************************************************************************)
TableMatchesLength ==
  \A h \in Live :
    LET s == sequences[h]
        used == BlocksFor(s.current_len)
    IN  /\ used <= Len(s.block_table)
        /\ h \notin broken => used = Len(s.block_table)
        /\ s.last_block_fill = s.current_len - BlockSize * (used - 1)

(***************************************************************************)
(* The bookkeeping of BlockPool and PagedKvCache is consistent after every *)
(* call, failed ones included: block ids in range, every block in exactly  *)
(* one place, and tables that fit lengths.                                 *)
(***************************************************************************)
PoolConsistent == TypeOK /\ BlocksPartitioned /\ TableMatchesLength

(***************************************************************************)
(* What the attention kernel reads through the block table is what this    *)
(* sequence appended: for every layer and every position already appended, *)
(* the row holds this sequence's data for this position, whatever other    *)
(* sequences appended, failed to append or freed in between.               *)
(***************************************************************************)
RowsIntact ==
  \A h \in Live, l \in Layers : \A p \in 0 .. written[h][l] - 1 :
    store[Cell(Table(h), l, p)] = Row(h, p)

(***************************************************************************)
(* The detailed cache implements the accounting its callers rely on.       *)
(***************************************************************************)
Accounting == INSTANCE CacheAccounting WITH
  num_free <- Len(free_list),
  owned    <- [h \in Live |-> Len(Table(h))],
  len      <- [h \in Live |-> sequences[h].current_len]

(* Every step of the manager is an alloc, append or free of the counting   *)
(* cache, or changes no count: the fill bookkeeping of append_kv takes     *)
(* exactly the blocks the new length needs, and free returns all of them.  *)
ImplementsAccounting == Accounting!AccountingSpec
=============================================================================
