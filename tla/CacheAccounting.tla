--------------------------- MODULE CacheAccounting ---------------------------
(***************************************************************************)
(* What a paged KV cache promises its callers, in numbers only: how many   *)
(* blocks are free, how many each live handle holds, and how many tokens   *)
(* each live handle stores.  The identity of the blocks, the fill level of *)
(* the last one and the rows themselves belong to PagedKvCache, which      *)
(* implements this specification.  SchedulerLoop composes its loop with    *)
(* the actions below.                                                      *)
(***************************************************************************)
EXTENDS Integers

CONSTANTS NumBlocks,   \* capacity of the block pool
          BlockSize,   \* tokens per block (BLOCK_SIZE, 16 in the code)
          MaxAppend    \* most tokens a caller appends in one call

ASSUME PoolAssumption == /\ NumBlocks \in Nat
                         /\ BlockSize \in Nat \ {0}
                         /\ MaxAppend \in Nat

VARIABLES num_free,    \* blocks in the free list
          owned,       \* live handle -> number of blocks it holds
          len,         \* live handle -> tokens stored
          next_id      \* next handle to hand out

cacheVars == <<num_free, owned, len, next_id>>

(***************************************************************************)
(* Blocks that hold n tokens.  A sequence is given its first block before  *)
(* its first token, so an empty sequence holds one block as well.          *)
(***************************************************************************)
BlocksFor(n) == IF n = 0 THEN 1 ELSE (n + BlockSize - 1) \div BlockSize

Live == DOMAIN owned

AccountingInit ==
  /\ num_free = NumBlocks
  /\ owned = [h \in {} |-> 0]
  /\ len = [h \in {} |-> 0]
  /\ next_id = 0

(* A new handle with one block; the handle is next_id.                     *)
AllocOk ==
  /\ num_free > 0
  /\ num_free' = num_free - 1
  /\ owned' = [h \in Live \cup {next_id} |-> IF h = next_id THEN 1 ELSE owned[h]]
  /\ len' = [h \in Live \cup {next_id} |-> IF h = next_id THEN 0 ELSE len[h]]
  /\ next_id' = next_id + 1

(* No block left: the caller gets an error, and the handle is never used.  *)
AllocOom ==
  /\ num_free = 0
  /\ next_id' = next_id + 1
  /\ UNCHANGED <<num_free, owned, len>>

BlocksMissing(h, n) == BlocksFor(len[h] + n) - owned[h]

(* A caller appends only to a handle none of whose appends has failed.     *)
Sound(h) == h \in Live /\ owned[h] = BlocksFor(len[h])

(* Growth by n tokens when the pool has the blocks for it.                 *)
AppendOk(h, n) ==
  /\ Sound(h)
  /\ BlocksMissing(h, n) <= num_free
  /\ num_free' = num_free - BlocksMissing(h, n)
  /\ owned' = [owned EXCEPT ![h] = BlocksFor(len[h] + n)]
  /\ len' = [len EXCEPT ![h] = @ + n]
  /\ UNCHANGED next_id

(* Growth that runs the pool dry: the blocks taken so far stay with the    *)
(* sequence, whose length does not change.                                 *)
AppendOom(h, n) ==
  /\ Sound(h)
  /\ BlocksMissing(h, n) > num_free
  /\ num_free' = 0
  /\ owned' = [owned EXCEPT ![h] = @ + num_free]
  /\ UNCHANGED <<len, next_id>>

Free(h) ==
  /\ h \in Live
  /\ num_free' = num_free + owned[h]
  /\ owned' = [g \in Live \ {h} |-> owned[g]]
  /\ len' = [g \in Live \ {h} |-> len[g]]
  /\ UNCHANGED next_id

AccountingNext ==
  \/ AllocOk
  \/ AllocOom
  \/ \E h \in Live : Free(h)
  \/ \E h \in Live, n \in 0..MaxAppend : AppendOk(h, n) \/ AppendOom(h, n)

AccountingSpec == AccountingInit /\ [][AccountingNext]_cacheVars
==============================================================================
