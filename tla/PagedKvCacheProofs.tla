------------------------- MODULE PagedKvCacheProofs -------------------------
(***************************************************************************)
(* Proofs about the paged KV cache, for every pool size, block size,       *)
(* number of layers and bound.                                             *)
(***************************************************************************)
EXTENDS PagedKvCache, TLAPS

(* Division with remainder, as the provers need it.                        *)
LEMMA DivMod ==
  ASSUME NEW x \in Nat, NEW b \in Nat \ {0}
  PROVE  /\ x \div b \in Nat
         /\ x % b \in 0 .. b - 1
         /\ x = b * (x \div b) + (x % b)
  OBVIOUS

(* The growth loop keeps the fill of the last block within the block.      *)
LEMMA GrowthBounds ==
  ASSUME NEW fill \in 0 .. BlockSize, NEW n \in Nat
  PROVE  /\ NewBlocks(fill, n) \in Nat
         /\ NewFill(fill, n) \in 0 .. BlockSize
         /\ n > 0 => NewFill(fill, n) > 0
  <1>. DEFINE m == n - (BlockSize - fill) + BlockSize - 1
  <1>1. CASE n <= BlockSize - fill
    BY <1>1, CacheAssumption DEF NewBlocks, NewFill
  <1>2. CASE n > BlockSize - fill
    <2>1. m \in Nat
      BY <1>2, CacheAssumption
    <2>2. m \div BlockSize \in Nat /\ m % BlockSize \in 0 .. BlockSize - 1
          /\ m = BlockSize * (m \div BlockSize) + (m % BlockSize)
      BY <2>1, DivMod, CacheAssumption, Zenon
    <2>3. NewBlocks(fill, n) = m \div BlockSize
      BY <1>2, CacheAssumption DEF NewBlocks
    <2>. HIDE DEF m
    <2>4. NewFill(fill, n) = fill + n - BlockSize * (m \div BlockSize)
      BY <2>3 DEF NewFill
    <2>5. fill + n = m + 1
      BY CacheAssumption DEF m
    <2>. QED  BY <2>1, <2>2, <2>3, <2>4, <2>5, CacheAssumption
  <1>. QED  BY <1>1, <1>2, CacheAssumption

-----------------------------------------------------------------------------
(* Facts about sequences: concatenation, and a sequence without its last   *)
(* k elements.                                                             *)
LEMMA ConcatFacts ==
  ASSUME NEW S, NEW s \in Seq(S), NEW t \in Seq(S)
  PROVE  /\ s \o t \in Seq(S)
         /\ Len(s \o t) = Len(s) + Len(t)
         /\ \A i \in 1 .. Len(s) : (s \o t)[i] = s[i]
         /\ \A i \in 1 .. Len(t) : (s \o t)[Len(s) + i] = t[i]
  OBVIOUS

LEMMA PrefixFacts ==
  ASSUME NEW S, NEW s \in Seq(S), NEW k \in 0 .. Len(s)
  PROVE  /\ SubSeq(s, 1, Len(s) - k) \in Seq(S)
         /\ Len(SubSeq(s, 1, Len(s) - k)) = Len(s) - k
         /\ \A i \in 1 .. Len(s) - k : SubSeq(s, 1, Len(s) - k)[i] = s[i]
  OBVIOUS

LEMMA SeqFacts ==
  ASSUME NEW S, NEW s \in Seq(S)
  PROVE  Len(s) \in Nat /\ DOMAIN s = 1 .. Len(s) /\ \A i \in 1 .. Len(s) : s[i] \in S
  OBVIOUS

LEMMA TakenFacts ==
  ASSUME NEW S, NEW s \in Seq(S), NEW k \in 0 .. Len(s)
  PROVE  LET t == [i \in 1 .. k |-> s[Len(s) + 1 - i]]
         IN  t \in Seq(S) /\ Len(t) = k
  <1>1. \A i \in 1 .. k : s[Len(s) + 1 - i] \in S
    BY SeqFacts
  <1>. QED  BY <1>1

(* Popping k blocks splits the free list.                                  *)
LEMMA PopProperties ==
  ASSUME free_list \in Seq(Blocks), NEW k \in 0 .. Len(free_list)
  PROVE  /\ Popped(k) \in Seq(Blocks)
         /\ Len(Popped(k)) = Len(free_list) - k
         /\ \A i \in 1 .. Len(free_list) - k : Popped(k)[i] = free_list[i]
         /\ Taken(k) \in Seq(Blocks)
         /\ Len(Taken(k)) = k
         /\ \A i \in 1 .. k : Taken(k)[i] = free_list[Len(free_list) + 1 - i]
  <1>1. /\ Popped(k) \in Seq(Blocks)
        /\ Len(Popped(k)) = Len(free_list) - k
        /\ \A i \in 1 .. Len(free_list) - k : Popped(k)[i] = free_list[i]
    BY PrefixFacts DEF Popped
  <1>2. Taken(k) \in Seq(Blocks) /\ Len(Taken(k)) = k
    BY TakenFacts DEF Taken
  <1>. QED  BY <1>1, <1>2 DEF Taken

(* A table grown by k popped blocks.                                       *)
LEMMA GrownTable ==
  ASSUME free_list \in Seq(Blocks), NEW k \in 0 .. Len(free_list),
         NEW t \in Seq(Blocks)
  PROVE  /\ t \o Taken(k) \in Seq(Blocks)
         /\ Len(t \o Taken(k)) = Len(t) + k
         /\ \A i \in 1 .. Len(t) : (t \o Taken(k))[i] = t[i]
         /\ \A i \in 1 .. k :
              (t \o Taken(k))[Len(t) + i] = free_list[Len(free_list) + 1 - i]
  <1>1. Taken(k) \in Seq(Blocks) /\ Len(Taken(k)) = k
        /\ \A i \in 1 .. k : Taken(k)[i] = free_list[Len(free_list) + 1 - i]
    BY PopProperties
  <1>2. \A u \in Seq(Blocks) :
          /\ t \o u \in Seq(Blocks)
          /\ Len(t \o u) = Len(t) + Len(u)
          /\ \A i \in 1 .. Len(t) : (t \o u)[i] = t[i]
          /\ \A i \in 1 .. Len(u) : (t \o u)[Len(t) + i] = u[i]
    BY ConcatFacts
  <1>. QED  BY <1>1, <1>2, ZenonT(60)

-----------------------------------------------------------------------------
(* Type correctness, one lemma per action.                                 *)

Contents == {Blank, KeysOnly} \cup [seq : Nat, pos : Nat]
Stores == [Layers \X Blocks \X Rows -> Contents]

LEMMA TypeInit == Init => TypeOK
  <1>. SUFFICES ASSUME Init PROVE TypeOK
    OBVIOUS
  <1>1. free_list \in Seq(Blocks)
    <2>1. \A i \in 1 .. NumBlocks : NumBlocks - i \in Blocks
      BY CacheAssumption DEF Blocks
    <2>. QED  BY <2>1, CacheAssumption DEF Init
  <1>2. Live = {}
    BY DEF Init, Live
  <1>3. store \in Stores
    BY DEF Init, Stores, Contents
  <1>. QED  BY <1>1, <1>2, <1>3 DEF Init, TypeOK, Stores, Contents, Live

LEMMA TypeAlloc == TypeOK /\ Alloc => TypeOK'
  <1>. SUFFICES ASSUME TypeOK, Alloc PROVE TypeOK'
    OBVIOUS
  <1>1. CASE free_list # <<>>
    <2>1. Len(free_list) \in Nat /\ 1 \in 0 .. Len(free_list)
      BY <1>1 DEF TypeOK
    <2>2. Popped(1) \in Seq(Blocks) /\ Taken(1) \in Seq(Blocks)
      BY <2>1, PopProperties DEF TypeOK
    <2>3. free_list' \in Seq(Blocks)
      BY <1>1, <2>2 DEF Alloc
    <2>4. Live' = Live \cup {next_id}
      BY <1>1 DEF Alloc, Live
    <2>5. Live' \subseteq 0 .. next_id' - 1 /\ next_id' \in Nat
      <3>1. next_id \in Nat /\ Live \subseteq 0 .. next_id - 1 /\ next_id' = next_id + 1
        BY DEF TypeOK, Alloc
      <3>. QED  BY <2>4, <3>1
    <2>6. sequences' \in [Live' -> [block_table : Seq(Blocks),
                                    last_block_fill : 0 .. BlockSize,
                                    current_len : Nat]]
      BY <1>1, <2>2, <2>4, CacheAssumption DEF TypeOK, Alloc
    <2>7. written' \in [Live' -> [Layers -> Nat]]
      BY <1>1, <2>4 DEF TypeOK, Alloc
    <2>8. UNCHANGED <<store, broken>> /\ broken' \subseteq Live'
      BY <2>4 DEF TypeOK, Alloc
    <2>. QED  BY <2>3, <2>5, <2>6, <2>7, <2>8, Zenon DEF TypeOK
  <1>2. CASE free_list = <<>>
    BY <1>2 DEF TypeOK, Alloc, Live
  <1>. QED  BY <1>1, <1>2

LEMMA StoreAfterType ==
  ASSUME store \in Stores, NEW h \in Nat, NEW table, NEW layer,
         NEW ps \in SUBSET Nat
  PROVE  StoreAfter(h, table, layer, ps) \in Stores
  <1>1. ASSUME NEW c \in Layers \X Blocks \X Rows
        PROVE  (IF \E p \in ps : Cell(table, layer, p) = c
                THEN Row(h, CHOOSE p \in ps : Cell(table, layer, p) = c)
                ELSE store[c]) \in Contents
    <2>1. CASE \E p \in ps : Cell(table, layer, p) = c
      <3>1. (CHOOSE p \in ps : Cell(table, layer, p) = c) \in Nat
        BY <2>1, Zenon
      <3>. QED  BY <2>1, <3>1 DEF Row, Contents
    <2>2. CASE ~ \E p \in ps : Cell(table, layer, p) = c
      BY <2>2 DEF Stores
    <2>. QED  BY <2>1, <2>2
  <1>2. DOMAIN store = Layers \X Blocks \X Rows
    BY DEF Stores
  <1>. QED  BY <1>1, <1>2 DEF StoreAfter, Stores

LEMMA WriteType ==
  ASSUME TypeOK, NEW h \in Live, NEW table, NEW layer \in Layers,
         NEW lo \in Nat, NEW hi \in Nat,
         WriteOk(h, table, layer, lo, hi) \/ WriteFails(h, table, layer, lo, hi)
  PROVE  /\ store' \in Stores
         /\ written' \in [Live -> [Layers -> Nat]]
         /\ broken' \subseteq Live
  <1>0. h \in Nat /\ store \in Stores
    BY DEF TypeOK, Stores, Contents
  <1>1. CASE WriteOk(h, table, layer, lo, hi)
    <2>1. lo .. hi - 1 \in SUBSET Nat
      OBVIOUS
    <2>2. store' \in Stores
      BY <1>0, <1>1, <2>1, StoreAfterType DEF WriteOk
    <2>. QED  BY <1>1, <2>2 DEF WriteOk, TypeOK
  <1>2. CASE WriteFails(h, table, layer, lo, hi)
    <2>1. PICK p \in ChunkStarts(lo, hi), k_copied \in BOOLEAN :
            store' = [c \in DOMAIN store |->
                        IF k_copied
                           /\ c \in {Cell(table, layer, q) : q \in ChunkOf(p, hi)}
                        THEN KeysOnly
                        ELSE StoreAfter(h, table, layer, lo .. p - 1)[c]]
      BY <1>2 DEF WriteFails
    <2>2. lo .. p - 1 \in SUBSET Nat
      BY DEF ChunkStarts
    <2>3. StoreAfter(h, table, layer, lo .. p - 1) \in Stores
      BY <1>0, <2>2, StoreAfterType, Zenon
    <2>4. store' \in Stores
      BY <1>0, <2>1, <2>3 DEF Stores, Contents
    <2>. QED  BY <1>2, <2>4, Zenon DEF WriteFails, TypeOK
  <1>. QED  BY <1>1, <1>2

LEMMA TypeGrown ==
  ASSUME TypeOK, NEW h \in Live, NEW n \in Nat, AppendGrown(h, n)
  PROVE  TypeOK'
  <1>. DEFINE s == sequences[h]
              k == NewBlocks(s.last_block_fill, n)
              table == s.block_table \o Taken(k)
  <1>1. /\ s.block_table \in Seq(Blocks)
        /\ s.last_block_fill \in 0 .. BlockSize
        /\ s.current_len \in Nat
        /\ Len(free_list) \in Nat
        /\ free_list \in Seq(Blocks)
    BY DEF TypeOK
  <1>2. k \in Nat /\ NewFill(s.last_block_fill, n) \in 0 .. BlockSize
    BY <1>1, GrowthBounds, Zenon
  <1>3. /\ k <= Len(free_list)
        /\ free_list' = Popped(k)
        /\ next_id' = next_id
        /\ sequences' = [sequences EXCEPT ![h] =
             [block_table |-> table,
              last_block_fill |-> NewFill(s.last_block_fill, n),
              current_len |-> s.current_len + n]]
        /\ \/ WriteOk(h, table, 0, s.current_len, s.current_len + n)
           \/ WriteFails(h, table, 0, s.current_len, s.current_len + n)
    BY DEF AppendGrown
  <1>4. k \in 0 .. Len(free_list)
    BY <1>1, <1>2, <1>3
  <1>5. Popped(k) \in Seq(Blocks) /\ table \in Seq(Blocks)
    BY <1>1, <1>4, PopProperties, GrownTable
  <1>6. 0 \in Layers /\ s.current_len + n \in Nat
    BY <1>1, CacheAssumption DEF Layers
  <1>. HIDE DEF table, k
  <1>7. /\ store' \in Stores
        /\ written' \in [Live -> [Layers -> Nat]]
        /\ broken' \subseteq Live
    BY <1>1, <1>3, <1>6, WriteType, Zenon
  <1>8. Live' = Live
    BY <1>3 DEF Live
  <1>9. sequences' \in [Live -> [block_table : Seq(Blocks),
                                 last_block_fill : 0 .. BlockSize,
                                 current_len : Nat]]
    BY <1>2, <1>3, <1>5, <1>6 DEF TypeOK
  <1>. QED  BY <1>3, <1>5, <1>7, <1>8, <1>9, SMTT(60) DEF TypeOK, Stores, Contents

LEMMA TypeOom ==
  ASSUME TypeOK, NEW h \in Live, NEW n \in Nat, AppendOom(h, n)
  PROVE  TypeOK'
  <1>. DEFINE table == sequences[h].block_table \o Taken(Len(free_list))
  <1>1. /\ sequences[h].block_table \in Seq(Blocks)
        /\ free_list \in Seq(Blocks)
        /\ Len(free_list) \in 0 .. Len(free_list)
    BY DEF TypeOK
  <1>2. Popped(Len(free_list)) \in Seq(Blocks) /\ table \in Seq(Blocks)
    BY <1>1, PopProperties, GrownTable, Zenon
  <1>3. sequences' = [sequences EXCEPT ![h].block_table = table]
    BY DEF AppendOom
  <1>. HIDE DEF table
  <1>4. Live' = Live
    BY <1>3 DEF Live
  <1>5. sequences' \in [Live -> [block_table : Seq(Blocks),
                                 last_block_fill : 0 .. BlockSize,
                                 current_len : Nat]]
    BY <1>2, <1>3, Zenon DEF TypeOK
  <1>. QED  BY <1>2, <1>4, <1>5, SMTT(60) DEF TypeOK, AppendOom

LEMMA TypeNextLayer ==
  ASSUME TypeOK, NEW h \in Live, NEW layer \in Layers,
         NEW n \in 0 .. sequences[h].current_len, AppendNextLayer(h, layer, n)
  PROVE  TypeOK'
  <1>1. sequences[h].current_len \in Nat /\ sequences[h].current_len - n \in Nat
    BY DEF TypeOK
  <1>2. /\ store' \in Stores
        /\ written' \in [Live -> [Layers -> Nat]]
        /\ broken' \subseteq Live
    BY <1>1, WriteType, Zenon DEF AppendNextLayer
  <1>. QED  BY <1>2 DEF AppendNextLayer, TypeOK, Live, Stores, Contents

LEMMA TypeFree ==
  ASSUME TypeOK, NEW h \in Live, Free(h)
  PROVE  TypeOK'
  <1>1. sequences[h].block_table \in Seq(Blocks)
    BY DEF TypeOK
  <1>2. free_list' \in Seq(Blocks)
    BY <1>1 DEF Free, TypeOK
  <1>3. Live' = Live \ {h}
    BY DEF Free, Live
  <1>. QED  BY <1>2, <1>3 DEF Free, TypeOK

LEMMA TypeNext == TypeOK /\ [Next]_vars => TypeOK'
  <1>. SUFFICES ASSUME TypeOK, [Next]_vars PROVE TypeOK'
    OBVIOUS
  <1>1. CASE Alloc
    BY <1>1, TypeAlloc
  <1>2. ASSUME NEW h \in Live, NEW n \in 1 .. MaxAppend, CallFirstLayer(h, n)
        PROVE  TypeOK'
    <2>1. n \in Nat
      BY CacheAssumption
    <2>. QED  BY <1>2, <2>1, TypeGrown, TypeOom DEF CallFirstLayer
  <1>3. ASSUME NEW h \in Live, NEW layer \in Layers \ {0}, CallNextLayer(h, layer)
        PROVE  TypeOK'
    <2>1. sequences[h].current_len - written[h][layer] \in 0 .. sequences[h].current_len
      BY <1>3 DEF CallNextLayer, TypeOK
    <2>. QED  BY <1>3, <2>1, TypeNextLayer DEF CallNextLayer
  <1>4. ASSUME NEW h \in Live, Free(h) PROVE TypeOK'
    BY <1>4, TypeFree
  <1>5. CASE UNCHANGED vars
    BY <1>5 DEF vars, TypeOK, Live
  <1>. QED  BY <1>1, <1>2, <1>3, <1>4, <1>5 DEF Next

(* Type correctness of the manager: block ids stay ids of the pool and     *)
(* fills stay within a block, through every alloc, append, error and free. *)
THEOREM TypeCorrect == Spec => []TypeOK
  BY TypeInit, TypeNext, PTL DEF Spec

-----------------------------------------------------------------------------
(* Every block is in one place, one lemma per way blocks move.             *)

LEMMA PartitionInit == Init => BlocksPartitioned
  <1>. SUFFICES ASSUME Init PROVE BlocksPartitioned
    OBVIOUS
  <1>1. Live = {}
    BY DEF Init, Live
  <1>2. /\ DOMAIN free_list = 1 .. NumBlocks
        /\ \A i \in 1 .. NumBlocks : free_list[i] = NumBlocks - i
    BY DEF Init
  <1>3. FreeListDistinct
    BY <1>2, CacheAssumption DEF FreeListDistinct
  <1>4. NoneLost
    <2>. SUFFICES ASSUME NEW b \in Blocks
                  PROVE  \E i \in DOMAIN free_list : free_list[i] = b
      BY DEF NoneLost
    <2>1. NumBlocks - b \in 1 .. NumBlocks /\ NumBlocks - (NumBlocks - b) = b
      BY CacheAssumption DEF Blocks
    <2>. QED  BY <1>2, <2>1
  <1>. QED  BY <1>1, <1>3, <1>4 DEF BlocksPartitioned, OwnedOnce, NotFreeWhileOwned

(* k blocks move from the top of the free list to the end of one table,    *)
(* which is empty before when the sequence is new.                         *)
LEMMA PartitionGrow ==
  ASSUME TypeOK, TypeOK', BlocksPartitioned,
         NEW h \in Live', NEW k \in 0 .. Len(free_list),
         NEW t \in Seq(Blocks),
         IF h \in Live THEN t = Table(h) ELSE t = <<>>,
         Live' = Live \cup {h},
         free_list' = Popped(k),
         Table(h)' = t \o Taken(k),
         \A g \in Live \ {h} : Table(g)' = Table(g)
  PROVE  BlocksPartitioned'
  <1>. DEFINE f == Len(free_list)
  <1>1. /\ f \in Nat
        /\ k \in 0 .. f
        /\ DOMAIN free_list = 1 .. f
        /\ DOMAIN free_list' = 1 .. f - k
        /\ \A i \in 1 .. f - k : free_list'[i] = free_list[i]
    BY PopProperties, SeqFacts, ZenonT(60) DEF TypeOK
  <1>2. /\ Len(t) \in Nat
        /\ DOMAIN t = 1 .. Len(t)
        /\ DOMAIN Table(h)' = 1 .. Len(t) + k
        /\ \A i \in 1 .. Len(t) : Table(h)'[i] = t[i]
        /\ \A i \in 1 .. k : Table(h)'[Len(t) + i] = free_list[f + 1 - i]
    <2>1. free_list \in Seq(Blocks)
      BY DEF TypeOK
    <2>2. /\ t \o Taken(k) \in Seq(Blocks)
          /\ Len(t \o Taken(k)) = Len(t) + k
          /\ \A i \in 1 .. Len(t) : (t \o Taken(k))[i] = t[i]
          /\ \A i \in 1 .. k :
               (t \o Taken(k))[Len(t) + i] = free_list[Len(free_list) + 1 - i]
      BY <2>1, GrownTable, Zenon
    <2>3. DOMAIN Table(h)' = 1 .. Len(t) + k
      BY <2>2, SeqFacts
    <2>4. Len(t) \in Nat /\ DOMAIN t = 1 .. Len(t)
      BY SeqFacts
    <2>. QED  BY <2>2, <2>3, <2>4, Zenon
  <1>. DEFINE from(i) == f + 1 - (i - Len(t))
  <1>3. ASSUME NEW i \in DOMAIN Table(h)'
        PROVE  \/ i \in DOMAIN t /\ Table(h)'[i] = t[i]
               \/ /\ i \in Len(t) + 1 .. Len(t) + k
                  /\ from(i) \in DOMAIN free_list
                  /\ from(i) > f - k
                  /\ Table(h)'[i] = free_list[from(i)]
    <2>1. CASE i <= Len(t)
      BY <1>2, <2>1
    <2>2. CASE i > Len(t)
      <3>1. i - Len(t) \in 1 .. k /\ Len(t) + (i - Len(t)) = i
        BY <1>2, <2>2
      <3>2. Table(h)'[Len(t) + (i - Len(t))] = free_list[f + 1 - (i - Len(t))]
        BY <1>2, <3>1, SMTT(60)
      <3>3. from(i) \in DOMAIN free_list /\ from(i) > f - k
        BY <1>1, <3>1
      <3>4. i \in Len(t) + 1 .. Len(t) + k
        BY <1>2, <2>2
      <3>5. Table(h)'[i] = free_list[from(i)]
        BY <3>1, <3>2
      <3>. QED  BY <3>3, <3>4, <3>5
    <2>. QED  BY <1>2, <2>1, <2>2, SMTT(60)
  <1>30. \A i, j \in Len(t) + 1 .. Len(t) + k : from(i) = from(j) => i = j
    BY <1>1, <1>2
  <1>. HIDE DEF f, from
  <1>4. FreeListDistinct'
    BY <1>1, SMTT(60) DEF BlocksPartitioned, FreeListDistinct
  <1>5. NotFreeWhileOwned'
    <2>. SUFFICES ASSUME NEW g \in Live', NEW i \in DOMAIN Table(g)',
                         NEW j \in DOMAIN free_list'
                  PROVE  Table(g)'[i] # free_list'[j]
      BY DEF NotFreeWhileOwned
    <2>1. j \in DOMAIN free_list /\ free_list'[j] = free_list[j] /\ j <= f - k
      BY <1>1
    <2>2. CASE g # h
      BY <2>1, <2>2 DEF BlocksPartitioned, NotFreeWhileOwned
    <2>3. CASE g = h /\ i \in DOMAIN t /\ Table(h)'[i] = t[i]
      <3>1. h \in Live /\ t = Table(h)
        BY <1>2, <2>3
      <3>. QED  BY <2>1, <2>3, <3>1 DEF BlocksPartitioned, NotFreeWhileOwned
    <2>4. CASE /\ g = h
               /\ from(i) \in DOMAIN free_list /\ from(i) > f - k
               /\ Table(h)'[i] = free_list[from(i)]
      BY <1>1, <2>1, <2>4 DEF BlocksPartitioned, FreeListDistinct
    <2>. QED  BY <1>3, <2>2, <2>3, <2>4
  <1>6. OwnedOnce'
    <2>. SUFFICES ASSUME NEW g \in Live', NEW d \in Live',
                         NEW i \in DOMAIN Table(g)', NEW j \in DOMAIN Table(d)',
                         Table(g)'[i] = Table(d)'[j]
                  PROVE  g = d /\ i = j
      BY DEF OwnedOnce
    <2>1. ASSUME NEW a \in Live', NEW m \in DOMAIN Table(a)'
          PROVE  \/ /\ a \in Live
                    /\ m \in DOMAIN Table(a)
                    /\ Table(a)'[m] = Table(a)[m]
                 \/ /\ a = h
                    /\ m \in Len(t) + 1 .. Len(t) + k
                    /\ from(m) \in DOMAIN free_list
                    /\ Table(a)'[m] = free_list[from(m)]
      <3>1. CASE a # h
        BY <3>1
      <3>2. CASE a = h /\ m \in DOMAIN t /\ Table(h)'[m] = t[m]
        BY <1>2, <3>2
      <3>. QED  BY <1>3, <3>1, <3>2
    <2>2. CASE /\ g \in Live /\ i \in DOMAIN Table(g) /\ Table(g)'[i] = Table(g)[i]
               /\ d \in Live /\ j \in DOMAIN Table(d) /\ Table(d)'[j] = Table(d)[j]
      <3>1. Table(g)[i] = Table(d)[j]
        BY <2>2, Zenon
      <3>2. \A a, c \in Live : \A m \in DOMAIN Table(a), l \in DOMAIN Table(c) :
              Table(a)[m] = Table(c)[l] => a = c /\ m = l
        BY DEF BlocksPartitioned, OwnedOnce
      <3>. QED  BY <2>2, <3>1, <3>2
    <2>3. CASE /\ g \in Live /\ i \in DOMAIN Table(g) /\ Table(g)'[i] = Table(g)[i]
               /\ from(j) \in DOMAIN free_list
               /\ Table(d)'[j] = free_list[from(j)]
      <3>1. Table(g)[i] # free_list[from(j)]
        BY <2>3 DEF BlocksPartitioned, NotFreeWhileOwned
      <3>. QED  BY <2>3, <3>1, Zenon
    <2>4. CASE /\ d \in Live /\ j \in DOMAIN Table(d) /\ Table(d)'[j] = Table(d)[j]
               /\ from(i) \in DOMAIN free_list
               /\ Table(g)'[i] = free_list[from(i)]
      BY <2>4, Zenon DEF BlocksPartitioned, NotFreeWhileOwned
    <2>5. CASE /\ g = h /\ d = h
               /\ i \in Len(t) + 1 .. Len(t) + k
               /\ j \in Len(t) + 1 .. Len(t) + k
               /\ from(i) \in DOMAIN free_list
               /\ from(j) \in DOMAIN free_list
               /\ Table(g)'[i] = free_list[from(i)]
               /\ Table(d)'[j] = free_list[from(j)]
      BY <1>30, <2>5, Zenon DEF BlocksPartitioned, FreeListDistinct
    <2>. QED  BY <2>1, <2>2, <2>3, <2>4, <2>5
  <1>7. NoneLost'
    <2>. SUFFICES ASSUME NEW b \in Blocks
                  PROVE  \/ \E i \in DOMAIN free_list' : free_list'[i] = b
                         \/ \E g \in Live' : \E i \in DOMAIN Table(g)' : Table(g)'[i] = b
      BY DEF NoneLost
    <2>1. CASE \E i \in DOMAIN free_list : free_list[i] = b
      <3>1. PICK i \in 1 .. f : free_list[i] = b
        BY <1>1, <2>1
      <3>2. CASE i <= f - k
        BY <1>1, <3>1, <3>2
      <3>3. CASE i > f - k
        <4>1. /\ f + 1 - i \in 1 .. k
              /\ f + 1 - (f + 1 - i) = i
              /\ Len(t) + (f + 1 - i) \in 1 .. Len(t) + k
          BY <1>1, <1>2, <3>3
        <4>2. Table(h)'[Len(t) + (f + 1 - i)] = free_list[f + 1 - (f + 1 - i)]
          BY <1>2, <4>1, Zenon DEF f
        <4>3. Table(h)'[Len(t) + (f + 1 - i)] = b
          BY <3>1, <4>1, <4>2
        <4>4. Len(t) + (f + 1 - i) \in DOMAIN Table(h)'
          BY <1>2, <4>1
        <4>. QED  BY <4>3, <4>4
      <3>. QED  BY <1>1, <3>2, <3>3
    <2>2. CASE \E g \in Live : \E i \in DOMAIN Table(g) : Table(g)[i] = b
      <3>0. PICK g \in Live : \E i \in DOMAIN Table(g) : Table(g)[i] = b
        BY <2>2
      <3>1. PICK i \in DOMAIN Table(g) : Table(g)[i] = b
        BY <3>0
      <3>2. CASE g # h
        BY <3>1, <3>2
      <3>3. CASE g = h
        <4>1. i \in 1 .. Len(t) /\ i \in 1 .. Len(t) + k /\ t[i] = b
          BY <1>2, <3>1, <3>3
        <4>. QED  BY <1>2, <4>1
      <3>. QED  BY <3>2, <3>3
    <2>. QED  BY <2>1, <2>2 DEF BlocksPartitioned, NoneLost
  <1>. QED  BY <1>4, <1>5, <1>6, <1>7 DEF BlocksPartitioned

LEMMA PartitionAlloc ==
  ASSUME TypeOK, BlocksPartitioned, Alloc
  PROVE  BlocksPartitioned'
  <1>0. TypeOK'
    BY TypeAlloc
  <1>1. CASE free_list # <<>>
    <2>1. /\ Len(free_list) \in Nat
          /\ 1 \in 0 .. Len(free_list)
          /\ free_list \in Seq(Blocks)
          /\ next_id \notin Live
      BY <1>1 DEF TypeOK
    <2>0. PICK id \in Nat : id = next_id
      BY DEF TypeOK
    <2>2. /\ Live' = Live \cup {id}
          /\ free_list' = Popped(1)
          /\ Table(id)' = Taken(1)
          /\ \A g \in Live \ {id} : Table(g)' = Table(g)
      BY <1>1, <2>0, <2>1 DEF Alloc, Live, Table
    <2>3. Taken(1) \in Seq(Blocks)
      BY <2>1, PopProperties
    <2>4. \A u \in Seq(Blocks) : <<>> \o u = u /\ <<>> \in Seq(Blocks)
      OBVIOUS
    <2>5. Table(id)' = <<>> \o Taken(1) /\ <<>> \in Seq(Blocks)
      BY <2>2, <2>3, <2>4
    <2>6. id \in Live' /\ id \notin Live
      BY <2>0, <2>1, <2>2
    <2>. QED  BY <1>0, <2>1, <2>2, <2>5, <2>6, PartitionGrow, Zenon
  <1>2. CASE free_list = <<>>
    BY <1>2 DEF Alloc, BlocksPartitioned, FreeListDistinct, OwnedOnce,
                NotFreeWhileOwned, NoneLost, Live, Table
  <1>. QED  BY <1>1, <1>2

LEMMA PartitionGrown ==
  ASSUME TypeOK, BlocksPartitioned, NEW h \in Live, NEW n \in Nat,
         AppendGrown(h, n)
  PROVE  BlocksPartitioned'
  <1>. DEFINE k == NewBlocks(sequences[h].last_block_fill, n)
  <1>0. TypeOK'
    BY TypeGrown
  <1>1. /\ sequences[h].last_block_fill \in 0 .. BlockSize
        /\ Table(h) \in Seq(Blocks)
        /\ Len(free_list) \in Nat
    BY DEF TypeOK, Table
  <1>2. k \in Nat
    BY <1>1, GrowthBounds, Zenon
  <1>3. k \in 0 .. Len(free_list) /\ free_list' = Popped(k)
    BY <1>1, <1>2, SMTT(60) DEF AppendGrown
  <1>4. sequences' = [sequences EXCEPT ![h] =
             [block_table |-> Table(h) \o Taken(k),
              last_block_fill |-> NewFill(sequences[h].last_block_fill, n),
              current_len |-> sequences[h].current_len + n]]
    BY DEF AppendGrown, Table
  <1>. HIDE DEF k
  <1>5. /\ Live' = Live \cup {h}
        /\ Table(h)' = Table(h) \o Taken(k)
        /\ \A g \in Live \ {h} : Table(g)' = Table(g)
    BY <1>4, Zenon DEF Live, Table, TypeOK
  <1>. QED  BY <1>0, <1>1, <1>3, <1>5, PartitionGrow, Zenon

LEMMA PartitionOom ==
  ASSUME TypeOK, BlocksPartitioned, NEW h \in Live, NEW n \in Nat,
         AppendOom(h, n)
  PROVE  BlocksPartitioned'
  <1>0. TypeOK'
    BY TypeOom
  <1>1. /\ Table(h) \in Seq(Blocks)
        /\ Len(free_list) \in 0 .. Len(free_list)
        /\ free_list' = Popped(Len(free_list))
    BY DEF TypeOK, Table, AppendOom
  <1>2. /\ Live' = Live \cup {h}
        /\ Table(h)' = Table(h) \o Taken(Len(free_list))
        /\ \A g \in Live \ {h} : Table(g)' = Table(g)
    BY Zenon DEF Live, Table, TypeOK, AppendOom
  <1>. QED  BY <1>0, <1>1, <1>2, PartitionGrow, Zenon

LEMMA PartitionFree ==
  ASSUME TypeOK, BlocksPartitioned, NEW h \in Live, Free(h)
  PROVE  BlocksPartitioned'
  <1>. DEFINE f == Len(free_list)
              t == Table(h)
  <1>1. /\ free_list \in Seq(Blocks)
        /\ t \in Seq(Blocks)
        /\ free_list' = free_list \o t
        /\ Live' = Live \ {h}
        /\ \A g \in Live' : Table(g)' = Table(g)
    BY DEF TypeOK, Table, Live, Free
  <1>2. /\ f \in Nat /\ DOMAIN free_list = 1 .. f
        /\ Len(t) \in Nat /\ DOMAIN t = 1 .. Len(t)
    BY <1>1, SeqFacts
  <1>3. /\ DOMAIN free_list' = 1 .. f + Len(t)
        /\ \A i \in 1 .. f : free_list'[i] = free_list[i]
        /\ \A i \in 1 .. Len(t) : free_list'[f + i] = t[i]
    BY <1>1, ConcatFacts, SeqFacts
  <1>4. ASSUME NEW i \in DOMAIN free_list'
        PROVE  \/ i \in DOMAIN free_list /\ free_list'[i] = free_list[i]
               \/ i - f \in DOMAIN t /\ free_list'[i] = t[i - f] /\ i > f
    <2>1. CASE i <= f
      BY <1>2, <1>3, <2>1
    <2>2. CASE i > f
      <3>1. i - f \in 1 .. Len(t) /\ f + (i - f) = i
        BY <1>2, <1>3, <2>2
      <3>. QED  BY <1>2, <1>3, <2>2, <3>1
    <2>. QED  BY <1>2, <1>3, <2>1, <2>2
  <1>. HIDE DEF f, t
  <1>5. FreeListDistinct'
    <2>. SUFFICES ASSUME NEW i \in DOMAIN free_list', NEW j \in DOMAIN free_list',
                         free_list'[i] = free_list'[j]
                  PROVE  i = j
      BY DEF FreeListDistinct
    <2>1. CASE /\ i \in DOMAIN free_list /\ free_list'[i] = free_list[i]
               /\ j \in DOMAIN free_list /\ free_list'[j] = free_list[j]
      BY <2>1, Zenon DEF BlocksPartitioned, FreeListDistinct
    <2>2. CASE /\ i \in DOMAIN free_list /\ free_list'[i] = free_list[i]
               /\ j - f \in DOMAIN t /\ free_list'[j] = t[j - f]
      BY <2>2, Zenon DEF BlocksPartitioned, NotFreeWhileOwned, t
    <2>3. CASE /\ j \in DOMAIN free_list /\ free_list'[j] = free_list[j]
               /\ i - f \in DOMAIN t /\ free_list'[i] = t[i - f]
      BY <2>3, Zenon DEF BlocksPartitioned, NotFreeWhileOwned, t
    <2>4. CASE /\ i - f \in DOMAIN t /\ free_list'[i] = t[i - f]
               /\ j - f \in DOMAIN t /\ free_list'[j] = t[j - f]
      <3>0. \A m, l \in DOMAIN t : t[m] = t[l] => m = l
        BY DEF BlocksPartitioned, OwnedOnce, t
      <3>1. i - f = j - f
        BY <2>4, <3>0, Zenon
      <3>. QED  BY <1>2, <1>3, <3>1
    <2>. QED  BY <1>4, <2>1, <2>2, <2>3, <2>4
  <1>6. NotFreeWhileOwned'
    <2>. SUFFICES ASSUME NEW g \in Live', NEW i \in DOMAIN Table(g)',
                         NEW j \in DOMAIN free_list'
                  PROVE  Table(g)'[i] # free_list'[j]
      BY DEF NotFreeWhileOwned
    <2>1. g \in Live /\ g # h /\ i \in DOMAIN Table(g) /\ Table(g)'[i] = Table(g)[i]
      BY <1>1
    <2>2. CASE j \in DOMAIN free_list /\ free_list'[j] = free_list[j]
      BY <2>1, <2>2 DEF BlocksPartitioned, NotFreeWhileOwned
    <2>3. CASE j - f \in DOMAIN t /\ free_list'[j] = t[j - f]
      <3>1. Table(g)[i] # Table(h)[j - f]
        BY <2>1, <2>3 DEF BlocksPartitioned, OwnedOnce, t
      <3>. QED  BY <2>1, <2>3, <3>1 DEF t
    <2>. QED  BY <1>4, <2>2, <2>3
  <1>7. OwnedOnce'
    BY <1>1 DEF BlocksPartitioned, OwnedOnce
  <1>8. NoneLost'
    <2>. SUFFICES ASSUME NEW b \in Blocks
                  PROVE  \/ \E i \in DOMAIN free_list' : free_list'[i] = b
                         \/ \E g \in Live' : \E i \in DOMAIN Table(g)' : Table(g)'[i] = b
      BY DEF NoneLost
    <2>1. CASE \E i \in DOMAIN free_list : free_list[i] = b
      BY <1>2, <1>3, <2>1
    <2>2. CASE \E g \in Live : \E i \in DOMAIN Table(g) : Table(g)[i] = b
      <3>1. PICK g \in Live : \E i \in DOMAIN Table(g) : Table(g)[i] = b
        BY <2>2
      <3>2. CASE g # h
        BY <1>1, <3>1, <3>2
      <3>3. CASE g = h
        <4>1. PICK i \in 1 .. Len(t) : t[i] = b
          BY <1>2, <3>1, <3>3 DEF t
        <4>2. f + i \in DOMAIN free_list' /\ free_list'[f + i] = b
          BY <1>2, <1>3, <4>1
        <4>. QED  BY <4>2
      <3>. QED  BY <3>2, <3>3
    <2>. QED  BY <2>1, <2>2 DEF BlocksPartitioned, NoneLost
  <1>. QED  BY <1>5, <1>6, <1>7, <1>8 DEF BlocksPartitioned

LEMMA PartitionNext ==
  ASSUME TypeOK, BlocksPartitioned, [Next]_vars
  PROVE  BlocksPartitioned'
  <1>1. CASE Alloc
    BY <1>1, PartitionAlloc
  <1>2. ASSUME NEW h \in Live, NEW n \in 1 .. MaxAppend, CallFirstLayer(h, n)
        PROVE  BlocksPartitioned'
    <2>1. n \in Nat
      BY CacheAssumption, SMTT(60)
    <2>. QED  BY <1>2, <2>1, PartitionGrown, PartitionOom DEF CallFirstLayer
  <1>3. ASSUME UNCHANGED <<free_list, sequences>>
        PROVE  BlocksPartitioned'
    BY <1>3 DEF BlocksPartitioned, FreeListDistinct, OwnedOnce,
                NotFreeWhileOwned, NoneLost, Live, Table
  <1>4. ASSUME NEW h \in Live, NEW layer \in Layers \ {0}, CallNextLayer(h, layer)
        PROVE  BlocksPartitioned'
    BY <1>3, <1>4 DEF CallNextLayer, AppendNextLayer
  <1>5. ASSUME NEW h \in Live, Free(h) PROVE BlocksPartitioned'
    BY <1>5, PartitionFree
  <1>6. CASE UNCHANGED vars
    BY <1>3, <1>6 DEF vars
  <1>. QED  BY <1>1, <1>2, <1>4, <1>5, <1>6 DEF Next

(* No block is lost, doubly freed or shared by two sequences, whatever     *)
(* sequence of allocs, appends, out-of-memory errors, failed copies and    *)
(* frees the manager goes through, and for every size of pool and block.   *)
THEOREM BlocksPartitionedCorrect == Spec => []BlocksPartitioned
  <1>1. Init => TypeOK /\ BlocksPartitioned
    BY TypeInit, PartitionInit
  <1>2. TypeOK /\ BlocksPartitioned /\ [Next]_vars => (TypeOK /\ BlocksPartitioned)'
    BY TypeNext, PartitionNext
  <1>. QED  BY <1>1, <1>2, PTL DEF Spec

-----------------------------------------------------------------------------
(* Arithmetic of positions, blocks and rows.                               *)

LEMMA DivUnique ==
  ASSUME NEW b \in Nat \ {0}, NEW q \in Nat, NEW r \in 0 .. b - 1
  PROVE  (b * q + r) \div b = q /\ (b * q + r) % b = r
  OBVIOUS

LEMMA DivInRange ==
  ASSUME NEW b \in Nat \ {0}, NEW m \in Nat, NEW p \in Nat, p < b * m
  PROVE  p \div b + 1 \in 1 .. m /\ p % b \in 0 .. b - 1
  OBVIOUS

LEMMA TimesMonotone ==
  ASSUME NEW b \in Nat, NEW x \in Nat, NEW y \in Nat, x <= y
  PROVE  b * x \in Nat /\ b * y \in Nat /\ b * x <= b * y
  <1>1. y - x \in Nat /\ b * (y - x) \in Nat /\ b * y = b * x + b * (y - x)
    OBVIOUS
  <1>. QED  BY <1>1

(* A length that ends r rows into block number q (from 0) takes q + 1      *)
(* blocks.                                                                 *)
LEMMA BlocksForLength ==
  ASSUME NEW q \in Nat, NEW r \in 1 .. BlockSize
  PROVE  BlocksFor(BlockSize * q + r) = q + 1
  <1>1. /\ BlockSize \in Nat \ {0}
        /\ BlockSize * q \in Nat
        /\ r - 1 \in 0 .. BlockSize - 1
        /\ q + 1 \in Nat
    BY CacheAssumption
  <1>2. (BlockSize * (q + 1) + (r - 1)) \div BlockSize = q + 1
    BY <1>1, DivUnique
  <1>3. BlockSize * q + r + BlockSize - 1 = BlockSize * (q + 1) + (r - 1)
    BY <1>1
  <1>. QED  BY <1>1, <1>2, <1>3 DEF BlocksFor

-----------------------------------------------------------------------------
(* The table, the fill and the length agree.                               *)

(* The agreement, for one sequence; exact when no append has failed.       *)
Agree(s, exact) ==
  LET used == BlocksFor(s.current_len)
  IN  /\ used <= Len(s.block_table)
      /\ exact => used = Len(s.block_table)
      /\ s.last_block_fill = s.current_len - BlockSize * (used - 1)

LEMMA TableMatchesLengthAlt ==
  TableMatchesLength <=> \A h \in Live : Agree(sequences[h], h \notin broken)
  BY DEF TableMatchesLength, Agree

(* Growth by n > 0 tokens lands n rows further with exactly the blocks.    *)
LEMMA GrowthArithmetic ==
  ASSUME NEW l \in Nat, NEW fill \in 0 .. BlockSize, NEW n \in Nat \ {0},
         NEW u \in Nat \ {0},
         fill = l - BlockSize * (u - 1)
  PROVE  LET k == NewBlocks(fill, n)
         IN  /\ BlocksFor(l + n) = u + k
             /\ NewFill(fill, n) = (l + n) - BlockSize * (u + k - 1)
  <1>. DEFINE k == NewBlocks(fill, n)
              r == NewFill(fill, n)
  <1>1. /\ BlockSize \in Nat \ {0}
        /\ k \in Nat
        /\ r \in 1 .. BlockSize
    BY GrowthBounds, CacheAssumption
  <1>2. r = fill + n - BlockSize * k
    BY DEF NewFill
  <1>. HIDE DEF k, r
  <1>3. l = BlockSize * (u - 1) + fill
    BY <1>1
  <1>4. u + k - 1 \in Nat
    BY <1>1
  <1>5. BlockSize * (u + k - 1) = BlockSize * (u - 1) + BlockSize * k
    BY <1>1
  <1>6. l + n = BlockSize * (u + k - 1) + r
    BY <1>1, <1>2, <1>3, <1>5
  <1>7. BlocksFor(l + n) = (u + k - 1) + 1
    BY <1>1, <1>4, <1>6, BlocksForLength
  <1>. QED  BY <1>1, <1>4, <1>6, <1>7 DEF k, r

LEMMA BlocksForPositive ==
  ASSUME NEW l \in Nat
  PROVE  BlocksFor(l) \in Nat \ {0} /\ l <= BlockSize * BlocksFor(l)
  <1>1. BlockSize \in Nat \ {0}
    BY CacheAssumption
  <1>2. CASE l = 0
    BY <1>1, <1>2 DEF BlocksFor
  <1>3. CASE l > 0
    <2>. DEFINE x == l + BlockSize - 1
    <2>1. x \in Nat /\ x >= BlockSize
      BY <1>1, <1>3
    <2>. HIDE DEF x
    <2>2. /\ x \div BlockSize \in Nat
          /\ x % BlockSize \in 0 .. BlockSize - 1
          /\ x = BlockSize * (x \div BlockSize) + (x % BlockSize)
      BY <1>1, <2>1, DivMod, Zenon
    <2>3. x \div BlockSize # 0
      BY <1>1, <2>1, <2>2
    <2>4. BlocksFor(l) = x \div BlockSize
      BY <1>3 DEF BlocksFor, x
    <2>5. l = x - (BlockSize - 1)
      BY <1>1 DEF x
    <2>. QED  BY <1>1, <2>1, <2>2, <2>3, <2>4, <2>5
  <1>. QED  BY <1>2, <1>3

LEMMA MatchInit == Init => TableMatchesLength
  BY DEF Init, TableMatchesLength, Live

LEMMA MatchAlloc ==
  ASSUME TypeOK, TableMatchesLength, Alloc
  PROVE  TableMatchesLength'
  <1>1. CASE free_list # <<>>
    <2>1. /\ free_list \in Seq(Blocks)
          /\ 1 \in 0 .. Len(free_list)
          /\ next_id \notin Live
          /\ next_id \notin broken
      BY <1>1 DEF TypeOK
    <2>2. Len(Taken(1)) = 1
      BY <2>1, PopProperties, Zenon
    <2>3. /\ Live' = Live \cup {next_id}
          /\ broken' = broken
          /\ sequences'[next_id] = [block_table |-> Taken(1),
                                    last_block_fill |-> 0, current_len |-> 0]
          /\ \A g \in Live : sequences'[g] = sequences[g]
      BY <1>1, <2>1 DEF Alloc, Live
    <2>4. Agree(sequences'[next_id], TRUE)
      BY <2>2, <2>3, CacheAssumption DEF Agree, BlocksFor
    <2>5. \A g \in Live : Agree(sequences'[g], g \notin broken')
      BY <2>3, TableMatchesLengthAlt
    <2>6. \A g \in Live' : Agree(sequences'[g], g \notin broken')
      BY <2>1, <2>3, <2>4, <2>5, Zenon
    <2>. QED  BY <2>6 DEF TableMatchesLength, Agree
  <1>2. CASE free_list = <<>>
    BY <1>2 DEF Alloc, TableMatchesLength, Live
  <1>. QED  BY <1>1, <1>2

(* After a write, only h may have become broken.                           *)
LEMMA WriteBreaks ==
  ASSUME NEW h, NEW table, NEW layer, NEW lo, NEW hi,
         WriteOk(h, table, layer, lo, hi) \/ WriteFails(h, table, layer, lo, hi)
  PROVE  broken' = broken \/ broken' = broken \cup {h}
  BY DEF WriteOk, WriteFails

LEMMA MatchGrown ==
  ASSUME TypeOK, TableMatchesLength, NEW h \in Live, NEW n \in Nat \ {0},
         h \notin broken, AppendGrown(h, n)
  PROVE  TableMatchesLength'
  <1>. DEFINE s == sequences[h]
              fill == s.last_block_fill
              l == s.current_len
              u == BlocksFor(l)
              k == NewBlocks(fill, n)
  <1>1. /\ s.block_table \in Seq(Blocks)
        /\ Len(s.block_table) \in Nat
        /\ fill \in 0 .. BlockSize
        /\ l \in Nat
        /\ free_list \in Seq(Blocks)
        /\ Len(free_list) \in Nat
    BY DEF TypeOK
  <1>2. Agree(s, TRUE)
    BY TableMatchesLengthAlt, Zenon
  <1>3. u = Len(s.block_table) /\ fill = l - BlockSize * (u - 1)
    BY <1>2 DEF Agree
  <1>4. u \in Nat \ {0}
    BY <1>1, BlocksForPositive, Zenon
  <1>5. k \in Nat
    BY <1>1, GrowthBounds, Zenon
  <1>6. k \in 0 .. Len(free_list)
    BY <1>1, <1>5 DEF AppendGrown
  <1>7. /\ BlocksFor(l + n) = u + k
        /\ NewFill(fill, n) = (l + n) - BlockSize * (u + k - 1)
    <2>. HIDE DEF fill, l, u
    <2>1. /\ fill \in 0 .. BlockSize /\ l \in Nat
          /\ u \in Nat \ {0} /\ fill = l - BlockSize * (u - 1)
      BY <1>1, <1>3, <1>4
    <2>. QED  BY <2>1, GrowthArithmetic
  <1>8. Len(s.block_table \o Taken(k)) = Len(s.block_table) + k
    BY <1>1, <1>6, GrownTable, Zenon
  <1>9. sequences' = [sequences EXCEPT ![h] =
             [block_table |-> s.block_table \o Taken(k),
              last_block_fill |-> NewFill(fill, n),
              current_len |-> l + n]]
    BY DEF AppendGrown
  <1>. HIDE DEF k, u
  <1>10. /\ Live' = Live
         /\ sequences'[h] = [block_table |-> s.block_table \o Taken(k),
                             last_block_fill |-> NewFill(fill, n),
                             current_len |-> l + n]
         /\ \A g \in Live \ {h} : sequences'[g] = sequences[g]
    BY <1>9 DEF Live, TypeOK
  <1>11. Agree(sequences'[h], TRUE)
    BY <1>3, <1>4, <1>5, <1>7, <1>8, <1>10, SMTT(60) DEF Agree
  <1>12. Agree(sequences'[h], h \notin broken')
    BY <1>11 DEF Agree
  <1>13. broken' = broken \/ broken' = broken \cup {h}
    BY WriteBreaks, SMTT(60) DEF AppendGrown
  <1>14. \A g \in Live \ {h} : Agree(sequences'[g], g \notin broken')
    BY <1>10, <1>13, TableMatchesLengthAlt, SMTT(60)
  <1>15. \A g \in Live' : Agree(sequences'[g], g \notin broken')
    BY <1>10, <1>12, <1>14
  <1>. QED  BY <1>15 DEF TableMatchesLength, Agree

LEMMA MatchOom ==
  ASSUME TypeOK, TableMatchesLength, NEW h \in Live, NEW n, AppendOom(h, n)
  PROVE  TableMatchesLength'
  <1>. DEFINE s == sequences[h]
              table == s.block_table \o Taken(Len(free_list))
  <1>1. /\ s.block_table \in Seq(Blocks)
        /\ Len(s.block_table) \in Nat
        /\ s.current_len \in Nat
        /\ free_list \in Seq(Blocks)
        /\ Len(free_list) \in 0 .. Len(free_list)
    BY DEF TypeOK
  <1>2. Len(table) = Len(s.block_table) + Len(free_list)
    BY <1>1, GrownTable, Zenon
  <1>3. sequences' = [sequences EXCEPT ![h].block_table = table]
        /\ broken' = broken \cup {h}
    BY DEF AppendOom
  <1>. HIDE DEF table
  <1>4. /\ Live' = Live
        /\ sequences'[h].block_table = table
        /\ sequences'[h].last_block_fill = s.last_block_fill
        /\ sequences'[h].current_len = s.current_len
        /\ \A g \in Live \ {h} : sequences'[g] = sequences[g]
    BY <1>3 DEF Live, TypeOK
  <1>5. Agree(s, FALSE)
    <2>1. Agree(s, h \notin broken)
      BY TableMatchesLengthAlt
    <2>. QED  BY <2>1 DEF Agree
  <1>6. BlocksFor(s.current_len) \in Nat
    BY <1>1, BlocksForPositive, Zenon
  <1>7. Agree(sequences'[h], h \notin broken')
    BY <1>1, <1>2, <1>3, <1>4, <1>5, <1>6 DEF Agree
  <1>8. \A g \in Live \ {h} : Agree(sequences'[g], g \notin broken')
    BY <1>3, <1>4, TableMatchesLengthAlt
  <1>9. \A g \in Live' : Agree(sequences'[g], g \notin broken')
    BY <1>4, <1>7, <1>8
  <1>. QED  BY <1>9 DEF TableMatchesLength, Agree

LEMMA MatchNext ==
  ASSUME TypeOK, TableMatchesLength, [Next]_vars
  PROVE  TableMatchesLength'
  <1>1. CASE Alloc
    BY <1>1, MatchAlloc
  <1>2. ASSUME NEW h \in Live, NEW n \in 1 .. MaxAppend, CallFirstLayer(h, n)
        PROVE  TableMatchesLength'
    <2>1. n \in Nat \ {0}
      BY CacheAssumption
    <2>. QED  BY <1>2, <2>1, MatchGrown, MatchOom DEF CallFirstLayer
  <1>3. ASSUME sequences' = sequences, broken \subseteq broken'
        PROVE  TableMatchesLength'
    BY <1>3, SMTT(60) DEF TableMatchesLength, Live
  <1>4. ASSUME NEW h \in Live, NEW layer \in Layers \ {0}, CallNextLayer(h, layer)
        PROVE  TableMatchesLength'
    BY <1>3, <1>4, WriteBreaks DEF CallNextLayer, AppendNextLayer
  <1>5. ASSUME NEW h \in Live, Free(h) PROVE TableMatchesLength'
    <2>1. /\ Live' = Live \ {h}
          /\ broken' = broken \ {h}
          /\ \A g \in Live' : sequences'[g] = sequences[g]
      BY <1>5 DEF Free, Live
    <2>2. \A g \in Live' : Agree(sequences'[g], g \notin broken')
      BY <2>1, TableMatchesLengthAlt
    <2>. QED  BY <2>2 DEF TableMatchesLength, Agree
  <1>6. CASE UNCHANGED vars
    BY <1>3, <1>6 DEF vars
  <1>. QED  BY <1>1, <1>2, <1>4, <1>5, <1>6 DEF Next

(* The write loop never indexes past the block table and the block table   *)
(* has no block more than the length needs, unless an append ran out of    *)
(* memory.                                                                 *)
THEOREM TableMatchesLengthCorrect == Spec => []TableMatchesLength
  <1>1. Init => TypeOK /\ TableMatchesLength
    BY TypeInit, MatchInit
  <1>2. TypeOK /\ TableMatchesLength /\ [Next]_vars => (TypeOK /\ TableMatchesLength)'
    BY TypeNext, MatchNext
  <1>. QED  BY <1>1, <1>2, PTL DEF Spec

(* After any sequence of alloc, append_kv and free, failed ones included,  *)
(* the free list and the tables of the live handles agree with each other  *)
(* and with the lengths.                                                   *)
THEOREM PoolConsistentCorrect == Spec => []PoolConsistent
  BY TypeCorrect, BlocksPartitionedCorrect, TableMatchesLengthCorrect, PTL DEF PoolConsistent

-----------------------------------------------------------------------------
(* What attention reads is what the sequence appended.                     *)

(* No layer holds more rows than the sequence has tokens.                  *)
WrittenBounded ==
  \A h \in Live, l \in Layers : written[h][l] <= sequences[h].current_len

(* The inductive invariant: rows can only be kept intact if no block is    *)
(* shared (BlocksPartitioned) and every position has a block of its own in *)
(* the table (TableMatchesLength).                                         *)
IInv == /\ TypeOK
        /\ BlocksPartitioned
        /\ TableMatchesLength
        /\ WrittenBounded
        /\ RowsIntact

(* Positions within a table of m blocks, and their cells.                  *)
LEMMA CellInRange ==
  ASSUME NEW t \in Seq(Blocks), NEW l \in Layers, NEW p \in Nat,
         p < BlockSize * Len(t)
  PROVE  /\ p \div BlockSize + 1 \in DOMAIN t
         /\ Cell(t, l, p) \in Layers \X Blocks \X Rows
  <1>1. BlockSize \in Nat \ {0} /\ Len(t) \in Nat /\ DOMAIN t = 1 .. Len(t)
    BY CacheAssumption
  <1>2. p \div BlockSize + 1 \in 1 .. Len(t) /\ p % BlockSize \in Rows
    BY <1>1, DivInRange, Zenon DEF Rows
  <1>. QED  BY <1>1, <1>2 DEF Cell

(* Positions with the same cell lie in the same block of their tables; at  *)
(* the same place of the table they are the same position.                 *)
LEMMA SameCell ==
  ASSUME NEW s \in Seq(Blocks), NEW t \in Seq(Blocks),
         NEW l \in Layers, NEW m \in Layers, NEW p \in Nat, NEW q \in Nat,
         p < BlockSize * Len(s), q < BlockSize * Len(t),
         Cell(s, l, p) = Cell(t, m, q)
  PROVE  /\ l = m
         /\ \E i \in DOMAIN s, j \in DOMAIN t :
              s[i] = t[j] /\ (i = j => p = q)
  <1>1. /\ p \div BlockSize + 1 \in DOMAIN s
        /\ q \div BlockSize + 1 \in DOMAIN t
    BY CellInRange
  <1>2. /\ l = m
        /\ s[p \div BlockSize + 1] = t[q \div BlockSize + 1]
        /\ p % BlockSize = q % BlockSize
    BY DEF Cell
  <1>3. /\ p = BlockSize * (p \div BlockSize) + (p % BlockSize)
        /\ q = BlockSize * (q \div BlockSize) + (q % BlockSize)
        /\ p \div BlockSize \in Nat /\ q \div BlockSize \in Nat
    BY DivMod, CacheAssumption, Zenon
  <1>4. p \div BlockSize + 1 = q \div BlockSize + 1 => p = q
    BY <1>2, <1>3
  <1>. QED  BY <1>1, <1>2, <1>4

(* A write touches only the cells of the positions lo .. hi - 1.           *)
LEMMA WriteFrame ==
  ASSUME TypeOK, NEW h \in Live, NEW table, NEW layer \in Layers,
         NEW lo \in Nat, NEW hi \in Nat,
         WriteOk(h, table, layer, lo, hi) \/ WriteFails(h, table, layer, lo, hi),
         NEW c \in Layers \X Blocks \X Rows,
         \A q \in lo .. hi - 1 : Cell(table, layer, q) # c
  PROVE  store'[c] = store[c]
  <1>0. DOMAIN store = Layers \X Blocks \X Rows
    BY DEF TypeOK
  <1>1. CASE WriteOk(h, table, layer, lo, hi)
    BY <1>0, <1>1, SMTT(60) DEF WriteOk, StoreAfter
  <1>2. CASE WriteFails(h, table, layer, lo, hi)
    <2>1. PICK p \in ChunkStarts(lo, hi), k_copied \in BOOLEAN :
            store' = [d \in DOMAIN store |->
                        IF k_copied
                           /\ d \in {Cell(table, layer, q) : q \in ChunkOf(p, hi)}
                        THEN KeysOnly
                        ELSE StoreAfter(h, table, layer, lo .. p - 1)[d]]
      BY <1>2 DEF WriteFails
    <2>2. p \in lo .. hi - 1 /\ lo .. p - 1 \subseteq lo .. hi - 1
          /\ ChunkOf(p, hi) \subseteq lo .. hi - 1
      BY DEF ChunkStarts, ChunkOf
    <2>3. c \notin {Cell(table, layer, q) : q \in ChunkOf(p, hi)}
      BY <2>2
    <2>4. StoreAfter(h, table, layer, lo .. p - 1)[c] = store[c]
      BY <1>0, <2>2, SMTT(60) DEF StoreAfter
    <2>. QED  BY <1>0, <2>1, <2>3, <2>4, SMTT(60)
  <1>. QED  BY <1>1, <1>2

(* Rows stay intact through a write at the end of one sequence, whose      *)
(* table may have grown.                                                   *)
LEMMA RowsAfterWrite ==
  ASSUME TypeOK, TypeOK', RowsIntact, OwnedOnce',
         NEW h \in Live, NEW layer \in Layers, NEW lo \in Nat, NEW hi \in Nat,
         NEW table, table = Table(h)',
         Live' = Live,
         written[h][layer] = lo,
         \A g \in Live : /\ Len(Table(g)) <= Len(Table(g)')
                         /\ \A i \in 1 .. Len(Table(g)) : Table(g)'[i] = Table(g)[i],
         \A g \in Live, l \in Layers : written[g][l] <= BlockSize * Len(Table(g)),
         hi <= BlockSize * Len(table),
         WriteOk(h, table, layer, lo, hi) \/ WriteFails(h, table, layer, lo, hi)
  PROVE  RowsIntact'
  <1>. SUFFICES ASSUME NEW g \in Live, NEW l \in Layers, NEW p \in 0 .. written'[g][l] - 1
                PROVE  store'[Cell(Table(g)', l, p)] = Row(g, p)
    BY SMTT(60) DEF RowsIntact
  <1>0. /\ BlockSize \in Nat \ {0}
        /\ \A d \in Live : Table(d) \in Seq(Blocks) /\ Len(Table(d)) \in Nat
        /\ \A d \in Live : Table(d)' \in Seq(Blocks) /\ Len(Table(d)') \in Nat
        /\ \A d \in Live, k \in Layers : written[d][k] \in Nat /\ written'[d][k] \in Nat
        /\ DOMAIN store = Layers \X Blocks \X Rows
    <2>1. \A d \in Live : Table(d) \in Seq(Blocks)
      BY DEF TypeOK, Table
    <2>2. \A d \in Live : Table(d)' \in Seq(Blocks)
      BY DEF TypeOK, Table
    <2>3. \A d \in Live, k \in Layers : written[d][k] \in Nat
      BY DEF TypeOK
    <2>4. \A d \in Live, k \in Layers : written'[d][k] \in Nat
      BY DEF TypeOK
    <2>5. DOMAIN store = Layers \X Blocks \X Rows
      BY DEF TypeOK
    <2>. QED  BY <2>1, <2>2, <2>3, <2>4, <2>5, CacheAssumption, SeqFacts, SMTT(60)
  <1>1. p \in Nat
    BY <1>0, SMTT(60)
  <1>2. ASSUME NEW d \in Live, NEW k \in Layers, NEW q \in Nat,
               q < BlockSize * Len(Table(d)'),
               NEW r \in lo .. hi - 1,
               Cell(Table(d)', k, q) = Cell(table, layer, r)
        PROVE  d = h /\ k = layer /\ q = r
    <2>1. r \in Nat /\ r < BlockSize * Len(Table(h)')
      BY <1>0, SMTT(60)
    <2>2. /\ k = layer
          /\ \E i \in DOMAIN Table(d)', j \in DOMAIN Table(h)' :
               Table(d)'[i] = Table(h)'[j] /\ (i = j => q = r)
      <3>1. /\ Table(d)' \in Seq(Blocks) /\ Table(h)' \in Seq(Blocks)
            /\ Cell(Table(d)', k, q) = Cell(Table(h)', layer, r)
        BY <1>0, <1>2, SMTT(60)
      <3>. QED  BY <1>2, <2>1, <3>1, SameCell, SMTT(60)
    <2>. QED  BY <2>2, SMTT(60) DEF OwnedOnce
  <1>3. CASE p < written[g][l]
    <2>1. p < BlockSize * Len(Table(g)) /\ p \in 0 .. written[g][l] - 1
      <3>1. written[g][l] \in Nat /\ written[g][l] <= BlockSize * Len(Table(g))
            /\ BlockSize * Len(Table(g)) \in Nat
        BY <1>0, SMTT(60)
      <3>. QED  BY <1>1, <1>3, <3>1, SMTT(60)
    <2>2. p \div BlockSize + 1 \in DOMAIN Table(g) /\ DOMAIN Table(g) = 1 .. Len(Table(g))
      <3>1. Table(g) \in Seq(Blocks)
        BY <1>0, SMTT(60)
      <3>. QED  BY <1>1, <2>1, <3>1, CellInRange, SeqFacts, SMTT(60)
    <2>3. Cell(Table(g)', l, p) = Cell(Table(g), l, p)
      BY <2>2 DEF Cell
    <2>4. p < BlockSize * Len(Table(g)')
      <3>1. Len(Table(g)) \in Nat /\ Len(Table(g)') \in Nat /\ Len(Table(g)) <= Len(Table(g)')
        BY <1>0, SMTT(60)
      <3>2. /\ BlockSize * Len(Table(g)) \in Nat
            /\ BlockSize * Len(Table(g)') \in Nat
            /\ BlockSize * Len(Table(g)) <= BlockSize * Len(Table(g)')
        BY <3>1, TimesMonotone, CacheAssumption, SMTT(60)
      <3>. QED  BY <1>1, <2>1, <3>2, SMTT(60)
    <2>5. \A r \in lo .. hi - 1 : Cell(table, layer, r) # Cell(Table(g)', l, p)
      <3>. SUFFICES ASSUME NEW r \in lo .. hi - 1,
                           Cell(table, layer, r) = Cell(Table(g)', l, p)
                    PROVE  FALSE
        OBVIOUS
      <3>1. g = h /\ l = layer /\ p = r
        BY <1>1, <1>2, <2>4
      <3>. QED  BY <1>0, <1>3, <3>1
    <2>6. Cell(Table(g)', l, p) \in Layers \X Blocks \X Rows
      BY <1>0, <1>1, <2>4, CellInRange, SMTT(60)
    <2>7. store'[Cell(Table(g)', l, p)] = store[Cell(Table(g)', l, p)]
      BY <2>5, <2>6, WriteFrame, SMTT(60)
    <2>. QED  BY <2>1, <2>3, <2>7, SMTT(60) DEF RowsIntact
  <1>4. CASE ~(p < written[g][l])
    <2>1. WriteOk(h, table, layer, lo, hi) /\ g = h /\ l = layer
      <3>1. written' # written
        BY <1>0, <1>1, <1>4, SMTT(60)
      <3>2. WriteOk(h, table, layer, lo, hi)
        BY <3>1 DEF WriteFails
      <3>3. written' = [written EXCEPT ![h][layer] = hi]
        BY <3>2, SMTT(60) DEF WriteOk
      <3>4. g # h \/ l # layer => written'[g][l] = written[g][l]
        BY <3>3, SMTT(60) DEF TypeOK
      <3>. QED  BY <1>0, <1>1, <1>4, <3>2, <3>4, SMTT(60)
    <2>2. written'[h][layer] = hi
      BY <2>1, SMTT(60) DEF WriteOk, TypeOK
    <2>3. p \in lo .. hi - 1 /\ p < BlockSize * Len(table)
      BY <1>0, <1>1, <1>4, <2>1, <2>2, SMTT(60)
    <2>. DEFINE c == Cell(table, layer, p)
    <2>4. c \in DOMAIN store
      BY <1>0, <1>1, <2>3, CellInRange, Zenon
    <2>5. store'[c] = Row(h, CHOOSE q \in lo .. hi - 1 : Cell(table, layer, q) = c)
      BY <2>1, <2>3, <2>4 DEF WriteOk, StoreAfter
    <2>. DEFINE q0 == CHOOSE q \in lo .. hi - 1 : Cell(table, layer, q) = c
    <2>6. q0 \in lo .. hi - 1 /\ Cell(table, layer, q0) = c
      BY <2>3, SMTT(60)
    <2>. HIDE DEF q0
    <2>7. q0 = p
      BY <1>1, <1>2, <2>3, <2>6
    <2>. QED  BY <2>1, <2>5, <2>7, Zenon DEF q0
  <1>. QED  BY <1>3, <1>4, SMTT(60)

(* Every row a layer holds has a block in the table.                       *)
LEMMA Covered ==
  ASSUME TypeOK, TableMatchesLength, WrittenBounded
  PROVE  /\ \A g \in Live : sequences[g].current_len <= BlockSize * Len(Table(g))
         /\ \A g \in Live, l \in Layers : written[g][l] <= BlockSize * Len(Table(g))
  <1>1. ASSUME NEW g \in Live
        PROVE  sequences[g].current_len <= BlockSize * Len(Table(g))
    <2>. DEFINE c == sequences[g].current_len
    <2>1. c \in Nat /\ Len(Table(g)) \in Nat
      BY DEF TypeOK, Table
    <2>2. BlocksFor(c) \in Nat \ {0} /\ c <= BlockSize * BlocksFor(c)
      BY <2>1, BlocksForPositive, Zenon
    <2>3. BlocksFor(c) <= Len(Table(g))
      BY DEF TableMatchesLength, Table
    <2>. HIDE DEF c
    <2>4. BlockSize * BlocksFor(c) \in Nat /\ BlockSize * Len(Table(g)) \in Nat
          /\ BlockSize * BlocksFor(c) <= BlockSize * Len(Table(g))
      BY <2>1, <2>2, <2>3, TimesMonotone, CacheAssumption
    <2>5. c <= BlockSize * Len(Table(g))
      BY <2>1, <2>2, <2>4
    <2>. QED  BY <2>5 DEF c
  <1>2. ASSUME NEW g \in Live, NEW l \in Layers
        PROVE  written[g][l] <= BlockSize * Len(Table(g))
    <2>1. /\ written[g][l] \in Nat
          /\ sequences[g].current_len \in Nat
          /\ BlockSize * Len(Table(g)) \in Nat
      BY CacheAssumption DEF TypeOK, Table
    <2>2. written[g][l] <= sequences[g].current_len
      BY DEF WrittenBounded
    <2>. QED  BY <1>1, <2>1, <2>2
  <1>. QED  BY <1>1, <1>2

LEMMA RowsAlloc ==
  ASSUME IInv, Alloc
  PROVE  WrittenBounded' /\ RowsIntact'
  <1>1. CASE free_list # <<>>
    <2>1. next_id \notin Live
      BY DEF IInv, TypeOK
    <2>2. /\ Live' = Live \cup {next_id}
          /\ \A g \in Live : sequences'[g] = sequences[g] /\ written'[g] = written[g]
          /\ sequences'[next_id].current_len = 0
          /\ \A l \in Layers : written'[next_id][l] = 0
          /\ store' = store
      BY <1>1, <2>1 DEF Alloc, Live
    <2>3. WrittenBounded'
      BY <2>2 DEF WrittenBounded, IInv
    <2>4. RowsIntact'
      <3>. SUFFICES ASSUME NEW g \in Live', NEW l \in Layers,
                           NEW p \in 0 .. written'[g][l] - 1
                    PROVE  store'[Cell(Table(g)', l, p)] = Row(g, p)
        BY SMTT(60) DEF RowsIntact
      <3>1. g \in Live
        BY <2>2
      <3>2. Table(g)' = Table(g) /\ p \in 0 .. written[g][l] - 1
        BY <2>2, <3>1 DEF Table
      <3>. QED  BY <2>2, <3>1, <3>2, SMTT(60) DEF IInv, RowsIntact
    <2>. QED  BY <2>3, <2>4
  <1>2. CASE free_list = <<>>
    BY <1>2 DEF Alloc, IInv, WrittenBounded, RowsIntact, Live, Table
  <1>. QED  BY <1>1, <1>2

LEMMA WriteWritten ==
  ASSUME TypeOK, NEW h \in Live, NEW table, NEW layer \in Layers, NEW lo, NEW hi \in Nat,
         WriteOk(h, table, layer, lo, hi) \/ WriteFails(h, table, layer, lo, hi)
  PROVE  \A g \in Live, l \in Layers :
           \/ written'[g][l] = written[g][l]
           \/ g = h /\ written'[g][l] = hi
  <1>1. written \in [Live -> [Layers -> Nat]]
    BY DEF TypeOK
  <1>2. written' = written \/ written' = [written EXCEPT ![h][layer] = hi]
    BY DEF WriteOk, WriteFails
  <1>. QED  BY <1>1, <1>2

LEMMA RowsGrown ==
  ASSUME IInv, TypeOK', BlocksPartitioned', TableMatchesLength',
         NEW h \in Live, NEW n \in Nat \ {0},
         \A l \in Layers : written[h][l] = sequences[h].current_len,
         AppendGrown(h, n)
  PROVE  WrittenBounded' /\ RowsIntact'
  <1>. DEFINE k == NewBlocks(sequences[h].last_block_fill, n)
              lo == sequences[h].current_len
              table == Table(h) \o Taken(k)
  <1>0. TypeOK /\ RowsIntact /\ WrittenBounded /\ TableMatchesLength
    BY DEF IInv
  <1>1. /\ TypeOK /\ RowsIntact /\ WrittenBounded /\ TableMatchesLength
        /\ Table(h) \in Seq(Blocks)
        /\ sequences[h].last_block_fill \in 0 .. BlockSize
        /\ free_list \in Seq(Blocks)
        /\ Len(free_list) \in Nat
        /\ lo \in Nat /\ lo + n \in Nat
        /\ 0 \in Layers
    <2>1. /\ Table(h) \in Seq(Blocks)
          /\ sequences[h].last_block_fill \in 0 .. BlockSize
          /\ free_list \in Seq(Blocks)
          /\ Len(free_list) \in Nat
          /\ lo \in Nat
      BY <1>0 DEF TypeOK, Table
    <2>2. 0 \in Layers
      BY CacheAssumption DEF Layers
    <2>3. lo + n \in Nat
      BY <2>1, SMTT(60)
    <2>. QED  BY <1>0, <2>1, <2>2, <2>3
  <1>2. k \in Nat
    BY <1>1, GrowthBounds, ZenonT(60)
  <1>3. k \in 0 .. Len(free_list)
    BY <1>1, <1>2 DEF AppendGrown
  <1>4. /\ sequences' = [sequences EXCEPT ![h] =
             [block_table |-> table,
              last_block_fill |-> NewFill(sequences[h].last_block_fill, n),
              current_len |-> lo + n]]
        /\ \/ WriteOk(h, table, 0, lo, lo + n)
           \/ WriteFails(h, table, 0, lo, lo + n)
    BY Zenon DEF AppendGrown, Table
  <1>5. /\ Len(table) = Len(Table(h)) + k
        /\ \A i \in 1 .. Len(Table(h)) : table[i] = Table(h)[i]
    BY <1>1, <1>3, GrownTable, ZenonT(60)
  <1>. HIDE DEF k, table
  <1>6. /\ Live' = Live
        /\ Table(h)' = table
        /\ sequences'[h].current_len = lo + n
        /\ \A g \in Live \ {h} : sequences'[g] = sequences[g]
    BY <1>1, <1>4, SMTT(60) DEF Live, Table, TypeOK
  <1>7. WrittenBounded'
    <2>. SUFFICES ASSUME NEW g \in Live, NEW l \in Layers
                  PROVE  written'[g][l] <= sequences'[g].current_len
      BY <1>6 DEF WrittenBounded
    <2>1. \/ written'[g][l] = written[g][l]
          \/ g = h /\ written'[g][l] = lo + n
      <3>1. written \in [Live -> [Layers -> Nat]]
        BY <1>1, SMTT(60) DEF TypeOK
      <3>2. written' = written \/ written' = [written EXCEPT ![h][0] = lo + n]
        BY <1>4 DEF WriteOk, WriteFails
      <3>. QED  BY <1>1, <3>1, <3>2
    <2>2. written[g][l] \in Nat /\ written[g][l] <= sequences[g].current_len
          /\ sequences[g].current_len \in Nat
      BY <1>1 DEF WrittenBounded, TypeOK
    <2>. QED  BY <1>1, <1>6, <2>1, <2>2, SMTT(60)
  <1>8. lo + n <= BlockSize * Len(table)
    <2>1. BlocksFor(lo + n) <= Len(table)
      BY <1>6, SMTT(60) DEF TableMatchesLength, Table
    <2>2. BlocksFor(lo + n) \in Nat \ {0} /\ lo + n <= BlockSize * BlocksFor(lo + n)
      BY <1>1, BlocksForPositive
    <2>3. Len(table) \in Nat
      BY <1>1, <1>2, <1>5
    <2>4. BlockSize * BlocksFor(lo + n) \in Nat /\ BlockSize * Len(table) \in Nat
          /\ BlockSize * BlocksFor(lo + n) <= BlockSize * Len(table)
      BY <2>1, <2>2, <2>3, TimesMonotone, CacheAssumption, SMTT(60)
    <2>. QED  BY <1>1, <2>2, <2>4, SMTT(60)
  <1>9. \A g \in Live : /\ Len(Table(g)) <= Len(Table(g)')
                        /\ \A i \in 1 .. Len(Table(g)) : Table(g)'[i] = Table(g)[i]
    <2>1. ASSUME NEW g \in Live PROVE Len(Table(g)) \in Nat
      BY <1>1, SMTT(60) DEF TypeOK, Table
    <2>2. \A g \in Live \ {h} : Table(g)' = Table(g)
      BY <1>6 DEF Table
    <2>. QED  BY <1>2, <1>5, <1>6, <2>1, <2>2
  <1>10. \A g \in Live, l \in Layers : written[g][l] <= BlockSize * Len(Table(g))
    BY <1>1, Covered, SMTT(60)
  <1>11. written[h][0] = lo /\ OwnedOnce'
    BY <1>1, SMTT(60) DEF BlocksPartitioned
  <1>12. RowsIntact'
    BY <1>1, <1>4, <1>6, <1>8, <1>9, <1>10, <1>11, RowsAfterWrite, Zenon
  <1>. QED  BY <1>7, <1>12

LEMMA RowsOom ==
  ASSUME IInv, NEW h \in Live, NEW n, AppendOom(h, n)
  PROVE  WrittenBounded' /\ RowsIntact'
  <1>. DEFINE table == Table(h) \o Taken(Len(free_list))
  <1>1. /\ TypeOK /\ RowsIntact /\ WrittenBounded /\ TableMatchesLength
        /\ Table(h) \in Seq(Blocks)
        /\ free_list \in Seq(Blocks)
        /\ Len(free_list) \in 0 .. Len(free_list)
    BY DEF IInv, TypeOK, Table
  <1>2. \A i \in 1 .. Len(Table(h)) : table[i] = Table(h)[i]
    BY <1>1, GrownTable
  <1>3. sequences' = [sequences EXCEPT ![h].block_table = table]
        /\ UNCHANGED <<store, written>>
    BY DEF AppendOom, Table
  <1>. HIDE DEF table
  <1>4. /\ Live' = Live
        /\ Table(h)' = table
        /\ \A g \in Live : sequences'[g].current_len = sequences[g].current_len
        /\ \A g \in Live \ {h} : Table(g)' = Table(g)
    BY <1>1, <1>3 DEF Live, Table, TypeOK
  <1>5. WrittenBounded'
    BY <1>1, <1>3, <1>4, SMTT(60) DEF WrittenBounded
  <1>6. RowsIntact'
    <2>. SUFFICES ASSUME NEW g \in Live, NEW l \in Layers,
                         NEW p \in 0 .. written[g][l] - 1
                  PROVE  store[Cell(Table(g)', l, p)] = Row(g, p)
      BY <1>3, <1>4 DEF RowsIntact
    <2>1. /\ written[g][l] \in Nat /\ p \in Nat
          /\ Table(g) \in Seq(Blocks) /\ BlockSize * Len(Table(g)) \in Nat
      BY <1>1, CacheAssumption, SMTT(60) DEF TypeOK, Table
    <2>2. p < BlockSize * Len(Table(g))
      <3>1. written[g][l] <= BlockSize * Len(Table(g))
        BY <1>1, Covered, SMTT(60)
      <3>. QED  BY <2>1, <3>1
    <2>3. p \div BlockSize + 1 \in 1 .. Len(Table(g))
      BY <2>1, <2>2, CellInRange, SeqFacts, SMTT(60)
    <2>4. Cell(Table(g)', l, p) = Cell(Table(g), l, p)
      BY <1>2, <1>4, <2>3 DEF Cell
    <2>. QED  BY <1>1, <2>4 DEF RowsIntact
  <1>. QED  BY <1>5, <1>6, SMTT(60)

LEMMA RowsNextLayer ==
  ASSUME IInv, TypeOK', BlocksPartitioned', NEW h \in Live,
         NEW layer \in Layers \ {0}, CallNextLayer(h, layer)
  PROVE  WrittenBounded' /\ RowsIntact'
  <1>. DEFINE lo == written[h][layer]
              hi == sequences[h].current_len
  <1>1. /\ TypeOK /\ RowsIntact /\ WrittenBounded /\ TableMatchesLength
        /\ lo \in Nat /\ hi \in Nat /\ hi - (hi - lo) = lo
        /\ layer \in Layers
    BY SMTT(60) DEF IInv, TypeOK
  <1>2. /\ UNCHANGED sequences
        /\ \/ WriteOk(h, Table(h), layer, hi - (hi - lo), hi)
           \/ WriteFails(h, Table(h), layer, hi - (hi - lo), hi)
    BY SMTT(60) DEF CallNextLayer, AppendNextLayer, Table
  <1>3. WriteOk(h, Table(h), layer, lo, hi) \/ WriteFails(h, Table(h), layer, lo, hi)
    BY <1>1, <1>2
  <1>. HIDE DEF lo, hi
  <1>4. Live' = Live /\ \A g \in Live : Table(g)' = Table(g)
    BY <1>2, SMTT(60) DEF Live, Table
  <1>5. WrittenBounded'
    <2>. SUFFICES ASSUME NEW g \in Live, NEW l \in Layers
                  PROVE  written'[g][l] <= sequences[g].current_len
      BY <1>2, <1>4, SMTT(60) DEF WrittenBounded
    <2>1. \/ written'[g][l] = written[g][l]
          \/ g = h /\ written'[g][l] = hi
      BY <1>1, <1>3, WriteWritten
    <2>. QED  BY <1>1, <2>1, SMTT(60) DEF WrittenBounded, hi
  <1>6. /\ hi <= BlockSize * Len(Table(h))
        /\ \A g \in Live, l \in Layers : written[g][l] <= BlockSize * Len(Table(g))
    BY <1>1, Covered DEF hi
  <1>7. \A g \in Live : /\ Len(Table(g)) <= Len(Table(g)')
                        /\ \A i \in 1 .. Len(Table(g)) : Table(g)'[i] = Table(g)[i]
    <2>1. ASSUME NEW g \in Live PROVE Len(Table(g)) \in Nat
      BY <1>1 DEF TypeOK, Table
    <2>. QED  BY <1>4, <2>1
  <1>8. written[h][layer] = lo /\ OwnedOnce' /\ Table(h) = Table(h)'
    BY <1>4, SMTT(60) DEF lo, BlocksPartitioned
  <1>9. RowsIntact'
    BY <1>1, <1>3, <1>4, <1>6, <1>7, <1>8, RowsAfterWrite, SMTT(60)
  <1>. QED  BY <1>5, <1>9, SMTT(60)

LEMMA RowsFree ==
  ASSUME IInv, NEW h \in Live, Free(h)
  PROVE  WrittenBounded' /\ RowsIntact'
  <1>1. /\ Live' = Live \ {h}
        /\ store' = store
        /\ \A g \in Live' : sequences'[g] = sequences[g] /\ written'[g] = written[g]
        /\ \A g \in Live' : Table(g)' = Table(g)
    BY DEF Free, Live, Table
  <1>. QED  BY <1>1, SMTT(60) DEF IInv, WrittenBounded, RowsIntact

LEMMA IInvInit == Init => IInv
  <1>1. Init => WrittenBounded /\ RowsIntact
    BY SMTT(60) DEF Init, WrittenBounded, RowsIntact, Live
  <1>. QED  BY <1>1, TypeInit, PartitionInit, MatchInit, SMTT(60) DEF IInv

LEMMA IInvNext == IInv /\ [Next]_vars => IInv'
  <1>. SUFFICES ASSUME IInv, [Next]_vars PROVE IInv'
    OBVIOUS
  <1>0. TypeOK' /\ BlocksPartitioned' /\ TableMatchesLength'
    BY TypeNext, PartitionNext, MatchNext DEF IInv
  <1>1. CASE Alloc
    BY <1>1, RowsAlloc, <1>0, SMTT(60) DEF IInv
  <1>2. ASSUME NEW h \in Live, NEW n \in 1 .. MaxAppend, CallFirstLayer(h, n)
        PROVE  WrittenBounded' /\ RowsIntact'
    <2>1. n \in Nat \ {0}
      BY CacheAssumption
    <2>. QED  BY <1>0, <1>2, <2>1, RowsGrown, RowsOom DEF CallFirstLayer
  <1>3. ASSUME NEW h \in Live, NEW layer \in Layers \ {0}, CallNextLayer(h, layer)
        PROVE  WrittenBounded' /\ RowsIntact'
    BY <1>0, <1>3, RowsNextLayer
  <1>4. ASSUME NEW h \in Live, Free(h) PROVE WrittenBounded' /\ RowsIntact'
    BY <1>4, RowsFree, SMTT(60)
  <1>5. CASE UNCHANGED vars
    BY <1>0, <1>5 DEF vars, IInv, WrittenBounded, RowsIntact, Live, Table
  <1>. QED  BY <1>0, <1>1, <1>2, <1>3, <1>4, <1>5 DEF Next, IInv

(* Attention reads, for every position a sequence has appended, that       *)
(* sequence's own rows: no alloc, append, failed append or free of another *)
(* sequence ever overwrites them.                                          *)
THEOREM RowsIntactCorrect == Spec => []RowsIntact
  <1>1. IInv => RowsIntact
    BY DEF IInv
  <1>. QED  BY <1>1, IInvInit, IInvNext, PTL DEF Spec

-----------------------------------------------------------------------------
(* The cache implements CacheAccounting.  The mapped state of the          *)
(* accounting is abbreviated.                                              *)
Owned == [h \in Live |-> Len(Table(h))]
Lens  == [h \in Live |-> sequences[h].current_len]

LEMMA AccountingInitial == Init => Accounting!AccountingInit
  <1>. SUFFICES ASSUME Init PROVE Accounting!AccountingInit
    OBVIOUS
  <1>1. Live = {}
    BY DEF Init, Live
  <1>2. free_list = [i \in 1 .. NumBlocks |-> NumBlocks - i] /\ next_id = 0
    BY DEF Init
  <1>3. Len(free_list) = NumBlocks
    BY <1>2, CacheAssumption
  <1>. QED  BY <1>1, <1>2, <1>3 DEF Accounting!AccountingInit

LEMMA AccountingLive == Accounting!Live = Live
  BY DEF Accounting!Live

(* alloc takes one block for a new handle, or finds none.                  *)
LEMMA AccountingAlloc ==
  ASSUME TypeOK, Alloc
  PROVE  Accounting!AllocOk \/ Accounting!AllocOom
  <1>1. CASE free_list # <<>>
    <2>1. free_list \in Seq(Blocks) /\ Len(free_list) \in Nat /\ Len(free_list) > 0
      BY <1>1 DEF TypeOK
    <2>2. PICK h : h = next_id
      OBVIOUS
    <2>3. Len(Taken(1)) = 1 /\ Len(Popped(1)) = Len(free_list) - 1
      <3>1. 1 \in 0 .. Len(free_list)
        BY <2>1
      <3>. QED  BY <2>1, <3>1, PopProperties, Zenon
    <2>4. /\ Live' = Live \cup {h} /\ Len(free_list') = Len(free_list) - 1
          /\ sequences'[h] = [block_table |-> Taken(1), last_block_fill |-> 0, current_len |-> 0]
          /\ \A g \in Live \ {h} : sequences'[g] = sequences[g]
          /\ next_id' = next_id + 1
      BY <1>1, <2>2, <2>3 DEF Alloc, Live
    <2>5. Len(sequences'[h].block_table) = 1 /\ sequences'[h].current_len = 0
      BY <2>3, <2>4
    <2>6. Owned' = [g \in Live \cup {h} |-> IF g = h THEN 1 ELSE Owned[g]]
      BY <2>4, <2>5 DEF Owned, Table
    <2>7. Lens' = [g \in Live \cup {h} |-> IF g = h THEN 0 ELSE Lens[g]]
      BY <2>4, <2>5 DEF Lens
    <2>8. Accounting!AllocOk
      BY <2>1, <2>2, <2>4, <2>6, <2>7, AccountingLive DEF Accounting!AllocOk, Owned, Lens
    <2>. QED  BY <2>8
  <1>2. CASE free_list = <<>>
    <2>1. UNCHANGED <<free_list, sequences>> /\ next_id' = next_id + 1 /\ Len(free_list) = 0
      BY <1>2 DEF Alloc
    <2>2. Owned' = Owned /\ Lens' = Lens
      BY <2>1 DEF Owned, Lens, Live, Table
    <2>. QED  BY <2>1, <2>2 DEF Accounting!AllocOom, Owned, Lens
  <1>. QED  BY <1>1, <1>2

(* The growth of append_kv on layer 0 takes the blocks the length needs.   *)
LEMMA AccountingAppend ==
  ASSUME TypeOK, TableMatchesLength, NEW h \in Live, NEW n \in Nat \ {0},
         h \notin broken, AppendGrown(h, n) \/ AppendOom(h, n)
  PROVE  Accounting!AppendOk(h, n) \/ Accounting!AppendOom(h, n)
  <1>1. PICK s, fill, l, u, k :
          /\ s = sequences[h] /\ fill = s.last_block_fill /\ l = s.current_len
          /\ u = BlocksFor(l) /\ k = NewBlocks(fill, n)
    OBVIOUS
  <1>2. /\ s.block_table \in Seq(Blocks) /\ fill \in 0 .. BlockSize /\ l \in Nat
        /\ free_list \in Seq(Blocks) /\ Len(free_list) \in Nat
    BY <1>1 DEF TypeOK
  <1>3. u = Len(s.block_table) /\ fill = l - BlockSize * (u - 1)
    BY <1>1 DEF TableMatchesLength
  <1>4. u \in Nat \ {0} /\ k \in Nat
    BY <1>1, <1>2, BlocksForPositive, GrowthBounds, Zenon
  <1>5. BlocksFor(l + n) = u + k
    BY <1>1, <1>2, <1>3, <1>4, GrowthArithmetic
  <1>6. /\ Owned[h] = u /\ Lens[h] = l
        /\ Accounting!BlocksFor(l + n) = u + k /\ Accounting!BlocksFor(l) = u
    BY <1>1, <1>3, <1>5 DEF Owned, Lens, Table, BlocksFor, Accounting!BlocksFor
  <1>7. Accounting!Sound(h) /\ Accounting!BlocksMissing(h, n) = (u + k) - u
    <2>1. Accounting!Sound(h) <=> h \in Live /\ Owned[h] = Accounting!BlocksFor(Lens[h])
      BY AccountingLive DEF Accounting!Sound, Owned, Lens
    <2>2. Accounting!BlocksMissing(h, n) = Accounting!BlocksFor(Lens[h] + n) - Owned[h]
      BY DEF Accounting!BlocksMissing, Owned, Lens
    <2>3. Accounting!Sound(h)
      BY <1>6, <2>1, Zenon
    <2>4. Accounting!BlocksFor(Lens[h] + n) = u + k
      BY <1>6, Zenon
    <2>5. Accounting!BlocksMissing(h, n) = (u + k) - u
      BY <1>6, <2>2, <2>4, Zenon
    <2>. QED  BY <2>3, <2>5
  <1>8. CASE AppendGrown(h, n)
    <2>1. /\ k <= Len(free_list) /\ free_list' = Popped(k) /\ next_id' = next_id
          /\ sequences' = [sequences EXCEPT ![h] =
               [block_table |-> s.block_table \o Taken(k), last_block_fill |-> NewFill(fill, n),
                current_len |-> l + n]]
      BY <1>1, <1>8 DEF AppendGrown
    <2>2. Len(s.block_table \o Taken(k)) = u + k /\ Len(free_list') = Len(free_list) - k
      <3>1. k \in 0 .. Len(free_list)
        BY <1>2, <1>4, <2>1
      <3>2. Len(s.block_table \o Taken(k)) = Len(s.block_table) + k
        BY <1>2, <3>1, GrownTable, Zenon
      <3>3. Len(Popped(k)) = Len(free_list) - k
        BY <1>2, <3>1, PopProperties, Zenon
      <3>. QED  BY <1>3, <2>1, <3>2, <3>3
    <2>3. /\ Live' = Live /\ \A g \in Live \ {h} : sequences'[g] = sequences[g]
          /\ sequences'[h] = [block_table |-> s.block_table \o Taken(k),
                              last_block_fill |-> NewFill(fill, n), current_len |-> l + n]
      BY <2>1 DEF Live, TypeOK
    <2>4. Len(sequences'[h].block_table) = u + k /\ sequences'[h].current_len = l + n
      BY <2>2, <2>3
    <2>5. Owned' = [Owned EXCEPT ![h] = u + k] /\ Lens' = [Lens EXCEPT ![h] = l + n]
      BY <2>3, <2>4 DEF Owned, Lens, Table
    <2>6. (u + k) - u = k
      BY <1>4
    <2>7. Accounting!Sound(h) /\ Accounting!BlocksMissing(h, n) = k
      BY <1>7, <2>6
    <2>8. Lens' = [Lens EXCEPT ![h] = @ + n]
      BY <1>6, <2>5 DEF Lens
    <2>9. Owned' = [Owned EXCEPT ![h] = Accounting!BlocksFor(Lens[h] + n)]
      BY <1>6, <2>5
    <2>. QED  BY <2>1, <2>2, <2>7, <2>8, <2>9 DEF Accounting!AppendOk, Owned, Lens
  <1>9. CASE AppendOom(h, n)
    <2>1. PICK f : f = Len(free_list)
      OBVIOUS
    <2>2. /\ k > f /\ free_list' = Popped(f) /\ next_id' = next_id
          /\ sequences' = [sequences EXCEPT ![h].block_table = s.block_table \o Taken(f)]
      BY <1>1, <1>9, <2>1 DEF AppendOom
    <2>3. Len(s.block_table \o Taken(f)) = u + f /\ Len(free_list') = 0
      <3>1. f \in 0 .. Len(free_list)
        BY <1>2, <2>1
      <3>2. Len(s.block_table \o Taken(f)) = Len(s.block_table) + f
        BY <1>2, <3>1, GrownTable, Zenon
      <3>3. Len(Popped(f)) = Len(free_list) - f
        BY <1>2, <3>1, PopProperties, Zenon
      <3>. QED  BY <1>2, <1>3, <2>1, <2>2, <3>2, <3>3
    <2>4. /\ Live' = Live /\ \A g \in Live \ {h} : sequences'[g] = sequences[g]
          /\ sequences'[h].block_table = s.block_table \o Taken(f)
          /\ sequences'[h].current_len = l
      BY <1>1, <2>2 DEF Live, TypeOK
    <2>5. Owned' = [Owned EXCEPT ![h] = u + f] /\ Lens' = Lens
      BY <1>1, <2>3, <2>4 DEF Owned, Lens, Table
    <2>6. (u + k) - u = k
      BY <1>4
    <2>7. Accounting!Sound(h) /\ Accounting!BlocksMissing(h, n) = k
      BY <1>7, <2>6
    <2>8. Owned' = [Owned EXCEPT ![h] = @ + Len(free_list)]
      BY <1>6, <2>1, <2>5 DEF Owned
    <2>. QED  BY <2>1, <2>2, <2>3, <2>5, <2>7, <2>8 DEF Accounting!AppendOom, Owned, Lens
  <1>. QED  BY <1>8, <1>9

(* free returns every block of the table.                                  *)
LEMMA AccountingFree ==
  ASSUME TypeOK, NEW h \in Live, Free(h)
  PROVE  Accounting!Free(h)
  <1>1. sequences[h].block_table \in Seq(Blocks) /\ free_list \in Seq(Blocks)
    BY DEF TypeOK
  <1>2. Len(free_list') = Len(free_list) + Len(Table(h))
    BY <1>1, ConcatFacts DEF Free, Table
  <1>3. Live' = Live \ {h} /\ next_id' = next_id /\ \A g \in Live' : sequences'[g] = sequences[g]
    BY DEF Free, Live
  <1>4. Owned' = [g \in Live \ {h} |-> Owned[g]] /\ Lens' = [g \in Live \ {h} |-> Lens[g]]
    BY <1>3 DEF Owned, Lens, Table
  <1>. QED  BY <1>2, <1>3, <1>4, AccountingLive DEF Accounting!Free, Owned, Lens

LEMMA AccountingStep ==
  ASSUME TypeOK, TableMatchesLength, [Next]_vars
  PROVE  [Accounting!AccountingNext]_(Accounting!cacheVars)
  <1>1. CASE Alloc
    BY <1>1, AccountingAlloc DEF Accounting!AccountingNext
  <1>2. ASSUME NEW h \in Live, NEW n \in 1 .. MaxAppend, CallFirstLayer(h, n)
        PROVE  Accounting!AccountingNext
    <2>1. n \in Nat \ {0} /\ n \in 0 .. MaxAppend
      BY CacheAssumption
    <2>2. Accounting!AppendOk(h, n) \/ Accounting!AppendOom(h, n)
      BY <1>2, <2>1, AccountingAppend DEF CallFirstLayer
    <2>. QED  BY <2>1, <2>2, AccountingLive DEF Accounting!AccountingNext
  <1>3. ASSUME UNCHANGED <<free_list, sequences, next_id>>
        PROVE  UNCHANGED Accounting!cacheVars
    BY <1>3 DEF Accounting!cacheVars, Live, Table
  <1>4. ASSUME NEW h \in Live, NEW layer \in Layers \ {0}, CallNextLayer(h, layer)
        PROVE  UNCHANGED Accounting!cacheVars
    BY <1>3, <1>4 DEF CallNextLayer, AppendNextLayer
  <1>5. ASSUME NEW h \in Live, Free(h) PROVE Accounting!AccountingNext
    BY <1>5, AccountingFree, AccountingLive DEF Accounting!AccountingNext
  <1>6. CASE UNCHANGED vars
    BY <1>3, <1>6 DEF vars
  <1>. QED  BY <1>1, <1>2, <1>4, <1>5, <1>6 DEF Next

(***************************************************************************)
(* The paged cache implements the counting cache that the scheduler loop   *)
(* is composed with: a step of alloc, append_kv or free takes or returns   *)
(* exactly the blocks the accounting says, out-of-memory errors included,  *)
(* and the appends to the other layers change no count.                    *)
(***************************************************************************)
THEOREM ImplementsAccountingCorrect == Spec => ImplementsAccounting
  <1>1. Init => TypeOK /\ TableMatchesLength /\ Accounting!AccountingInit
    BY TypeInit, MatchInit, AccountingInitial
  <1>2. TypeOK /\ TableMatchesLength /\ [Next]_vars => (TypeOK /\ TableMatchesLength)'
    BY TypeNext, MatchNext
  <1>3. TypeOK /\ TableMatchesLength /\ [Next]_vars
          => [Accounting!AccountingNext]_(Accounting!cacheVars)
    BY AccountingStep
  <1>. QED  BY <1>1, <1>2, <1>3, PTL DEF Spec, ImplementsAccounting, Accounting!AccountingSpec
=============================================================================
