---------------------------- MODULE WorkerMemory ----------------------------
(***************************************************************************)
(* What a worker holds on its device: WeightStore::load over the backend's *)
(* table of tensors, the calibration on a backend of its own, the caches   *)
(* built from the memory that is left, and the Reconfigure that loads      *)
(* another range of layers with the same backend.  Memory is counted in    *)
(* tensors: a weight, a block of one layer, the cache of a sequence are    *)
(* one each.  A file gives each of its tensors a dtype, or leaves it out,  *)
(* or ends before its data does.  Rows of a matrix are numbers.            *)
(***************************************************************************)
EXTENDS Integers, Sequences, SequencesExt, FiniteSets, FiniteSetsExt

CONSTANTS Assigned,   \* layer ranges [first, end) the coordinator may assign
          Fields,     \* suffixes of a layer's tensors, in the order of layer_fields
          QkHeads,    \* those whose rows are permuted, with their number of heads
          HeadDim,
          Files,      \* what the file holds, by tensor name
          Memory,     \* device memory
          Scratch,    \* scratch_reserve
          Runs,       \* bound: forward passes of a calibration
          SeqId,      \* sequences that may have a contiguous cache
          MaxIds,     \* bound: ids given out before a sequence's cache is allocated
          MaxReconf   \* bound: Reconfigure messages

VARIABLES pc,       \* calibrating, loading, ready or exited
          file,
          tensors,  \* CudaState.tensors of the worker's backend: live ids
          nextId,   \* CudaState.next_id
          calUsed,  \* live tensors of the calibration's backend
          range,    \* range being loaded or served
          todo,     \* names load has still to go through
          loaded,   \* the builders: tensor ids by name
          node,     \* the engine's weights, by position and name; <<>> before there is one
          content,  \* what was copied to each weight
          cache,    \* ids of the paged cache's blocks
          handles,  \* the contiguous caches, by sequence
          dropped,  \* history: weights of engines that are gone
          runs, reconfs

vars == <<pc, file, tensors, nextId, calUsed, range, todo, loaded, node, content, cache,
          handles, dropped, runs, reconfs>>
fileVars == <<file, runs, reconfs>>

Globals == <<"token_embd", "output_norm", "output">>
First(r) == r[1]
End(r) == r[2]
LayersOf(r) == End(r) - First(r)

\* A tensor's name: the layer (-1: none) and the suffix.
Name(l, f) == <<l, f>>
Names(r) ==
  [i \in 1 .. 3 |-> Name(-1, Globals[i])]
  \o FlattenSeq([i \in 1 .. LayersOf(r) |-> [j \in DOMAIN Fields |-> Name(First(r) + i - 1, Fields[j])]])

Init ==
  /\ pc = "calibrating" /\ file \in Files /\ tensors = {} /\ nextId = 1 /\ calUsed = 0
  /\ range = <<0, 1>> /\ todo = <<>> /\ loaded = <<>> /\ node = <<>> /\ content = <<>>
  /\ cache = {} /\ handles = <<>> /\ dropped = {} /\ runs = 0 /\ reconfs = 0

-----------------------------------------------------------------------------
(* The backend.                                                            *)
Free == Memory - Cardinality(tensors) - calUsed

\* variant: an id is the number of live tensors
NewIdsByCount(n) == Cardinality(tensors) + 1 .. Cardinality(tensors) + n
NewIds(n) == nextId .. nextId + n - 1
Alloc(n) == /\ n <= Free
            /\ tensors' = tensors \cup NewIds(n)
            /\ nextId' = nextId + n

\* An error in the worker's main ends the process; CudaBackend::drop frees
\* what is registered.
Exit == /\ pc' = "exited" /\ tensors' = {} /\ calUsed' = 0
        /\ UNCHANGED <<nextId, range, todo, loaded, node, content, cache, handles, dropped>>

-----------------------------------------------------------------------------
(* The data of a tensor.                                                   *)
Rows(f) == IF f \in DOMAIN QkHeads THEN QkHeads[f] * HeadDim ELSE HeadDim
Half == HeadDim \div 2

\* The converter stores row i of a head's first half at 2i, of its second
\* half at 2i + 1 (rows counted from 0).
StoredRow(f, k) ==
  LET u == k - 1
      r == u % HeadDim
  IN IF f \notin DOMAIN QkHeads THEN k
     ELSE (u - r) + (r \div 2) + (IF r % 2 = 0 THEN 0 ELSE Half) + 1

\* The tensor's bytes in pieces of hidden * 2: an FP32 row is two of them.
Pieces(f, d) ==
  IF d = "FP32" THEN [k \in 1 .. 2 * Rows(f) |-> <<StoredRow(f, (k + 1) \div 2), 2 - (k % 2)>>]
  ELSE [k \in 1 .. Rows(f) |-> <<StoredRow(f, k), 1>>]

Zeroed == <<0, 0>>

\* variant: the halves of a head are swapped
ReverseQkSwapped(data, heads) ==
  [k \in DOMAIN data |->
     LET u == k - 1
         r == u % HeadDim
     IN IF u \div HeadDim >= heads \/ r >= 2 * Half THEN Zeroed
        ELSE IF r < Half THEN data[(u - r) + 2 * r + 2] ELSE data[(u - r) + 2 * (r - Half) + 1]]
ReverseQk(data, heads) ==
  [k \in DOMAIN data |->
     LET u == k - 1
         r == u % HeadDim
     IN IF u \div HeadDim >= heads \/ r >= 2 * Half THEN Zeroed
        ELSE IF r < Half THEN data[(u - r) + 2 * r + 1] ELSE data[(u - r) + 2 * (r - Half) + 2]]

\* upload_qk_tensor copies the bytes as they are, as many as the FP16 tensor
\* holds; upload_tensor converts FP32 and BF16 and leaves other dtypes.
Uploaded(f, d) ==
  IF f \in DOMAIN QkHeads
  THEN [rows |-> SubSeq(ReverseQk(Pieces(f, d), QkHeads[f]), 1, Rows(f)), bits |-> d]
  ELSE [rows |-> [k \in 1 .. Rows(f) |-> <<k, 1>>], bits |-> IF d = "INT8" THEN d ELSE "FP16"]

\* The permutation reads beyond the data of a tensor of one-byte elements.
Panics(f, d) == f \in DOMAIN QkHeads /\ d = "INT8"

-----------------------------------------------------------------------------
(* WeightStore::load, one tensor after the other.                          *)
StartLoad(r) == range' = r /\ todo' = Names(r) /\ loaded' = <<>>

\* variant: the builders are filled from the last to the first
SlotFromEnd(name) == IF name[1] = -1 THEN name ELSE Name(End(range) - 1 - name[1], name[2])
\* builder_idx: layers are indexed from the start of the range.
Slot(name) == IF name[1] = -1 THEN name ELSE Name(name[1] - First(range), name[2])

Upload ==
  /\ pc = "loading" /\ todo # <<>>
  /\ LET name == Head(todo)
         d == file[name]
         id == Max(NewIds(1))
     IN \/ /\ d \notin {"absent", "short"} /\ ~Panics(name[2], d) /\ Alloc(1)
           /\ loaded' = [x \in DOMAIN loaded \cup {Slot(name)} |->
                           IF x = Slot(name) THEN id ELSE loaded[x]]
           /\ content' = [i \in DOMAIN content \cup {id} |->
                            IF i = id THEN [of |-> name, data |-> Uploaded(name[2], d)]
                            ELSE content[i]]
           /\ todo' = Tail(todo)
           /\ UNCHANGED <<pc, calUsed, range, node, cache, handles, dropped>>
        \/ /\ d = "absent" /\ name[1] # -1
           /\ todo' = Tail(todo)
           /\ UNCHANGED <<pc, tensors, nextId, calUsed, range, loaded, node, content, cache,
                          handles, dropped>>
        \/ /\ d = "short" \/ (d = "absent" /\ name[1] = -1) \/ Panics(name[2], d) \/ Free < 1
           /\ Exit
  /\ UNCHANGED fileVars

Complete == \A l \in 0 .. LayersOf(range) - 1, f \in ToSet(Fields) : Name(l, f) \in DOMAIN loaded

NumBlocks == Max({Free - Scratch, 0}) \div LayersOf(range)

\* build(), then the engine over the same backend (the old engine is dropped
\* with its weights' ids), then the caches.
Built ==
  /\ pc = "loading" /\ todo = <<>>
  /\ \/ /\ Complete
        /\ node' = loaded
        /\ dropped' = dropped \cup {node[x] : x \in DOMAIN node}
        /\ Alloc(NumBlocks * LayersOf(range))
        /\ cache' = NewIds(NumBlocks * LayersOf(range))
        /\ pc' = "ready"
        /\ UNCHANGED <<calUsed, range, todo, loaded, content, handles>>
     \/ ~Complete /\ Exit
  /\ UNCHANGED fileVars

-----------------------------------------------------------------------------
(* The worker.                                                             *)
\* run_calibration: layer 0 on a temporary backend; a pass takes a sequence's
\* cache and gives it back, and leaves its output.  The backend is dropped at
\* the end, and on an error, which ends the worker.
CalibrationNeeds == Len(Names(<<0, 1>>)) + runs + 1
Calibrate ==
  /\ pc = "calibrating" /\ runs < Runs
  /\ \/ /\ CalibrationNeeds + 1 <= Memory
        /\ calUsed' = CalibrationNeeds
        /\ UNCHANGED <<pc, tensors, nextId, range, todo, loaded, node, content, cache, handles, dropped>>
     \/ Exit
  /\ runs' = runs + 1
  /\ UNCHANGED <<file, reconfs>>

\* The rest of the start: RegisterAck names the range.
Register ==
  /\ pc = "calibrating" /\ runs = Runs
  /\ calUsed' = 0 /\ pc' = "loading"
  /\ \E r \in Assigned : StartLoad(r)
  /\ UNCHANGED <<tensors, nextId, node, content, cache, handles, dropped>>
  /\ UNCHANGED fileVars

HandleIds == {handles[s] : s \in DOMAIN handles}

CacheAlloc(s) ==
  /\ pc = "ready" /\ s \notin DOMAIN handles /\ nextId <= MaxIds /\ Alloc(1)
  /\ handles' = [t \in DOMAIN handles \cup {s} |-> IF t = s THEN Max(NewIds(1)) ELSE handles[t]]
  /\ UNCHANGED <<pc, calUsed, range, todo, loaded, node, content, cache, dropped>>
  /\ UNCHANGED fileVars

CacheFree(s) ==
  /\ pc = "ready" /\ s \in DOMAIN handles
  /\ handles' = [t \in DOMAIN handles \ {s} |-> handles[t]]
  /\ tensors' = tensors \ {handles[s]}
  /\ UNCHANGED <<pc, nextId, calUsed, range, todo, loaded, node, content, cache, dropped>>
  /\ UNCHANGED fileVars

\* variant: the paged cache is replaced, not destroyed
FreedOnReconfigureSeqs == HandleIds
FreedOnReconfigure == HandleIds \cup cache

\* Caches first, then the load; the old engine stays until Built.
Reconfigure ==
  /\ pc = "ready" /\ reconfs < MaxReconf
  /\ tensors' = tensors \ FreedOnReconfigure
  /\ handles' = <<>> /\ cache' = {}
  /\ \E r \in Assigned : StartLoad(r)
  /\ pc' = "loading" /\ reconfs' = reconfs + 1
  /\ UNCHANGED <<nextId, calUsed, node, content, dropped, file, runs>>

Shutdown == pc = "ready" /\ Exit /\ UNCHANGED fileVars

Stopped == pc = "exited" /\ UNCHANGED vars

Next ==
  Upload \/ Built \/ Calibrate \/ Register \/ Reconfigure \/ Shutdown
  \/ Stopped \/ \E s \in SeqId : CacheAlloc(s) \/ CacheFree(s)

Spec == Init /\ [][Next]_vars

-----------------------------------------------------------------------------
Weights == {node[x] : x \in DOMAIN node}

\* Every id the worker still uses is a live tensor of the backend, and no
\* tensor has two uses: the blocks, the sequences' caches and the weights of
\* the engine, the one that serves while its successor is loaded included.
HandlesLive ==
  pc \in {"ready", "loading"} =>
    /\ Weights \cup cache \cup HandleIds \subseteq tensors
    /\ Weights \cap (cache \cup HandleIds) = {} /\ cache \cap HandleIds = {}
    /\ IsInjective(node) /\ IsInjective(handles)

\* Reconfiguring gives back every cache: what is live and not in use is a
\* weight of an engine that is gone.
OnlyWeightsRemain ==
  pc = "ready" => tensors \ (Weights \cup cache \cup HandleIds) \subseteq dropped

\* "If `layer_range` is `Some`, only layers within that range are loaded ...
\* indexed from 0": the i-th layer of the engine holds the tensors of the
\* i-th layer of the range, all of them, after any sequence of assignments.
LayersAreRange ==
  pc = "ready" =>
    /\ DOMAIN node = {Name(-1, g) : g \in ToSet(Globals)}
                     \cup {Name(l, f) : l \in 0 .. LayersOf(range) - 1, f \in ToSet(Fields)}
    /\ \A x \in DOMAIN node :
         content[node[x]].of = IF x[1] = -1 THEN x ELSE Name(First(range) + x[1], x[2])

\* The engine's tensors hold the model's weights: FP16, rows in the order
\* from before the conversion to GGUF.
WeightsRight ==
  pc = "ready" =>
    \A x \in DOMAIN node :
      content[node[x]].data = [rows |-> [k \in 1 .. Rows(x[2]) |-> <<k, 1>>], bits |-> "FP16"]

\* main.rs: "The backend's free calls happen in WeightStore's Drop impl":
\* weights that were dropped are not live.
DroppedWeightsFreed == pc = "ready" => dropped \cap tensors = {}

\* A worker told to serve a range that fits its device, from a file that has
\* it, does not end in the middle of the load.
Fits(r) == Len(Names(r)) + Scratch + LayersOf(r) <= Memory
AbsorbsLayers ==
  pc = "exited" /\ todo # <<>> /\ Fits(range)
    => \E n \in ToSet(Names(range)) : file[n] \in {"absent", "short", "INT8"}
=============================================================================
