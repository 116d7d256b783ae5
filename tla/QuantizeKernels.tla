-------------------------- MODULE QuantizeKernels --------------------------
(***************************************************************************)
(* One thread block of turboquant_compress.cu, for one (token, head)       *)
(* vector, and then one of turboquant_decompress.cu on the bytes it left:  *)
(* normalize, rotate, quantize and pack; unpack, unrotate, rescale.  The   *)
(* packed bytes are real bytes.  What the rotation gives is an input, and  *)
(* is obtained only from a vector that is loaded and normalized whole.     *)
(***************************************************************************)
EXTENDS ThreadBlock, FiniteSetsExt

CONSTANTS
    HeadDim,
    Rotations   \* bits -> the rotated vectors to compress: coordinate -> integer

VARIABLES
    call,       \* the bits of the layer and the vector's rotation
    kernel,     \* "compress" or "decompress"
    local_sum,  \* warp -> lane -> the coordinates whose squares were added up
    mem         \* shared cells, and packed_out, norms_out and out_vec

vars == <<call, kernel, local_sum, mem, blockVars>>

-----------------------------------------------------------------------------

Junk == -1
Dims == 0 .. (HeadDim - 1)

\* n_levels, packed_dim_per_head and the indices that share a byte.
Levels == 2 ^ call.bits
PackedDim == (HeadDim * call.bits + 7) \div 8
PerByte == 8 \div call.bits

\* The centroid table: levels in order, two apart, so that ties occur.
Centroid(c) == 2 * c

Distance(a, b) == IF a < b THEN b - a ELSE a - b

\* The search of step 5: the first of the nearest centroids.
Nearest(value) ==
    LET levels == 0 .. (Levels - 1)
        best_dist == Min({Distance(value, Centroid(c)) : c \in levels})
    IN Min({c \in levels : Distance(value, Centroid(c)) = best_dist})

\* Step 6: the first coordinate of a byte in its highest bits, absent ones as 0.
PackByte(y, byte) ==
    LET index(sub) == IF byte * PerByte + sub < HeadDim THEN Nearest(y[byte * PerByte + sub]) ELSE 0
        packed[sub \in 0 .. PerByte] ==
            IF sub = 0 THEN 0 ELSE packed[sub - 1] * Levels + index(sub - 1)
    IN packed[PerByte] % 256

\* The first coordinate of a byte in its lowest bits.
UnpackLowFirst(packed, d) ==
    (packed[d \div PerByte] \div Levels ^ (d % PerByte)) % Levels

\* unpack_index of the attention kernel; step 1 of the decompression unpacks alike.
Unpack(packed, d) ==
    (packed[d \div PerByte] \div Levels ^ (PerByte - 1 - (d % PerByte))) % Levels

-----------------------------------------------------------------------------

Program ==
    IF kernel = "compress"
    THEN <<"load", "warp_sum", "first_sum", "scale", "rotate", "pack">>
    ELSE <<"unpack", "unrotate", "rescale">>

Segment(w) == IF pc[w] \in DOMAIN Program THEN Program[pc[w]] ELSE "done"

\* Not the barrier between the normalization and the rotation.
SyncedNotBeforeRotate(segment) == segment \notin {"load", "unpack", "rotate"}

\* Whether __syncthreads() stands before a segment.
Synced(segment) == segment \notin {"load", "unpack"}

At(w, segment) == Segment(w) = segment /\ Meets(w, Synced(segment))

Runs(w, segment, R, W) == Passes(w, Synced(segment), R, W) /\ UNCHANGED <<call, kernel>>

-----------------------------------------------------------------------------
(* Memory.  A coordinate of x_vec carries the sum it was divided by.         *)

NotLoaded == [loaded |-> FALSE, norm |-> EmptyBag]

Cells ==
    Array("x_vec", HeadDim) \union Array("y_vec", HeadDim) \union Array("x_hat", HeadDim)
        \union Array("warp_sums", NumWarps) \union Array("packed", PackedDim)
        \union Array("norm", 1) \union Array("out", HeadDim)

Unwritten(cell) ==
    CASE cell[1] = "x_vec" -> NotLoaded
      [] cell[1] \in {"warp_sums", "norm"} -> SetToBag({Junk})
      [] cell[1] = "out" -> [norm |-> SetToBag({Junk}), vector |-> [d \in Dims |-> Junk]]
      [] cell[1] = "x_hat" -> [d \in Dims |-> Junk]
      [] OTHER -> Junk

Init ==
    /\ call \in UNION {{[bits |-> b, y |-> y] : y \in Rotations[b]} : b \in DOMAIN Rotations}
    /\ kernel = "compress"
    /\ local_sum = [w \in Warps |-> [l \in Lanes |-> EmptyBag]]
    /\ mem = [cell \in Cells |-> Unwritten(cell)]
    /\ BlockInit

Launch ==
    /\ \A w \in Warps : pc[w] = 0
    /\ Started
    /\ UNCHANGED <<call, kernel, local_sum, mem>>

\* The next launch on the stream starts when the compression is complete.
LaunchDecompress ==
    /\ kernel = "compress"
    /\ \A w \in Warps : pc[w] > Len(Program)
    /\ kernel' = "decompress"
    /\ pc' = [w \in Warps |-> 1]
    /\ epoch' = [w \in Warps |-> 0]
    /\ reads' = [w \in Warps |-> {}]
    /\ writes' = [w \in Warps |-> {}]
    /\ UNCHANGED <<call, local_sum, mem>>

-----------------------------------------------------------------------------
(* Compression.                                                              *)

Load(w) ==
    /\ At(w, "load")
    /\ mem' = [cell \in {"x_vec"} \X OwnIndices(w, HeadDim) |->
                  [NotLoaded EXCEPT !.loaded = TRUE]] @@ mem
    /\ Runs(w, "load", {}, StridedCells(w, "x_vec", HeadDim))
    /\ UNCHANGED local_sum

\* Step 2 up to the warp's own sum.
WarpSum(w) ==
    LET squares == [l \in Lanes |-> SetToBag(Strided(w, l, HeadDim))]
        reduced == WarpReduce(squares, "sum")
    IN /\ At(w, "warp_sum")
       /\ local_sum' = [local_sum EXCEPT ![w] = reduced]
       /\ mem' = [mem EXCEPT ![<<"warp_sums", w>>] = reduced[0]]
       /\ Runs(w, "warp_sum", StridedCells(w, "x_vec", HeadDim), {<<0, <<"warp_sums", w>>>>})

\* The first warp adds the warps' sums and puts the total in warp_sums[0].
FirstSum(w) ==
    LET partial == [l \in Lanes |-> IF l < NumWarps THEN mem[<<"warp_sums", l>>] ELSE EmptyBag]
    IN /\ At(w, "first_sum")
       /\ IF w = 0
          THEN /\ mem' = [mem EXCEPT ![<<"warp_sums", 0>>] = WarpReduce(partial, "sum")[0]]
               /\ Runs(w, "first_sum", {<<l, <<"warp_sums", l>>>> : l \in Warps},
                       {<<0, <<"warp_sums", 0>>>>})
          ELSE mem' = mem /\ Runs(w, "first_sum", {}, {})
       /\ UNCHANGED local_sum

\* norm = sqrt(warp_sums[0]): thread 0 stores it, all divide by it.
Scale(w) ==
    LET total == mem[<<"warp_sums", 0>>]
        stored == IF w = 0 THEN {<<"norm", 0>>} ELSE {}
    IN /\ At(w, "scale")
       /\ mem' = [cell \in {"x_vec"} \X OwnIndices(w, HeadDim) |-> [mem[cell] EXCEPT !.norm = total]]
                 @@ [cell \in stored |-> total] @@ mem
       /\ Runs(w, "scale",
               StridedCells(w, "x_vec", HeadDim) \union (Lanes \X {<<"warp_sums", 0>>}),
               StridedCells(w, "x_vec", HeadDim) \union ({0} \X stored))
       /\ UNCHANGED local_sum

\* Step 4: y = Pi @ x_norm.
Rotate(w) ==
    LET whole == \A j \in Dims :
                    mem[<<"x_vec", j>>] = [loaded |-> TRUE, norm |-> SetToBag(Dims)]
    IN /\ At(w, "rotate")
       /\ mem' = [cell \in {"y_vec"} \X OwnIndices(w, HeadDim) |->
                     IF whole THEN call.y[cell[2]] ELSE Junk] @@ mem
       /\ Runs(w, "rotate", ByAll(w, HeadDim, Array("x_vec", HeadDim)),
               StridedCells(w, "y_vec", HeadDim))
       /\ UNCHANGED local_sum

\* Steps 5 and 6: a thread owns whole bytes and reads all their coordinates.
PackedBytes == (HeadDim + PerByte - 1) \div PerByte

Pack(w) ==
    LET y == [d \in Dims |-> mem[<<"y_vec", d>>]]
        coordinates(l) == {d \in Dims : d \div PerByte \in Strided(w, l, PackedBytes)}
    IN /\ At(w, "pack")
       /\ mem' = [cell \in {"packed"} \X OwnIndices(w, PackedBytes) |-> PackByte(y, cell[2])] @@ mem
       /\ Runs(w, "pack", UNION {{l} \X ({"y_vec"} \X coordinates(l)) : l \in Lanes},
               StridedCells(w, "packed", PackedBytes))
       /\ UNCHANGED local_sum

-----------------------------------------------------------------------------
(* Decompression: y_hat is in the cells of y_vec.                            *)

PackedNow == [b \in 0 .. (PackedDim - 1) |-> mem[<<"packed", b>>]]

UnpackStep(w) ==
    LET mine(l) == {d \in Dims : d \div PerByte \in Strided(w, l, PackedBytes)}
        all == UNION {mine(l) : l \in Lanes}
    IN /\ At(w, "unpack")
       /\ mem' = [cell \in {"y_vec"} \X all |-> Centroid(Unpack(PackedNow, cell[2]))] @@ mem
       /\ Runs(w, "unpack", StridedCells(w, "packed", PackedBytes),
               UNION {{l} \X ({"y_vec"} \X mine(l)) : l \in Lanes})
       /\ UNCHANGED local_sum

\* x_hat = Pi^T @ y_hat
Unrotate(w) ==
    /\ At(w, "unrotate")
    /\ mem' = [cell \in {"x_hat"} \X OwnIndices(w, HeadDim) |->
                  [d \in Dims |-> mem[<<"y_vec", d>>]]] @@ mem
    /\ Runs(w, "unrotate", ByAll(w, HeadDim, Array("y_vec", HeadDim)),
            StridedCells(w, "x_hat", HeadDim))
    /\ UNCHANGED local_sum

Rescale(w) ==
    /\ At(w, "rescale")
    /\ mem' = [cell \in {"out"} \X OwnIndices(w, HeadDim) |->
                  [norm |-> mem[<<"norm", 0>>], vector |-> mem[<<"x_hat", cell[2]>>]]] @@ mem
    /\ Runs(w, "rescale", StridedCells(w, "x_hat", HeadDim) \union (Lanes \X {<<"norm", 0>>}),
            StridedCells(w, "out", HeadDim))
    /\ UNCHANGED local_sum

Done ==
    /\ kernel = "decompress"
    /\ \A w \in Warps : pc[w] > Len(Program)
    /\ UNCHANGED vars

Next ==
    \/ Launch
    \/ LaunchDecompress
    \/ \E w \in Warps :
          \/ Load(w) \/ WarpSum(w) \/ FirstSum(w) \/ Scale(w) \/ Rotate(w) \/ Pack(w)
          \/ UnpackStep(w) \/ Unrotate(w) \/ Rescale(w)
    \/ Done

Spec == Init /\ [][Next]_vars

-----------------------------------------------------------------------------

\* After compression and decompression every coordinate is a centroid with none
\* nearer to what the rotation gave, rescaled by the norm of all coordinates,
\* whatever the bits, the tail of the last byte and the order of the warps.
RoundTrips ==
    kernel = "decompress" /\ (\A w \in Warps : pc[w] > Len(Program)) =>
        \A d \in Dims :
            /\ mem[<<"out", d>>].norm = SetToBag(Dims)
            /\ \A j \in Dims : \A c \in 0 .. (Levels - 1) :
                  Distance(call.y[j], mem[<<"out", d>>].vector[j]) <= Distance(call.y[j], Centroid(c))

=============================================================================
