---------------------------- MODULE ThreadBlock ----------------------------
(***************************************************************************)
(* One CUDA thread block, as the kernels under                             *)
(* backends/fracture-cuda/kernels use it: NumWarps warps of WarpSize       *)
(* lanes.  The lanes of a warp move together through the shuffles, the     *)
(* warps of a block only meet at __syncthreads().                          *)
(*                                                                         *)
(* A float is abstracted to where it comes from: a running maximum is the  *)
(* set of the terms it was taken over, a running sum is the bag of the     *)
(* terms added to it, so a term lost, added twice or read before it was    *)
(* written shows in the value.                                             *)
(***************************************************************************)
EXTENDS Integers, Sequences, FiniteSets, Bags, TLC

CONSTANTS
    WarpSize,   \* 32 on the hardware
    NumWarps    \* blockDim.x / warpSize; the blocks modelled have no partial warp

VARIABLES
    pc,         \* warp -> index of the segment it runs next; 0 before the launch
    epoch,      \* warp -> __syncthreads() it has passed
    reads,      \* warp -> <<lane, cell>> read since its last barrier
    writes      \* warp -> <<lane, cell>> written since its last barrier

blockVars == <<pc, epoch, reads, writes>>

\* shared_max[32], shared_sum[32]: at most one warp's worth of partial results.
WarpsFitOneWarp == WarpSize \in {2, 4, 8, 16, 32} /\ NumWarps \in 1 .. WarpSize

Lanes == 0 .. (WarpSize - 1)
Warps == 0 .. (NumWarps - 1)
NumThreads == WarpSize * NumWarps

\* threadIdx.x
Tid(w, l) == w * WarpSize + l

\* for (int i = threadIdx.x; i < n; i += blockDim.x)
Strided(w, l, n) == {i \in 0 .. (n - 1) : i % NumThreads = Tid(w, l)}

\* __shfl_down_sync: lane l receives lane l + offset, or its own value past the end.
ShflDown(v, offset) ==
    [l \in Lanes |-> IF l + offset < WarpSize THEN v[l + offset] ELSE v[l]]

FMax(a, b) == a \union b
FAdd(a, b) == a (+) b

\* for (int offset = warpSize / 2; offset > 0; offset >>= 1) ...: after[o] is the
\* lanes' values once the offset o was added.  Lane 0 ends with the whole
\* warp's result, the other lanes with part of it.
WarpReduce(v, op) ==
    LET after[o \in 1 .. WarpSize] ==
            IF o = WarpSize
            THEN v
            ELSE LET before == after[2 * o]
                     other == ShflDown(before, o)
                 IN [l \in Lanes |-> IF op = "max" THEN FMax(before[l], other[l])
                                              ELSE FAdd(before[l], other[l])]
    IN after[1]

-----------------------------------------------------------------------------
(* Shared cells are <<array, index>>.                                        *)

Array(name, n) == {name} \X (0 .. (n - 1))

\* The indices the lanes of a warp visit in a strided loop over 0 .. n-1, the
\* cells of an array it touches there, and cells every lane with an iteration
\* touches.
OwnIndices(w, n) == UNION {Strided(w, l, n) : l \in Lanes}

StridedCells(w, array, n) ==
    UNION {{<<l, <<array, i>>>> : i \in Strided(w, l, n)} : l \in Lanes}

ByAll(w, n, cells) == {l \in Lanes : Strided(w, l, n) # {}} \X cells

-----------------------------------------------------------------------------
(* Segments, the code between two places where warps may meet.               *)

BlockInit ==
    /\ pc = [w \in Warps |-> 0]
    /\ epoch = [w \in Warps |-> 0]
    /\ reads = [w \in Warps |-> {}]
    /\ writes = [w \in Warps |-> {}]

Started == pc' = [w \in Warps |-> 1] /\ UNCHANGED <<epoch, reads, writes>>

\* A warp passes __syncthreads() when every warp has come to it.
Meets(w, synced) == synced => \A v \in Warps : pc[v] >= pc[w]

\* The end of a segment entered through a barrier or not: what w read and wrote.
Passes(w, synced, R, W) ==
    /\ pc' = [pc EXCEPT ![w] = @ + 1]
    /\ epoch' = [epoch EXCEPT ![w] = IF synced THEN @ + 1 ELSE @]
    /\ reads' = [reads EXCEPT ![w] = IF synced THEN R ELSE @ \union R]
    /\ writes' = [writes EXCEPT ![w] = IF synced THEN W ELSE @ \union W]

\* Two threads that touch the same cell between the same two __syncthreads() of
\* a kernel both only read it: the kernels have no data race on shared memory,
\* and none on the bytes they write to global memory.
RaceFree ==
    \A v, w \in Warps : epoch[v] = epoch[w] =>
        \A a \in writes[v] : \A b \in reads[w] \union writes[w] :
            a[2] = b[2] => v = w /\ a[1] = b[1]

=============================================================================
