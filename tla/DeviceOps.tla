----------------------------- MODULE DeviceOps -----------------------------
(***************************************************************************)
(* The compute methods of CudaBackend, called one after the other by the   *)
(* engine: profiling ranges, arguments resolved to device pointers,        *)
(* temporary allocations filled from the host, the launch on the backend's *)
(* stream, the temporaries freed behind it.  The host does not wait for a  *)
(* kernel; the device runs the stream's entries in order.  Any CUDA call   *)
(* may fail, and then the method returns from where it is.  timed_op puts  *)
(* a pair of events around a method.                                       *)
(*                                                                         *)
(* External, as the code relies on it: cudaFree, cudaMemcpy and            *)
(* cudaEventSynchronize return when the entries before them have run.      *)
(***************************************************************************)
EXTENDS Integers, Sequences, FiniteSets, FiniteSetsExt

CONSTANTS Buffers,    \* device allocations there is room for
          Arguments,  \* those that methods are called with
          Failures,   \* whether CUDA calls may fail
          MaxOps      \* bound: methods called

VARIABLES
    tensors,   \* CudaState.tensors: the buffers with a TensorId
    live,      \* buffers allocated on the device
    filled,    \* temporaries whose contents were copied
    stream,    \* entries launched and not yet run
    freqs,     \* rope_freq_table is there
    op,        \* the method under way
    ops,       \* methods called so far
    ranges,    \* depth of NVTX ranges
    timers,    \* TimerManager's events: ids
    events,    \* cudaEvent_t that exist
    nextTimer,
    measured   \* history: timer -> methods whose kernels ran between its events

vars == <<tensors, live, filled, stream, freqs, op, ops, ranges, timers, events, nextTimer, measured>>
deviceVars == <<tensors, live, filled, stream, freqs>>
timerVars == <<timers, events, nextTimer, measured>>

-----------------------------------------------------------------------------
(* The methods: whether shapes are checked before the range is opened, the   *)
(* number of tensors and temporaries, and whether the temporaries are freed  *)
(* and the range closed when the launch fails.                               *)

Method(early, uses, temps, tidy) ==
    [early |-> early, uses |-> uses, temps |-> temps, tidy |-> tidy, launches |-> TRUE]

Matmul == Method(TRUE, 3, 0, FALSE)
Rmsnorm == Method(FALSE, 3, 0, FALSE)
Rope == Method(FALSE, 2, 1, TRUE)
Attention == Method(FALSE, 4, 0, FALSE)
AttentionPaged == Method(FALSE, 4, 3, FALSE)
SiluMul == Method(TRUE, 3, 0, FALSE)
Embedding == Method(FALSE, 2, 1, TRUE)
Add == Method(TRUE, 3, 0, FALSE)
TurboquantCompress == Method(FALSE, 5, 0, FALSE)
AttentionPagedTq == Method(FALSE, 10, 5, FALSE)

\* copy_rows checks its bounds inside the range and copies with cudaMemcpy.
CopyRows == [Method(FALSE, 2, 0, FALSE) EXCEPT !.launches = FALSE]

Methods ==
    [matmul |-> Matmul, rmsnorm |-> Rmsnorm, rope |-> Rope, attention |-> Attention,
     attention_paged |-> AttentionPaged, silu_mul |-> SiluMul, embedding |-> Embedding,
     add |-> Add, turboquant_compress |-> TurboquantCompress,
     attention_paged_tq |-> AttentionPagedTq, copy_rows |-> CopyRows]

Idle == [name |-> "none", step |-> "idle", uses |-> {}, temps |-> <<>>, timer |-> 0, failed |-> FALSE]

M == Methods[op.name]

Init ==
    /\ tensors = {} /\ live = {} /\ filled = {} /\ stream = <<>>
    /\ freqs \in BOOLEAN
    /\ op = Idle /\ ops = 0 /\ ranges = 0
    /\ timers = {} /\ events = 0 /\ nextTimer = 1 /\ measured = <<>>

-----------------------------------------------------------------------------
(* Tensors.                                                                  *)

AllocTensor ==
    /\ op = Idle
    /\ \E b \in Arguments \ live :
          /\ live' = live \union {b}
          /\ tensors' = tensors \union {b}
    /\ UNCHANGED <<filled, stream, freqs, op, ops, ranges, timerVars>>

FreeTensor ==
    /\ op = Idle
    /\ stream = <<>>
    /\ \E b \in tensors :
          /\ live' = live \ {b}
          /\ tensors' = tensors \ {b}
    /\ UNCHANGED <<filled, stream, freqs, op, ops, ranges, timerVars>>

-----------------------------------------------------------------------------
(* A method.                                                                 *)

\* A failed method leaves its timer where it is: timed_op returns from f()?.
Returns(failed) ==
    op' = IF op.timer # 0 /\ ~failed THEN [op EXCEPT !.step = "stop_timer"] ELSE Idle

\* The first event is kept when the second cannot be created.
CreateTimerKeepsFirst ==
    \/ /\ timers' = timers \union {nextTimer}
       /\ nextTimer' = nextTimer + 1
       /\ events' = events + 2
       /\ measured' = Append(measured, <<>>)
       /\ stream' = Append(stream, [kind |-> "start", of |-> nextTimer, uses |-> {}])
    \/ /\ Failures
       /\ events' = events + 1
       /\ UNCHANGED <<timers, nextTimer, measured, stream>>

\* timed_op: cudaEventCreate twice, the first event destroyed when the second
\* cannot be created, and the start event recorded.  When that fails, timed_op
\* returns and the timer stays.
CreateTimer ==
    \/ /\ timers' = timers \union {nextTimer}
       /\ nextTimer' = nextTimer + 1
       /\ events' = events + 2
       /\ measured' = Append(measured, <<>>)
       /\ stream' = Append(stream, [kind |-> "start", of |-> nextTimer, uses |-> {}])
    \/ /\ Failures
       /\ UNCHANGED <<timers, events, nextTimer, measured, stream>>
    \/ /\ Failures
       /\ timers' = timers \union {nextTimer}
       /\ nextTimer' = nextTimer + 1
       /\ events' = events + 2
       /\ measured' = Append(measured, <<>>)
       /\ UNCHANGED stream

\* The call, with or without profiling.  The arguments are tensors the caller
\* holds, one of which may have been freed.
Call(name, profiling) ==
    /\ op = Idle
    /\ ops < MaxOps
    /\ ops' = ops + 1
    /\ \E uses \in {u \in SUBSET Arguments : u # {} /\ Cardinality(u) <= Methods[name].uses} :
          IF profiling
          THEN /\ CreateTimer
               /\ op' = IF stream' = stream THEN Idle
                        ELSE [Idle EXCEPT !.name = name, !.step = "check", !.uses = uses, !.timer = nextTimer]
          ELSE /\ op' = [Idle EXCEPT !.name = name, !.step = "check", !.uses = uses]
               /\ UNCHANGED <<timerVars, stream>>
    /\ UNCHANGED <<tensors, live, filled, freqs, ranges>>

\* Shape checks that stand before nvtx::range_push.
RejectsShapes ==
    /\ op.step = "check"
    /\ M.early
    /\ Returns(TRUE)
    /\ UNCHANGED <<deviceVars, ops, ranges, timerVars>>

OpensRange ==
    /\ op.step = "check"
    /\ ranges' = ranges + 1
    /\ op' = [op EXCEPT !.step = "resolve"]
    /\ UNCHANGED <<deviceVars, ops, timerVars>>

\* get_ptr of every argument, rope_freq_ptr, and the bounds of copy_rows: an
\* error returns with the range open.
ResolvesArguments ==
    /\ op.step = "resolve"
    /\ \/ /\ op.uses \subseteq tensors
          /\ op.name = "rope" => freqs
          /\ op' = [op EXCEPT !.step = IF M.launches THEN "temps" ELSE "copy"]
       \/ /\ \/ ~(op.uses \subseteq tensors)
             \/ op.name = "rope" /\ ~freqs
             \/ op.name = "copy_rows"
          /\ Returns(TRUE)
    /\ UNCHANGED <<deviceVars, ops, ranges, timerVars>>

\* cudaMalloc and cudaMemcpy of one temporary after the other.
AllocatesTemp ==
    /\ op.step = "temps"
    /\ Len(op.temps) < M.temps
    /\ filled = {op.temps[i] : i \in DOMAIN op.temps}
    /\ \/ \E b \in Buffers \ live :
             /\ b = Min(Buffers \ live)
             /\ live' = live \union {b}
             /\ op' = [op EXCEPT !.temps = Append(@, b)]
             /\ UNCHANGED filled
       \/ /\ Buffers \subseteq live
          /\ Returns(TRUE)
          /\ filled' = {}
          /\ UNCHANGED live
    /\ UNCHANGED <<tensors, stream, freqs, ops, ranges, timerVars>>

FillsTemp ==
    /\ op.step = "temps"
    /\ \E i \in DOMAIN op.temps : op.temps[i] \notin filled
    /\ stream = <<>>
    /\ \/ filled' = {op.temps[i] : i \in DOMAIN op.temps} /\ UNCHANGED op
       \/ Failures /\ filled' = {} /\ Returns(TRUE)
    /\ UNCHANGED <<tensors, live, stream, freqs, ops, ranges, timerVars>>

Entry == [kind |-> "kernel", of |-> ops, uses |-> op.uses \union {op.temps[i] : i \in DOMAIN op.temps}]

\* The launch.  Its failure returns at once (cuda_check!), or is kept until the
\* temporary is freed and the range closed (rope, embedding).
Launches ==
    /\ op.step = "temps"
    /\ Len(op.temps) = M.temps
    /\ filled = {op.temps[i] : i \in DOMAIN op.temps}
    /\ \/ /\ stream' = Append(stream, Entry)
          /\ op' = [op EXCEPT !.step = "free"]
          /\ UNCHANGED filled
       \/ /\ Failures
          /\ UNCHANGED stream
          /\ IF M.tidy
             THEN op' = [op EXCEPT !.step = "free", !.failed = TRUE] /\ UNCHANGED filled
             ELSE Returns(TRUE) /\ filled' = {}
    /\ UNCHANGED <<tensors, live, freqs, ops, ranges, timerVars>>

\* cudaFree that does not wait for the device.
FreesAtOnce ==
    /\ op.step = "free"
    /\ live' = live \ {op.temps[i] : i \in DOMAIN op.temps}
    /\ filled' = {}
    /\ ranges' = ranges - 1
    /\ Returns(op.failed)
    /\ UNCHANGED <<tensors, stream, freqs, ops, timerVars>>

\* cudaFree of the temporaries, if there are any, and nvtx::range_pop.
FreesTemps ==
    /\ op.step = "free"
    /\ op.temps # <<>> => stream = <<>>
    /\ live' = live \ {op.temps[i] : i \in DOMAIN op.temps}
    /\ filled' = {}
    /\ ranges' = ranges - 1
    /\ Returns(op.failed)
    /\ UNCHANGED <<tensors, stream, freqs, ops, timerVars>>

\* cudaMemcpy from device to device.
CopiesRows ==
    /\ op.step = "copy"
    /\ stream = <<>>
    /\ \/ ranges' = ranges - 1 /\ Returns(FALSE)
       \/ Failures /\ UNCHANGED ranges /\ Returns(TRUE)
    /\ UNCHANGED <<deviceVars, ops, timerVars>>

-----------------------------------------------------------------------------
(* The end of timed_op, and the device.                                      *)

\* cudaEventRecord of the second event; an error leaves the timer.
StopTimer ==
    /\ op.step = "stop_timer"
    /\ \/ /\ stream' = Append(stream, [kind |-> "stop", of |-> op.timer, uses |-> {}])
          /\ op' = [op EXCEPT !.step = "wait_timer"]
       \/ /\ Failures
          /\ op' = Idle
          /\ UNCHANGED stream
    /\ UNCHANGED <<tensors, live, filled, freqs, ops, ranges, timerVars>>

\* Without cudaEventSynchronize.
DestroyTimerAtOnce ==
    /\ op.step = "wait_timer"
    /\ timers' = timers \ {op.timer}
    /\ events' = events - 2
    /\ op' = Idle
    /\ UNCHANGED <<deviceVars, ops, ranges, nextTimer, measured>>

\* cudaEventSynchronize and cudaEventElapsedTime, then destroy, which an error
\* of the first two skips.
DestroyTimer ==
    /\ op.step = "wait_timer"
    /\ stream = <<>>
    /\ \/ timers' = timers \ {op.timer} /\ events' = events - 2
       \/ Failures /\ UNCHANGED <<timers, events>>
    /\ op' = Idle
    /\ UNCHANGED <<deviceVars, ops, ranges, nextTimer, measured>>

\* The device runs the oldest entry.
RunEntry ==
    /\ stream # <<>>
    /\ LET entry == Head(stream)
       IN measured' = IF entry.kind = "kernel"
                      THEN [t \in DOMAIN measured |->
                              IF t \in timers THEN Append(measured[t], entry.of) ELSE measured[t]]
                      ELSE IF entry.kind = "start"
                      THEN [measured EXCEPT ![entry.of] = <<>>]
                      ELSE measured
    /\ stream' = Tail(stream)
    /\ UNCHANGED <<tensors, live, filled, freqs, op, ops, ranges, timers, events, nextTimer>>

Next ==
    \/ AllocTensor \/ FreeTensor
    \/ \E name \in DOMAIN Methods, profiling \in BOOLEAN : Call(name, profiling)
    \/ RejectsShapes \/ OpensRange \/ ResolvesArguments
    \/ AllocatesTemp \/ FillsTemp \/ Launches \/ FreesTemps \/ CopiesRows
    \/ StopTimer \/ DestroyTimer
    \/ RunEntry

Spec == Init /\ [][Next]_vars

-----------------------------------------------------------------------------
(* Properties.                                                               *)

\* Every buffer an entry of the stream will touch is still allocated, and the
\* temporaries of the method under way are filled once a kernel with them is
\* launched: no kernel runs on memory the host has given back.
QueuedBuffersLive ==
    \A i \in DOMAIN stream :
        /\ stream[i].uses \subseteq live
        /\ stream[i].kind = "kernel" => stream[i].uses \subseteq tensors \union filled

\* Events exist in the pairs the timer table holds, also after an event could
\* not be created.
EventsPaired == events = 2 * Cardinality(timers)

\* The time stop_timer returns is that of the kernel of the method it was put
\* around, and of no other.
MeasuresItsStep ==
    op.step = "wait_timer" /\ op' = Idle =>
        measured[op.timer] = IF M.launches THEN <<ops>> ELSE <<>>
MeasuresItsMethod == [][MeasuresItsStep]_vars

\* Between two methods, all memory on the device belongs to a tensor: a method
\* that returns, with an error too, has freed its temporaries.
TempsReturned == op = Idle => live = tensors

\* Between two methods no NVTX range is open.
RangesClosed == op = Idle => ranges = 0

=============================================================================
