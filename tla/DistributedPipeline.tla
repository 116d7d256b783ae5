------------------------- MODULE DistributedPipeline -------------------------
(***************************************************************************)
(* The coordinator's pipeline over its workers, and the worker's serve     *)
(* loop as its counterpart: CacheAlloc with rollback, CacheFree, batched   *)
(* forward passes stage by stage, one FIFO connection per worker.  The     *)
(* answers carry no request id, so which request an answer belongs to is   *)
(* a matter of order; `call' in a message is a history value that the code *)
(* does not have.  Calls hold the registry lock: one at a time.  The loop  *)
(* is the caller: it admits, runs batches, and frees what completes.       *)
(* Stage i of the pipeline is worker i.                                    *)
(***************************************************************************)
EXTENDS Integers, FiniteSets, Functions, Sequences

CONSTANTS Stages,       \* length of pipeline_order
          SeqId,          \* sequence ids
          MaxCalls,     \* bound: calls of the pipeline
          MaxBeats,     \* bound: heartbeat rounds
          MaxOom,       \* bound: CacheAllocs that find no memory
          MaxErrors,    \* bound: forward passes that fail on a worker
          MaxLosses,    \* bound: connections lost
          MaxReplaced   \* bound: pipelines rebuilt by the reconnection listener

PipelineAssumption ==
  /\ Stages \in Nat \ {0}
  /\ IsFiniteSet(SeqId)
  /\ {MaxCalls, MaxBeats, MaxOom, MaxErrors, MaxLosses, MaxReplaced} \subseteq Nat

Stage == 1 .. Stages

VARIABLES fate,       \* the loop's view of each sequence
          allocated,  \* allocated_seqs
          call,       \* the call that holds the registry lock
          down,       \* on the wire to each worker
          inbox,      \* msg_rx: handed over by the router, not yet served
          up,         \* on the wire to the coordinator
          handles,    \* the worker's handles (and paged_handles)
          linked,     \* the connection is up
          dead,       \* workers marked Dead
          used        \* how much of each bound is used

vars == <<fate, allocated, call, down, inbox, up, handles, linked, dead, used>>

\* new; active; refused by alloc_cache; freed by free_cache; failed in a
\* forward pass; aborted when a worker died
Fate == {"new", "active", "refused", "freed", "failed", "aborted"}
Active == {s \in SeqId : fate[s] = "active"}

NoMsg == [type |-> "none", seqs |-> {}, call |-> 0]
Msg(type, seqs, c) == [type |-> type, seqs |-> seqs, call |-> c]

\* `wait': workers whose answer the call still has to take; `got': answers a
\* reader task has taken off the connection and the call has not looked at.
Idle == [op |-> "idle", seqs |-> {}, stage |-> 0, wait |-> {}, ok |-> {},
         got |-> [w \in Stage |-> NoMsg]]

Init ==
  /\ fate = [s \in SeqId |-> "new"]
  /\ allocated = {}
  /\ call = Idle
  /\ down = [w \in Stage |-> <<>>]
  /\ inbox = [w \in Stage |-> <<>>]
  /\ up = [w \in Stage |-> <<>>]
  /\ handles = [w \in Stage |-> {}]
  /\ linked = [w \in Stage |-> TRUE]
  /\ dead = {}
  /\ used = [calls |-> 0, beats |-> 0, oom |-> 0, errors |-> 0, losses |-> 0,
             replaced |-> 0]

Spend(what, max) == used[what] < max /\ used' = [used EXCEPT ![what] = @ + 1]

\* The wires after each worker of S was sent m, in order; what is sent into a
\* lost connection is gone.
Sent(wires, S, m) == [w \in Stage |-> IF w \in S /\ linked[w] THEN Append(wires[w], m)
                                       ELSE wires[w]]
SentAll(wires, S, msgs) ==
  [w \in Stage |-> IF w \in S /\ linked[w] THEN wires[w] \o msgs ELSE wires[w]]

\* Workers reached by a loop of sends that returns at the first failure: all,
\* or those before a worker whose connection is lost (a send into a lost
\* connection fails now or only later).
Reached(S) == S \in {1 .. (w - 1) : w \in {v \in Stage : ~linked[v]}} \cup {Stage}

Id == used.calls
Free(s) == Msg("CacheFree", {s}, 0)
Frees(S) == LET order == CHOOSE f \in Bijection(1 .. Cardinality(S), S) : TRUE
            IN [i \in 1 .. Cardinality(S) |-> Free(order[i])]
Reachable == Stage \ dead

\* A degraded loop starts no call until the pipeline is rebuilt without the
\* dead worker, which is in Cluster.
Callable == call.op = "idle" /\ dead = {}

-----------------------------------------------------------------------------
(* alloc_cache.                                                            *)
AllocCall(s) ==
  /\ Callable /\ fate[s] = "new" /\ s \notin allocated
  /\ Spend("calls", MaxCalls)
  /\ \E S \in SUBSET Stage :
       /\ Reached(S)
       /\ down' = Sent(down, S, Msg("CacheAlloc", {s}, Id + 1))
       /\ IF S = Stage
          THEN /\ call' = [Idle EXCEPT !.op = "alloc", !.seqs = {s}, !.wait = Stage]
               /\ fate' = fate
          ELSE /\ call' = Idle
               /\ fate' = [fate EXCEPT ![s] = "refused"]
  /\ UNCHANGED <<allocated, inbox, up, handles, linked, dead>>

\* recv_skipping_heartbeat_acks: heartbeat acks in front are dropped.
SkipAck(w) ==
  /\ call.op # "idle" /\ w \in call.wait /\ call.got[w] = NoMsg
  /\ up[w] # <<>> /\ Head(up[w]).type = "HeartbeatAck"
  /\ up' = [up EXCEPT ![w] = Tail(@)]
  /\ UNCHANGED <<fate, allocated, call, down, inbox, handles, linked, dead, used>>

\* A reader task of the JoinSet takes one message off its connection.
TaskRecv(w) ==
  /\ call.op = "alloc" /\ w \in call.wait /\ call.got[w] = NoMsg
  /\ up[w] # <<>> /\ Head(up[w]).type # "HeartbeatAck"
  /\ call' = [call EXCEPT !.got[w] = Head(up[w])]
  /\ up' = [up EXCEPT ![w] = Tail(@)]
  /\ UNCHANGED <<fate, allocated, down, inbox, handles, linked, dead, used>>

\* The connection of a worker the call waits for is lost and read to its end.
Broken(w) == w \in call.wait /\ call.got[w] = NoMsg /\ ~linked[w] /\ up[w] = <<>>

\* The error path: CacheFree to the workers that had succeeded.  The reader
\* tasks are dropped: answers they took are lost, others stay on the wire.
AllocFails ==
  LET s == CHOOSE t \in call.seqs : TRUE
  IN /\ call' = Idle
     /\ fate' = [fate EXCEPT ![s] = "refused"]
     /\ down' = Sent(down, call.ok, Free(s))
     /\ UNCHANGED allocated

\* The call looks at the next finished task.
AllocJoin(w) ==
  /\ call.op = "alloc" /\ w \in call.wait
  /\ \/ /\ call.got[w] # NoMsg /\ call.got[w].type = "CacheAllocAck"
        /\ IF call.wait = {w}
           THEN /\ call' = Idle
                /\ allocated' = allocated \cup call.seqs
                /\ fate' = [s \in SeqId |-> IF s \in call.seqs THEN "active" ELSE fate[s]]
           ELSE /\ call' = [call EXCEPT !.wait = @ \ {w}, !.ok = @ \cup {w}]
                /\ UNCHANGED <<allocated, fate>>
        /\ UNCHANGED down
     \/ /\ Broken(w) \/ (call.got[w] # NoMsg /\ call.got[w].type # "CacheAllocAck")
        /\ AllocFails
  /\ UNCHANGED <<inbox, up, handles, linked, dead, used>>

-----------------------------------------------------------------------------
(* batched_forward (forward is the same for one sequence).                 *)

\* A sequence the pipeline does not know: no message is sent.
ForwardRefused(S) == ~(S \subseteq allocated)

\* What the loop does with an Err: every sequence of the batch is dropped and
\* free_cache_best_effort tells the workers that are not dead.
FailedBatch(S, wires) ==
  /\ fate' = [s \in SeqId |-> IF s \in S THEN "failed" ELSE fate[s]]
  /\ allocated' = allocated \ S
  /\ down' = SentAll(wires, Reachable, Frees(S))
  /\ call' = Idle

\* The request of stage k goes out; at a lost connection it may fail at once.
StageSent(S, k, c) ==
  \/ /\ down' = Sent(down, {k}, Msg("BatchedForward", S, c))
     /\ call' = [Idle EXCEPT !.op = "forward", !.seqs = S, !.stage = k, !.wait = {k}]
     /\ UNCHANGED <<allocated, fate>>
  \/ ~linked[k] /\ FailedBatch(S, down)

ForwardCall(S) ==
  /\ Callable /\ S # {} /\ S \subseteq Active
  /\ Spend("calls", MaxCalls)
  /\ IF ForwardRefused(S) THEN FailedBatch(S, down) ELSE StageSent(S, 1, Id + 1)
  /\ UNCHANGED <<inbox, up, handles, linked, dead>>

ForwardAnswer ==
  /\ call.op = "forward"
  /\ LET w == call.stage
         answer == IF up[w] = <<>> THEN NoMsg ELSE Head(up[w])
     IN /\ \/ Broken(w)
           \/ up[w] # <<>> /\ answer.type # "HeartbeatAck"
        /\ up' = [up EXCEPT ![w] = IF @ = <<>> THEN @ ELSE Tail(@)]
        /\ IF answer.type # "BatchedForwardResult" THEN FailedBatch(call.seqs, down)
           ELSE IF w = Stages THEN /\ call' = Idle
                                   /\ UNCHANGED <<allocated, fate, down>>
           ELSE StageSent(call.seqs, w + 1, Id)
  /\ UNCHANGED <<inbox, handles, linked, dead, used>>

-----------------------------------------------------------------------------
(* free_cache, when a sequence completes: forgotten first, then told, up   *)
(* to the first failing send.                                              *)
FreeCall(s) ==
  /\ Callable /\ fate[s] = "active"
  /\ fate' = [fate EXCEPT ![s] = "freed"]
  /\ IF s \in allocated
     THEN \E S \in SUBSET Stage : Reached(S) /\ down' = Sent(down, S, Free(s))
     ELSE UNCHANGED down
  /\ allocated' = allocated \ {s}
  /\ UNCHANGED <<call, inbox, up, handles, linked, dead, used>>

\* A worker missed its heartbeats: it is marked Dead, then abort_all_sequences.
WorkerDies(w) ==
  /\ call.op = "idle" /\ ~linked[w] /\ w \notin dead
  /\ dead' = dead \cup {w}
  /\ down' = SentAll(down, Stage \ dead', Frees(allocated))
  /\ fate' = [s \in SeqId |-> IF s \in allocated /\ fate[s] = "active" THEN "aborted"
                            ELSE fate[s]]
  /\ allocated' = {}
  /\ UNCHANGED <<call, inbox, up, handles, linked, used>>

\* The reconnection listener has reconfigured every worker and broadcasts a
\* new pipeline, which the loop picks up between two calls: it knows no
\* sequence, and the workers dropped their caches when they reconfigured.
Replace ==
  /\ call.op = "idle" /\ dead = {}
  /\ \A w \in Stage : linked[w] /\ down[w] = <<>> /\ inbox[w] = <<>>
  /\ Spend("replaced", MaxReplaced)
  /\ allocated' = {}
  /\ handles' = [w \in Stage |-> {}]
  /\ UNCHANGED <<fate, call, down, inbox, up, linked, dead>>

SendHeartbeats ==
  /\ call.op = "idle"
  /\ Spend("beats", MaxBeats)
  /\ down' = Sent(down, Reachable, Msg("Heartbeat", {}, 0))
  /\ UNCHANGED <<fate, allocated, call, inbox, up, handles, linked, dead>>

-----------------------------------------------------------------------------
(* The worker.                                                             *)
Answer(w, type, m) == up' = [up EXCEPT ![w] = Append(@, Msg(type, m.seqs, m.call))]

\* Router task: heartbeats are answered at once, the rest is queued.
Router(w) ==
  /\ linked[w] /\ down[w] # <<>>
  /\ down' = [down EXCEPT ![w] = Tail(@)]
  /\ LET m == Head(down[w])
     IN IF m.type = "Heartbeat"
        THEN Answer(w, "HeartbeatAck", m) /\ UNCHANGED inbox
        ELSE inbox' = [inbox EXCEPT ![w] = Append(@, m)] /\ UNCHANGED up
  /\ UNCHANGED <<fate, allocated, call, handles, linked, dead, used>>

Serves(w, type) == linked[w] /\ inbox[w] # <<>> /\ Head(inbox[w]).type = type
Served(w) == inbox' = [inbox EXCEPT ![w] = Tail(@)]
Asked(w) == Head(inbox[w])

ServeAlloc(w) ==
  /\ Serves(w, "CacheAlloc") /\ Served(w)
  /\ \/ /\ Asked(w).seqs \cap handles[w] = {}
        /\ handles' = [handles EXCEPT ![w] = @ \cup Asked(w).seqs]
        /\ Answer(w, "CacheAllocAck", Asked(w))
        /\ UNCHANGED used
     \/ /\ Asked(w).seqs \cap handles[w] = {}      \* out of memory
        /\ Spend("oom", MaxOom)
        /\ Answer(w, "Error", Asked(w))
        /\ UNCHANGED handles
     \/ /\ Asked(w).seqs \subseteq handles[w]      \* already allocated
        /\ Answer(w, "Error", Asked(w))
        /\ UNCHANGED <<handles, used>>
  /\ UNCHANGED <<fate, allocated, call, down, linked, dead>>

\* variant: only the contiguous cache is released
ServeFreeKeeps(w) ==
  /\ Serves(w, "CacheFree") /\ Served(w)
  /\ UNCHANGED <<fate, allocated, call, down, up, handles, linked, dead, used>>
\* variant: CacheFree is acknowledged, like CacheAlloc
ServeFreeAcks(w) ==
  /\ Serves(w, "CacheFree") /\ Served(w)
  /\ handles' = [handles EXCEPT ![w] = @ \ Asked(w).seqs]
  /\ Answer(w, "CacheFreeAck", Asked(w))
  /\ UNCHANGED <<fate, allocated, call, down, linked, dead, used>>
ServeFree(w) ==
  /\ Serves(w, "CacheFree") /\ Served(w)
  /\ IF Asked(w).seqs \subseteq handles[w]
     THEN /\ handles' = [handles EXCEPT ![w] = @ \ Asked(w).seqs]
          /\ UNCHANGED up
     ELSE /\ Answer(w, "Error", Asked(w))          \* nobody waits for it
          /\ UNCHANGED handles
  /\ UNCHANGED <<fate, allocated, call, down, linked, dead, used>>

\* variant: a failed pass is logged and not answered
ServeForwardSilent(w) ==
  /\ Serves(w, "BatchedForward") /\ Served(w)
  /\ \/ Answer(w, "BatchedForwardResult", Asked(w)) /\ UNCHANGED used
     \/ Spend("errors", MaxErrors) /\ UNCHANGED up
  /\ UNCHANGED <<fate, allocated, call, down, handles, linked, dead>>
\* handle_batched_forward: every sequence needs its cache.
ServeForward(w) ==
  /\ Serves(w, "BatchedForward") /\ Served(w)
  /\ \/ /\ Asked(w).seqs \subseteq handles[w]
        /\ Answer(w, "BatchedForwardResult", Asked(w))
        /\ UNCHANGED used
     \/ /\ Asked(w).seqs \subseteq handles[w]
        /\ Spend("errors", MaxErrors)
        /\ Answer(w, "Error", Asked(w))
     \/ /\ ~(Asked(w).seqs \subseteq handles[w])
        /\ Answer(w, "Error", Asked(w))
        /\ UNCHANGED used
  /\ UNCHANGED <<fate, allocated, call, down, handles, linked, dead>>

\* The connection is lost: what the worker had sent may still be read.
LinkLost(w) ==
  /\ linked[w]
  /\ Spend("losses", MaxLosses)
  /\ linked' = [linked EXCEPT ![w] = FALSE]
  /\ down' = [down EXCEPT ![w] = <<>>]
  /\ UNCHANGED <<fate, allocated, call, inbox, up, handles, dead>>

-----------------------------------------------------------------------------
WorkerStep(w) ==
  Router(w) \/ ServeAlloc(w) \/ ServeFree(w) \/ ServeForward(w)
CallStep ==
  ForwardAnswer \/ \E w \in Stage : SkipAck(w) \/ TaskRecv(w) \/ AllocJoin(w)
Caller ==
  \/ \E s \in SeqId : AllocCall(s) \/ FreeCall(s)
  \/ \E S \in SUBSET SeqId : ForwardCall(S)
  \/ Replace \/ SendHeartbeats
  \/ \E w \in Stage : WorkerDies(w)

\* Nothing on the way to a worker: the cluster may stay as it is.
Quiet ==
  /\ \A w \in Stage : linked[w] => down[w] = <<>> /\ inbox[w] = <<>>
  /\ UNCHANGED vars

Next ==
  Caller \/ CallStep \/ (\E w \in Stage : WorkerStep(w) \/ LinkLost(w)) \/ Quiet

\* The tasks of the coordinator and of each worker run; nothing makes the
\* loop start a call, a connection break or a bound be used.
Fairness == WF_vars(CallStep) /\ \A w \in Stage : WF_vars(WorkerStep(w))

Spec == Init /\ [][Next]_vars
FairSpec == Spec /\ Fairness

-----------------------------------------------------------------------------
Settled(w) == call.op = "idle" /\ down[w] = <<>> /\ inbox[w] = <<>>

\* A call only ever takes answers to its own request, although answers carry
\* nothing that would tell them apart (recv_skipping_heartbeat_acks).
AnswersOwn ==
  /\ \A w \in Stage : call.got[w] # NoMsg => call.got[w].call = Id
  /\ call.op = "forward" /\ up[call.stage] # <<>>
       => Head(up[call.stage]).call \in {Id, 0} /\ Head(up[call.stage]).type # "CacheAllocAck"
  /\ call.op = "idle" => \A w \in Stage : \A i \in DOMAIN up[w] :
                           up[w][i].type = "HeartbeatAck"

\* Between calls every worker holds caches of exactly the sequences the loop
\* runs and the pipeline knows (allocated_seqs against the worker's handles).
CachesAgree ==
  /\ call.op = "idle" => allocated = Active
  /\ \A w \in Stage : Settled(w) => handles[w] = Active

\* alloc_cache: "If allocation fails on any worker, successfully-allocated
\* caches on other workers are freed (rollback) to prevent memory leaks."
RolledBack ==
  \A w \in Stage : Settled(w) /\ linked[w] =>
    \A s \in handles[w] : fate[s] # "refused"

\* free_cache: "Send CacheFree to all workers for a completed sequence."
FreedEverywhere ==
  \A w \in Stage : Settled(w) /\ linked[w] =>
    \A s \in handles[w] : fate[s] # "freed"

\* However a batch ends, no surviving worker keeps a cache of it: one that
\* failed was freed by free_cache_best_effort, one of a pipeline that lost a
\* worker by abort_all_sequences.
AbortedFreed ==
  \A w \in Stage \ dead : Settled(w) /\ linked[w] =>
    \A s \in handles[w] : fate[s] \notin {"failed", "aborted"}

\* batched_forward: "Sends a batch of sequences to each worker, chaining
\* activations through the pipeline": what it takes for a stage's result is
\* the result of this batch.
ResultsOwn ==
  call.op = "forward" /\ up[call.stage] # <<>> =>
    LET m == Head(up[call.stage])
    IN m.type = "BatchedForwardResult" => m.call = Id /\ m.seqs = call.seqs

Calling == call.op # "idle"

\* Every call returns: the answer it waits for comes, or the lost connection
\* is noticed.
CallsReturn == Calling ~> ~Calling
=============================================================================
