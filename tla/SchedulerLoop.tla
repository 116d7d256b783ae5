---------------------------- MODULE SchedulerLoop ----------------------------
(***************************************************************************)
(* Continuous batching on one node: the scheduler loop task, the           *)
(* BatchScheduler it drives, and the paged cache it allocates from.        *)
(* Clients submit requests and snapshots through an unbounded channel,     *)
(* drop their event receiver whenever they like, and may drop the handle.  *)
(* The loop drains the channel, builds a batch, runs the forward pass,     *)
(* samples, streams tokens and cleans up.                                  *)
(*                                                                         *)
(* The cache is CacheAccounting: each call of alloc, append_kv (layer 0)   *)
(* and free is one step of it.  A step of the loop ends where a client can *)
(* interleave with a different outcome; the order in which a HashMap       *)
(* yields its sequences is nondeterministic.                               *)
(***************************************************************************)
EXTENDS CacheAccounting, Sequences, FiniteSets, FiniteSetsExt, Functions

CONSTANTS Requests,         \* requests, named by their seq_id
          PromptLens,       \* prompt lengths clients may submit
          TokenLimits,      \* max_tokens clients may submit
          MaxBatchSize, MaxBatchTokens, MaxPrefillTokens,
          ReservedBlocks,   \* ceil(capacity * block_pool_reserve)
          MaxSnapshots      \* bound: snapshot commands

ASSUME LoopAssumption ==
  /\ PromptLens \subseteq Nat
  /\ TokenLimits \subseteq Nat \ {0}
  /\ {MaxBatchSize, MaxBatchTokens, MaxPrefillTokens} \subseteq Nat \ {0}
  /\ {ReservedBlocks, MaxSnapshots} \subseteq Nat

VARIABLES prompt_len, max_tokens,  \* what each request asks for
          chan,           \* commands sent and not yet received
          alive,          \* some SchedulerHandle exists
          snapshots,      \* snapshot commands sent so far
          closed,         \* requests whose event receiver is dropped
          events,         \* events each receiver got
          prefill_queue, active,
          free_blocks,    \* schedule's reading of the free blocks
          prefills, decodes, total_tokens, prefill_tokens,  \* the decision
          i,              \* progress through the slices of the batch
          completed,      \* handles returned by cleanup_completed
          poisoned,       \* a panic happened under the cache mutex
          pc,
          rope            \* live handle -> RoPE positions of its cache rows

clientVars == <<prompt_len, max_tokens, alive, snapshots, closed>>
decisionVars == <<free_blocks, prefills, decodes, total_tokens, prefill_tokens>>
vars == <<cacheVars, clientVars, decisionVars, chan, events, prefill_queue,
          active, i, completed, poisoned, pc, rope>>

(* The decision and the slices are locals of one iteration.                *)
DecisionDropped ==
  /\ free_blocks' = 0 /\ prefills' = <<>> /\ decodes' = <<>>
  /\ total_tokens' = 0 /\ prefill_tokens' = 0 /\ i' = 1

Active == DOMAIN active
SatSub(a, b) == IF a > b THEN a - b ELSE 0   \* saturating_sub

Init ==
  /\ AccountingInit
  /\ prompt_len \in [Requests -> PromptLens]
  /\ max_tokens \in [Requests -> TokenLimits]
  /\ chan = <<>> /\ alive = TRUE /\ snapshots = 0 /\ closed = {}
  /\ events = [r \in Requests |-> <<>>]
  /\ prefill_queue = <<>> /\ active = [r \in {} |-> 0]
  /\ free_blocks = 0 /\ prefills = <<>> /\ decodes = <<>>
  /\ total_tokens = 0 /\ prefill_tokens = 0
  /\ i = 1 /\ completed = {} /\ poisoned = FALSE /\ pc = "drain"
  /\ rope = [h \in {} |-> <<>>]

-----------------------------------------------------------------------------
(* Clients.                                                                *)

Sent == {r \in Requests : \/ \E k \in DOMAIN chan : chan[k] = <<"submit", r>>
                          \/ \E k \in DOMAIN prefill_queue : prefill_queue[k] = r
                          \/ r \in Active
                          \/ r \in closed
                          \/ events[r] # <<>>}

(* submit fails without effect once the loop is gone.                      *)
Submit(r) ==
  /\ alive /\ pc # "dead" /\ r \notin Sent
  /\ chan' = Append(chan, <<"submit", r>>)
  /\ UNCHANGED <<cacheVars, clientVars, decisionVars, events, prefill_queue,
                 active, i, completed, poisoned, pc, rope>>

Snapshot ==
  /\ alive /\ pc # "dead" /\ snapshots < MaxSnapshots
  /\ chan' = Append(chan, <<"snapshot">>)
  /\ snapshots' = snapshots + 1
  /\ UNCHANGED <<cacheVars, decisionVars, prompt_len, max_tokens, alive, closed,
                 events, prefill_queue, active, i, completed, poisoned, pc, rope>>

(* The HTTP handler stops reading: client gone, or terminal event seen.    *)
(* Once the task has ended nobody looks at the receiver or the handle.     *)
Disconnect(r) ==
  /\ pc \notin {"returned", "dead"} /\ r \in Sent \ closed
  /\ closed' = closed \cup {r}
  /\ UNCHANGED <<cacheVars, decisionVars, prompt_len, max_tokens, alive, snapshots,
                 chan, events, prefill_queue, active, i, completed, poisoned, pc, rope>>

DropHandle ==
  /\ pc \notin {"returned", "dead"} /\ alive
  /\ alive' = FALSE
  /\ UNCHANGED <<cacheVars, decisionVars, prompt_len, max_tokens, snapshots, closed,
                 chan, events, prefill_queue, active, i, completed, poisoned, pc, rope>>

-----------------------------------------------------------------------------
(* Receiving commands.                                                     *)

HasWork == prefill_queue # <<>> \/ Active # {}

(* handle_command: a snapshot only reads, under the cache mutex.           *)
HandleCommand(cmd, next_pc) ==
  \/ /\ cmd[1] = "submit"
     /\ prefill_queue' = Append(prefill_queue, cmd[2])
     /\ pc' = next_pc
  \/ /\ cmd[1] = "snapshot"
     /\ pc' = IF poisoned THEN "dead" ELSE next_pc
     /\ UNCHANGED prefill_queue

loopFrame == <<cacheVars, clientVars, decisionVars, events, active, i,
               completed, poisoned, rope>>

Drain ==
  /\ pc = "drain" /\ chan # <<>>
  /\ chan' = Tail(chan)
  /\ HandleCommand(Head(chan), "drain")
  /\ UNCHANGED loopFrame

DrainEmpty ==
  /\ pc = "drain" /\ chan = <<>>
  /\ \/ HasWork /\ pc' = "decode"
     \/ ~HasWork /\ alive /\ pc' = "recv"
     \/ ~HasWork /\ ~alive /\ pc' = "returned"
  /\ UNCHANGED <<loopFrame, chan, prefill_queue>>

Recv ==
  /\ pc = "recv" /\ chan # <<>>
  /\ chan' = Tail(chan)
  /\ HandleCommand(Head(chan), "decode")
  /\ UNCHANGED loopFrame

RecvNoneRetries ==   \* variant: a closed channel is polled again
  /\ pc = "recv" /\ chan = <<>> /\ ~alive
  /\ UNCHANGED vars

RecvNone ==
  /\ pc = "recv" /\ chan = <<>> /\ ~alive
  /\ pc' = "returned"
  /\ UNCHANGED <<loopFrame, chan, prefill_queue>>

(* cache.lock().unwrap() after a panic under the lock ends the task.       *)
LockFails ==
  /\ pc = "decode" /\ poisoned
  /\ pc' = "dead"
  /\ UNCHANGED <<loopFrame, chan, prefill_queue>>

-----------------------------------------------------------------------------
(* schedule.                                                               *)

Job(r, handle, n, pos) == [seq |-> r, handle |-> handle, n |-> n, pos |-> pos]

scheduleFrame == <<clientVars, chan, i, completed, poisoned>>

(* Decode jobs for open, fully prefilled sequences, as many as fit.        *)
DecodePass ==
  LET open == {r \in Active : active[r].remaining = 0 /\ r \notin closed}
      room == Min({MaxBatchSize, MaxBatchTokens, Cardinality(open)})
  IN  /\ pc = "decode" /\ ~poisoned
      /\ free_blocks' = num_free
      /\ \E order \in Injection(1 .. room, open) :
           decodes' = [k \in 1 .. room |->
             Job(order[k], active[order[k]].handle, 1, active[order[k]].current_pos)]
      /\ prefills' = <<>>
      /\ total_tokens' = room
      /\ prefill_tokens' = 0
      /\ pc' = "prefill"
      /\ UNCHANGED <<cacheVars, scheduleFrame, events, prefill_queue, active, rope>>

BatchRoomOffByOne == Len(decodes) + Len(prefills) <= MaxBatchSize   \* variant

BatchRoom == Len(decodes) + Len(prefills) < MaxBatchSize
TokenCapOfBatch == SatSub(MaxBatchTokens, total_tokens)   \* variant

TokenCap == Min({SatSub(MaxBatchTokens, total_tokens),
                 SatSub(MaxPrefillTokens, prefill_tokens)})
CanPrefill == pc = "prefill" /\ BatchRoom /\ TokenCap > 0

AddPrefill(r, handle, n, pos) ==
  /\ prefills' = Append(prefills, Job(r, handle, n, pos))
  /\ total_tokens' = total_tokens + n
  /\ prefill_tokens' = prefill_tokens + n
  /\ UNCHANGED <<decodes, free_blocks>>

(* Partially prefilled sequences this pass has not come to yet.            *)
Chunked == {r \in Active : /\ active[r].remaining > 0
                           /\ \A k \in DOMAIN prefills : prefills[k].seq # r}

ContinueChunkCopied(r) ==   \* variant: the chunk is copied, not drained
  LET n == Min({active[r].remaining, TokenCap})
  IN  /\ CanPrefill /\ r \in Chunked
      /\ AddPrefill(r, active[r].handle, n, active[r].current_pos)
      /\ active' = [active EXCEPT ![r].current_pos = @ + n]
      /\ UNCHANGED <<cacheVars, scheduleFrame, events, prefill_queue, pc, rope>>

ContinueChunk(r) ==
  LET n == Min({active[r].remaining, TokenCap})
  IN  /\ CanPrefill /\ r \in Chunked
      /\ AddPrefill(r, active[r].handle, n, active[r].current_pos)
      /\ active' = [active EXCEPT ![r].remaining = @ - n, ![r].current_pos = @ + n]
      /\ UNCHANGED <<cacheVars, scheduleFrame, events, prefill_queue, pc, rope>>

(* blocks_needed against the free blocks read when schedule began.         *)
BlocksNeeded(n) == (n + BlockSize - 1) \div BlockSize
Fits(r, free) == BlocksNeeded(prompt_len[r]) <= SatSub(free, ReservedBlocks)

CanAdmit == /\ CanPrefill /\ Chunked = {}
            /\ prefill_queue # <<>>
            /\ Fits(Head(prefill_queue), free_blocks)

(* An event reaches the client if its receiver still exists.               *)
SendTo(r, event) == events' = [events EXCEPT
  ![r] = IF r \in closed THEN @ ELSE Append(@, event)]

AdmitAtZero ==   \* variant: current_pos starts at 0 after the first chunk
  LET r == Head(prefill_queue)
      n == Min({prompt_len[r], TokenCap})
  IN  /\ CanAdmit
      /\ AllocOk
      /\ prefill_queue' = Tail(prefill_queue)
      /\ AddPrefill(r, next_id, n, 0)
      /\ active' = [s \in Active \cup {r} |->
           IF s = r THEN [handle |-> next_id, current_pos |-> 0, generated |-> 0,
                          stopped |-> FALSE, remaining |-> prompt_len[r] - n,
                          limit |-> max_tokens[r]]
           ELSE active[s]]
      /\ rope' = [h \in Live' |-> IF h = next_id THEN <<>> ELSE rope[h]]
      /\ UNCHANGED <<scheduleFrame, events, pc>>

Admit ==
  LET r == Head(prefill_queue)
      n == Min({prompt_len[r], TokenCap})
  IN  /\ CanAdmit
      /\ AllocOk
      /\ prefill_queue' = Tail(prefill_queue)
      /\ AddPrefill(r, next_id, n, 0)
      /\ active' = [s \in Active \cup {r} |->
           IF s = r THEN [handle |-> next_id, current_pos |-> n, generated |-> 0,
                          stopped |-> FALSE, remaining |-> prompt_len[r] - n,
                          limit |-> max_tokens[r]]
           ELSE active[s]]
      /\ rope' = [h \in Live' |-> IF h = next_id THEN <<>> ELSE rope[h]]
      /\ UNCHANGED <<scheduleFrame, events, pc>>

AdmitFailsSilently ==   \* variant: the request is dropped without an event
  /\ CanAdmit
  /\ AllocOom
  /\ prefill_queue' = Tail(prefill_queue)
  /\ UNCHANGED <<scheduleFrame, decisionVars, active, events, pc, rope>>

AdmitFails ==
  /\ CanAdmit
  /\ AllocOom
  /\ prefill_queue' = Tail(prefill_queue)
  /\ SendTo(Head(prefill_queue), "error")
  /\ UNCHANGED <<scheduleFrame, decisionVars, active, pc, rope>>

(* schedule returns; a decision without tokens skips the rest of the loop. *)
Decide ==
  /\ pc = "prefill"
  /\ ~(CanPrefill /\ Chunked # {}) /\ ~CanAdmit
  /\ \/ total_tokens > 0 /\ pc' = "forward" /\ UNCHANGED <<decisionVars, i>>
     \/ total_tokens = 0 /\ pc' = "drain" /\ DecisionDropped
  /\ UNCHANGED <<cacheVars, clientVars, chan, events,
                 prefill_queue, active, completed, poisoned, rope>>

-----------------------------------------------------------------------------
(* The forward pass: prefill slices, then decode slices.                   *)

Slices == prefills \o decodes
forwardFrame == <<clientVars, chan, events, prefill_queue, active, completed>>

AppendSlice ==
  LET s == Slices[i]
  IN  /\ pc = "forward" /\ i <= Len(Slices)
      /\ AppendOk(s.handle, s.n)
      /\ rope' = [rope EXCEPT ![s.handle] = @ \o [k \in 1 .. s.n |-> s.pos + k - 1]]
      /\ i' = i + 1
      /\ UNCHANGED <<forwardFrame, decisionVars, poisoned, pc>>

AppendSliceOomSkips ==   \* variant: the other slices go on
  /\ pc = "forward" /\ i <= Len(Slices)
  /\ AppendOom(Slices[i].handle, Slices[i].n)
  /\ i' = i + 1
  /\ UNCHANGED <<forwardFrame, decisionVars, poisoned, pc, rope>>

AppendSliceOom ==
  /\ pc = "forward" /\ i <= Len(Slices)
  /\ AppendOom(Slices[i].handle, Slices[i].n)
  /\ pc' = "abort" /\ i' = 1
  /\ UNCHANGED <<forwardFrame, decisionVars, poisoned, rope>>

(* A backend call returns an error anywhere in the pass.                   *)
ForwardFails ==
  /\ pc = "forward"
  /\ pc' = "abort" /\ i' = 1
  /\ UNCHANGED <<forwardFrame, decisionVars, cacheVars, poisoned, rope>>

(* The blocking task panics, holding the cache mutex.                      *)
ForwardPanics ==
  /\ pc = "forward"
  /\ poisoned' = TRUE /\ pc' = "drain"
  /\ DecisionDropped
  /\ UNCHANGED <<forwardFrame, cacheVars, rope>>

(* end - 1 of an empty first slice has no valid value.                     *)
ForwardDone ==
  /\ pc = "forward" /\ i > Len(Slices) /\ Slices[1].n > 0
  /\ pc' = "sample" /\ i' = 1
  /\ UNCHANGED <<forwardFrame, decisionVars, cacheVars, poisoned, rope>>

Without(f, S) == Restrict(f, DOMAIN f \ S)

AbortOneKeepsBlocks ==   \* variant: free is forgotten
  LET r == Slices[i].seq
  IN  /\ pc = "abort" /\ i <= Len(Slices)
      /\ active' = Without(active, {r})
      /\ SendTo(r, "error")
      /\ i' = i + 1
      /\ UNCHANGED <<cacheVars, clientVars, decisionVars, chan, prefill_queue,
                     completed, poisoned, pc, rope>>

(* After an error every sequence of the batch is removed, told and freed.  *)
AbortOne ==
  LET r == Slices[i].seq
  IN  /\ pc = "abort" /\ i <= Len(Slices) /\ r \in Active
      /\ active' = Without(active, {r})
      /\ SendTo(r, "error")
      /\ Free(active[r].handle)
      /\ rope' = Without(rope, {active[r].handle})
      /\ i' = i + 1
      /\ UNCHANGED <<clientVars, decisionVars, chan, prefill_queue, completed,
                     poisoned, pc>>

AbortDone ==
  /\ pc = "abort" /\ i > Len(Slices)
  /\ pc' = "drain"
  /\ DecisionDropped
  /\ UNCHANGED <<forwardFrame, cacheVars, poisoned, rope>>

-----------------------------------------------------------------------------
(* Sampling and cleanup.                                                   *)

SkipUnfinishedChunk(r) ==
  /\ i <= Len(prefills) /\ active[r].remaining > 0
  /\ UNCHANGED <<active, events>>

SampleTokenAlways(r) ==   \* variant: stop tokens are streamed as well
  /\ i > Len(prefills) \/ active[r].remaining = 0
  /\ \E stop \in BOOLEAN :
       active' = [active EXCEPT ![r].generated = @ + 1, ![r].current_pos = @ + 1,
                                ![r].stopped = stop]
  /\ SendTo(r, "token")

SampleToken(r) ==
  /\ i > Len(prefills) \/ active[r].remaining = 0
  /\ \E stop \in BOOLEAN :
       /\ active' = [active EXCEPT ![r].generated = @ + 1, ![r].current_pos = @ + 1,
                                   ![r].stopped = stop]
       /\ IF stop THEN UNCHANGED events ELSE SendTo(r, "token")

SampleFailsUnmarked(r) ==   \* variant: not marked for cleanup
  /\ i > Len(prefills) \/ active[r].remaining = 0
  /\ SendTo(r, "error")
  /\ UNCHANGED active

SampleFails(r) ==
  /\ i > Len(prefills) \/ active[r].remaining = 0
  /\ active' = [active EXCEPT ![r].limit = 0]
  /\ SendTo(r, "error")

Sample ==
  /\ pc = "sample" /\ i <= Len(Slices)
  /\ LET r == Slices[i].seq
     IN  SkipUnfinishedChunk(r) \/ SampleToken(r) \/ SampleFails(r)
  /\ i' = i + 1
  /\ UNCHANGED <<cacheVars, clientVars, decisionVars, chan, prefill_queue,
                 completed, poisoned, pc, rope>>

(* cleanup_completed: finished sequences are told, closed ones are not.    *)
Finished(r) == active[r].generated >= active[r].limit \/ active[r].stopped

Cleanup ==
  LET finished == {r \in Active : Finished(r)}
      removed == finished \cup (closed \cap Active)
  IN  /\ pc = "sample" /\ i > Len(Slices)
      /\ events' = [r \in Requests |-> IF r \in finished \ closed
                                       THEN Append(events[r], "finished")
                                       ELSE events[r]]
      /\ active' = Without(active, removed)
      /\ completed' = {active[r].handle : r \in removed}
      /\ pc' = "free"
      /\ DecisionDropped
      /\ UNCHANGED <<cacheVars, clientVars, chan, prefill_queue, poisoned, rope>>

FreeCompleted(h) ==
  /\ pc = "free" /\ h \in completed
  /\ Free(h)
  /\ completed' = completed \ {h}
  /\ rope' = Without(rope, {h})
  /\ UNCHANGED <<clientVars, decisionVars, chan, events, prefill_queue, active,
                 i, poisoned, pc>>

NextIteration ==
  /\ pc = "free" /\ completed = {}
  /\ pc' = "drain"
  /\ UNCHANGED <<loopFrame, chan, prefill_queue>>

-----------------------------------------------------------------------------
Client == \/ \E r \in Requests : Submit(r) \/ Disconnect(r)
          \/ Snapshot
          \/ DropHandle

Loop == \/ Drain \/ DrainEmpty \/ Recv \/ RecvNone \/ LockFails
        \/ DecodePass \/ (\E r \in Active : ContinueChunk(r))
        \/ Admit \/ AdmitFails \/ Decide
        \/ AppendSlice \/ AppendSliceOom \/ ForwardDone
        \/ AbortOne \/ AbortDone
        \/ Sample \/ Cleanup \/ (\E h \in completed : FreeCompleted(h))
        \/ NextIteration

Ended == pc \in {"returned", "dead"} /\ UNCHANGED vars

Next == Client \/ Loop \/ ForwardFails \/ ForwardPanics \/ Ended

Spec == Init /\ [][Next]_vars

(* The runtime keeps polling the loop task and every forward pass ends;    *)
(* nothing obliges clients to act or the backend to fail.                  *)
FairSpec == Spec /\ WF_vars(Loop \/ ForwardFails \/ ForwardPanics)

-----------------------------------------------------------------------------
(* The fields of BatchScheduler and of the decision have their types, and  *)
(* the counters of the decision respect the configured maxima.             *)
LoopTypeOK ==
  /\ pc \in {"drain", "recv", "decode", "prefill", "forward", "abort", "sample",
             "free", "returned", "dead"}
  /\ active \in [Active -> [handle : Nat, current_pos : Nat, generated : Nat,
                            stopped : BOOLEAN, remaining : Nat, limit : Nat]]
  /\ Active \subseteq Requests
  /\ Range(prefill_queue) \subseteq Requests
  /\ events \in [Requests -> Seq({"token", "finished", "error"})]
  /\ {s.seq : s \in Range(Slices)} \subseteq Requests
  /\ total_tokens \in 0 .. MaxBatchTokens
  /\ prefill_tokens \in 0 .. MaxPrefillTokens
  /\ free_blocks \in 0 .. NumBlocks
  /\ num_free \in 0 .. NumBlocks
  /\ i \in 1 .. MaxBatchSize + 1
  /\ completed \subseteq Live

(***************************************************************************)
(* No leak and no use after free: the live cache handles are exactly those *)
(* of the active sequences and those cleanup is about to free, each once.  *)
(* The loop ignores the result of free, so a double free or a forgotten    *)
(* handle would go unnoticed.                                              *)
(***************************************************************************)
HandlesMatchCache ==
  LET held == {active[r].handle : r \in Active}
  IN  /\ Live = held \cup completed
      /\ held \cap completed = {}
      /\ \A r, s \in Active : active[r].handle = active[s].handle => r = s

(***************************************************************************)
(* Outside the abort of a failed batch every live handle holds exactly the *)
(* blocks its tokens need: the spare blocks append_kv leaves in a table    *)
(* when the pool runs dry never survive into another forward pass.         *)
(***************************************************************************)
NoSpareBlocks == pc # "abort" => \A h \in Live : Sound(h)

(* The tokens of a batch: position j of the slice of one sequence.         *)
BatchTokens(jobs) == UNION {{s.seq} \X (1 .. s.n) : s \in Range(jobs)}

(***************************************************************************)
(* A batch respects max_batch_size, max_batch_tokens and                   *)
(* max_prefill_tokens, and has at most one slice per sequence: one that    *)
(* finishes its prompt in the chunk pass is not decoded in the same batch. *)
(***************************************************************************)
BatchWellFormed ==
  pc \in {"prefill", "forward"} =>
    /\ Len(Slices) <= MaxBatchSize
    /\ IsInjective([k \in DOMAIN Slices |-> Slices[k].seq])
    /\ Cardinality(BatchTokens(Slices)) <= MaxBatchTokens
    /\ Cardinality(BatchTokens(prefills)) <= MaxPrefillTokens

(***************************************************************************)
(* At most max_batch_size sequences with a listening client are active.    *)
(* No line checks it: it holds because a pass that leaves an open sequence *)
(* out has no room to admit another.                                       *)
(***************************************************************************)
OpenActiveBounded == Cardinality(Active \ closed) <= MaxBatchSize

(***************************************************************************)
(* A client sees at most max_tokens tokens, then at most one terminal      *)
(* event, except that Finished follows the Error of a failed sampling;     *)
(* and Finished is sent only as the sequence leaves the active set.        *)
(***************************************************************************)
StreamsWellFormed ==
  \A r \in Requests :
    LET e == events[r]
        n == Len(e)
    IN  /\ \A k \in 1 .. n : e[k] = "finished" => k = n /\ r \notin Active
        /\ \A k \in 1 .. n : e[k] = "error" =>
             k = n \/ (k = n - 1 /\ e[n] = "finished")
        /\ Cardinality({k \in 1 .. n : e[k] = "token"}) <= max_tokens[r]

(***************************************************************************)
(* No token is lost or sent twice: a listening client of an active         *)
(* sequence has received every generated token but a stop token.           *)
(***************************************************************************)
TokensDelivered ==
  \A r \in Active \ closed :
    Len(events[r]) = active[r].generated - (IF active[r].stopped THEN 1 ELSE 0)
                                         + (IF active[r].limit = 0 THEN 1 ELSE 0)

(***************************************************************************)
(* Between iterations the cache of a sequence holds the part of its prompt *)
(* that is prefilled and every generated token but the last: chunks are    *)
(* neither skipped nor fed twice, whatever the caps made of them.          *)
(***************************************************************************)
CacheMatchesProgress ==
  pc \in {"drain", "recv", "decode"} /\ ~poisoned =>
    \A r \in Active : prompt_len[r] > 0 =>
      len[active[r].handle] = prompt_len[r] - active[r].remaining
                              + SatSub(active[r].generated, 1)

(* The rows of a sequence carry strictly increasing RoPE positions, so no  *)
(* two cached tokens are rotated to the same position.                     *)
RopeIncreasing ==
  \A h \in Live : \A a, b \in DOMAIN rope[h] : a < b => rope[h][a] < rope[h][b]

(***************************************************************************)
(* BatchScheduler::schedule: what an iteration runs keeps within the batch,*)
(* token and prefill caps over its three passes and names active sequences *)
(* once each.                                                              *)
(***************************************************************************)
BatchesBounded == LoopTypeOK /\ BatchWellFormed /\ OpenActiveBounded

(***************************************************************************)
(* Every client sees a stream that is well formed, with one end at most,   *)
(* and each token that was sampled for it while it listened, whatever      *)
(* failed in between.                                                      *)
(***************************************************************************)
ClientsServed == StreamsWellFormed /\ TokensDelivered

(***************************************************************************)
(* A sequence that goes on has in the cache the tokens it was fed, in      *)
(* order, and no block more than they need.                                *)
(***************************************************************************)
CacheFollows == CacheMatchesProgress /\ RopeIncreasing /\ NoSpareBlocks

(***************************************************************************)
(* "Absolute positions for RoPE" (SequenceSlice.positions): the row stored *)
(* at index p of a sequence is rotated by p.  The loop increments          *)
(* current_pos after the prefill sample as well, so the first decode       *)
(* already carries prompt_len + 1.                                         *)
(***************************************************************************)
RopeAbsolute ==
  \A h \in Live : \A k \in DOMAIN rope[h] : rope[h][k] = k - 1

(***************************************************************************)
(* block_pool_reserve: the prompts one pass admits leave the reserved      *)
(* blocks for growth.  Every admission of a pass is checked against the    *)
(* same reading of the free blocks.                                        *)
(***************************************************************************)
ReserveKept ==
  LET admitted == {k \in DOMAIN prefills : prefills[k].pos = 0}
      needed == [k \in admitted |-> BlocksNeeded(prompt_len[prefills[k].seq])]
  IN  pc = "forward" => SumFunction(needed) <= SatSub(free_blocks, ReservedBlocks)

-----------------------------------------------------------------------------
Terminal(r) == \E k \in DOMAIN events[r] : events[r][k] \in {"finished", "error"}

(* Every active sequence is closed and fully prefilled.                    *)
NothingToRun == \A r \in Active : r \in closed /\ active[r].remaining = 0
HeadBlocked == prefill_queue # <<>> /\ ~Fits(Head(prefill_queue), num_free)

Served(r) == \/ Terminal(r) \/ r \in closed \/ poisoned
             \/ pc = "drain" /\ NothingToRun /\ HeadBlocked
LoopEnded == \/ pc = "returned" \/ poisoned
             \/ /\ pc = "drain" /\ chan = <<>> /\ HasWork /\ NothingToRun
                /\ prefill_queue = <<>> \/ HeadBlocked

(***************************************************************************)
(* Every submitted request is answered with Finished or Error, unless its  *)
(* client leaves, the loop dies of a panic, or the queue is stuck: its     *)
(* head does not fit and nothing that holds blocks can run.                *)
(***************************************************************************)
EventuallyServed == \A r \in Requests : r \in Sent ~> Served(r)

(***************************************************************************)
(* Once the last handle is dropped the loop returns, unless a panic        *)
(* poisoned it or it has only work it never runs.                          *)
(***************************************************************************)
ShutdownCompletes == ~alive ~> LoopEnded

(***************************************************************************)
(* A sequence whose client is gone "will be cleaned up after iteration".   *)
(* An iteration whose batch is empty ends before the cleanup.              *)
(***************************************************************************)
DisconnectedReaped ==
  \A r \in Requests : r \in closed /\ r \in Active ~> r \notin Active \/ poisoned
=============================================================================
