--------------------------- MODULE DistributedLoop ---------------------------
(***************************************************************************)
(* distributed_loop_task as the server of requests: the bridge that feeds  *)
(* it, admission, chunked prompts, decoding, sampling, the events sent to  *)
(* clients, aborts and the degraded state.  What the calls do on the wire  *)
(* is in DistributedPipeline, membership in Cluster; here a call succeeds  *)
(* or fails, and `rows' is what the workers hold for a sequence.           *)
(***************************************************************************)
EXTENDS Integers, Sequences, FiniteSets, SequencesExt, FiniteSetsExt, Functions

CONSTANTS Client,
          MaxBatchSize, MaxBatchTokens, MaxPrefillTokens, Reserve,
          Blocks,      \* rows the bottleneck worker can hold
          MaxPrompt,   \* bound: prompt tokens of a request
          MaxGen,      \* bound: max_tokens of a request
          MaxFaults,   \* bound: failing calls and deaths of workers
          MaxGone      \* bound: clients that disconnect

LoopAssumption ==
  /\ IsFiniteSet(Client)
  /\ {MaxBatchSize, MaxBatchTokens, MaxPrefillTokens, MaxPrompt, MaxGen} \subseteq Nat \ {0}
  /\ {Reserve, Blocks, MaxFaults, MaxGone} \subseteq Nat

VARIABLES cmds, chan,   \* the bridge's channel and the loop's
          pending,      \* requests not yet admitted
          active,       \* DistributedSequence by client
          batch,        \* slices handed to batched_forward
          at,           \* where the loop is
          degraded, changed,  \* pipeline_degraded; a new pipeline is announced
          stat,         \* free blocks as last reported by a heartbeat
          rows,         \* external: rows the workers hold for a sequence
          sent,         \* events of a client
          gone,         \* clients whose receiver is dropped
          closed,       \* all handles are dropped
          faults

vars == <<cmds, chan, pending, active, batch, at, degraded, changed, stat, rows, sent, gone,
          closed, faults>>

Held(r) == SumFunctionOnSet(r, DOMAIN r)
Free == Blocks - Held(rows)
NoEvents == [tokens |-> 0, lost |-> 0, ends |-> <<>>, asked |-> 0]

Init ==
  /\ cmds = <<>> /\ chan = <<>> /\ pending = <<>> /\ active = <<>> /\ batch = <<>>
  /\ at = "top" /\ degraded = FALSE /\ changed = FALSE
  /\ stat = 0 /\ rows = <<>>
  /\ sent = [c \in Client |-> NoEvents] /\ gone = {} /\ closed = FALSE /\ faults = 0

Fault == faults < MaxFaults /\ faults' = faults + 1

\* Sends into a dropped receiver are lost, and nobody looks at the result.
End(ev, c, kind) == [ev EXCEPT ![c].ends = Append(@, kind)]
EndAll(ev, S, kind) == [c \in Client |-> IF c \in S THEN End(ev, c, kind)[c] ELSE ev[c]]
Token(ev, c) == IF c \in gone THEN [ev EXCEPT ![c].lost = @ + 1] ELSE [ev EXCEPT ![c].tokens = @ + 1]

-----------------------------------------------------------------------------
(* Clients and the bridge of SchedulerHandle::from_sender.                 *)
Submit(c) ==
  /\ sent[c].asked = 0 /\ ~closed
  /\ \E p \in 1 .. MaxPrompt, t \in 1 .. MaxGen :
       /\ cmds' = Append(cmds, [c |-> c, prompt |-> p, max |-> t])
       /\ sent' = [sent EXCEPT ![c].asked = t]
  /\ UNCHANGED <<chan, pending, active, batch, at, degraded, changed, stat, rows, gone, closed, faults>>

Bridge ==
  /\ cmds # <<>>
  /\ chan' = Append(chan, Head(cmds)) /\ cmds' = Tail(cmds)
  /\ UNCHANGED <<pending, active, batch, at, degraded, changed, stat, rows, sent, gone, closed, faults>>

Disconnect(c) ==
  /\ sent[c].asked > 0 /\ sent[c].ends = <<>> /\ c \notin gone /\ Cardinality(gone) < MaxGone
  /\ gone' = gone \cup {c}
  /\ UNCHANGED <<cmds, chan, pending, active, batch, at, degraded, changed, stat, rows, sent, closed, faults>>

Close ==
  /\ ~closed /\ \A c \in Client : sent[c].asked > 0
  /\ closed' = TRUE
  /\ UNCHANGED <<cmds, chan, pending, active, batch, at, degraded, changed, stat, rows, sent, gone, faults>>

\* The channel is disconnected once the bridge has nothing left to forward.
Disconnected == closed /\ cmds = <<>> /\ chan = <<>>

-----------------------------------------------------------------------------
(* One iteration of the loop.                                              *)
\* A new pipeline is taken over, the channel emptied.
Drain ==
  /\ at = "top"
  /\ degraded' = (degraded /\ ~changed) /\ changed' = FALSE
  /\ pending' = pending \o chan /\ chan' = <<>>
  /\ at' = IF Disconnected /\ pending = <<>> /\ active = <<>> THEN "returned" ELSE "beat"
  /\ UNCHANGED <<cmds, active, batch, stat, rows, sent, gone, closed, faults>>

\* Between two heartbeats, or a heartbeat all workers answered.
Heartbeat ==
  /\ at = "beat"
  /\ at' = "gate" /\ stat' \in {stat, Free}
  /\ UNCHANGED <<cmds, chan, pending, active, batch, degraded, changed, rows, sent, gone, closed, faults>>

\* variant: the sequences stay until the pipeline is back
WorkerDiesKeeps ==
  /\ at = "beat" /\ Fault
  /\ degraded' \in {degraded, TRUE}
  /\ at' = "gate"
  /\ UNCHANGED <<cmds, chan, pending, active, batch, changed, stat, rows, sent, gone, closed>>
\* A worker is declared dead: every sequence is aborted, then the rest is
\* rebalanced, or cannot be.
WorkerDies ==
  /\ at = "beat" /\ Fault
  /\ sent' = EndAll(sent, DOMAIN active, "Error")
  /\ active' = <<>> /\ rows' = <<>>
  /\ degraded' \in {degraded, TRUE}
  /\ at' = "gate"
  /\ UNCHANGED <<cmds, chan, pending, batch, changed, stat, gone, closed>>

\* variant: what is pending is dropped without a word
DegradedSilent ==
  /\ at = "gate" /\ degraded
  /\ pending' = <<>>
  /\ at' = IF active = <<>> THEN "degraded" ELSE "top"
  /\ UNCHANGED <<cmds, chan, active, batch, degraded, changed, stat, rows, sent, gone, closed, faults>>
\* A degraded loop refuses what is pending and waits for a pipeline.
Degraded ==
  /\ at = "gate" /\ degraded
  /\ sent' = EndAll(sent, {r.c : r \in ToSet(pending)}, "Error")
  /\ pending' = <<>>
  /\ at' = IF active = <<>> THEN "degraded" ELSE "top"
  /\ UNCHANGED <<cmds, chan, active, batch, degraded, changed, stat, rows, gone, closed, faults>>

Work ==
  /\ at = "gate" /\ ~degraded
  /\ at' = IF pending = <<>> /\ active = <<>> THEN "idle" ELSE "admit"
  /\ UNCHANGED <<cmds, chan, pending, active, batch, degraded, changed, stat, rows, sent, gone, closed, faults>>

\* A request ends the wait; the idle loop goes on to admit it.
WakeRequest ==
  /\ at \in {"idle", "degraded"} /\ chan # <<>>
  /\ pending' = Append(pending, Head(chan)) /\ chan' = Tail(chan)
  /\ at' = IF at = "idle" THEN "admit" ELSE "top"
  /\ UNCHANGED <<cmds, active, batch, degraded, changed, stat, rows, sent, gone, closed, faults>>

WakePipeline ==
  /\ at \in {"idle", "degraded"} /\ changed
  /\ degraded' = FALSE /\ changed' = FALSE /\ at' = "top"
  /\ UNCHANGED <<cmds, chan, pending, active, batch, stat, rows, sent, gone, closed, faults>>

WakeClosed ==
  /\ at \in {"idle", "degraded"} /\ Disconnected
  /\ at' = "returned"
  /\ UNCHANGED <<cmds, chan, pending, active, batch, degraded, changed, stat, rows, sent, gone, closed, faults>>

\* The heartbeat timer, which a degraded loop does not wait for.
WakeTimer ==
  /\ at = "idle"
  /\ at' = "top"
  /\ UNCHANGED <<cmds, chan, pending, active, batch, degraded, changed, stat, rows, sent, gone, closed, faults>>

\* The listener announces a pipeline for the workers there are.
Announce ==
  /\ degraded /\ ~changed
  /\ changed' = TRUE
  /\ UNCHANGED <<cmds, chan, pending, active, batch, at, degraded, stat, rows, sent, gone, closed, faults>>

CanAdmit == stat > Reserve \/ stat = 0
Sequence(r) == [pos |-> r.prompt, rest |-> r.prompt, done |-> FALSE, gen |-> 0, max |-> r.max]

\* At most one request per iteration.
Admit ==
  /\ at = "admit"
  /\ \/ /\ pending # <<>> /\ CanAdmit
        /\ LET r == Head(pending)
           IN \/ /\ active' = active @@ (r.c :> Sequence(r))
                 /\ rows' = rows @@ (r.c :> 0)
                 /\ UNCHANGED <<sent, faults>>
              \/ /\ Fault /\ sent' = End(sent, r.c, "Error")
                 /\ UNCHANGED <<active, rows>>
        /\ pending' = Tail(pending)
     \/ /\ pending = <<>> \/ ~CanAdmit
        /\ UNCHANGED <<pending, active, rows, sent, faults>>
  /\ at' = IF active' = <<>> THEN "top" ELSE "build"
  /\ UNCHANGED <<cmds, chan, batch, degraded, changed, stat, gone, closed>>

\* The batch so far and the tokens in it.
Slice(c, n, start, prefill) == [c |-> c, n |-> n, start |-> start, prefill |-> prefill]
Tokens(b) == FoldLeft(LAMBDA sum, e : sum + e.n, 0, b)
Room(b) == Tokens(b) < MaxBatchTokens /\ Len(b) < MaxBatchSize

\* variant: the room left in the batch is not looked at
AddPrefillWhole(b, c) ==
  LET q == active[c]
  IN IF q.done \/ q.rest = 0 \/ ~Room(b) THEN b
     ELSE Append(b, Slice(c, Min({q.rest, MaxPrefillTokens}), q.pos - q.rest, TRUE))
AddPrefill(b, c) ==
  LET q == active[c]
      n == Min({q.rest, MaxPrefillTokens, MaxBatchTokens - Tokens(b)})
  IN IF q.done \/ q.rest = 0 \/ ~Room(b) THEN b ELSE Append(b, Slice(c, n, q.pos - q.rest, TRUE))
AddDecode(b, c) ==
  IF ~active[c].done \/ ~Room(b) THEN b ELSE Append(b, Slice(c, 1, active[c].pos, FALSE))

\* First prompts, then decodes, each in the order of the hash map.
Build ==
  /\ at = "build"
  /\ \E order \in SetToSeqs(DOMAIN active) :
       batch' = FoldLeft(AddDecode, FoldLeft(AddPrefill, <<>>, order), order)
  /\ at' = IF batch' = <<>> THEN "top" ELSE "forward"
  /\ UNCHANGED <<cmds, chan, pending, active, degraded, changed, stat, rows, sent, gone, closed, faults>>

InBatch == {e.c : e \in ToSet(batch)}

\* A failing pass aborts the sequences of the batch.
ForwardFails ==
  /\ at = "forward"
  /\ Fault \/ (Tokens(batch) > Free /\ UNCHANGED faults)
  /\ sent' = EndAll(sent, InBatch, "Error")
  /\ active' = Restrict(active, DOMAIN active \ InBatch)
  /\ rows' = Restrict(rows, DOMAIN rows \ InBatch)
  /\ batch' = <<>> /\ at' = "top"
  /\ UNCHANGED <<cmds, chan, pending, degraded, changed, stat, gone, closed>>

\* variant: the position also moves when the prompt ends
AdvancedAlways(q, e, sampled) ==
  LET rest == q.rest - (IF e.prefill THEN e.n ELSE 0)
  IN [q EXCEPT !.rest = rest, !.done = rest = 0,
               !.gen = IF sampled THEN @ + 1 ELSE @, !.pos = IF sampled THEN @ + 1 ELSE @]
\* What a successful pass does to a sequence, before its token is looked at.
Advanced(q, e, sampled) ==
  LET rest == q.rest - (IF e.prefill THEN e.n ELSE 0)
  IN [q EXCEPT !.rest = rest, !.done = rest = 0,
               !.gen = IF sampled THEN @ + 1 ELSE @,
               !.pos = IF sampled /\ ~e.prefill THEN @ + 1 ELSE @]

\* The events of one sampled token, the Finished of the cleanup included.
Sampled(ev, c, how, gen, max) ==
  CASE how = "fail" -> End(End(ev, c, "Error"), c, "Length")
    [] how = "stop" -> End(ev, c, "Stop")
    [] how = "token" -> IF gen >= max THEN End(Token(ev, c), c, "Length") ELSE Token(ev, c)
    [] how = "chunk" -> ev

\* Samples every slice that ends a prompt or decodes, and frees what is over.
Forward ==
  /\ at = "forward" /\ Tokens(batch) <= Free
  /\ \E how \in [DOMAIN batch -> {"chunk", "token", "stop", "fail"}] :
       LET e(c) == batch[CHOOSE i \in DOMAIN batch : batch[i].c = c]
           hc(c) == how[CHOOSE i \in DOMAIN batch : batch[i].c = c]
           next == [c \in DOMAIN active |->
                      IF c \in InBatch THEN Advanced(active[c], e(c), hc(c) \in {"token", "stop"})
                      ELSE active[c]]
           over == {c \in InBatch : \/ hc(c) \in {"stop", "fail"}
                                    \/ hc(c) = "token" /\ next[c].gen >= next[c].max}
       IN /\ \A i \in DOMAIN batch :
               (how[i] = "chunk") = (batch[i].prefill /\ batch[i].n < active[batch[i].c].rest)
          /\ sent' = [c \in Client |-> IF c \in InBatch
                                       THEN Sampled(sent, c, hc(c), next[c].gen, next[c].max)[c]
                                       ELSE sent[c]]
          /\ active' = Restrict(next, DOMAIN active \ over)
          /\ rows' = [c \in DOMAIN rows \ over |->
                        IF c \in InBatch THEN rows[c] + e(c).n ELSE rows[c]]
  /\ batch' = <<>> /\ at' = "top"
  /\ UNCHANGED <<cmds, chan, pending, degraded, changed, stat, gone, closed, faults>>

Returned == at = "returned" /\ UNCHANGED vars

LoopStep ==
  \/ Drain \/ Heartbeat \/ Degraded \/ Work \/ WakeRequest \/ WakePipeline \/ WakeClosed
  \/ WakeTimer \/ Admit \/ Build \/ ForwardFails \/ Forward

Next ==
  \/ LoopStep \/ WorkerDies \/ Bridge \/ Close \/ Announce \/ Returned
  \/ \E c \in Client : Submit(c) \/ Disconnect(c)

\* The loop and the bridge are tasks; heartbeats are answered again and again,
\* with the free blocks of the moment.
Spec == Init /\ [][Next]_vars
FairSpec == Spec /\ WF_vars(LoopStep) /\ WF_vars(Bridge) /\ SF_vars(Heartbeat /\ stat' = Free)

ClientSymmetry == Permutations(Client)

-----------------------------------------------------------------------------
\* Every slice of a batch starts at the row the workers have room for next,
\* and fits the prompt: chunks and decodes follow each other without gap or
\* overlap (current_pos, remaining_prefill and the workers' caches agree).
PositionsFollowRows ==
  \A i \in DOMAIN batch : batch[i].start = rows[batch[i].c]

\* A batch stays within max_batch_size sequences and max_batch_tokens tokens.
BatchBounded == Len(batch) <= MaxBatchSize /\ Tokens(batch) <= MaxBatchTokens

\* Between iterations the workers hold caches for the active sequences only,
\* and a degraded loop has none: nobody waits for a pipeline with a sequence
\* that cannot go on.
DegradedHoldsNone == DOMAIN rows = DOMAIN active /\ (degraded => active = <<>>)

\* A client sees at most max_tokens tokens, all before its end, and an end
\* only once, save that an Error in sampling is followed by a Finished.
StreamsEnd ==
  \A c \in Client :
    /\ sent[c].tokens + sent[c].lost <= sent[c].asked
    /\ sent[c].ends \in {<<>>, <<"Error">>, <<"Stop">>, <<"Length">>, <<"Error", "Length">>}
    /\ sent[c].ends # <<>> => c \notin DOMAIN active
    /\ sent[c].ends = <<"Length">> => sent[c].tokens + sent[c].lost = sent[c].asked
    /\ sent[c].ends = <<"Stop">> => sent[c].tokens + sent[c].lost < sent[c].asked

Asked(c) == sent[c].asked > 0
Answered(c) == sent[c].ends # <<>> \/ Blocks <= Reserve

\* Every request is answered to the end, by a loop without a pipeline too,
\* unless the workers are too small for the reserve.
EventuallyAnswered == \A c \in Client : Asked(c) ~> Answered(c)

\* DistributedLoopConfig: "Minimum free blocks on the bottleneck worker before
\* admitting new sequences."
AdmitsAboveReserve ==
  [][at = "admit" /\ DOMAIN active' # DOMAIN active /\ stat # 0 => Free > Reserve]_vars

\* "the scheduler detects the closed channel (`.send()` returns `Err`) and
\* marks the sequence for cleanup."
CancelledOnDisconnect == \A c \in Client : sent[c].lost <= 1
=============================================================================
