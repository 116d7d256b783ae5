------------------------- MODULE SchedulerLoopProofs -------------------------
(***************************************************************************)
(* The scheduler loop and its cache agree on who is alive, for every set   *)
(* of requests, every configuration and every size of the pool.            *)
(***************************************************************************)
EXTENDS SchedulerLoop, TLAPS

(***************************************************************************)
(* The inductive invariant.  HandlesMatchCache alone is not inductive: a   *)
(* handle that alloc returns must be new (HandlesUsed), a request that is  *)
(* admitted must not be active already, which goes back to its having been *)
(* submitted once (QueueFresh), and cleanup must find no handles left from *)
(* the previous iteration (CompletedOnlyInFree).                           *)
(***************************************************************************)
Sequence(h, c, g, s, m, l) == [handle |-> h, current_pos |-> c, generated |-> g,
                               stopped |-> s, remaining |-> m, limit |-> l]
IsSequence(a) == a = Sequence(a.handle, a.current_pos, a.generated, a.stopped,
                              a.remaining, a.limit)

ActiveIsMap ==
  /\ active = [r \in Active |-> active[r]]
  /\ \A r \in Active : IsSequence(active[r])

HandlesUsed == next_id \in Nat /\ \A h \in Live : h \in Nat /\ h < next_id

QueueFresh ==
  /\ prefill_queue \in Seq(Requests)
  /\ \A j, k \in DOMAIN prefill_queue : prefill_queue[j] = prefill_queue[k] => j = k
  /\ \A k \in DOMAIN prefill_queue : prefill_queue[k] \notin Active

Command == ({"submit"} \X Requests) \cup {<<"snapshot">>}

ChanFresh ==
  /\ chan \in Seq(Command)
  /\ \A r \in Requests, j, k \in DOMAIN chan :
       chan[j] = <<"submit", r>> /\ chan[k] = <<"submit", r>> => j = k
  /\ \A r \in Requests, k \in DOMAIN chan : chan[k] = <<"submit", r>> =>
       /\ r \notin Active
       /\ \A j \in DOMAIN prefill_queue : prefill_queue[j] # r

CompletedOnlyInFree == completed # {} => pc = "free"

HInv == /\ ActiveIsMap /\ HandlesUsed /\ QueueFresh /\ ChanFresh
        /\ CompletedOnlyInFree /\ HandlesMatchCache
-----------------------------------------------------------------------------
(* Facts about sequences.                                                  *)

LEMMA TailFacts ==
  ASSUME NEW S, NEW s \in Seq(S), s # <<>>
  PROVE  /\ Tail(s) \in Seq(S) /\ Head(s) = s[1] /\ 1 \in DOMAIN s /\ s[1] \in S
         /\ \A k \in DOMAIN Tail(s) : k + 1 \in DOMAIN s /\ Tail(s)[k] = s[k + 1] /\ k \in Nat /\ k > 0
  OBVIOUS

LEMMA AppendFacts ==
  ASSUME NEW S, NEW s \in Seq(S), NEW e \in S
  PROVE  /\ Append(s, e) \in Seq(S)
         /\ \A k \in DOMAIN Append(s, e) :
              \/ k \in DOMAIN s /\ Append(s, e)[k] = s[k]
              \/ k = Len(s) + 1 /\ Append(s, e)[k] = e
  OBVIOUS

Sampled(a, x, y, z) == [a EXCEPT !.generated = x, !.current_pos = y, !.stopped = z]

-----------------------------------------------------------------------------
LEMMA HInvInit == Init => HInv
<1> SUFFICES ASSUME Init PROVE HInv
  BY Zenon
<1>1. Active = {} /\ Live = {} /\ completed = {} /\ chan = <<>> /\ prefill_queue = <<>>
  BY Zenon DEF Init, AccountingInit, Active, Live
<1>2. ActiveIsMap
  BY <1>1, Zenon DEF Init, ActiveIsMap, Active
<1>3. HandlesUsed
  BY <1>1, Zenon DEF Init, AccountingInit, HandlesUsed
<1>4. QueueFresh /\ ChanFresh
  BY <1>1 DEF QueueFresh, ChanFresh
<1> QED BY <1>1, <1>2, <1>3, <1>4, Zenon DEF HInv, CompletedOnlyInFree, HandlesMatchCache

-----------------------------------------------------------------------------
(* A sequence leaves the active set.                                       *)
LEMMA Leave ==
  ASSUME HInv, NEW R, active' = Without(active, R),
         UNCHANGED <<chan, prefill_queue, next_id>>, Live' \subseteq Live
  PROVE  /\ Active' = Active \ R /\ \A s \in Active' : active'[s] = active[s]
         /\ ActiveIsMap' /\ HandlesUsed' /\ QueueFresh' /\ ChanFresh'
<1>1. Active' = Active \ R /\ \A s \in Active' : active'[s] = active[s]
  BY Zenon DEF Active, Without, Restrict
<1>2. active' = [s \in Active' |-> active'[s]]
  BY <1>1, Zenon DEF Active, Without, Restrict
<1>3. ActiveIsMap'
  BY <1>1, <1>2, SMTT(60) DEF HInv, ActiveIsMap
<1>4. HandlesUsed' /\ QueueFresh' /\ ChanFresh'
  BY <1>1, SMTT(60) DEF HInv, HandlesUsed, QueueFresh, ChanFresh
<1> QED BY <1>1, <1>3, <1>4, Zenon

-----------------------------------------------------------------------------
LEMMA HInvNext == HInv /\ [Next]_vars => HInv'
(* Updating a field other than the handle.                                 *)
<1>SequenceFields.
     ASSUME NEW h, NEW c, NEW g, NEW s, NEW m, NEW l
     PROVE  IsSequence(Sequence(h, c, g, s, m, l)) /\ Sequence(h, c, g, s, m, l).handle = h
  BY <1>SequenceFields, Zenon DEF IsSequence, Sequence
<1>ChunkUpdate.
     ASSUME NEW a, IsSequence(a), NEW x, NEW y
     PROVE  LET b == [a EXCEPT !.remaining = x, !.current_pos = y]
            IN  IsSequence(b) /\ b.handle = a.handle
  <2> USE <1>ChunkUpdate
  <2>1. PICK h, c, g, s, m, l : a = Sequence(h, c, g, s, m, l)
    BY Zenon DEF IsSequence
  <2>2. [a EXCEPT !.remaining = x] = Sequence(h, c, g, s, x, l)
    BY <2>1 DEF Sequence
  <2>3. [Sequence(h, c, g, s, x, l) EXCEPT !.current_pos = y] = Sequence(h, y, g, s, x, l)
    BY DEF Sequence
  <2>4. [a EXCEPT !.remaining = x, !.current_pos = y] =
          [[a EXCEPT !.remaining = x] EXCEPT !.current_pos = y]
    BY Zenon
  <2>5. a.handle = h
    BY <2>1, Zenon DEF Sequence
  <2>6. [a EXCEPT !.remaining = x, !.current_pos = y] = Sequence(h, y, g, s, x, l)
    BY ONLY <2>2, <2>3, <2>4, Zenon
  <2> QED BY ONLY <2>5, <2>6, <1>SequenceFields
<1>SampleUpdate.
     ASSUME NEW a, IsSequence(a), NEW x, NEW y, NEW z
     PROVE  IsSequence(Sampled(a, x, y, z)) /\ Sampled(a, x, y, z).handle = a.handle
  <2> USE <1>SampleUpdate
  <2>1. PICK h, c, g, s, m, l : a = Sequence(h, c, g, s, m, l)
    BY Zenon DEF IsSequence
  <2>2. [a EXCEPT !.generated = x] = Sequence(h, c, x, s, m, l)
    BY <2>1 DEF Sequence
  <2>3. [Sequence(h, c, x, s, m, l) EXCEPT !.current_pos = y] = Sequence(h, y, x, s, m, l)
    BY DEF Sequence
  <2>4. [Sequence(h, y, x, s, m, l) EXCEPT !.stopped = z] = Sequence(h, y, x, z, m, l)
    BY DEF Sequence
  <2>5. [a EXCEPT !.generated = x, !.current_pos = y, !.stopped = z] =
          [[[a EXCEPT !.generated = x] EXCEPT !.current_pos = y] EXCEPT !.stopped = z]
    BY Zenon
  <2>6. a.handle = h
    BY <2>1, Zenon DEF Sequence
  <2>7. Sampled(a, x, y, z) = Sequence(h, y, x, z, m, l)
    BY ONLY <2>2, <2>3, <2>4, <2>5, Zenon DEF Sampled
  <2> QED BY ONLY <2>6, <2>7, <1>SequenceFields
<1>LimitUpdate.
     ASSUME NEW a, IsSequence(a), NEW x
     PROVE  LET b == [a EXCEPT !.limit = x] IN IsSequence(b) /\ b.handle = a.handle
  <2> USE <1>LimitUpdate
  <2>1. PICK h, c, g, s, m, l : a = Sequence(h, c, g, s, m, l)
    BY Zenon DEF IsSequence
  <2>2. [a EXCEPT !.limit = x] = Sequence(h, c, g, s, m, x)
    BY <2>1 DEF Sequence
  <2>3. a.handle = h
    BY <2>1, Zenon DEF Sequence
  <2> QED BY <2>2, <2>3, <1>SequenceFields
(* Steps that touch neither the cache nor the queues.                      *)
<1>Frame.
     ASSUME HInv, UNCHANGED <<active, chan, prefill_queue, owned, next_id, completed>>,
            completed # {} => pc' = "free"
     PROVE  HInv'
  BY <1>Frame DEF HInv, ActiveIsMap, HandlesUsed, QueueFresh, ChanFresh, CompletedOnlyInFree,
         HandlesMatchCache, Active, Live
(* Steps that only move a sequence on: same requests, same handles.        *)
<1>SameHandles.
     ASSUME HInv, UNCHANGED <<chan, prefill_queue, completed, pc, next_id>>,
            ActiveIsMap', Active' = Active, Live' = Live,
            \A r \in Active : active'[r].handle = active[r].handle
     PROVE  HInv'
  <2> USE <1>SameHandles
  <2>1. HandlesUsed' /\ QueueFresh' /\ ChanFresh' /\ CompletedOnlyInFree'
    BY Zenon DEF HInv, HandlesUsed, QueueFresh, ChanFresh, CompletedOnlyInFree
  <2>2. {active'[r].handle : r \in Active'} = {active[r].handle : r \in Active}
    BY Zenon
  <2>3. HandlesMatchCache'
    BY <2>2 DEF HInv, HandlesMatchCache
  <2> QED BY <2>1, <2>3, Zenon DEF HInv
<1>StepQuiet.
     ASSUME HInv,
            \/ \E r \in Requests : Disconnect(r)
            \/ DropHandle \/ DrainEmpty \/ RecvNone \/ LockFails \/ DecodePass
            \/ Decide \/ ForwardFails \/ ForwardPanics \/ ForwardDone \/ AbortDone
            \/ NextIteration \/ UNCHANGED vars
     PROVE  HInv'
  <2> USE <1>StepQuiet
  <2> DEFINE quiet == UNCHANGED <<active, chan, prefill_queue, owned, next_id, completed>>
                      /\ (completed # {} => pc' = "free")
  <2>0. completed # {} => pc = "free"
    BY Zenon DEF HInv, CompletedOnlyInFree
  <2>1. CASE \E r \in Requests : Disconnect(r)
    <3>1. quiet
      BY <2>0, <2>1, Zenon DEF Disconnect, cacheVars
    <3> QED BY <3>1, <1>Frame, Zenon
  <2>2. CASE DropHandle
    <3>1. quiet
      BY <2>0, <2>2, Zenon DEF DropHandle, cacheVars
    <3> QED BY <3>1, <1>Frame, Zenon
  <2>3. CASE DrainEmpty
    <3>1. quiet
      BY <2>0, <2>3, Zenon DEF DrainEmpty, loopFrame, cacheVars
    <3> QED BY <3>1, <1>Frame, Zenon
  <2>4. CASE RecvNone
    <3>1. quiet
      BY <2>0, <2>4, Zenon DEF RecvNone, loopFrame, cacheVars
    <3> QED BY <3>1, <1>Frame, Zenon
  <2>5. CASE LockFails
    <3>1. quiet
      BY <2>0, <2>5, Zenon DEF LockFails, loopFrame, cacheVars
    <3> QED BY <3>1, <1>Frame, Zenon
  <2>6. CASE DecodePass
    <3>1. quiet
      BY <2>0, <2>6, Zenon DEF DecodePass, scheduleFrame, cacheVars
    <3> QED BY <3>1, <1>Frame, Zenon
  <2>7. CASE Decide
    <3>1. quiet
      BY <2>0, <2>7, Zenon DEF Decide, cacheVars
    <3> QED BY <3>1, <1>Frame, Zenon
  <2>8. CASE ForwardFails
    <3>1. quiet
      BY <2>0, <2>8, Zenon DEF ForwardFails, forwardFrame, cacheVars
    <3> QED BY <3>1, <1>Frame, Zenon
  <2>9. CASE ForwardPanics
    <3>1. quiet
      BY <2>0, <2>9, Zenon DEF ForwardPanics, forwardFrame, cacheVars
    <3> QED BY <3>1, <1>Frame, Zenon
  <2>10. CASE ForwardDone
    <3>1. quiet
      BY <2>0, <2>10, Zenon DEF ForwardDone, forwardFrame, cacheVars
    <3> QED BY <3>1, <1>Frame, Zenon
  <2>11. CASE AbortDone
    <3>1. quiet
      BY <2>0, <2>11, Zenon DEF AbortDone, forwardFrame, cacheVars
    <3> QED BY <3>1, <1>Frame, Zenon
  <2>12. CASE NextIteration
    <3>1. quiet
      BY <2>0, <2>12, Zenon DEF NextIteration, loopFrame, cacheVars
    <3> QED BY <3>1, <1>Frame, Zenon
  <2>13. CASE UNCHANGED vars
    <3>1. quiet
      BY <2>0, <2>13, Zenon DEF vars, cacheVars
    <3> QED BY <3>1, <1>Frame, Zenon
  <2> QED BY <2>1, <2>2, <2>3, <2>4, <2>5, <2>6, <2>7, <2>8, <2>9, <2>10, <2>11, <2>12, <2>13,
             Zenon
<1>StepSubmit.
     ASSUME HInv, NEW r \in Requests, Submit(r)
     PROVE  HInv'
  <2> USE <1>StepSubmit
  <2>1. UNCHANGED <<active, prefill_queue, owned, next_id, completed, pc>>
    BY Zenon DEF Submit, cacheVars
  <2>2. <<"submit", r>> \in Command /\ chan \in Seq(Command)
    BY Zenon DEF HInv, ChanFresh, Command
  <2>3. chan' = Append(chan, <<"submit", r>>)
    BY Zenon DEF Submit
  <2>4. /\ chan' \in Seq(Command)
        /\ \A k \in DOMAIN chan' : \/ k \in DOMAIN chan /\ chan'[k] = chan[k]
                                   \/ k = Len(chan) + 1 /\ chan'[k] = <<"submit", r>>
    BY <2>2, <2>3, AppendFacts, Zenon
  <2>5. /\ \A k \in DOMAIN chan : chan[k] # <<"submit", r>>
        /\ \A k \in DOMAIN prefill_queue : prefill_queue[k] # r
        /\ r \notin Active
    BY Zenon DEF Submit, Sent
  <2>6. ChanFresh'
    BY <2>1, <2>4, <2>5, SMTT(60) DEF HInv, ChanFresh, Active
  <2>7. ActiveIsMap' /\ HandlesUsed' /\ QueueFresh' /\ CompletedOnlyInFree' /\ HandlesMatchCache'
    BY <2>1 DEF HInv, ActiveIsMap, HandlesUsed, QueueFresh, CompletedOnlyInFree,
                HandlesMatchCache, Active, Live
  <2> QED BY <2>6, <2>7, Zenon DEF HInv
<1>StepSnapshot.
     ASSUME HInv, Snapshot
     PROVE  HInv'
  <2> USE <1>StepSnapshot
  <2>1. UNCHANGED <<active, prefill_queue, owned, next_id, completed, pc>>
    BY Zenon DEF Snapshot, cacheVars
  <2>2. <<"snapshot">> \in Command /\ chan \in Seq(Command)
    BY Zenon DEF HInv, ChanFresh, Command
  <2>3. chan' = Append(chan, <<"snapshot">>)
    BY Zenon DEF Snapshot
  <2>4. /\ chan' \in Seq(Command)
        /\ \A k \in DOMAIN chan' : \/ k \in DOMAIN chan /\ chan'[k] = chan[k]
                                   \/ k = Len(chan) + 1 /\ chan'[k] = <<"snapshot">>
    BY <2>2, <2>3, AppendFacts, Zenon
  <2>5. \A r \in Requests : <<"snapshot">> # <<"submit", r>>
    BY Zenon
  <2>6. ChanFresh'
    BY <2>1, <2>4, <2>5, Zenon DEF HInv, ChanFresh, Active
  <2>7. ActiveIsMap' /\ HandlesUsed' /\ QueueFresh' /\ CompletedOnlyInFree' /\ HandlesMatchCache'
    BY <2>1 DEF HInv, ActiveIsMap, HandlesUsed, QueueFresh, CompletedOnlyInFree,
                HandlesMatchCache, Active, Live
  <2> QED BY <2>6, <2>7, Zenon DEF HInv
(* Drain and Recv: the head of the channel moves to the queue, or goes.    *)
<1>StepReceive.
     ASSUME HInv, Drain \/ Recv
     PROVE  HInv'
  <2> USE <1>StepReceive
  <2>1. UNCHANGED <<active, owned, next_id, completed>>
    BY Zenon DEF Drain, Recv, loopFrame, cacheVars
  <2>2. /\ pc # "free" /\ completed = {}
        /\ chan # <<>> /\ chan' = Tail(chan)
        /\ chan \in Seq(Command)
    BY Zenon DEF HInv, CompletedOnlyInFree, ChanFresh, Drain, Recv
  <2>3. /\ chan' \in Seq(Command) /\ Head(chan) = chan[1] /\ 1 \in DOMAIN chan
        /\ chan[1] \in Command
        /\ \A k \in DOMAIN chan' : /\ k + 1 \in DOMAIN chan /\ chan'[k] = chan[k + 1]
                                   /\ k \in Nat /\ k > 0
    BY <2>2, TailFacts, Zenon
  <2>4. ActiveIsMap' /\ HandlesUsed' /\ CompletedOnlyInFree' /\ HandlesMatchCache'
    BY <2>1, <2>2 DEF HInv, ActiveIsMap, HandlesUsed, CompletedOnlyInFree,
                      HandlesMatchCache, Active, Live
  <2>5. Active' = Active
    BY <2>1, Zenon DEF Active
  <2>6. CASE UNCHANGED prefill_queue
    <3>1. QueueFresh'
      BY <2>5, <2>6, Zenon DEF HInv, QueueFresh
    <3>2. ChanFresh'
      <4>1. ChanFresh
        BY Zenon DEF HInv
      <4>2. chan' \in Seq(Command)
        BY <2>3, <4>1, Zenon DEF ChanFresh
      <4>3. ASSUME NEW r \in Requests, NEW j \in DOMAIN chan', NEW k \in DOMAIN chan',
                   chan'[j] = <<"submit", r>>, chan'[k] = <<"submit", r>>
            PROVE  j = k
        BY <2>3, <4>1, <4>3 DEF ChanFresh
      <4>4. ASSUME NEW r \in Requests, NEW k \in DOMAIN chan', chan'[k] = <<"submit", r>>
            PROVE  r \notin Active' /\ \A j \in DOMAIN prefill_queue' : prefill_queue'[j] # r
        BY <2>3, <2>5, <2>6, <4>1, <4>4 DEF ChanFresh
      <4> QED BY <4>2, <4>3, <4>4, Zenon DEF ChanFresh
    <3> QED BY <2>4, <3>1, <3>2, Zenon DEF HInv
  <2>7. CASE chan[1][1] = "submit" /\ prefill_queue' = Append(prefill_queue, chan[1][2])
    <3>1. PICK r \in Requests : chan[1] = <<"submit", r>>
      BY <2>3, <2>7 DEF Command
    <3>2. prefill_queue' = Append(prefill_queue, r) /\ prefill_queue \in Seq(Requests)
      BY <2>7, <3>1 DEF HInv, QueueFresh
    <3>3. /\ prefill_queue' \in Seq(Requests)
          /\ \A k \in DOMAIN prefill_queue' :
               \/ k \in DOMAIN prefill_queue /\ prefill_queue'[k] = prefill_queue[k]
               \/ k = Len(prefill_queue) + 1 /\ prefill_queue'[k] = r
      BY <3>2, AppendFacts, Zenon
    <3>4. r \notin Active /\ \A k \in DOMAIN prefill_queue : prefill_queue[k] # r
      BY <2>3, <3>1, Zenon DEF HInv, ChanFresh
    <3>5. QueueFresh'
      BY <2>5, <3>3, <3>4, Zenon DEF HInv, QueueFresh
    <3>6. \A k \in DOMAIN chan' : chan'[k] # <<"submit", r>>
      BY <2>3, <3>1 DEF HInv, ChanFresh
    <3>7. ChanFresh'
      <4>1. ChanFresh
        BY Zenon DEF HInv
      <4>2. chan' \in Seq(Command)
        BY <2>3, <4>1, Zenon DEF ChanFresh
      <4>3. ASSUME NEW s \in Requests, NEW j \in DOMAIN chan', NEW k \in DOMAIN chan',
                   chan'[j] = <<"submit", s>>, chan'[k] = <<"submit", s>>
            PROVE  j = k
        BY <2>3, <4>1, <4>3 DEF ChanFresh
      <4>4. ASSUME NEW s \in Requests, NEW k \in DOMAIN chan', chan'[k] = <<"submit", s>>
            PROVE  s \notin Active' /\ \A j \in DOMAIN prefill_queue' : prefill_queue'[j] # s
        <5>1. s # r
          BY <3>6, <4>4, Zenon
        <5>2. s \notin Active /\ \A j \in DOMAIN prefill_queue : prefill_queue[j] # s
          BY <2>3, <4>1, <4>4, Zenon DEF ChanFresh
        <5> QED BY <2>5, <3>3, <5>1, <5>2, Zenon
      <4> QED BY <4>2, <4>3, <4>4, Zenon DEF ChanFresh
    <3> QED BY <2>4, <3>5, <3>7, Zenon DEF HInv
  <2> QED BY <2>3, <2>6, <2>7, Zenon DEF Drain, Recv, HandleCommand
(* The allocations of the forward pass keep the set of live handles.       *)
<1>StepAppend.
     ASSUME HInv, AppendSlice \/ AppendSliceOom
     PROVE  HInv'
  <2> USE <1>StepAppend
  <2>1. Live' = Live /\ next_id' = next_id
    BY ZenonT(60) DEF AppendSlice, AppendSliceOom, AppendOk, AppendOom, Live
  <2>2. UNCHANGED <<active, chan, prefill_queue, completed>> /\ completed = {}
    BY Zenon DEF AppendSlice, AppendSliceOom, forwardFrame, HInv, CompletedOnlyInFree
  <2> QED
    BY <2>1, <2>2 DEF HInv, ActiveIsMap, HandlesUsed, QueueFresh, ChanFresh,
       CompletedOnlyInFree, HandlesMatchCache, Active
(* One sequence is updated, and keeps its handle.                          *)
<1>UpdateOne.
     ASSUME HInv, UNCHANGED <<chan, prefill_queue, completed, pc, owned, next_id>>,
            NEW r, NEW b, active' = [active EXCEPT ![r] = b],
            r \in Active => IsSequence(b) /\ b.handle = active[r].handle
     PROVE  HInv'
  <2> USE <1>UpdateOne
  <2>1. Active' = Active /\ active' = [s \in Active' |-> active'[s]]
    BY Zenon DEF Active, HInv, ActiveIsMap
  <2>2. \A s \in Active : active'[s] = IF s = r THEN b ELSE active[s]
    BY Zenon DEF Active, HInv, ActiveIsMap
  <2>3. \A s \in Active : IsSequence(active'[s]) /\ active'[s].handle = active[s].handle
    BY <2>2, Zenon DEF HInv, ActiveIsMap
  <2>4. Live' = Live
    BY Zenon DEF Live
  <2> QED BY <2>1, <2>3, <2>4, <1>SameHandles, Zenon DEF ActiveIsMap
<1>StepContinueChunk.
     ASSUME HInv, NEW r \in Active, ContinueChunk(r)
     PROVE  HInv'
  <2> USE <1>StepContinueChunk
  <2>1. UNCHANGED <<chan, prefill_queue, completed, pc, owned, next_id>>
    BY Zenon DEF ContinueChunk, scheduleFrame, cacheVars
  <2>2. PICK n : active' = [active EXCEPT ![r].remaining = @ - n, ![r].current_pos = @ + n]
    BY Zenon DEF ContinueChunk
  <2>3. PICK x, y : active' = [active EXCEPT ![r] =
                                 [active[r] EXCEPT !.remaining = x, !.current_pos = y]]
    BY <2>2, ZenonT(60) DEF HInv, ActiveIsMap, Active
  <2>4. IsSequence(active[r])
    BY Zenon DEF HInv, ActiveIsMap
  <2> QED BY <2>1, <2>3, <2>4, <1>UpdateOne, <1>ChunkUpdate, Zenon
<1>StepSample.
     ASSUME HInv, Sample
     PROVE  HInv'
  <2> USE <1>StepSample
  <2>1. UNCHANGED <<chan, prefill_queue, completed, pc, owned, next_id>>
    BY Zenon DEF Sample, cacheVars
  <2> DEFINE r == Slices[i].seq
  <2>2. r \in Active => IsSequence(active[r])
    BY Zenon DEF HInv, ActiveIsMap
  <2>3. CASE SkipUnfinishedChunk(r)
    BY <2>1, <2>3, <1>Frame, Zenon DEF SkipUnfinishedChunk, HInv, CompletedOnlyInFree
  <2>4. CASE SampleToken(r)
    <3>1. PICK q, stop : q = r /\ active' =
            [active EXCEPT ![q].generated = @ + 1, ![q].current_pos = @ + 1, ![q].stopped = stop]
      BY <2>4, ZenonT(60) DEF SampleToken
    <3>2. Active' = Active /\ active' = [s \in Active' |-> active'[s]]
      BY <3>1, ZenonT(60) DEF Active, HInv, ActiveIsMap
    <3>3. \A s \in Active : s # q => active'[s] = active[s]
      BY <3>1, Zenon DEF Active, HInv, ActiveIsMap
    <3>4. ASSUME q \in Active
          PROVE  IsSequence(active'[q]) /\ active'[q].handle = active[q].handle
      <4>1. PICK a : a = active[q] /\ IsSequence(a)
        BY <3>4, Zenon DEF HInv, ActiveIsMap
      <4>2. active'[q] = [a EXCEPT !.generated = @ + 1, !.current_pos = @ + 1, !.stopped = stop]
        BY <3>1, <3>4, <4>1, SMTT(60) DEF HInv, ActiveIsMap, Active
      <4>3. PICK x, y : active'[q] = Sampled(a, x, y, stop)
        BY <4>2, Zenon DEF Sampled
      <4> QED BY ONLY <4>1, <4>3, <1>SampleUpdate
    <3>5. ActiveIsMap' /\ \A s \in Active : active'[s].handle = active[s].handle
      BY <3>2, <3>3, <3>4, Zenon DEF ActiveIsMap, HInv
    <3>6. Live' = Live
      BY <2>1, Zenon DEF Live
    <3> QED BY <2>1, <3>2, <3>5, <3>6, <1>SameHandles, SMTT(60)
  <2>5. CASE SampleFails(r)
    <3>1. active' = [active EXCEPT ![r] = [active[r] EXCEPT !.limit = 0]]
      BY <2>5, Zenon DEF SampleFails, HInv, ActiveIsMap, Active
    <3> QED BY <2>1, <2>2, <3>1, <1>UpdateOne, <1>LimitUpdate, Zenon
  <2> QED BY <2>3, <2>4, <2>5, Zenon DEF Sample
(* The head of the queue leaves it: neither it nor a later copy of it is   *)
(* left in the queue or in the channel.                                    *)
<1>QueueTail.
     ASSUME HInv, prefill_queue # <<>>, prefill_queue' = Tail(prefill_queue), chan' = chan,
            Active' \subseteq Active \cup {Head(prefill_queue)}
     PROVE  /\ QueueFresh' /\ ChanFresh'
            /\ Head(prefill_queue) \in Requests \ Active
  <2> USE <1>QueueTail
  <2> DEFINE q == prefill_queue
  <2>1. /\ q \in Seq(Requests)
        /\ \A j, k \in DOMAIN q : q[j] = q[k] => j = k
        /\ \A k \in DOMAIN q : q[k] \notin Active
    BY Zenon DEF HInv, QueueFresh
  <2>2. /\ Tail(q) \in Seq(Requests) /\ Head(q) = q[1] /\ 1 \in DOMAIN q /\ q[1] \in Requests
        /\ \A k \in DOMAIN Tail(q) : k + 1 \in DOMAIN q /\ Tail(q)[k] = q[k + 1] /\ k \in Nat /\ k > 0
    BY <2>1, TailFacts, Zenon
  <2>3. Head(q) \in Requests \ Active
    BY <2>1, <2>2
  <2>4. \A k \in DOMAIN Tail(q) : Tail(q)[k] # Head(q) /\ Tail(q)[k] \notin Active
    BY <2>1, <2>2
  <2>5. \A j, k \in DOMAIN Tail(q) : Tail(q)[j] = Tail(q)[k] => j = k
    <3> SUFFICES ASSUME NEW j \in DOMAIN Tail(q), NEW k \in DOMAIN Tail(q),
                        Tail(q)[j] = Tail(q)[k]
                 PROVE  j = k
      BY Zenon
    <3>1. j + 1 = k + 1
      BY <2>1, <2>2
    <3> QED BY <2>2, <3>1
  <2>6. QueueFresh'
    BY <2>2, <2>4, <2>5, Zenon DEF QueueFresh
  <2>7. ChanFresh'
    <3>1. /\ chan \in Seq(Command)
          /\ \A r \in Requests, j, k \in DOMAIN chan :
               chan[j] = <<"submit", r>> /\ chan[k] = <<"submit", r>> => j = k
      BY Zenon DEF HInv, ChanFresh
    <3>2. ASSUME NEW r \in Requests, NEW k \in DOMAIN chan, chan[k] = <<"submit", r>>
          PROVE  r \notin Active' /\ \A j \in DOMAIN Tail(q) : Tail(q)[j] # r
      <4>1. r \notin Active /\ \A j \in DOMAIN q : q[j] # r
        BY <3>2, Zenon DEF HInv, ChanFresh
      <4> QED BY <2>2, <4>1, Zenon
    <3> QED BY <3>1, <3>2, Zenon DEF ChanFresh
  <2> QED BY <2>3, <2>6, <2>7, Zenon
<1>StepAdmitFails.
     ASSUME HInv, AdmitFails
     PROVE  HInv'
  <2> USE <1>StepAdmitFails
  <2>1. /\ prefill_queue # <<>> /\ prefill_queue' = Tail(prefill_queue)
        /\ UNCHANGED <<chan, active, completed, pc, owned>>
        /\ next_id' = next_id + 1
    BY Zenon DEF AdmitFails, CanAdmit, AllocOom, scheduleFrame
  <2>2. Active' = Active /\ Live' = Live
    BY <2>1, Zenon DEF Active, Live
  <2>3. QueueFresh' /\ ChanFresh'
    BY <2>1, <2>2, <1>QueueTail, Zenon
  <2>4. HandlesUsed'
    BY <2>1, <2>2 DEF HInv, HandlesUsed
  <2>5. ActiveIsMap' /\ CompletedOnlyInFree' /\ HandlesMatchCache'
    BY <2>1, <2>2 DEF HInv, ActiveIsMap, CompletedOnlyInFree, HandlesMatchCache
  <2> QED BY <2>3, <2>4, <2>5, Zenon DEF HInv
<1>StepAdmit.
     ASSUME HInv, Admit
     PROVE  HInv'
  <2> USE <1>StepAdmit
  <2>1. /\ prefill_queue # <<>> /\ prefill_queue' = Tail(prefill_queue)
        /\ UNCHANGED <<chan, completed, pc>> /\ pc = "prefill"
    BY SMTT(60) DEF Admit, CanAdmit, CanPrefill, scheduleFrame
  <2>2. next_id' = next_id + 1 /\ Live' = Live \cup {next_id}
    BY SMTT(60) DEF Admit, AllocOk, Live
  <2> DEFINE r == Head(prefill_queue)
             n == Min({prompt_len[r], TokenCap})
             new == Sequence(next_id, n, 0, FALSE, prompt_len[r] - n, max_tokens[r])
  <2>3. active' = [s \in Active \cup {r} |-> IF s = r THEN new ELSE active[s]]
    BY Zenon DEF Admit, Sequence
  <2>3a. new.handle = next_id /\ IsSequence(new)
    <3> HIDE DEF n, r
    <3> QED BY Zenon DEF IsSequence, Sequence
  <2> HIDE DEF new
  <2>4. Active' = Active \cup {r}
    BY <2>3, Zenon DEF Active
  <2>5. QueueFresh' /\ ChanFresh' /\ r \notin Active
    BY <2>1, <2>3, <2>4, <1>QueueTail, Zenon
  <2>6. next_id \notin Live /\ HandlesUsed'
    BY <2>2 DEF HInv, HandlesUsed
  <2>7. /\ active'[r].handle = next_id /\ IsSequence(active'[r])
        /\ \A s \in Active : active'[s] = active[s]
    BY <2>3, <2>5, <2>3a, Zenon
  <2>8. ActiveIsMap'
    BY <2>3, <2>4, <2>7, Zenon DEF ActiveIsMap, HInv
  <2>9. completed = {} /\ CompletedOnlyInFree'
    BY <2>1, Zenon DEF HInv, CompletedOnlyInFree
  <2>10. HandlesMatchCache'
    <3>1. /\ Live = {active[s].handle : s \in Active}
          /\ \A s, t \in Active : active[s].handle = active[t].handle => s = t
      BY <2>9, Zenon DEF HInv, HandlesMatchCache
    <3>2. {active'[s].handle : s \in Active'} = {active[s].handle : s \in Active} \cup {next_id}
      BY <2>4, <2>7, Zenon
    <3>3. ASSUME NEW s \in Active', NEW t \in Active', active'[s].handle = active'[t].handle
          PROVE  s = t
      BY <2>4, <2>6, <2>7, <3>1, <3>3
    <3> QED BY <2>1, <2>2, <2>9, <3>1, <3>2, <3>3, Zenon DEF HandlesMatchCache
  <2> QED BY <2>5, <2>6, <2>8, <2>9, <2>10, SMTT(60) DEF HInv
<1>StepAbortOne.
     ASSUME HInv, AbortOne
     PROVE  HInv'
  <2> USE <1>StepAbortOne
  <2> DEFINE r == Slices[i].seq
  <2>1. /\ r \in Active /\ active' = Without(active, {r}) /\ Free(active[r].handle)
        /\ UNCHANGED <<chan, prefill_queue, completed, pc>> /\ pc = "abort"
    BY Zenon DEF AbortOne
  <2> HIDE DEF r
  <2>2. next_id' = next_id /\ Live' = Live \ {active[r].handle}
    BY <2>1, Zenon DEF Free, Live
  <2>3. /\ Active' = Active \ {r} /\ \A s \in Active' : active'[s] = active[s]
        /\ ActiveIsMap' /\ HandlesUsed' /\ QueueFresh' /\ ChanFresh'
    BY <2>1, <2>2, Leave, Zenon
  <2>4. completed = {} /\ CompletedOnlyInFree'
    BY <2>1, Zenon DEF HInv, CompletedOnlyInFree
  <2>5. HandlesMatchCache'
    <3>1. /\ Live = {active[s].handle : s \in Active}
          /\ \A s, t \in Active : active[s].handle = active[t].handle => s = t
      BY <2>4, Zenon DEF HInv, HandlesMatchCache
    <3>2. {active'[s].handle : s \in Active'} = {active[s].handle : s \in Active \ {r}}
      BY <2>3, Zenon
    <3>3. {active[s].handle : s \in Active \ {r}} = Live \ {active[r].handle}
      BY <2>1, <3>1, Zenon
    <3>4. \A s, t \in Active' : active'[s].handle = active'[t].handle => s = t
      BY <2>3, <3>1
    <3> QED BY <2>1, <2>2, <2>4, <3>2, <3>3, <3>4, Zenon DEF HandlesMatchCache
  <2> QED BY <2>3, <2>4, <2>5, SMTT(60) DEF HInv
<1>StepCleanup.
     ASSUME HInv, Cleanup
     PROVE  HInv'
  <2> USE <1>StepCleanup
  <2>1. PICK R : /\ R \subseteq Active /\ active' = Without(active, R)
                 /\ completed' = {active[r].handle : r \in R}
    BY Zenon DEF Cleanup
  <2>2. /\ UNCHANGED <<chan, prefill_queue, next_id, owned>> /\ pc = "sample" /\ pc' = "free"
    BY Zenon DEF Cleanup, cacheVars
  <2>3. Live' = Live
    BY <2>2, SMTT(60) DEF Live
  <2>4. /\ Active' = Active \ R /\ \A s \in Active' : active'[s] = active[s]
        /\ ActiveIsMap' /\ HandlesUsed' /\ QueueFresh' /\ ChanFresh'
    BY <2>1, <2>2, <2>3, Leave, Zenon
  <2>5. completed = {} /\ CompletedOnlyInFree'
    BY <2>2, Zenon DEF HInv, CompletedOnlyInFree
  <2>6. HandlesMatchCache'
    <3>1. /\ Live = {active[s].handle : s \in Active}
          /\ \A s, t \in Active : active[s].handle = active[t].handle => s = t
      BY <2>5, Zenon DEF HInv, HandlesMatchCache
    <3>2. {active'[s].handle : s \in Active'} = {active[s].handle : s \in Active \ R}
      BY <2>4, SMTT(60)
    <3>3. /\ Live = {active[s].handle : s \in Active \ R} \cup {active[r].handle : r \in R}
          /\ {active[s].handle : s \in Active \ R} \cap {active[r].handle : r \in R} = {}
      BY <2>1, <3>1, Zenon
    <3>4. \A s, t \in Active' : active'[s].handle = active'[t].handle => s = t
      BY <2>4, <3>1
    <3> QED BY <2>1, <2>3, <3>2, <3>3, <3>4, Zenon DEF HandlesMatchCache
  <2> QED BY <2>4, <2>5, <2>6, Zenon DEF HInv
<1>StepFreeCompleted.
     ASSUME HInv, NEW h \in completed, FreeCompleted(h)
     PROVE  HInv'
  <2> USE <1>StepFreeCompleted
  <2>1. /\ UNCHANGED <<active, chan, prefill_queue, pc>> /\ pc = "free"
        /\ completed' = completed \ {h} /\ Free(h)
    BY Zenon DEF FreeCompleted
  <2>2. next_id' = next_id /\ Live' = Live \ {h} /\ Active' = Active
    BY <2>1, SMTT(60) DEF Free, Live, Active
  <2>3. ActiveIsMap' /\ HandlesUsed' /\ QueueFresh' /\ ChanFresh' /\ CompletedOnlyInFree'
    BY <2>1, <2>2, SMTT(60) DEF HInv, ActiveIsMap, HandlesUsed, QueueFresh, ChanFresh,
       CompletedOnlyInFree
  <2>4. HandlesMatchCache'
    BY <2>1, <2>2 DEF HInv, HandlesMatchCache
  <2> QED BY <2>3, <2>4, Zenon DEF HInv
<1> SUFFICES ASSUME HInv, [Next]_vars PROVE HInv'
  BY Zenon
<1>1. CASE Client
  BY <1>1, <1>StepSubmit, <1>StepSnapshot, <1>StepQuiet, Zenon DEF Client
<1>2. CASE Loop
  BY <1>2, <1>StepQuiet, <1>StepReceive, <1>StepContinueChunk, <1>StepAdmit, <1>StepAdmitFails,
     <1>StepAppend,
     <1>StepAbortOne, <1>StepSample, <1>StepCleanup, <1>StepFreeCompleted, Zenon DEF Loop
<1>3. CASE ForwardFails \/ ForwardPanics \/ Ended \/ UNCHANGED vars
  BY <1>3, <1>StepQuiet, Zenon DEF Ended
<1> QED BY <1>1, <1>2, <1>3, Zenon DEF Next

(***************************************************************************)
(* No leak, no use after free and no double free of cache handles by the   *)
(* scheduler loop, for every set of requests, every configuration and      *)
(* every pool: the live handles are always those of the active sequences   *)
(* and those that cleanup_completed returned and the loop is about to free.*)
(***************************************************************************)
THEOREM HandlesMatchCacheCorrect == Spec => []HandlesMatchCache
<1>1. HInv => HandlesMatchCache
  BY Zenon DEF HInv
<1> QED BY HInvInit, HInvNext, <1>1, PTL DEF Spec

-----------------------------------------------------------------------------
Event == {"token", "finished", "error"}
SequenceType == [handle : Nat, current_pos : Nat, generated : Nat,
                 stopped : BOOLEAN, remaining : Nat, limit : Nat]
JobType == [seq : Requests, handle : Nat, n : Nat, pos : Nat]

(***************************************************************************)
(* BInv: the batch names active sequences, once each, by their             *)
(* handles; decode slices are one token of a fully prefilled sequence.     *)
(* While a failed batch is aborted, the sequences before i are gone.       *)
(***************************************************************************)
Idle == pc \in {"drain", "recv", "decode", "free", "returned", "dead"}
Size == Len(prefills) + Len(decodes)

Typed ==
  /\ pc \in {"drain", "recv", "decode", "prefill", "forward", "abort", "sample",
             "free", "returned", "dead"}
  /\ prompt_len \in [Requests -> Nat] /\ max_tokens \in [Requests -> Nat \ {0}]
  /\ active \in [Active -> SequenceType]
  /\ Active \subseteq Requests
  /\ prefills \in Seq(JobType) /\ decodes \in Seq(JobType)
  /\ total_tokens \in Nat /\ prefill_tokens \in Nat
  /\ i \in Nat \ {0} /\ poisoned \in BOOLEAN

Phases ==
  /\ Idle => prefills = <<>> /\ decodes = <<>> /\ i = 1
  /\ pc = "prefill" => i = 1
  /\ poisoned => pc \in {"drain", "recv", "decode", "returned", "dead"}
  /\ i <= Size + 1

Capped == Size <= MaxBatchSize /\ total_tokens <= MaxBatchTokens
          /\ prefill_tokens <= MaxPrefillTokens
          /\ \A k \in 1 .. Size : Slices[k].n <= total_tokens

OneSliceEach == \A j, k \in 1 .. Size : Slices[j].seq = Slices[k].seq => j = k

SliceOk(k) == /\ Slices[k].seq \in Active
              /\ Slices[k].handle = active[Slices[k].seq].handle
              /\ k > Len(prefills) => active[Slices[k].seq].remaining = 0 /\ Slices[k].n = 1
SlicesActive ==
  \A k \in 1 .. Size : IF pc = "abort" /\ k < i THEN Slices[k].seq \notin Active
                                                ELSE SliceOk(k)

BInv == Typed /\ Phases /\ Capped /\ OneSliceEach /\ SlicesActive

(* Finitely many sequences are active, so that they can be counted.        *)
Countable == \A S \in SUBSET Active : IsFiniteSet(S) /\ Cardinality(S) \in Nat

-----------------------------------------------------------------------------
(* Facts about the operators of the loop.                                  *)

LEMMA NotPositive == \A x \in Nat : ~(x > 0) => x = 0
  OBVIOUS

LEMMA MinOfTwo ==
  ASSUME NEW a \in Int, NEW b \in Int
  PROVE  Min({a, b}) = IF a <= b THEN a ELSE b
  BY DEF Min

LEMMA SatSubFacts ==
  ASSUME NEW a \in Nat, NEW b \in Nat
  PROVE  SatSub(a, b) \in Nat /\ (SatSub(a, b) > 0 <=> b < a)
         /\ (b <= a => SatSub(a, b) = a - b)
  BY DEF SatSub

(* The slices: the prefill jobs and then the decode jobs.                  *)
LEMMA SliceFacts ==
  ASSUME NEW S, NEW p \in Seq(S), NEW d \in Seq(S)
  PROVE  /\ Len(p \o d) = Len(p) + Len(d) /\ p \o d \in Seq(S)
         /\ Len(p) \in Nat /\ Len(d) \in Nat
         /\ DOMAIN (p \o d) = 1 .. (Len(p) + Len(d))
         /\ \A k \in 1 .. Len(p) : (p \o d)[k] = p[k] /\ p[k] \in S
         /\ \A k \in 1 .. Len(d) : (p \o d)[Len(p) + k] = d[k] /\ d[k] \in S
         /\ \A k \in 1 .. (Len(p) + Len(d)) : (p \o d)[k] \in S
  OBVIOUS

LEMMA SlicesType ==
  ASSUME Typed
  PROVE  /\ Size \in Nat /\ Len(Slices) = Size /\ DOMAIN Slices = 1 .. Size
         /\ \A k \in 1 .. Size : Slices[k] \in JobType
         /\ Len(prefills) \in Nat /\ Len(decodes) \in Nat
  BY SliceFacts DEF Typed, Size, Slices

LEMMA PrefillsFirst ==
  ASSUME Typed
  PROVE  /\ Len(prefills) <= Size /\ DOMAIN prefills = 1 .. Len(prefills)
         /\ \A k \in DOMAIN prefills : k \in 1 .. Size /\ Slices[k] = prefills[k]
<1>1. prefills \in Seq(JobType) /\ decodes \in Seq(JobType)
  BY Zenon DEF Typed
<1>2. /\ DOMAIN prefills = 1 .. Len(prefills) /\ Len(prefills) \in Nat /\ Len(decodes) \in Nat
      /\ \A k \in 1 .. Len(prefills) : Slices[k] = prefills[k]
  BY <1>1, SliceFacts DEF Slices
<1>3. Len(prefills) <= Size /\ \A k \in 1 .. Len(prefills) : k \in 1 .. Size
  BY <1>2 DEF Size
<1> QED BY <1>2, <1>3, Zenon

(* One more prefill job moves the decode jobs up by one.                   *)
LEMMA AppendedSlices ==
  ASSUME NEW S, NEW p \in Seq(S), NEW d \in Seq(S), NEW x \in S
  PROVE  LET old == p \o d
             new == Append(p, x) \o d
         IN  /\ Append(p, x) \in Seq(S) /\ Len(Append(p, x)) = Len(p) + 1
             /\ \A k \in 1 .. (Len(p) + Len(d) + 1) :
                  new[k] = IF k <= Len(p) THEN old[k]
                           ELSE IF k = Len(p) + 1 THEN x ELSE old[k - 1]
  OBVIOUS

LEMMA SequenceTyped ==
  ASSUME NEW h \in Nat, NEW c \in Nat, NEW g \in Nat, NEW s \in BOOLEAN, NEW m \in Nat, NEW l \in Nat
  PROVE  LET a == Sequence(h, c, g, s, m, l)
         IN  /\ a \in SequenceType
             /\ a.handle = h /\ a.current_pos = c /\ a.generated = g /\ a.stopped = s
             /\ a.remaining = m /\ a.limit = l
  BY Zenon DEF Sequence, SequenceType

LEMMA SequenceOf ==
  ASSUME NEW a \in SequenceType
  PROVE  /\ a = Sequence(a.handle, a.current_pos, a.generated, a.stopped, a.remaining, a.limit)
         /\ a.handle \in Nat /\ a.current_pos \in Nat /\ a.generated \in Nat
         /\ a.stopped \in BOOLEAN /\ a.remaining \in Nat /\ a.limit \in Nat
  BY Zenon DEF Sequence, SequenceType

(* One sequence of a map of sequences is replaced.                         *)
LEMMA Replaced ==
  ASSUME NEW A, NEW f \in [A -> SequenceType], NEW r \in A, NEW b \in SequenceType
  PROVE  LET g == [f EXCEPT ![r] = b]
         IN  g \in [A -> SequenceType] /\ DOMAIN g = A
             /\ g[r] = b /\ \A s \in A \ {r} : g[s] = f[s]
  BY Zenon

(* What ContinueChunk, SampleToken and SampleFails write to active.        *)
WithChunk(f, r, n) == [f EXCEPT ![r].remaining = @ - n, ![r].current_pos = @ + n]

LEMMA ChunkEffect ==
  ASSUME NEW A, NEW f \in [A -> SequenceType], NEW r \in A, NEW n \in Nat,
         n <= f[r].remaining
  PROVE  LET g == WithChunk(f, r, n)
         IN  /\ g \in [A -> SequenceType] /\ DOMAIN g = A
             /\ \A s \in A \ {r} : g[s] = f[s]
             /\ g[r].handle = f[r].handle /\ g[r].current_pos = f[r].current_pos + n
             /\ g[r].generated = f[r].generated /\ g[r].stopped = f[r].stopped
             /\ g[r].remaining = f[r].remaining - n /\ g[r].limit = f[r].limit
<1>1. PICK a : a = f[r]
  BY Zenon
<1>2. PICK x, y : x = a.remaining - n /\ y = a.current_pos + n
  BY Zenon
<1>3. a \in SequenceType /\ x \in Nat /\ y \in Nat
  BY <1>1, <1>2, SequenceOf
<1>4. PICK h \in Nat, c \in Nat, d \in Nat, s \in BOOLEAN, m \in Nat, l \in Nat :
         a = Sequence(h, c, d, s, m, l)
  <2>1. a \in SequenceType => /\ a = Sequence(a.handle, a.current_pos, a.generated, a.stopped,
                                              a.remaining, a.limit)
                             /\ a.handle \in Nat /\ a.current_pos \in Nat
                             /\ a.generated \in Nat /\ a.stopped \in BOOLEAN
                             /\ a.remaining \in Nat /\ a.limit \in Nat
    BY SequenceOf, Zenon
  <2> QED BY <1>3, <2>1, Zenon
<1>5. [a EXCEPT !.remaining = x, !.current_pos = y] = Sequence(h, y, d, s, x, l)
  <2>1. [a EXCEPT !.remaining = x] = Sequence(h, c, d, s, x, l)
    BY <1>4 DEF Sequence
  <2>2. [Sequence(h, c, d, s, x, l) EXCEPT !.current_pos = y] = Sequence(h, y, d, s, x, l)
    BY DEF Sequence
  <2>3. [a EXCEPT !.remaining = x, !.current_pos = y] =
          [[a EXCEPT !.remaining = x] EXCEPT !.current_pos = y]
    BY Zenon
  <2> QED BY ONLY <2>1, <2>2, <2>3, Zenon
<1>6. PICK b : b = Sequence(h, y, d, s, x, l)
  BY Zenon
<1>7. /\ b \in SequenceType
      /\ b.handle = a.handle /\ b.current_pos = y /\ b.generated = a.generated
      /\ b.stopped = a.stopped /\ b.remaining = x /\ b.limit = a.limit
  BY <1>3, <1>4, <1>6, Zenon DEF Sequence, SequenceType
<1>8. [f EXCEPT ![r].remaining = @ - n, ![r].current_pos = @ + n] = [f EXCEPT ![r] = b]
  <2>1. [f EXCEPT ![r].remaining = @ - n, ![r].current_pos = @ + n] =
          [f EXCEPT ![r] = [f[r] EXCEPT !.remaining = f[r].remaining - n,
                                        !.current_pos = f[r].current_pos + n]]
    BY Zenon
  <2> QED BY ONLY <1>1, <1>2, <1>5, <1>6, <2>1, Zenon
<1> QED BY <1>1, <1>2, <1>7, <1>8, Replaced DEF WithChunk

WithToken(f, r, stop) == [f EXCEPT ![r].generated = @ + 1, ![r].current_pos = @ + 1,
                                   ![r].stopped = stop]

WithFailure(f, r) == [f EXCEPT ![r].limit = 0]

-----------------------------------------------------------------------------
(* What the steps do, in terms of the slices.                              *)

(* A prefill job of n tokens joins the batch.                              *)
SliceAdded(r, h, n, p) ==
  /\ pc = "prefill" /\ pc' = "prefill" /\ Size < MaxBatchSize
  /\ n \in Nat /\ total_tokens < MaxBatchTokens
  /\ total_tokens' = total_tokens + n /\ total_tokens' <= MaxBatchTokens
  /\ prefill_tokens' = prefill_tokens + n /\ prefill_tokens' <= MaxPrefillTokens
  /\ Job(r, h, n, p) \in JobType
  /\ prefills' = Append(prefills, Job(r, h, n, p)) /\ decodes' = decodes
  /\ prefills' \in Seq(JobType) /\ Len(prefills') = Len(prefills) + 1
  /\ Size' = Size + 1
  /\ \A k \in 1 .. Size : Slices[k].seq # r
  /\ \A k \in 1 .. (Size + 1) :
       Slices'[k] = IF k <= Len(prefills) THEN Slices[k]
                    ELSE IF k = Len(prefills) + 1 THEN Job(r, h, n, p) ELSE Slices[k - 1]

LEMMA CapFacts ==
  ASSUME BInv, CanPrefill
  PROVE  /\ pc = "prefill" /\ Size < MaxBatchSize
         /\ TokenCap \in Nat \ {0}
         /\ total_tokens < MaxBatchTokens
         /\ TokenCap <= MaxBatchTokens - total_tokens
         /\ TokenCap <= MaxPrefillTokens - prefill_tokens
<1>1. /\ MaxBatchTokens \in Nat /\ MaxPrefillTokens \in Nat
      /\ total_tokens \in Nat /\ prefill_tokens \in Nat
      /\ total_tokens <= MaxBatchTokens /\ prefill_tokens <= MaxPrefillTokens
  BY LoopAssumption, Zenon DEF BInv, Typed, Capped
<1> DEFINE x == SatSub(MaxBatchTokens, total_tokens)
           y == SatSub(MaxPrefillTokens, prefill_tokens)
<1>2. x = MaxBatchTokens - total_tokens /\ y = MaxPrefillTokens - prefill_tokens
  BY <1>1, SatSubFacts, Zenon
<1>3. TokenCap = IF x <= y THEN x ELSE y
  BY <1>1, <1>2, MinOfTwo DEF TokenCap
<1> QED BY <1>1, <1>2, <1>3, SlicesType DEF CanPrefill, BatchRoom, BInv, Size

LEMMA Adding ==
  ASSUME BInv, CanPrefill, NEW r \in Requests, NEW h \in Nat, NEW n \in Nat, NEW p \in Nat,
         n <= TokenCap, AddPrefill(r, h, n, p), pc' = pc,
         \A k \in 1 .. Size : Slices[k].seq # r
  PROVE  SliceAdded(r, h, n, p)
<1> DEFINE x == Job(r, h, n, p)
<1>1. x \in JobType
  BY Zenon DEF Job, JobType
<1>2. /\ prefills \in Seq(JobType) /\ decodes \in Seq(JobType)
      /\ total_tokens \in Nat /\ prefill_tokens \in Nat
      /\ MaxBatchTokens \in Nat /\ MaxPrefillTokens \in Nat
  BY LoopAssumption, Zenon DEF BInv, Typed
<1>3. /\ prefills' = Append(prefills, x) /\ decodes' = decodes
      /\ total_tokens' = total_tokens + n /\ prefill_tokens' = prefill_tokens + n
  BY Zenon DEF AddPrefill
<1> HIDE DEF x
<1>4. /\ Len(prefills') = Len(prefills) + 1 /\ prefills' \in Seq(JobType)
      /\ Len(prefills) \in Nat /\ Len(decodes) \in Nat
      /\ \A k \in 1 .. (Len(prefills) + Len(decodes) + 1) :
           (prefills' \o decodes)[k] =
             IF k <= Len(prefills) THEN (prefills \o decodes)[k]
             ELSE IF k = Len(prefills) + 1 THEN x ELSE (prefills \o decodes)[k - 1]
  BY <1>1, <1>2, <1>3, AppendedSlices
<1>5. Size' = Size + 1
  BY <1>3, <1>4 DEF Size
<1>6. \A k \in 1 .. (Size + 1) :
        Slices'[k] = IF k <= Len(prefills) THEN Slices[k]
                     ELSE IF k = Len(prefills) + 1 THEN x ELSE Slices[k - 1]
  BY <1>3, <1>4, Zenon DEF Size, Slices
<1>7. /\ pc = "prefill" /\ Size < MaxBatchSize /\ total_tokens < MaxBatchTokens
      /\ total_tokens + n <= MaxBatchTokens /\ prefill_tokens + n <= MaxPrefillTokens
  BY <1>2, CapFacts
<1> QED BY <1>1, <1>3, <1>4, <1>5, <1>6, <1>7, Zenon DEF SliceAdded, x

(* ContinueChunk: n tokens of the prompt of r move into the batch.         *)
ChunkCut(r, n) ==
  /\ SliceAdded(r, active[r].handle, n, active[r].current_pos)
  /\ n > 0 /\ n <= active[r].remaining
  /\ Active' = Active /\ active' \in [Active -> SequenceType]
  /\ \A s \in Active \ {r} : active'[s] = active[s]
  /\ active'[r].handle = active[r].handle
  /\ active'[r].current_pos = active[r].current_pos + n
  /\ active'[r].generated = active[r].generated /\ active'[r].stopped = active[r].stopped
  /\ active'[r].remaining = active[r].remaining - n /\ active'[r].limit = active[r].limit
  /\ UNCHANGED <<cacheVars, clientVars, chan, i, completed, poisoned, events, prefill_queue,
                 rope, free_blocks>>

LEMMA ChunkStep ==
  ASSUME BInv, NEW r \in Active, ContinueChunk(r)
  PROVE  \E n \in Nat : ChunkCut(r, n)
<1> DEFINE n == Min({active[r].remaining, TokenCap})
<1>1. /\ CanPrefill /\ r \in Chunked /\ pc' = pc
      /\ AddPrefill(r, active[r].handle, n, active[r].current_pos)
      /\ active' = [active EXCEPT ![r].remaining = @ - n, ![r].current_pos = @ + n]
      /\ UNCHANGED <<cacheVars, clientVars, chan, i, completed, poisoned, events,
                     prefill_queue, rope, free_blocks>>
  BY Zenon DEF ContinueChunk, AddPrefill, scheduleFrame
<1>2. active \in [Active -> SequenceType] /\ active[r] \in SequenceType /\ r \in Requests
  BY Zenon DEF BInv, Typed
<1>3. active[r].remaining \in Nat /\ active[r].handle \in Nat /\ active[r].current_pos \in Nat
  BY <1>2, SequenceOf, Zenon
<1>4. TokenCap \in Nat \ {0} /\ pc = "prefill"
  BY <1>1, CapFacts, Zenon
<1>5. active[r].remaining > 0 /\ \A k \in DOMAIN prefills : prefills[k].seq # r
  BY <1>1, Zenon DEF Chunked
<1>6. n \in Nat /\ n > 0 /\ n <= active[r].remaining /\ n <= TokenCap
  BY <1>3, <1>4, <1>5, MinOfTwo
<1> HIDE DEF n
<1>7. ASSUME NEW k \in 1 .. Size PROVE Slices[k].seq # r
  <2>1. prefills \in Seq(JobType) /\ decodes \in Seq(JobType)
    BY Zenon DEF BInv, Typed
  <2>2. CASE k <= Len(prefills)
    BY <1>5, <2>1, <2>2, SliceFacts DEF Slices, Size
  <2>3. CASE k > Len(prefills)
    BY <1>4, <1>5, <1>3, <2>3 DEF BInv, SlicesActive, SliceOk
  <2> QED BY <2>1, <2>2, <2>3, SliceFacts DEF Size
<1>8. SliceAdded(r, active[r].handle, n, active[r].current_pos)
  BY <1>1, <1>2, <1>3, <1>6, <1>7, Adding, Zenon
<1>9. /\ active' \in [Active -> SequenceType] /\ DOMAIN active' = Active
      /\ \A s \in Active \ {r} : active'[s] = active[s]
      /\ active'[r].handle = active[r].handle
      /\ active'[r].current_pos = active[r].current_pos + n
      /\ active'[r].generated = active[r].generated /\ active'[r].stopped = active[r].stopped
      /\ active'[r].remaining = active[r].remaining - n /\ active'[r].limit = active[r].limit
  <2>1. active' = WithChunk(active, r, n)
    BY <1>1, Zenon DEF WithChunk
  <2> QED BY <1>2, <1>6, <2>1, ChunkEffect
<1>10. Active' = Active
  BY <1>9, Zenon DEF Active
<1> QED BY <1>1, <1>6, <1>8, <1>9, <1>10, Zenon DEF ChunkCut

(* Admit: the head of the queue becomes active and its first n tokens join *)
(* the batch.                                                              *)
Admitted(r, n) ==
  /\ SliceAdded(r, next_id, n, 0)
  /\ n <= prompt_len[r] /\ (prompt_len[r] > 0 => n > 0)
  /\ r \in Requests \ Active /\ prefill_queue # <<>> /\ r = Head(prefill_queue)
  /\ Active' = Active \cup {r} /\ active' \in [Active' -> SequenceType]
  /\ \A s \in Active : active'[s] = active[s]
  /\ active'[r].handle = next_id /\ active'[r].current_pos = n
  /\ active'[r].generated = 0 /\ active'[r].stopped = FALSE
  /\ active'[r].remaining = prompt_len[r] - n /\ active'[r].limit = max_tokens[r]
  /\ Chunked = {} /\ next_id \in Nat \ Live /\ AllocOk
  /\ rope' = [h \in Live' |-> IF h = next_id THEN <<>> ELSE rope[h]]
  /\ prefill_queue' = Tail(prefill_queue)
  /\ UNCHANGED <<clientVars, chan, i, completed, poisoned, events, free_blocks>>

LEMMA AdmitStep ==
  ASSUME HInv, BInv, Admit
  PROVE  \E n \in Nat : Admitted(Head(prefill_queue), n)
<1> DEFINE r == Head(prefill_queue)
           n == Min({prompt_len[r], TokenCap})
           new == Sequence(next_id, n, 0, FALSE, prompt_len[r] - n, max_tokens[r])
<1>1. /\ CanPrefill /\ Chunked = {} /\ prefill_queue # <<>> /\ pc' = pc
      /\ AllocOk
      /\ AddPrefill(r, next_id, n, 0)
      /\ active' = [s \in Active \cup {r} |-> IF s = r THEN new ELSE active[s]]
      /\ rope' = [h \in Live' |-> IF h = next_id THEN <<>> ELSE rope[h]]
      /\ prefill_queue' = Tail(prefill_queue)
      /\ UNCHANGED <<clientVars, chan, i, completed, poisoned, events, free_blocks>>
  BY Zenon DEF Admit, CanAdmit, AddPrefill, scheduleFrame, Sequence
<1>2. r \in Requests \ Active
  BY <1>1, TailFacts DEF HInv, QueueFresh
<1>3. /\ prompt_len[r] \in Nat /\ max_tokens[r] \in Nat /\ next_id \in Nat \ Live
      /\ active \in [Active -> SequenceType]
  BY <1>2 DEF BInv, Typed, HInv, HandlesUsed
<1>4. TokenCap \in Nat \ {0} /\ pc = "prefill"
  BY <1>1, CapFacts, Zenon
<1>5. n \in Nat /\ n <= prompt_len[r] /\ (prompt_len[r] > 0 => n > 0) /\ n <= TokenCap
  BY <1>3, <1>4, MinOfTwo
<1> HIDE DEF n, r
<1>6. /\ new \in SequenceType /\ new.handle = next_id /\ new.current_pos = n
      /\ new.generated = 0 /\ new.stopped = FALSE
      /\ new.remaining = prompt_len[r] - n /\ new.limit = max_tokens[r]
  BY <1>3, <1>5 DEF Sequence, SequenceType
<1> HIDE DEF new
<1>7. ASSUME NEW k \in 1 .. Size PROVE Slices[k].seq # r
  BY <1>2, <1>4, Zenon DEF BInv, SlicesActive, SliceOk
<1>8. SliceAdded(r, next_id, n, 0)
  BY <1>1, <1>2, <1>3, <1>5, <1>7, Adding, Zenon
<1>9. Active' = Active \cup {r}
  BY <1>1, Zenon DEF Active
<1>10. /\ active' \in [Active' -> SequenceType] /\ active'[r] = new
       /\ \A s \in Active : active'[s] = active[s]
  BY <1>1, <1>2, <1>3, <1>6, <1>9
<1>11. Admitted(r, n)
  BY <1>1, <1>2, <1>3, <1>5, <1>6, <1>8, <1>9, <1>10, Zenon DEF Admitted, r
<1> QED BY <1>5, <1>11, Zenon DEF r

(* Sample: one of three things happens to the sequence of slice i.         *)
OneChanged(r) == /\ Active' = Active /\ active' \in [Active -> SequenceType]
                 /\ \A s \in Active \ {r} : active'[s] = active[s]
                 /\ active'[r].handle = active[r].handle
                 /\ active'[r].remaining = active[r].remaining

TokenSampled(r, stop) ==
  /\ i > Len(prefills) \/ active[r].remaining = 0
  /\ OneChanged(r)
  /\ active'[r].current_pos = active[r].current_pos + 1
  /\ active'[r].generated = active[r].generated + 1
  /\ active'[r].stopped = stop /\ active'[r].limit = active[r].limit
  /\ IF stop THEN UNCHANGED events ELSE SendTo(r, "token")

SamplingFailed(r) ==
  /\ i > Len(prefills) \/ active[r].remaining = 0
  /\ OneChanged(r)
  /\ active'[r].current_pos = active[r].current_pos
  /\ active'[r].generated = active[r].generated
  /\ active'[r].stopped = active[r].stopped /\ active'[r].limit = 0
  /\ SendTo(r, "error")

sampleFrame == <<cacheVars, clientVars, decisionVars, chan, prefill_queue, completed,
                 poisoned, pc, rope>>

SampleEffects(r) ==
  /\ pc = "sample" /\ i \in 1 .. Size /\ i' = i + 1 /\ r = Slices[i].seq /\ r \in Active
  /\ UNCHANGED sampleFrame
  /\ \/ SkipUnfinishedChunk(r)
     \/ \E stop \in BOOLEAN : TokenSampled(r, stop)
     \/ SamplingFailed(r)

LEMMA SampleStep ==
  ASSUME BInv, Sample
  PROVE  \E r \in Active : SampleEffects(r)
<1>SampleEffect.
     ASSUME NEW A, NEW f \in [A -> SequenceType], NEW r \in A, NEW stop \in BOOLEAN
     PROVE  LET g == WithToken(f, r, stop)
            IN  /\ g \in [A -> SequenceType] /\ DOMAIN g = A
                /\ \A s \in A \ {r} : g[s] = f[s]
                /\ g[r].handle = f[r].handle /\ g[r].current_pos = f[r].current_pos + 1
                /\ g[r].generated = f[r].generated + 1 /\ g[r].stopped = stop
                /\ g[r].remaining = f[r].remaining /\ g[r].limit = f[r].limit
  <2> USE <1>SampleEffect
  <2>1. PICK a : a = f[r]
    BY Zenon
  <2>2. PICK x, y : x = a.generated + 1 /\ y = a.current_pos + 1
    BY Zenon
  <2>3. a \in SequenceType /\ x \in Nat /\ y \in Nat
    BY <2>1, <2>2, SequenceOf
  <2>4. PICK h \in Nat, c \in Nat, d \in Nat, s \in BOOLEAN, m \in Nat, l \in Nat :
           a = Sequence(h, c, d, s, m, l)
    <3>1. a \in SequenceType => /\ a = Sequence(a.handle, a.current_pos, a.generated, a.stopped,
                                                a.remaining, a.limit)
                               /\ a.handle \in Nat /\ a.current_pos \in Nat
                               /\ a.generated \in Nat /\ a.stopped \in BOOLEAN
                               /\ a.remaining \in Nat /\ a.limit \in Nat
      BY SequenceOf, Zenon
    <3> QED BY <2>3, <3>1, Zenon
  <2>5. [a EXCEPT !.generated = x, !.current_pos = y, !.stopped = stop] =
          Sequence(h, y, x, stop, m, l)
    <3>1. [a EXCEPT !.generated = x] = Sequence(h, c, x, s, m, l)
      BY <2>4 DEF Sequence
    <3>2. [Sequence(h, c, x, s, m, l) EXCEPT !.current_pos = y] = Sequence(h, y, x, s, m, l)
      BY DEF Sequence
    <3>3. [Sequence(h, y, x, s, m, l) EXCEPT !.stopped = stop] = Sequence(h, y, x, stop, m, l)
      BY DEF Sequence
    <3>4. [a EXCEPT !.generated = x, !.current_pos = y, !.stopped = stop] =
            [[[a EXCEPT !.generated = x] EXCEPT !.current_pos = y] EXCEPT !.stopped = stop]
      BY Zenon
    <3> QED BY ONLY <3>1, <3>2, <3>3, <3>4, Zenon
  <2>6. PICK b : b = Sequence(h, y, x, stop, m, l)
    BY Zenon
  <2>7. /\ b \in SequenceType
        /\ b.handle = a.handle /\ b.current_pos = y /\ b.generated = x
        /\ b.stopped = stop /\ b.remaining = a.remaining /\ b.limit = a.limit
    BY <2>3, <2>4, <2>6, Zenon DEF Sequence, SequenceType
  <2>8. [f EXCEPT ![r].generated = @ + 1, ![r].current_pos = @ + 1, ![r].stopped = stop] =
          [f EXCEPT ![r] = b]
    <3>1. [f EXCEPT ![r].generated = @ + 1, ![r].current_pos = @ + 1, ![r].stopped = stop] =
            [f EXCEPT ![r] = [f[r] EXCEPT !.generated = f[r].generated + 1,
                                          !.current_pos = f[r].current_pos + 1,
                                          !.stopped = stop]]
      BY Zenon
    <3> QED BY ONLY <2>1, <2>2, <2>5, <2>6, <3>1, Zenon
  <2> QED BY <2>1, <2>2, <2>7, <2>8, Replaced DEF WithToken
<1>FailEffect.
     ASSUME NEW A, NEW f \in [A -> SequenceType], NEW r \in A
     PROVE  LET g == WithFailure(f, r)
            IN  /\ g \in [A -> SequenceType] /\ DOMAIN g = A
                /\ \A s \in A \ {r} : g[s] = f[s]
                /\ g[r].handle = f[r].handle /\ g[r].current_pos = f[r].current_pos
                /\ g[r].generated = f[r].generated /\ g[r].stopped = f[r].stopped
                /\ g[r].remaining = f[r].remaining /\ g[r].limit = 0
  BY <1>FailEffect DEF SequenceType, WithFailure
<1> DEFINE r == Slices[i].seq
<1>1. /\ pc = "sample" /\ i \in 1 .. Size /\ i' = i + 1 /\ UNCHANGED sampleFrame
      /\ SkipUnfinishedChunk(r) \/ SampleToken(r) \/ SampleFails(r)
  BY SlicesType DEF Sample, sampleFrame, BInv, Typed
<1>2. r \in Active
  BY <1>1 DEF BInv, SlicesActive, SliceOk
<1>3. active \in [Active -> SequenceType]
  BY Zenon DEF BInv, Typed
<1> HIDE DEF r
<1>4. ASSUME SampleToken(r) PROVE \E stop \in BOOLEAN : TokenSampled(r, stop)
  <2>1. PICK stop \in BOOLEAN : 
          /\ active' = [active EXCEPT ![r].generated = @ + 1, ![r].current_pos = @ + 1,
                                      ![r].stopped = stop]
          /\ IF stop THEN UNCHANGED events ELSE SendTo(r, "token")
    BY <1>4, Zenon DEF SampleToken
  <2>2. active' = WithToken(active, r, stop)
    BY <2>1, Zenon DEF WithToken
  <2>3. /\ active' \in [Active -> SequenceType] /\ DOMAIN active' = Active
        /\ \A s \in Active \ {r} : active'[s] = active[s]
        /\ active'[r].handle = active[r].handle
        /\ active'[r].current_pos = active[r].current_pos + 1
        /\ active'[r].generated = active[r].generated + 1 /\ active'[r].stopped = stop
        /\ active'[r].remaining = active[r].remaining /\ active'[r].limit = active[r].limit
    BY <1>2, <1>3, <2>2, <1>SampleEffect
  <2>4. Active' = Active
    BY <2>3, Zenon DEF Active
  <2>5. i > Len(prefills) \/ active[r].remaining = 0
    BY <1>4, Zenon DEF SampleToken
  <2> QED BY <2>1, <2>3, <2>4, <2>5, Zenon DEF TokenSampled, OneChanged
<1>5. ASSUME SampleFails(r) PROVE SamplingFailed(r)
  <2>2. active' = WithFailure(active, r)
    BY <1>5, Zenon DEF WithFailure, SampleFails
  <2>3. /\ active' \in [Active -> SequenceType] /\ DOMAIN active' = Active
        /\ \A s \in Active \ {r} : active'[s] = active[s]
        /\ active'[r].handle = active[r].handle
        /\ active'[r].current_pos = active[r].current_pos
        /\ active'[r].generated = active[r].generated
        /\ active'[r].stopped = active[r].stopped
        /\ active'[r].remaining = active[r].remaining /\ active'[r].limit = 0
    BY <1>2, <1>3, <2>2, <1>FailEffect
  <2>4. Active' = Active
    BY <2>3, Zenon DEF Active
  <2> QED BY <1>5, <2>3, <2>4, Zenon DEF SamplingFailed, SampleFails, OneChanged
<1>6. SampleEffects(r)
  BY <1>1, <1>2, <1>4, <1>5, Zenon DEF SampleEffects, r
<1> QED BY <1>2, <1>6, Zenon

(* DecodePass: the open, fully prefilled sequences, as many as fit.        *)
DecodeBatch(room, open) ==
  /\ pc = "decode" /\ ~poisoned /\ pc' = "prefill" /\ i = 1
  /\ open = {r \in Active : active[r].remaining = 0 /\ r \notin closed} /\ IsFiniteSet(open)
  /\ room \in Nat /\ room <= MaxBatchSize /\ room <= MaxBatchTokens
  /\ room \in {MaxBatchSize, MaxBatchTokens, Cardinality(open)}
  /\ room <= Cardinality(open)
  /\ decodes' \in Seq(JobType) /\ Len(decodes') = room /\ prefills' = <<>>
  /\ total_tokens' = room /\ prefill_tokens' = 0
  /\ free_blocks' = num_free
  /\ Size' = room
  /\ \A k \in 1 .. room : /\ Slices'[k] = decodes'[k]
                          /\ decodes'[k].seq \in open
                          /\ decodes'[k] = Job(decodes'[k].seq, active[decodes'[k].seq].handle,
                                               1, active[decodes'[k].seq].current_pos)
  /\ \A j, k \in 1 .. room : decodes'[j].seq = decodes'[k].seq => j = k
  /\ UNCHANGED <<cacheVars, scheduleFrame, events, prefill_queue, active, rope>>

LEMMA JobFields ==
  ASSUME NEW r, NEW h, NEW n, NEW p
  PROVE  /\ Job(r, h, n, p).seq = r /\ Job(r, h, n, p).handle = h
         /\ Job(r, h, n, p).n = n /\ Job(r, h, n, p).pos = p
  BY Zenon DEF Job

LEMMA DecodeStep ==
  ASSUME BInv, Countable, DecodePass
  PROVE  \E room, open : DecodeBatch(room, open)
<1>MinOfThree.
     ASSUME NEW a \in Int, NEW b \in Int, NEW c \in Int
     PROVE  LET m == Min({a, b, c})
            IN  /\ m <= a /\ m <= b /\ m <= c /\ m \in {a, b, c}
  <2> USE <1>MinOfThree
  <2> DEFINE m == IF a <= b THEN (IF a <= c THEN a ELSE c) ELSE (IF b <= c THEN b ELSE c)
  <2>1. m \in {a, b, c} /\ \A y \in {a, b, c} : m <= y
    OBVIOUS
  <2>2. Min({a, b, c}) \in {a, b, c} /\ \A y \in {a, b, c} : Min({a, b, c}) <= y
    BY <2>1 DEF Min
  <2> QED BY <2>2, Zenon
<1> DEFINE open == {r \in Active : active[r].remaining = 0 /\ r \notin closed}
           room == Min({MaxBatchSize, MaxBatchTokens, Cardinality(open)})
<1>1. /\ pc = "decode" /\ ~poisoned /\ pc' = "prefill" /\ i = 1
      /\ prefills' = <<>> /\ total_tokens' = room /\ prefill_tokens' = 0
      /\ free_blocks' = num_free
      /\ UNCHANGED <<cacheVars, scheduleFrame, events, prefill_queue, active, rope>>
  BY Zenon DEF DecodePass, BInv, Phases, Idle
<1>2. PICK order \in Injection(1 .. room, open) :
         decodes' = [k \in 1 .. room |->
           Job(order[k], active[order[k]].handle, 1, active[order[k]].current_pos)]
  BY Zenon DEF DecodePass
<1>3. IsFiniteSet(open) /\ Cardinality(open) \in Nat
  BY Zenon DEF Countable
<1> HIDE DEF open
<1>4. Cardinality(open) \in Nat /\ MaxBatchSize \in Nat /\ MaxBatchTokens \in Nat
  BY <1>3, LoopAssumption, Zenon
<1>5. /\ room <= MaxBatchSize /\ room <= MaxBatchTokens /\ room <= Cardinality(open)
      /\ room \in {MaxBatchSize, MaxBatchTokens, Cardinality(open)} /\ room \in Nat
  <2> DEFINE c == Cardinality(open)
  <2>1. MaxBatchSize \in Int /\ MaxBatchTokens \in Int /\ c \in Int
    BY <1>4
  <2> HIDE DEF c
  <2>2. LET m == Min({MaxBatchSize, MaxBatchTokens, c})
        IN  m <= MaxBatchSize /\ m <= MaxBatchTokens /\ m <= c
            /\ m \in {MaxBatchSize, MaxBatchTokens, c}
    BY <2>1, <1>MinOfThree, Zenon
  <2> QED BY <1>4, <2>2, Zenon DEF c
<1> HIDE DEF room
<1>6. /\ order \in [1 .. room -> open]
      /\ \A j, k \in 1 .. room : order[j] = order[k] => j = k
  BY Zenon DEF Injection, IsInjective
<1>7. ASSUME NEW r \in open
      PROVE  r \in Requests /\ active[r].handle \in Nat /\ active[r].current_pos \in Nat
  BY <1>7, SequenceOf, Zenon DEF BInv, Typed, open
<1>8. ASSUME NEW k \in 1 .. room
      PROVE  /\ decodes'[k].seq = order[k] /\ order[k] \in open
             /\ decodes'[k] = Job(order[k], active[order[k]].handle, 1, active[order[k]].current_pos)
             /\ decodes'[k] \in JobType
  <2>1. order[k] \in open
    BY <1>6, Zenon
  <2>2. decodes'[k] = Job(order[k], active[order[k]].handle, 1, active[order[k]].current_pos)
    BY <1>2, Zenon
  <2>3. order[k] \in Requests /\ active[order[k]].handle \in Nat /\ active[order[k]].current_pos \in Nat
    BY <1>7, <2>1, Zenon
  <2> QED BY <2>1, <2>2, <2>3 DEF Job, JobType
<1>9. decodes' \in Seq(JobType) /\ Len(decodes') = room
  <2>1. decodes' \in [1 .. room -> JobType]
    BY <1>2, <1>8, Zenon
  <2> QED BY <1>5, <2>1
<1>10. Size' = room /\ \A k \in 1 .. room : Slices'[k] = decodes'[k]
  BY <1>1, <1>5, <1>9 DEF Size, Slices
<1>11. DecodeBatch(room, open)
  BY <1>1, <1>3, <1>5, <1>6, <1>8, <1>9, <1>10 DEF DecodeBatch, open
<1> QED BY <1>11, Zenon

-----------------------------------------------------------------------------
(* BInv is inductive.                                                      *)

LEMMA BInvInit == Init => BInv
<1> SUFFICES ASSUME Init PROVE BInv
  BY Zenon
<1>1. Active = {} /\ active \in [Active -> SequenceType]
  BY Zenon DEF Init, Active
<1>2. Typed
  <2>1. prompt_len \in [Requests -> Nat] /\ max_tokens \in [Requests -> Nat \ {0}]
    BY LoopAssumption, Zenon DEF Init
  <2>2. prefills \in Seq(JobType) /\ decodes \in Seq(JobType)
    BY DEF Init
  <2>3. total_tokens = 0 /\ prefill_tokens = 0 /\ i = 1 /\ poisoned = FALSE /\ pc = "drain"
    BY Zenon DEF Init
  <2>4. total_tokens \in Nat /\ prefill_tokens \in Nat /\ i \in Nat \ {0}
    BY <2>3
  <2>5. poisoned \in BOOLEAN
    BY <2>3, Zenon
  <2> QED BY <1>1, <2>1, <2>2, <2>3, <2>4, <2>5, Zenon DEF Typed
<1>3. Size = 0
  BY DEF Init, Size
<1>4. Phases /\ Capped /\ OneSliceEach /\ SlicesActive
  BY <1>3, LoopAssumption DEF Init, Phases, Capped, OneSliceEach, SlicesActive, Idle
<1> QED BY <1>2, <1>4, Zenon DEF BInv

batchFrame == <<active, prompt_len, max_tokens, prefills, decodes, total_tokens,
                prefill_tokens, poisoned>>

(* Where the slices of a batch with one more prefill job come from.        *)
LEMMA AddedIndex ==
  ASSUME BInv, NEW r, NEW h, NEW n, NEW p, SliceAdded(r, h, n, p), NEW k \in 1 .. Size'
  PROVE  \/ k = Len(prefills) + 1 /\ Slices'[k] = Job(r, h, n, p)
         \/ \E m \in 1 .. Size : /\ Slices'[k] = Slices[m]
                                 /\ m = IF k <= Len(prefills) THEN k ELSE k - 1
                                 /\ k # Len(prefills) + 1
<1>0. Len(prefills) \in Nat /\ Size \in Nat /\ Len(prefills) <= Size
  BY SlicesType DEF BInv, Size
<1>1. Size' = Size + 1 /\ k \in 1 .. (Size + 1)
  BY Zenon DEF SliceAdded
<1>2. CASE k <= Len(prefills)
  BY <1>0, <1>1, <1>2 DEF SliceAdded
<1>3. CASE k = Len(prefills) + 1
  BY <1>0, <1>1, <1>3 DEF SliceAdded
<1>4. CASE k > Len(prefills) + 1
  <2>1. k - 1 \in 1 .. Size
    BY <1>0, <1>1, <1>4
  <2> QED BY <1>0, <1>1, <1>4, <2>1 DEF SliceAdded
<1> QED BY <1>0, <1>1, <1>2, <1>3, <1>4

(* AbortOne: the sequence of slice i leaves and is told.                   *)
Aborted(r) ==
  /\ pc = "abort" /\ pc' = "abort" /\ i \in 1 .. Size /\ i' = i + 1 /\ r = Slices[i].seq
  /\ r \in Active /\ Active' = Active \ {r} /\ \A s \in Active' : active'[s] = active[s]
  /\ active' \in [Active' -> SequenceType]
  /\ Free(active[r].handle) /\ rope' = Without(rope, {active[r].handle}) /\ SendTo(r, "error")
  /\ UNCHANGED <<clientVars, decisionVars, chan, prefill_queue, completed, poisoned>>

LEMMA AbortStep ==
  ASSUME HInv, BInv, AbortOne
  PROVE  \E r \in Active : Aborted(r)
<1> DEFINE r == Slices[i].seq
<1>1. /\ pc = "abort" /\ pc' = "abort" /\ i \in 1 .. Size /\ i' = i + 1 /\ r \in Active
      /\ active' = Without(active, {r}) /\ Free(active[r].handle)
      /\ rope' = Without(rope, {active[r].handle}) /\ SendTo(r, "error")
      /\ UNCHANGED <<clientVars, decisionVars, chan, prefill_queue, completed, poisoned>>
  BY SlicesType DEF AbortOne, BInv, Typed
<1> HIDE DEF r
<1>2. next_id' = next_id /\ Live' \subseteq Live
  BY <1>1, Zenon DEF Free, Live
<1>3. Active' = Active \ {r} /\ (\A s \in Active' : active'[s] = active[s]) /\ ActiveIsMap'
  BY <1>1, <1>2, Leave, Zenon
<1>4. active' \in [Active' -> SequenceType]
  BY <1>3, Zenon DEF BInv, Typed, ActiveIsMap
<1>5. Aborted(r)
  BY <1>1, <1>3, <1>4, Zenon DEF Aborted, r
<1> QED BY <1>1, <1>5, Zenon

(* What Sample keeps of every sequence.                                    *)
LEMMA SampleKeeps ==
  ASSUME BInv, NEW r \in Active, SampleEffects(r)
  PROVE  /\ Active' = Active /\ active' \in [Active -> SequenceType]
         /\ \A s \in Active : /\ active'[s].handle = active[s].handle
                              /\ active'[s].remaining = active[s].remaining
<1>1. CASE SkipUnfinishedChunk(r)
  <2>1. active' = active
    BY <1>1, Zenon DEF SkipUnfinishedChunk
  <2> QED BY <2>1 DEF Active, BInv, Typed
<1>2. CASE OneChanged(r)
  BY <1>2, Zenon DEF OneChanged
<1> QED BY <1>1, <1>2, Zenon DEF SampleEffects, TokenSampled, SamplingFailed

(* Cleanup: who is finished is told, who is finished or closed leaves.     *)
Cleaned(F, R) ==
  /\ pc = "sample" /\ i > Size /\ pc' = "free" /\ DecisionDropped
  /\ F = {r \in Active : Finished(r)} /\ R = F \cup (closed \cap Active)
  /\ Active' = Active \ R /\ \A s \in Active' : active'[s] = active[s]
  /\ active' \in [Active' -> SequenceType]
  /\ events' = [r \in Requests |-> IF r \in F \ closed THEN Append(events[r], "finished")
                                   ELSE events[r]]
  /\ UNCHANGED <<cacheVars, clientVars, chan, prefill_queue, poisoned, rope>>

LEMMA CleanupStep ==
  ASSUME HInv, BInv, Cleanup
  PROVE  \E F, R : Cleaned(F, R)
<1> DEFINE F == {r \in Active : Finished(r)}
           R == F \cup (closed \cap Active)
<1>1. /\ pc = "sample" /\ i > Size /\ pc' = "free" /\ DecisionDropped
      /\ active' = Without(active, R)
      /\ events' = [r \in Requests |-> IF r \in F \ closed THEN Append(events[r], "finished")
                                       ELSE events[r]]
      /\ UNCHANGED <<cacheVars, clientVars, chan, prefill_queue, poisoned, rope>>
  BY SlicesType DEF Cleanup, BInv
<1> HIDE DEF F
<1>2. UNCHANGED <<chan, prefill_queue, next_id>> /\ Live' = Live
  BY <1>1, Zenon DEF cacheVars, Live
<1>3. Active' = Active \ R /\ (\A s \in Active' : active'[s] = active[s]) /\ ActiveIsMap'
  BY <1>1, <1>2, Leave, Zenon
<1>4. active' \in [Active' -> SequenceType]
  BY <1>3, Zenon DEF BInv, Typed, ActiveIsMap
<1>5. Cleaned(F, R)
  BY <1>1, <1>3, <1>4, Zenon DEF Cleaned, F
<1> QED BY <1>5, Zenon

LEMMA BInvNext == HInv /\ BInv /\ Countable /\ [Next]_vars => BInv'
(* Steps that leave the batch and its sequences alone.                     *)
<1>BatchKept.
     ASSUME BInv, UNCHANGED batchFrame, i' \in Nat \ {0}, Phases',
            pc' \in {"drain", "recv", "decode", "prefill", "forward", "abort", "sample",
                     "free", "returned", "dead"},
            \/ pc' = pc /\ i' = i
            \/ pc # "abort" /\ (pc' = "abort" => i' = 1)
     PROVE  BInv'
  <2> USE <1>BatchKept
  <2>1. /\ UNCHANGED <<active, prompt_len, max_tokens, prefills, decodes, total_tokens,
                       prefill_tokens, poisoned>>
        /\ Active' = Active /\ Size' = Size /\ Slices' = Slices
    BY Zenon DEF batchFrame, Active, Size, Slices
  <2>2. Typed'
    BY <2>1 DEF BInv, Typed
  <2>3. Capped' /\ OneSliceEach'
    BY <2>1, Zenon DEF BInv, Capped, OneSliceEach
  <2>4. \A k \in 1 .. Size : SliceOk(k)' <=> SliceOk(k)
    BY <2>1, Zenon DEF SliceOk
  <2>5. SlicesActive'
    BY <2>1, <2>4 DEF BInv, SlicesActive
  <2> QED BY <2>2, <2>3, <2>5, Zenon DEF BInv
(* The locals of an iteration go out of scope.                             *)
<1>BatchDropped.
     ASSUME BInv, DecisionDropped, UNCHANGED <<prompt_len, max_tokens>>,
            pc' \in {"drain", "free"}, poisoned' \in BOOLEAN, poisoned' => pc' = "drain",
            active' \in [Active' -> SequenceType], Active' \subseteq Active
     PROVE  BInv'
  <2> USE <1>BatchDropped
  <2>1. prefills' = <<>> /\ decodes' = <<>> /\ i' = 1 /\ total_tokens' = 0 /\ prefill_tokens' = 0
    BY Zenon DEF DecisionDropped
  <2>2. Active' \subseteq Requests
    BY Zenon DEF BInv, Typed
  <2>3. Typed'
    BY <2>1, <2>2 DEF BInv, Typed
  <2>4. Size' = 0
    BY <2>1 DEF Size
  <2>5. Phases' /\ Capped' /\ OneSliceEach' /\ SlicesActive'
    BY <2>1, <2>4, LoopAssumption DEF Phases, Capped, OneSliceEach, SlicesActive, Idle
  <2> QED BY <2>3, <2>5, Zenon DEF BInv
<1>BInvQuiet.
     ASSUME BInv,
            \/ \E r \in Requests : Submit(r) \/ Disconnect(r)
            \/ Snapshot \/ DropHandle \/ AdmitFails
            \/ (\E h \in completed : FreeCompleted(h)) \/ UNCHANGED vars
     PROVE  BInv'
  <2> USE <1>BInvQuiet
  <2>1. UNCHANGED batchFrame /\ pc' = pc /\ i' = i
    BY Zenon DEF Submit, Disconnect, Snapshot, DropHandle, AdmitFails, FreeCompleted, vars,
       batchFrame,
           clientVars, decisionVars, scheduleFrame
  <2>2. Phases'
    BY <2>1, Zenon DEF BInv, Phases, Idle, Size, batchFrame
  <2> QED BY <2>1, <2>2, <1>BatchKept DEF BInv, Typed
<1>BInvReceive.
     ASSUME BInv, Drain \/ DrainEmpty \/ Recv \/ RecvNone \/ LockFails \/ NextIteration
     PROVE  BInv'
  <2> USE <1>BInvReceive
  <2>1. UNCHANGED batchFrame /\ i' = i
    BY Zenon DEF Drain, DrainEmpty, Recv, RecvNone, LockFails, NextIteration, loopFrame,
       batchFrame,
           clientVars, decisionVars
  <2>2. /\ pc \in {"drain", "recv", "decode", "free"}
        /\ pc' \in {"drain", "recv", "decode", "returned", "dead"}
    BY Zenon DEF Drain, DrainEmpty, Recv, RecvNone, LockFails, NextIteration, HandleCommand
  <2>3. Phases'
    BY <2>1, <2>2, Zenon DEF BInv, Phases, Idle, Size, batchFrame
  <2> QED BY <2>1, <2>2, <2>3, <1>BatchKept, Zenon DEF BInv, Typed
<1>BInvForward.
     ASSUME BInv, AppendSlice \/ AppendSliceOom \/ ForwardFails \/ ForwardDone
     PROVE  BInv'
  <2> USE <1>BInvForward
  <2>1. UNCHANGED batchFrame /\ pc = "forward"
    BY ZenonT(30) DEF AppendSlice, AppendSliceOom, ForwardFails, ForwardDone, forwardFrame,
       batchFrame,
           clientVars, decisionVars
  <2>2. /\ i' \in Nat \ {0} /\ i' <= Size + 1
        /\ pc' \in {"forward", "abort", "sample"} /\ (pc' = "abort" => i' = 1)
    <3>1. /\ Size \in Nat /\ Len(Slices) = Size /\ i \in Nat \ {0}
          /\ 1 \in Nat \ {0} /\ 1 <= Size + 1
      <4>1. Size \in Nat /\ Len(Slices) = Size /\ i \in Nat \ {0}
        BY SlicesType, Zenon DEF BInv, Typed
      <4> QED BY <4>1
    <3>2. i <= Size => i + 1 \in Nat \ {0} /\ i + 1 <= Size + 1
      BY <3>1
    <3>3. \/ i <= Size /\ i' = i + 1 /\ pc' = pc
          \/ i' = 1 /\ pc' \in {"abort", "sample"}
      BY <3>1, Zenon DEF AppendSlice, AppendSliceOom, ForwardFails, ForwardDone
    <3> QED BY <2>1, <3>1, <3>2, <3>3, Zenon
  <2>3. Phases'
    BY <2>1, <2>2, Zenon DEF BInv, Phases, Idle, Size, batchFrame
  <2> QED BY <2>1, <2>2, <2>3, <1>BatchKept, ZenonT(30)
<1>BInvDropped.
     ASSUME BInv, ForwardPanics \/ AbortDone
     PROVE  BInv'
  <2> USE <1>BInvDropped
  <2>1. /\ DecisionDropped /\ UNCHANGED <<prompt_len, max_tokens, active>> /\ pc' = "drain"
        /\ poisoned' \in BOOLEAN
    BY Zenon DEF ForwardPanics, AbortDone, forwardFrame, clientVars, BInv, Typed
  <2>2. Active' = Active
    BY <2>1, Zenon DEF Active
  <2> QED BY <2>1, <2>2, <1>BatchDropped, Zenon DEF BInv, Typed
<1>BInvDecide.
     ASSUME BInv, Decide
     PROVE  BInv'
  <2> USE <1>BInvDecide
  <2>1. /\ UNCHANGED <<prompt_len, max_tokens, active, poisoned>> /\ pc = "prefill"
        /\ \/ pc' = "forward" /\ UNCHANGED <<decisionVars, i>>
           \/ pc' = "drain" /\ DecisionDropped
    BY Zenon DEF Decide, clientVars
  <2>2. CASE pc' = "drain" /\ DecisionDropped
    <3>1. Active' = Active
      BY <2>1, Zenon DEF Active
    <3> QED BY <2>1, <2>2, <3>1, <1>BatchDropped, Zenon DEF BInv, Typed
  <2>3. CASE pc' = "forward" /\ UNCHANGED <<decisionVars, i>>
    <3>1. UNCHANGED batchFrame
      BY <2>1, <2>3, Zenon DEF batchFrame, decisionVars
    <3>2. Phases'
      BY <2>1, <2>3, <3>1 DEF BInv, Phases, Idle, Size, batchFrame
    <3> QED BY <2>1, <2>3, <3>1, <3>2, <1>BatchKept, Zenon DEF BInv, Typed
  <2> QED BY <2>1, <2>2, <2>3, Zenon
<1>BInvDecode.
     ASSUME BInv, Countable, DecodePass
     PROVE  BInv'
  <2> USE <1>BInvDecode
  <2>1. PICK room, open : DecodeBatch(room, open)
    BY DecodeStep, Zenon
  <2>2. /\ pc' = "prefill" /\ i' = 1 /\ poisoned' = FALSE /\ Active' = Active
        /\ UNCHANGED <<active, prompt_len, max_tokens>>
        /\ prefills' = <<>> /\ decodes' \in Seq(JobType) /\ Size' = room /\ room \in Nat
        /\ total_tokens' = room /\ prefill_tokens' = 0
    BY <2>1, Zenon DEF DecodeBatch, scheduleFrame, clientVars, Active, BInv, Typed
  <2>3. Typed'
    <3>1. poisoned' \in BOOLEAN
      BY <2>2, Zenon
    <3>2. /\ prefills' \in Seq(JobType) /\ total_tokens' \in Nat /\ prefill_tokens' \in Nat
          /\ i' \in Nat \ {0}
      BY <2>2
    <3> QED BY <2>2, <3>1, <3>2, Zenon DEF BInv, Typed
  <2>4. Phases'
    BY <2>2 DEF Phases, Idle
  <2>5. ASSUME NEW k \in 1 .. room
        PROVE  /\ Slices'[k] = decodes'[k] /\ decodes'[k].seq \in Active
               /\ active[decodes'[k].seq].remaining = 0
               /\ decodes'[k].handle = active[decodes'[k].seq].handle /\ decodes'[k].n = 1
    BY <2>1, JobFields DEF DecodeBatch
  <2>6. Capped'
    <3>1. ASSUME NEW k \in 1 .. room PROVE Slices'[k].n <= room
      BY <2>2, <2>5
    <3> QED BY <2>1, <2>2, <3>1, LoopAssumption DEF DecodeBatch, Capped
  <2>7. OneSliceEach'
    BY <2>1, <2>2, <2>5 DEF DecodeBatch, OneSliceEach
  <2>8. SlicesActive'
    BY <2>2, <2>5 DEF SlicesActive, SliceOk
  <2> QED BY <2>3, <2>4, <2>6, <2>7, <2>8, Zenon DEF BInv
(* A prefill job of an active sequence that was not in the batch.          *)
<1>BInvAdded.
     ASSUME BInv, NEW r \in Active', NEW h, NEW n, NEW p, SliceAdded(r, h, n, p),
            active'[r].handle = h, active' \in [Active' -> SequenceType],
            Active \subseteq Active', Active' \subseteq Requests,
            \A s \in Active \ {r} : active'[s] = active[s],
            UNCHANGED <<prompt_len, max_tokens, i, poisoned>>
     PROVE  BInv'
  <2> USE <1>BInvAdded
  <2>1. /\ Len(prefills) \in Nat /\ Size \in Nat /\ Len(prefills) <= Size
        /\ \A k \in 1 .. Size : Slices[k] \in JobType
    BY SlicesType, SMTT(30) DEF BInv, Size
  <2>2. Typed'
    BY SMTT(30) DEF BInv, Typed, SliceAdded
  <2>3. Phases'
    BY <2>1 DEF BInv, Phases, SliceAdded, Idle
  <2>4. /\ Job(r, h, n, p).seq = r /\ Job(r, h, n, p).handle = h /\ Job(r, h, n, p).n = n
        /\ n \in Nat /\ total_tokens \in Nat
        /\ total_tokens' = total_tokens + n
    BY JobFields DEF SliceAdded, BInv, Typed
  <2>5. ASSUME NEW k \in 1 .. Size'
        PROVE  \/ k = Len(prefills) + 1 /\ Slices'[k] = Job(r, h, n, p)
               \/ \E m \in 1 .. Size : /\ Slices'[k] = Slices[m]
                                       /\ m = IF k <= Len(prefills) THEN k ELSE k - 1
                                       /\ k # Len(prefills) + 1
    BY AddedIndex
  <2>6. Capped'
    <3>1. ASSUME NEW k \in 1 .. Size' PROVE Slices'[k].n <= total_tokens'
      <4>1. CASE Slices'[k] = Job(r, h, n, p)
        BY <2>4, <4>1
      <4>2. CASE \E m \in 1 .. Size : Slices'[k] = Slices[m]
        BY <2>1, <2>4, <4>2 DEF BInv, Capped, JobType
      <4> QED BY <2>5, <4>1, <4>2, Zenon
    <3> QED BY <2>1, <3>1, LoopAssumption DEF SliceAdded, Capped
  <2>7. OneSliceEach'
    <3> SUFFICES ASSUME NEW j \in 1 .. Size', NEW k \in 1 .. Size', Slices'[j].seq = Slices'[k].seq
                 PROVE  j = k
      BY Zenon DEF OneSliceEach
    <3>1. \A m \in 1 .. Size : Slices[m].seq # r
      BY Zenon DEF SliceAdded
    <3>2. \A m, o \in 1 .. Size : Slices[m].seq = Slices[o].seq => m = o
      BY Zenon DEF BInv, OneSliceEach
    <3>3. ASSUME NEW q \in 1 .. Size', Slices'[q] = Job(r, h, n, p)
          PROVE  q = Len(prefills) + 1
      BY <2>4, <2>5, <3>1, <3>3
    <3>4. CASE Slices'[j] = Job(r, h, n, p) \/ Slices'[k] = Job(r, h, n, p)
      <4>1. Slices'[j].seq = r /\ Slices'[k].seq = r
        BY <2>4, <3>4, Zenon
      <4>2. Slices'[j] = Job(r, h, n, p) /\ Slices'[k] = Job(r, h, n, p)
        BY <2>5, <3>1, <4>1
      <4> QED BY <3>3, <4>2, Zenon
    <3>5. CASE ~(Slices'[j] = Job(r, h, n, p) \/ Slices'[k] = Job(r, h, n, p))
      <4>1. PICK m \in 1 .. Size : /\ Slices'[j] = Slices[m] /\ j # Len(prefills) + 1
                                   /\ m = IF j <= Len(prefills) THEN j ELSE j - 1
        BY <2>5, <3>5, Zenon
      <4>2. PICK o \in 1 .. Size : /\ Slices'[k] = Slices[o] /\ k # Len(prefills) + 1
                                   /\ o = IF k <= Len(prefills) THEN k ELSE k - 1
        BY <2>5, <3>5, Zenon
      <4>3. m = o
        BY <3>2, <4>1, <4>2
      <4>4. Size' = Size + 1
        BY Zenon DEF SliceAdded
      <4> QED BY <2>1, <4>1, <4>2, <4>3, <4>4
    <3> QED BY <3>4, <3>5, Zenon
  <2>8. SlicesActive'
    <3> SUFFICES ASSUME NEW k \in 1 .. Size' PROVE SliceOk(k)'
      BY Zenon DEF SlicesActive, SliceAdded
    <3>1. Len(prefills)' = Len(prefills) + 1
      BY Zenon DEF SliceAdded
    <3>2. CASE k = Len(prefills) + 1 /\ Slices'[k] = Job(r, h, n, p)
      <4>1. ~(k > Len(prefills)')
        <5>1. Len(prefills) \in Nat
          BY <2>1, Zenon
        <5> QED BY <3>1, <3>2, <5>1
      <4> QED BY <2>4, <3>2, <4>1, ZenonT(30) DEF SliceOk
    <3>3. CASE \E m \in 1 .. Size : /\ Slices'[k] = Slices[m]
                                    /\ m = IF k <= Len(prefills) THEN k ELSE k - 1
                                    /\ k # Len(prefills) + 1
      <4>1. PICK m \in 1 .. Size : /\ Slices'[k] = Slices[m]
                                   /\ m = IF k <= Len(prefills) THEN k ELSE k - 1
                                   /\ k # Len(prefills) + 1
        BY <3>3, Zenon
      <4>2. SliceOk(m) /\ Slices[m].seq # r
        BY Zenon DEF BInv, SlicesActive, SliceAdded
      <4>3. Slices[m].seq \in Active' /\ active'[Slices[m].seq] = active[Slices[m].seq]
        BY <4>2, Zenon DEF SliceOk
      <4>4. k > Len(prefills') => m > Len(prefills)
        BY <2>1, <3>1, <4>1
      <4> QED BY <4>1, <4>2, <4>3, <4>4 DEF SliceOk
    <3> QED BY <2>5, <3>2, <3>3, Zenon
  <2> QED BY <2>2, <2>3, <2>6, <2>7, <2>8, Zenon DEF BInv
<1>BInvChunk.
     ASSUME BInv, NEW r \in Active, ContinueChunk(r)
     PROVE  BInv'
  <2> USE <1>BInvChunk
  <2>1. PICK n \in Nat : ChunkCut(r, n)
    BY ChunkStep, Zenon
  <2> QED BY <2>1, <1>BInvAdded, ZenonT(30) DEF ChunkCut, BInv, Typed, clientVars
<1>BInvAdmit.
     ASSUME HInv, BInv, Admit
     PROVE  BInv'
  <2> USE <1>BInvAdmit
  <2> DEFINE r == Head(prefill_queue)
  <2>1. PICK n \in Nat : Admitted(r, n)
    BY AdmitStep, Zenon
  <2> HIDE DEF r
  <2> QED BY <2>1, <1>BInvAdded, ZenonT(30) DEF Admitted, BInv, Typed, clientVars
<1>BInvAbort.
     ASSUME HInv, BInv, AbortOne
     PROVE  BInv'
  <2> USE <1>BInvAbort
  <2>1. PICK r \in Active : Aborted(r)
    BY AbortStep, Zenon
  <2>2. /\ UNCHANGED <<prompt_len, max_tokens, prefills, decodes, total_tokens, prefill_tokens, poisoned>>
        /\ Size' = Size /\ Slices' = Slices
    BY <2>1, Zenon DEF Aborted, clientVars, decisionVars, Size, Slices
  <2>3. /\ pc = "abort" /\ pc' = "abort" /\ i \in 1 .. Size /\ i' = i + 1 /\ r = Slices[i].seq
        /\ Active' = Active \ {r} /\ active' \in [Active' -> SequenceType]
        /\ \A s \in Active' : active'[s] = active[s]
        /\ Size \in Nat
    BY <2>1, SlicesType, Zenon DEF Aborted, BInv
  <2>4. Active' \subseteq Requests
    BY <2>3, Zenon DEF BInv, Typed
  <2>5. Typed'
    BY <2>2, <2>3, <2>4, SMTT(30) DEF BInv, Typed
  <2>6. Phases'
    BY <2>2, <2>3, SMTT(60) DEF BInv, Phases, Idle
  <2>7. Capped' /\ OneSliceEach'
    BY <2>2, Zenon DEF BInv, Capped, OneSliceEach
  <2>8. SlicesActive'
    <3> SUFFICES ASSUME NEW k \in 1 .. Size
                 PROVE  IF k < i + 1 THEN Slices[k].seq \notin Active' ELSE SliceOk(k)'
      BY <2>2, <2>3, Zenon DEF SlicesActive
    <3>1. CASE k < i
      BY <2>3, <3>1 DEF BInv, SlicesActive
    <3>2. CASE k = i
      BY <2>3, <3>2
    <3>3. CASE k > i
      <4>1. SliceOk(k)
        BY <2>3, <3>3 DEF BInv, SlicesActive
      <4>2. Slices[k].seq # r
        BY <2>3, <3>3 DEF BInv, OneSliceEach
      <4> QED BY <2>2, <2>3, <3>3, <4>1, <4>2, SMTT(30) DEF SliceOk
    <3> QED BY <2>3, <3>1, <3>2, <3>3
  <2> QED BY <2>5, <2>6, <2>7, <2>8, Zenon DEF BInv
<1>BInvSample.
     ASSUME BInv, Sample
     PROVE  BInv'
  <2> USE <1>BInvSample
  <2>1. PICK r \in Active : SampleEffects(r)
    BY SampleStep, Zenon
  <2>2. /\ UNCHANGED <<prompt_len, max_tokens, prefills, decodes, total_tokens, prefill_tokens, poisoned>>
        /\ Size' = Size /\ Slices' = Slices
        /\ pc = "sample" /\ pc' = "sample" /\ i \in 1 .. Size /\ i' = i + 1
    BY <2>1, Zenon DEF SampleEffects, sampleFrame, clientVars, decisionVars, Size, Slices
  <2>3. /\ Active' = Active /\ active' \in [Active -> SequenceType]
        /\ \A s \in Active : /\ active'[s].handle = active[s].handle
                             /\ active'[s].remaining = active[s].remaining
    BY <2>1, SampleKeeps, Zenon
  <2>4. Size \in Nat
    BY SlicesType, Zenon DEF BInv
  <2>5. Typed'
    BY <2>2, <2>3 DEF BInv, Typed
  <2>6. Phases'
    BY <2>2, <2>4 DEF BInv, Phases, Idle
  <2>7. Capped' /\ OneSliceEach'
    BY <2>2, ZenonT(30) DEF BInv, Capped, OneSliceEach
  <2>8. SlicesActive'
    BY <2>2, <2>3, SMTT(30) DEF BInv, SlicesActive, SliceOk
  <2> QED BY <2>5, <2>6, <2>7, <2>8, Zenon DEF BInv
<1>BInvCleanup.
     ASSUME HInv, BInv, Cleanup
     PROVE  BInv'
  <2> USE <1>BInvCleanup
  <2>1. PICK F, R : Cleaned(F, R)
    BY CleanupStep, Zenon
  <2>2. ~poisoned
    BY <2>1, Zenon DEF Cleaned, BInv, Phases
  <2>3. poisoned' = poisoned /\ UNCHANGED <<prompt_len, max_tokens>>
    BY <2>1, Zenon DEF Cleaned, clientVars
  <2> QED BY <2>1, <2>2, <2>3, <1>BatchDropped DEF Cleaned, BInv, Typed
<1> SUFFICES ASSUME HInv, BInv, Countable, [Next]_vars PROVE BInv'
  BY Zenon
<1>1. CASE Client
  BY <1>1, <1>BInvQuiet, Zenon DEF Client
<1>2. CASE Loop
  BY <1>2, <1>BInvQuiet, <1>BInvReceive, <1>BInvDecode, <1>BInvChunk, <1>BInvAdmit,
     <1>BInvDecide, <1>BInvForward,
     <1>BInvDropped, <1>BInvAbort, <1>BInvSample, <1>BInvCleanup, Zenon DEF Loop
<1>3. CASE ForwardFails \/ ForwardPanics \/ Ended \/ UNCHANGED vars
  BY <1>3, <1>BInvQuiet, <1>BInvForward, <1>BInvDropped, Zenon DEF Ended
<1> QED BY <1>1, <1>2, <1>3, Zenon DEF Next

-----------------------------------------------------------------------------
(***************************************************************************)
(* SInv: what each client has been sent.                                   *)
(***************************************************************************)
Sampled1(r) == pc = "sample" /\ \E k \in 1 .. Size : k < i /\ Slices[k].seq = r

(* What a sequence's client is owed: its tokens but a stop token, and the  *)
(* error of a failed sampling, which puts the limit to 0.                  *)
Owed(a) == a.generated - (IF a.stopped THEN 1 ELSE 0) + (IF a.limit = 0 THEN 1 ELSE 0)

StreamOk(a, e, m) ==
  /\ a.generated <= m /\ a.limit \in {0, m}
  /\ Len(e) <= Owed(a)
  /\ \A k \in 1 .. Len(e) : \/ e[k] = "token" /\ k <= a.generated
                            \/ e[k] = "error" /\ k = Len(e) /\ a.limit = 0

StreamOfActive(r) ==
  /\ StreamOk(active[r], events[r], max_tokens[r])
  /\ Finished(r) => Sampled1(r)
  /\ r \notin closed => Len(events[r]) = Owed(active[r])

Ended1(e, m) ==
  LET n == Len(e)
  IN  /\ \A k \in 1 .. n : e[k] = "finished" => k = n
      /\ \A k \in 1 .. n : e[k] = "error" => k = n \/ (k = n - 1 /\ e[n] = "finished")
      /\ \A k \in 1 .. n : e[k] = "token" => k <= m

StreamEnded(r) == Ended1(events[r], max_tokens[r])

Unsent ==
  /\ \A k \in DOMAIN prefill_queue : events[prefill_queue[k]] = <<>>
  /\ \A r \in Requests, k \in DOMAIN chan : chan[k] = <<"submit", r>> => events[r] = <<>>

SInv ==
  /\ events \in [Requests -> Seq(Event)] /\ Unsent
  /\ \A r \in Active : StreamOfActive(r)
  /\ \A r \in Requests \ Active : StreamEnded(r)

(* SInv is inductive.                                                      *)

LEMMA EventAppended ==
  ASSUME NEW e \in Seq(Event), NEW x \in Event
  PROVE  /\ Append(e, x) \in Seq(Event) /\ Len(Append(e, x)) = Len(e) + 1
         /\ Len(e) \in Nat
         /\ \A k \in 1 .. (Len(e) + 1) : Append(e, x)[k] = IF k = Len(e) + 1 THEN x ELSE e[k]
  OBVIOUS

(* A stream that ends: by itself, with an error, with Finished.            *)
LEMMA StreamEnds ==
  ASSUME NEW a \in SequenceType, NEW e \in Seq(Event), NEW m \in Nat, StreamOk(a, e, m)
  PROVE  Ended1(e, m) /\ Ended1(Append(e, "finished"), m)
<1>1. /\ Len(e) \in Nat /\ a.generated \in Nat /\ a.generated <= m
      /\ \A k \in 1 .. Len(e) : \/ e[k] = "token" /\ k <= a.generated
                                \/ e[k] = "error" /\ k = Len(e)
  BY SequenceOf, EventAppended DEF StreamOk
<1>2. Ended1(e, m)
  BY <1>1 DEF Ended1
<1>3. PICK f : f = Append(e, "finished")
  BY Zenon
<1>4. Len(f) = Len(e) + 1 /\ \A k \in 1 .. (Len(e) + 1) : f[k] = IF k = Len(e) + 1 THEN "finished" ELSE e[k]
  BY <1>3, EventAppended DEF Event
<1>5. Ended1(f, m)
  BY <1>1, <1>4 DEF Ended1
<1> QED BY <1>2, <1>3, <1>5, Zenon

LEMMA SInvInit == Init => SInv
  BY DEF Init, SInv, Unsent, Active, StreamEnded, Ended1

LEMMA SInvNext == HInv /\ BInv /\ SInv /\ [Next]_vars => SInv'
<1>StreamSame.
     ASSUME NEW a, NEW b, NEW e, NEW m, b.generated = a.generated, b.stopped = a.stopped,
            b.limit = a.limit
     PROVE  Owed(b) = Owed(a) /\ (StreamOk(a, e, m) => StreamOk(b, e, m))
  BY <1>StreamSame, Zenon DEF Owed, StreamOk
(* A sequence that goes on has been sent tokens only.                      *)
<1>StreamOpen.
     ASSUME NEW a \in SequenceType, NEW e \in Seq(Event), NEW m \in Nat \ {0}, StreamOk(a, e, m),
            a.generated < a.limit, a.stopped = FALSE
     PROVE  /\ a.limit = m /\ a.generated \in Nat /\ a.generated + 1 <= m /\ Owed(a) = a.generated
            /\ Len(e) \in Nat /\ Len(e) <= a.generated
            /\ \A k \in 1 .. Len(e) : e[k] = "token" /\ k <= a.generated
  <2> USE <1>StreamOpen
  <2>1. a.generated \in Nat /\ a.limit \in {0, m}
    BY SequenceOf, Zenon DEF StreamOk
  <2>2. a.limit = m /\ a.limit # 0
    BY <2>1
  <2>3. Owed(a) = a.generated
    BY <2>1, <2>2 DEF Owed
  <2> QED BY <2>1, <2>2, <2>3 DEF StreamOk
(* The three outcomes of sampling.                                         *)
<1>StreamToken.
     ASSUME NEW a \in SequenceType, NEW b \in SequenceType, NEW e \in Seq(Event), NEW f,
            NEW m \in Nat \ {0}, StreamOk(a, e, m), a.generated < a.limit, a.stopped = FALSE,
            b.generated = a.generated + 1, b.stopped = FALSE, b.limit = a.limit,
            f = e \/ f = Append(e, "token")
     PROVE  /\ StreamOk(b, f, m) /\ Owed(b) = Owed(a) + 1
  <2> USE <1>StreamToken
  <2>1. /\ a.limit = m /\ a.generated \in Nat /\ a.generated + 1 <= m /\ Owed(a) = a.generated
        /\ Len(e) \in Nat /\ Len(e) <= a.generated
        /\ \A k \in 1 .. Len(e) : e[k] = "token" /\ k <= a.generated
    BY <1>StreamOpen, Zenon
  <2>2. Owed(b) = a.generated + 1
    BY <2>1 DEF Owed
  <2>3. CASE f = e
    BY <2>1, <2>2, <2>3 DEF StreamOk
  <2>4. CASE f = Append(e, "token")
    <3>1. Len(f) = Len(e) + 1 /\ \A k \in 1 .. (Len(e) + 1) : f[k] = IF k = Len(e) + 1 THEN "token" ELSE e[k]
      BY <2>4, EventAppended DEF Event
    <3> QED BY <2>1, <2>2, <3>1 DEF StreamOk
  <2> QED BY <2>1, <2>2, <2>3, <2>4, Zenon
<1>StreamStop.
     ASSUME NEW a \in SequenceType, NEW b \in SequenceType, NEW e \in Seq(Event),
            NEW m \in Nat \ {0}, StreamOk(a, e, m), a.generated < a.limit, a.stopped = FALSE,
            b.generated = a.generated + 1, b.stopped = TRUE, b.limit = a.limit
     PROVE  /\ StreamOk(b, e, m) /\ Owed(b) = Owed(a)
  <2> USE <1>StreamStop
  <2>1. /\ a.limit = m /\ a.generated \in Nat /\ a.generated + 1 <= m /\ Owed(a) = a.generated
        /\ Len(e) \in Nat /\ Len(e) <= a.generated
        /\ \A k \in 1 .. Len(e) : e[k] = "token" /\ k <= a.generated
    BY <1>StreamOpen, Zenon
  <2>2. Owed(b) = a.generated
    BY <2>1 DEF Owed
  <2> QED BY <2>1, <2>2 DEF StreamOk
<1>StreamFail.
     ASSUME NEW a \in SequenceType, NEW b \in SequenceType, NEW e \in Seq(Event), NEW f,
            NEW m \in Nat \ {0}, StreamOk(a, e, m), a.generated < a.limit, a.stopped = FALSE,
            b.generated = a.generated, b.stopped = FALSE, b.limit = 0,
            f = e \/ f = Append(e, "error")
     PROVE  /\ StreamOk(b, f, m) /\ Owed(b) = Owed(a) + 1
  <2> USE <1>StreamFail
  <2>1. /\ a.limit = m /\ a.generated \in Nat /\ a.generated + 1 <= m /\ Owed(a) = a.generated
        /\ Len(e) \in Nat /\ Len(e) <= a.generated
        /\ \A k \in 1 .. Len(e) : e[k] = "token" /\ k <= a.generated
    BY <1>StreamOpen, Zenon
  <2>2. Owed(b) = a.generated + 1
    BY <2>1 DEF Owed
  <2>3. CASE f = e
    BY <2>1, <2>2, <2>3 DEF StreamOk
  <2>4. CASE f = Append(e, "error")
    <3>1. Len(f) = Len(e) + 1 /\ \A k \in 1 .. (Len(e) + 1) : f[k] = IF k = Len(e) + 1 THEN "error" ELSE e[k]
      BY <2>4, EventAppended DEF Event
    <3> QED BY <2>1, <2>2, <3>1 DEF StreamOk
  <2> QED BY <2>1, <2>2, <2>3, <2>4, Zenon
<1>StreamErrs.
     ASSUME NEW a \in SequenceType, NEW e \in Seq(Event), NEW m \in Nat \ {0}, StreamOk(a, e, m),
            a.generated < a.limit, a.stopped = FALSE
     PROVE  Ended1(Append(e, "error"), m)
  <2> USE <1>StreamErrs
  <2>1. /\ a.generated \in Nat /\ a.generated + 1 <= m /\ Len(e) \in Nat
        /\ \A k \in 1 .. Len(e) : e[k] = "token" /\ k <= a.generated
    BY <1>StreamOpen, Zenon
  <2>3. PICK f : f = Append(e, "error")
    BY Zenon
  <2>4. Len(f) = Len(e) + 1 /\ \A k \in 1 .. (Len(e) + 1) : f[k] = IF k = Len(e) + 1 THEN "error" ELSE e[k]
    BY <2>3, EventAppended DEF Event
  <2>5. Ended1(f, m)
    BY <2>1, <2>4, SMTT(30) DEF Ended1
  <2> QED BY <2>3, <2>5, Zenon
(* Whoever waits in the channel or the queue has been sent nothing.        *)
<1>UnsentKept.
     ASSUME HInv, SInv, UNCHANGED <<chan, prefill_queue>>,
            \A s \in Requests \ Active : events'[s] = events[s]
     PROVE  Unsent'
  <2> USE <1>UnsentKept
  <2>1. \A k \in DOMAIN prefill_queue : prefill_queue[k] \in Requests \ Active
    BY DEF HInv, QueueFresh
  <2>2. \A r \in Requests, k \in DOMAIN chan : chan[k] = <<"submit", r>> => r \notin Active
    BY Zenon DEF HInv, ChanFresh
  <2> QED BY <2>1, <2>2, Zenon DEF SInv, Unsent
<1>UnsentSubmit.
     ASSUME HInv, SInv, UNCHANGED <<events, prefill_queue>>,
            \/ Snapshot
            \/ \E r \in Requests : Submit(r)
     PROVE  Unsent'
  <2> USE <1>UnsentSubmit
  <2>1. \A k \in DOMAIN prefill_queue' : events'[prefill_queue'[k]] = <<>>
    BY Zenon DEF SInv, Unsent
  <2>2. ASSUME NEW c \in Command, chan' = Append(chan, c),
               \A r \in Requests : c = <<"submit", r>> => events[r] = <<>>
        PROVE  Unsent'
    <3>1. \A k \in DOMAIN chan' : \/ k \in DOMAIN chan /\ chan'[k] = chan[k]
                                  \/ chan'[k] = c
      BY <2>2, AppendFacts DEF HInv, ChanFresh
    <3> QED BY <2>1, <2>2, <3>1, Zenon DEF SInv, Unsent
  <2>3. CASE Snapshot
    <3>1. <<"snapshot">> \in Command /\ \A r \in Requests : <<"snapshot">> # <<"submit", r>>
      BY Zenon DEF Command
    <3> QED BY <2>2, <2>3, <3>1, Zenon DEF Snapshot
  <2>4. ASSUME NEW r \in Requests, Submit(r) PROVE Unsent'
    <3>1. <<"submit", r>> \in Command /\ events[r] = <<>>
      BY <2>4, Zenon DEF Command, Submit, Sent
    <3>2. \A s \in Requests : <<"submit", r>> = <<"submit", s>> => s = r
      BY Zenon
    <3>3. chan' = Append(chan, <<"submit", r>>)
      BY <2>4, Zenon DEF Submit
    <3> QED BY <2>2, <3>1, <3>2, <3>3, Zenon
  <2> QED BY <2>3, <2>4, Zenon
<1>UnsentReceive.
     ASSUME HInv, SInv, UNCHANGED events, Drain \/ Recv
     PROVE  Unsent'
  <2> USE <1>UnsentReceive
  <2>1. chan \in Seq(Command) /\ chan # <<>> /\ chan' = Tail(chan)
    BY Zenon DEF HInv, ChanFresh, Drain, Recv
  <2>2. /\ Head(chan) = chan[1] /\ 1 \in DOMAIN chan /\ chan[1] \in Command
        /\ \A k \in DOMAIN chan' : k + 1 \in DOMAIN chan /\ chan'[k] = chan[k + 1]
    BY <2>1, TailFacts, Zenon
  <2>3. \A r \in Requests, k \in DOMAIN chan' : chan'[k] = <<"submit", r>> => events'[r] = <<>>
    BY <2>2, Zenon DEF SInv, Unsent
  <2>4. CASE UNCHANGED prefill_queue
    BY <2>3, <2>4, Zenon DEF SInv, Unsent
  <2>5. CASE chan[1][1] = "submit" /\ prefill_queue' = Append(prefill_queue, chan[1][2])
    <3>1. PICK r \in Requests : chan[1] = <<"submit", r>>
      BY <2>2, <2>5 DEF Command
    <3>2. prefill_queue' = Append(prefill_queue, r) /\ prefill_queue \in Seq(Requests)
      BY <2>5, <3>1 DEF HInv, QueueFresh
    <3>3. \A k \in DOMAIN prefill_queue' :
            \/ k \in DOMAIN prefill_queue /\ prefill_queue'[k] = prefill_queue[k]
            \/ prefill_queue'[k] = r
      BY <3>2, AppendFacts, Zenon
    <3>4. events[r] = <<>>
      BY <2>2, <3>1, Zenon DEF SInv, Unsent
    <3> QED BY <2>3, <3>3, <3>4, Zenon DEF SInv, Unsent
  <2> QED BY <2>2, <2>4, <2>5, Zenon DEF Drain, Recv, HandleCommand
(* The head of the queue leaves it.                                        *)
<1>UnsentTail.
     ASSUME HInv, SInv, prefill_queue # <<>>, prefill_queue' = Tail(prefill_queue), chan' = chan,
            \A s \in Requests \ {Head(prefill_queue)} : events'[s] = events[s]
     PROVE  Unsent' /\ Head(prefill_queue) \in Requests \ Active /\ events[Head(prefill_queue)] = <<>>
  <2> USE <1>UnsentTail
  <2> DEFINE q == prefill_queue
  <2>1. /\ q \in Seq(Requests)
        /\ \A j, k \in DOMAIN q : q[j] = q[k] => j = k
        /\ \A k \in DOMAIN q : q[k] \notin Active
    BY Zenon DEF HInv, QueueFresh
  <2>2. /\ Head(q) = q[1] /\ 1 \in DOMAIN q /\ q[1] \in Requests
        /\ \A k \in DOMAIN Tail(q) : k + 1 \in DOMAIN q /\ Tail(q)[k] = q[k + 1] /\ k \in Nat /\ k > 0
    BY <2>1, TailFacts, Zenon
  <2>3. Head(q) \in Requests \ Active /\ events[Head(q)] = <<>>
    BY <2>1, <2>2 DEF SInv, Unsent
  <2>4. ASSUME NEW k \in DOMAIN Tail(q) PROVE events'[Tail(q)[k]] = <<>>
    <3>1. k + 1 \in DOMAIN q /\ Tail(q)[k] = q[k + 1] /\ q[k + 1] # q[1]
      BY <2>1, <2>2
    <3>2. q[k + 1] \in Requests \ {Head(q)}
      BY <2>1, <2>2, <3>1
    <3>3. events[q[k + 1]] = <<>>
      BY <3>1, Zenon DEF SInv, Unsent
    <3> QED BY <3>1, <3>2, <3>3, Zenon
  <2>5. ASSUME NEW r \in Requests, NEW k \in DOMAIN chan, chan[k] = <<"submit", r>>
        PROVE  events'[r] = <<>>
    <3>1. events[r] = <<>> /\ \A j \in DOMAIN q : q[j] # r
      BY <2>5, Zenon DEF SInv, Unsent, HInv, ChanFresh
    <3> QED BY <2>2, <3>1, Zenon
  <2> QED BY <2>3, <2>4, <2>5, Zenon DEF Unsent
<1>FinishedSame.
     ASSUME NEW r, active'[r].generated = active[r].generated,
            active'[r].stopped = active[r].stopped, active'[r].limit = active[r].limit
     PROVE  Finished(r)' <=> Finished(r)
  BY <1>FinishedSame, Zenon DEF Finished
(* A sequence to which nothing happens but a disconnect.                   *)
<1>StreamKept.
     ASSUME NEW r, StreamOfActive(r), events'[r] = events[r], max_tokens' = max_tokens,
            active'[r].generated = active[r].generated,
            active'[r].stopped = active[r].stopped, active'[r].limit = active[r].limit,
            closed \subseteq closed', Sampled1(r) => Sampled1(r)'
     PROVE  StreamOfActive(r)'
  <2> USE <1>StreamKept
  <2>1. Finished(r)' <=> Finished(r)
    BY <1>FinishedSame, Zenon
  <2>2. /\ Owed(active'[r]) = Owed(active[r])
        /\ StreamOk(active[r], events[r], max_tokens[r]) => StreamOk(active'[r], events[r], max_tokens[r])
    BY <1>StreamSame, Zenon
  <2> QED BY <2>1, <2>2, Zenon DEF StreamOfActive
(* Steps that sample nothing and send nothing.                             *)
<1>SInvKept.
     ASSUME SInv, UNCHANGED <<events, max_tokens>>, Unsent', Active' = Active,
            \A s \in Active : /\ active'[s].generated = active[s].generated
                              /\ active'[s].stopped = active[s].stopped
                              /\ active'[s].limit = active[s].limit,
            closed \subseteq closed', pc # "sample" \/ UNCHANGED <<prefills, decodes, i, pc>>
     PROVE  SInv'
  <2> USE <1>SInvKept
  <2>1. ASSUME NEW r PROVE Sampled1(r) => Sampled1(r)'
    BY Zenon DEF Sampled1, Size, Slices
  <2>2. \A r \in Active : StreamOfActive(r)'
    BY <2>1, <1>StreamKept, Zenon DEF SInv
  <2>3. \A r \in Requests \ Active : StreamEnded(r)'
    BY Zenon DEF SInv, StreamEnded
  <2> QED BY <2>2, <2>3, Zenon DEF SInv
<1>SInvQuiet.
     ASSUME HInv, BInv, SInv,
            \/ \E r \in Requests : Submit(r) \/ Disconnect(r)
            \/ Snapshot \/ DropHandle
            \/ (\E h \in completed : FreeCompleted(h)) \/ UNCHANGED vars
     PROVE  SInv'
  <2> USE <1>SInvQuiet
  <2>1. /\ UNCHANGED <<events, max_tokens, active, prefills, decodes, i, pc, prefill_queue>>
        /\ closed \subseteq closed'
    BY Zenon DEF Submit, Disconnect, Snapshot, DropHandle, FreeCompleted, vars, clientVars,
       decisionVars
  <2>2. Active' = Active
    BY <2>1, Zenon DEF Active
  <2>3. Unsent'
    <3>1. CASE Snapshot \/ \E r \in Requests : Submit(r)
      BY <2>1, <3>1, <1>UnsentSubmit, Zenon
    <3>2. CASE ~(Snapshot \/ \E r \in Requests : Submit(r))
      <4>1. chan' = chan
        BY <3>2, Zenon DEF Disconnect, DropHandle, FreeCompleted, vars
      <4> QED BY <2>1, <4>1, <1>UnsentKept, Zenon
    <3> QED BY <3>1, <3>2, Zenon
  <2> QED BY <2>1, <2>2, <2>3, <1>SInvKept, Zenon
<1>SInvReceive.
     ASSUME HInv, BInv, SInv, Drain \/ DrainEmpty \/ Recv \/ RecvNone \/ LockFails \/ NextIteration
     PROVE  SInv'
  <2> USE <1>SInvReceive
  <2>1. UNCHANGED <<events, max_tokens, active, closed>> /\ pc # "sample"
    BY Zenon DEF Drain, DrainEmpty, Recv, RecvNone, LockFails, NextIteration, loopFrame,
       clientVars
  <2>2. Active' = Active
    BY <2>1, Zenon DEF Active
  <2>3. Unsent'
    <3>1. CASE Drain \/ Recv
      BY <2>1, <3>1, <1>UnsentReceive, Zenon
    <3>2. CASE ~(Drain \/ Recv)
      <4>1. UNCHANGED <<chan, prefill_queue>>
        BY <3>2, Zenon DEF DrainEmpty, RecvNone, LockFails, NextIteration
      <4> QED BY <2>1, <4>1, <1>UnsentKept, Zenon
    <3> QED BY <3>1, <3>2, Zenon
  <2> QED BY <2>1, <2>2, <2>3, <1>SInvKept, Zenon
<1>SInvSchedule.
     ASSUME HInv, BInv, SInv, DecodePass \/ (\E r \in Active : ContinueChunk(r)) \/ Decide
     PROVE  SInv'
  <2> USE <1>SInvSchedule
  <2>1. CASE DecodePass \/ Decide
    <3>1. UNCHANGED <<events, max_tokens, active, closed, chan, prefill_queue>> /\ pc # "sample"
      BY <2>1, Zenon DEF DecodePass, Decide, scheduleFrame, clientVars
    <3>2. Active' = Active
      BY <3>1, Zenon DEF Active
    <3>3. Unsent'
      BY <3>1, <1>UnsentKept, Zenon
    <3> QED BY <3>1, <3>2, <3>3, <1>SInvKept, Zenon
  <2>2. ASSUME NEW r \in Active, ContinueChunk(r) PROVE SInv'
    <3>1. PICK n \in Nat : ChunkCut(r, n)
      BY <2>2, ChunkStep, Zenon
    <3>2. /\ UNCHANGED <<events, max_tokens, closed, chan, prefill_queue>> /\ pc # "sample"
          /\ Active' = Active
      BY <3>1, Zenon DEF ChunkCut, SliceAdded, clientVars
    <3>3. Unsent'
      BY <3>2, <1>UnsentKept, Zenon
    <3>4. \A s \in Active : /\ active'[s].generated = active[s].generated
                            /\ active'[s].stopped = active[s].stopped
                            /\ active'[s].limit = active[s].limit
      BY <3>1, Zenon DEF ChunkCut
    <3> QED BY <3>2, <3>3, <3>4, <1>SInvKept, Zenon
  <2> QED BY <2>1, <2>2, Zenon
<1>SInvForward.
     ASSUME HInv, BInv, SInv,
            \/ AppendSlice \/ AppendSliceOom \/ ForwardFails \/ ForwardDone
            \/ ForwardPanics \/ AbortDone
     PROVE  SInv'
  <2> USE <1>SInvForward
  <2>1. UNCHANGED <<events, max_tokens, active, closed, chan, prefill_queue>> /\ pc # "sample"
    BY Zenon DEF AppendSlice, AppendSliceOom, ForwardFails, ForwardDone, ForwardPanics, AbortDone,
           forwardFrame, clientVars
  <2>2. Active' = Active
    BY <2>1, Zenon DEF Active
  <2>3. Unsent'
    BY <2>1, <1>UnsentKept, Zenon
  <2> QED BY <2>1, <2>2, <2>3, <1>SInvKept, Zenon
<1>GoesOn.
     ASSUME BInv, NEW r \in Active, ~Finished(r)
     PROVE  active[r].generated < active[r].limit /\ active[r].stopped = FALSE
  <2> USE <1>GoesOn
  <2>1. /\ active[r].generated \in Nat /\ active[r].limit \in Nat /\ active[r].stopped \in BOOLEAN
    BY SequenceOf, Zenon DEF BInv, Typed
  <2>2. active[r].generated < active[r].limit
    BY <2>1 DEF Finished
  <2>3. active[r].stopped = FALSE
    BY <2>1, Zenon DEF Finished
  <2> QED BY <2>2, <2>3, Zenon
<1>SendIs.
     ASSUME SInv, NEW r \in Requests, NEW x, SendTo(r, x)
     PROVE  /\ \A s \in Requests \ {r} : events'[s] = events[s]
            /\ r \in closed => events'[r] = events[r]
            /\ r \notin closed => events'[r] = Append(events[r], x)
            /\ x \in Event => events' \in [Requests -> Seq(Event)]
  <2> USE <1>SendIs
  <2>1. events' = [events EXCEPT ![r] = IF r \in closed THEN events[r] ELSE Append(events[r], x)]
    BY Zenon DEF SendTo
  <2>2. events \in [Requests -> Seq(Event)]
    BY Zenon DEF SInv
  <2>3. x \in Event => Append(events[r], x) \in Seq(Event)
    BY <2>2, EventAppended, Zenon
  <2> QED BY <2>1, <2>2, <2>3, Zenon
<1>SInvAdmit.
     ASSUME HInv, BInv, SInv, Admit
     PROVE  SInv'
  <2> USE <1>SInvAdmit
  <2>0. PICK r : \E n \in Nat : Admitted(r, n)
    BY AdmitStep, Zenon
  <2>1. PICK n \in Nat : Admitted(r, n)
    BY <2>0, Zenon
  <2>2. /\ UNCHANGED <<events, max_tokens, closed, chan>> /\ pc # "sample"
        /\ Active' = Active \cup {r} /\ r = Head(prefill_queue) /\ prefill_queue # <<>>
        /\ prefill_queue' = Tail(prefill_queue)
        /\ \A s \in Active : active'[s] = active[s]
        /\ active'[r].generated = 0 /\ active'[r].stopped = FALSE
        /\ active'[r].limit = max_tokens[r]
    BY <2>1, Zenon DEF Admitted, SliceAdded, clientVars
  <2>3. Unsent' /\ r \in Requests \ Active /\ events[r] = <<>>
    BY <2>2, <1>UnsentTail, Zenon
  <2>4. \A s \in Active : StreamOfActive(s)'
    <3>1. \A s \in Active : ~Sampled1(s)
      BY <2>2, ZenonT(30) DEF Sampled1
    <3> QED BY <2>2, <3>1, <1>StreamKept, ZenonT(30) DEF SInv
  <2>5. StreamOfActive(r)'
    <3>1. max_tokens[r] \in Nat \ {0}
      BY <2>3 DEF BInv, Typed
    <3>2. Owed(active'[r]) = 0
      BY <2>2, <3>1 DEF Owed
    <3>3. StreamOk(active'[r], events'[r], max_tokens'[r])
      BY <2>2, <2>3, <3>1, <3>2 DEF StreamOk
    <3>4. ~Finished(r)'
      BY <2>2, <3>1, SMTT(30) DEF Finished
    <3> QED BY <2>2, <2>3, <3>2, <3>3, <3>4, SMTT(30) DEF StreamOfActive
  <2>6. \A s \in Requests \ Active' : StreamEnded(s)'
    BY <2>2 DEF SInv, StreamEnded
  <2> QED BY <2>2, <2>3, <2>4, <2>5, <2>6 DEF SInv
<1>SInvAdmitFails.
     ASSUME HInv, BInv, SInv, AdmitFails
     PROVE  SInv'
  <2> USE <1>SInvAdmitFails
  <2>0. PICK r : r = Head(prefill_queue)
    OBVIOUS
  <2>1. /\ UNCHANGED <<active, max_tokens, closed, chan>> /\ pc # "sample"
        /\ prefill_queue # <<>> /\ prefill_queue' = Tail(prefill_queue) /\ SendTo(r, "error")
    BY <2>0 DEF AdmitFails, CanAdmit, CanPrefill, scheduleFrame, clientVars
  <2>2. r \in Requests \ Active
    BY <2>0, <2>1, TailFacts DEF HInv, QueueFresh
  <2>3. /\ \A s \in Requests \ {r} : events'[s] = events[s]
        /\ events'[r] = events[r] \/ events'[r] = Append(events[r], "error")
        /\ events' \in [Requests -> Seq(Event)]
    BY <2>1, <2>2, <1>SendIs DEF Event
  <2>4. Unsent' /\ events[r] = <<>>
    BY <2>0, <2>1, <2>3, <1>UnsentTail
  <2>5. Active' = Active
    BY <2>1 DEF Active
  <2>6. \A s \in Active : StreamOfActive(s)'
    <3>1. \A s \in Active : ~Sampled1(s) /\ events'[s] = events[s]
      BY <2>1, <2>2, <2>3 DEF Sampled1, BInv, Typed
    <3> QED BY <2>1, <3>1, <1>StreamKept, ZenonT(30) DEF SInv
  <2>7. StreamEnded(r)'
    <3>1. Append(<<>>, "error") = <<"error">>
      OBVIOUS
    <3>2. events'[r] = <<>> \/ events'[r] = <<"error">>
      BY <2>3, <2>4, <3>1
    <3> QED BY <3>2 DEF StreamEnded, Ended1
  <2>8. \A s \in Requests \ Active : StreamEnded(s)'
    BY <2>1, <2>3, <2>7 DEF SInv, StreamEnded
  <2> QED BY <2>3, <2>4, <2>5, <2>6, <2>8 DEF SInv
<1>SInvAbort.
     ASSUME HInv, BInv, SInv, AbortOne
     PROVE  SInv'
  <2> USE <1>SInvAbort
  <2>1. PICK r \in Active : Aborted(r)
    BY AbortStep
  <2>2. /\ UNCHANGED <<max_tokens, closed, chan, prefill_queue>> /\ pc # "sample" /\ r \in Requests
        /\ Active' = Active \ {r} /\ (\A s \in Active' : active'[s] = active[s])
        /\ SendTo(r, "error")
    BY <2>1, ZenonT(30) DEF Aborted, clientVars, BInv, Typed
  <2>3. /\ \A s \in Requests \ {r} : events'[s] = events[s]
        /\ events'[r] = events[r] \/ events'[r] = Append(events[r], "error")
        /\ events' \in [Requests -> Seq(Event)]
    BY <2>2, <1>SendIs, SMTT(30) DEF Event
  <2>4. Unsent'
    BY <2>2, <2>3, <1>UnsentKept, ZenonT(30)
  <2>5. \A s \in Active : ~Sampled1(s)
    BY <2>2, ZenonT(30) DEF Sampled1
  <2>6. \A s \in Active' : StreamOfActive(s)'
    <3>1. \A s \in Active' : events'[s] = events[s]
      BY <2>2, <2>3, SMTT(30) DEF BInv, Typed
    <3> QED BY <2>2, <2>5, <3>1, <1>StreamKept, ZenonT(30) DEF SInv
  <2>7. StreamEnded(r)'
    <3>1. ~Finished(r) /\ StreamOk(active[r], events[r], max_tokens[r])
      BY <2>5 DEF SInv, StreamOfActive
    <3>2. /\ active[r].generated < active[r].limit /\ active[r].stopped = FALSE
          /\ active[r] \in SequenceType /\ events[r] \in Seq(Event) /\ max_tokens[r] \in Nat \ {0}
      BY <2>2, <3>1, <1>GoesOn, ZenonT(30) DEF BInv, Typed, SInv
    <3>3. Ended1(events[r], max_tokens[r]) /\ Ended1(Append(events[r], "error"), max_tokens[r])
      BY <3>1, <3>2, StreamEnds, <1>StreamErrs, ZenonT(30)
    <3> QED BY <2>2, <2>3, <3>3, ZenonT(30) DEF StreamEnded
  <2>8. \A s \in Requests \ Active' : StreamEnded(s)'
    BY <2>2, <2>3, <2>7, SMTT(30) DEF SInv, StreamEnded
  <2> QED BY <2>3, <2>4, <2>6, <2>8 DEF SInv
(* What sampling makes of the stream of the sequence it samples for.       *)
<1>StreamSampled.
     ASSUME BInv, SInv, NEW r \in Active, SampleEffects(r), ~Finished(r), max_tokens' = max_tokens,
            closed' = closed, Sampled1(r)'
     PROVE  /\ StreamOfActive(r)'
            /\ \A s \in Requests \ {r} : events'[s] = events[s]
            /\ \A s \in Active \ {r} : active'[s] = active[s]
            /\ events' \in [Requests -> Seq(Event)]
  <2> USE <1>StreamSampled
  <2>0. r \in Requests /\ events \in [Requests -> Seq(Event)]
    BY DEF BInv, Typed, SInv
  <2>1. /\ active[r] \in SequenceType /\ active'[r] \in SequenceType /\ events[r] \in Seq(Event)
        /\ max_tokens[r] \in Nat \ {0}
        /\ StreamOk(active[r], events[r], max_tokens[r])
        /\ r \notin closed => Len(events[r]) = Owed(active[r])
    BY <2>0, SampleKeeps, SMTT(30) DEF BInv, Typed, SInv, StreamOfActive
  <2>2. active[r].generated < active[r].limit /\ active[r].stopped = FALSE
    BY <1>GoesOn, ZenonT(30)
  <2>3. Len(events[r]) \in Nat /\ \A x \in Event : Len(Append(events[r], x)) = Len(events[r]) + 1
    <3>1. events[r] \in Seq(Event)
      BY <2>1, Zenon
    <3>2. Len(events[r]) \in Nat
      BY <3>1
    <3> QED BY <3>1, <3>2, EventAppended, Zenon
  <2>4. CASE SkipUnfinishedChunk(r)
    <3>1. UNCHANGED <<active, events>>
      BY <2>4, Zenon DEF SkipUnfinishedChunk
    <3> QED BY <2>0, <2>1, <3>1, ZenonT(30) DEF StreamOfActive
  <2>5. ASSUME TokenSampled(r, TRUE)
        PROVE  StreamOfActive(r)' /\ events' = events
    <3>1. /\ active'[r].generated = active[r].generated + 1 /\ active'[r].stopped = TRUE
          /\ active'[r].limit = active[r].limit /\ events' = events
      BY <2>5, ZenonT(30) DEF TokenSampled
    <3>2. StreamOk(active'[r], events[r], max_tokens[r]) /\ Owed(active'[r]) = Owed(active[r])
      BY <2>1, <2>2, <3>1, <1>StreamStop, ZenonT(30)
    <3>3. r \notin closed => Len(events[r]) = Owed(active'[r])
      BY <2>1, <3>2, Zenon
    <3> QED BY <3>1, <3>2, <3>3, ZenonT(30) DEF StreamOfActive
  <2>6. ASSUME TokenSampled(r, FALSE)
        PROVE  /\ StreamOfActive(r)' /\ events' \in [Requests -> Seq(Event)]
               /\ \A s \in Requests \ {r} : events'[s] = events[s]
    <3>1. /\ active'[r].generated = active[r].generated + 1 /\ active'[r].stopped = FALSE
          /\ active'[r].limit = active[r].limit /\ SendTo(r, "token")
      <4>1. /\ active'[r].generated = active[r].generated + 1 /\ active'[r].stopped = FALSE
            /\ active'[r].limit = active[r].limit
        BY <2>6, Zenon DEF TokenSampled
      <4>2. IF FALSE THEN UNCHANGED events ELSE SendTo(r, "token")
        BY <2>6, Zenon DEF TokenSampled
      <4>3. SendTo(r, "token")
        BY <4>2, Zenon
      <4> QED BY <4>1, <4>3, Zenon
    <3>2. /\ \A s \in Requests \ {r} : events'[s] = events[s]
          /\ events'[r] = events[r] \/ events'[r] = Append(events[r], "token")
          /\ r \notin closed => events'[r] = Append(events[r], "token")
          /\ events' \in [Requests -> Seq(Event)]
      <4>1. {"token", "error"} \subseteq Event
        BY Zenon DEF Event
      <4>2. r \in closed \/ r \notin closed
        BY Zenon
      <4> QED BY <2>0, <3>1, <4>1, <4>2, <1>SendIs, Zenon
    <3>3. StreamOk(active'[r], events'[r], max_tokens[r]) /\ Owed(active'[r]) = Owed(active[r]) + 1
      BY <2>1, <2>2, <3>1, <3>2, <1>StreamToken, ZenonT(30)
    <3>4. r \notin closed => Len(events'[r]) = Owed(active'[r])
      BY <2>1, <2>3, <3>2, <3>3, ZenonT(30) DEF Event
    <3> QED BY <3>2, <3>3, <3>4, ZenonT(30) DEF StreamOfActive
  <2>7. ASSUME SamplingFailed(r)
        PROVE  /\ StreamOfActive(r)' /\ events' \in [Requests -> Seq(Event)]
               /\ \A s \in Requests \ {r} : events'[s] = events[s]
    <3>1. /\ active'[r].generated = active[r].generated /\ active'[r].stopped = FALSE
          /\ active'[r].limit = 0 /\ SendTo(r, "error")
      BY <2>2, <2>7, Zenon DEF SamplingFailed
    <3>2. /\ \A s \in Requests \ {r} : events'[s] = events[s]
          /\ events'[r] = events[r] \/ events'[r] = Append(events[r], "error")
          /\ r \notin closed => events'[r] = Append(events[r], "error")
          /\ events' \in [Requests -> Seq(Event)]
      <4>1. {"token", "error"} \subseteq Event
        BY Zenon DEF Event
      <4>2. r \in closed \/ r \notin closed
        BY Zenon
      <4> QED BY <2>0, <3>1, <4>1, <4>2, <1>SendIs, Zenon
    <3>3. StreamOk(active'[r], events'[r], max_tokens[r]) /\ Owed(active'[r]) = Owed(active[r]) + 1
      BY <2>1, <2>2, <3>1, <3>2, <1>StreamFail, ZenonT(30)
    <3>4. r \notin closed => Len(events'[r]) = Owed(active'[r])
      BY <2>1, <2>3, <3>2, <3>3, ZenonT(30) DEF Event
    <3> QED BY <3>2, <3>3, <3>4, ZenonT(30) DEF StreamOfActive
  <2>8. ASSUME NEW stop \in BOOLEAN, TokenSampled(r, stop)
        PROVE  TokenSampled(r, TRUE) \/ TokenSampled(r, FALSE)
    <3>1. stop = TRUE \/ stop = FALSE
      OBVIOUS
    <3> QED BY <2>8, <3>1, ZenonT(30)
  <2>9. CASE OneChanged(r) /\ ~SkipUnfinishedChunk(r)
    <3>1. \A s \in Active \ {r} : active'[s] = active[s]
      BY <2>9, Zenon DEF OneChanged
    <3> QED BY <2>0, <2>5, <2>6, <2>7, <2>8, <2>9, <3>1, Zenon DEF SampleEffects
  <2> QED BY <2>4, <2>9, ZenonT(30) DEF SampleEffects, TokenSampled, SamplingFailed
<1>SInvSample.
     ASSUME HInv, BInv, SInv, Sample
     PROVE  SInv'
  <2> USE <1>SInvSample
  <2>1. PICK r \in Active : SampleEffects(r)
    BY SampleStep, SMTT(30)
  <2>2. /\ UNCHANGED <<max_tokens, closed, chan, prefill_queue, pc, prefills, decodes>>
        /\ pc = "sample" /\ i \in 1 .. Size /\ i' = i + 1 /\ r = Slices[i].seq
        /\ Size' = Size /\ Slices' = Slices
    BY <2>1, ZenonT(30) DEF SampleEffects, sampleFrame, clientVars, decisionVars, Size, Slices
  <2>3. Size \in Nat
    BY SlicesType DEF BInv
  <2>4. ~Sampled1(r)
    BY <2>2, <2>3 DEF Sampled1, BInv, OneSliceEach
  <2>5. Sampled1(r)'
    <3>1. i < i + 1
      BY <2>2, <2>3
    <3> QED BY <2>2, <3>1 DEF Sampled1
  <2>6. \A s : Sampled1(s) => Sampled1(s)'
    BY <2>2, <2>3, SMTT(30) DEF Sampled1
  <2>7. ~Finished(r)
    BY <2>4, ZenonT(30) DEF SInv, StreamOfActive
  <2>8. /\ StreamOfActive(r)'
        /\ \A s \in Requests \ {r} : events'[s] = events[s]
        /\ \A s \in Active \ {r} : active'[s] = active[s]
        /\ events' \in [Requests -> Seq(Event)]
    BY <2>1, <2>2, <2>5, <2>7, <1>StreamSampled, SMTT(30)
  <2>9. Active' = Active /\ Active \subseteq Requests
    BY <2>1, SampleKeeps, SMTT(30) DEF BInv, Typed
  <2>10. \A s \in Active' : StreamOfActive(s)'
    BY <2>2, <2>6, <2>8, <2>9, <1>StreamKept, ZenonT(30) DEF SInv
  <2>11. \A s \in Requests \ Active' : StreamEnded(s)'
    BY <2>2, <2>8, <2>9, ZenonT(30) DEF SInv, StreamEnded
  <2>12. Unsent'
    BY <2>2, <2>8, <1>UnsentKept
  <2> QED BY <2>8, <2>10, <2>11, <2>12 DEF SInv
<1>SInvCleanup.
     ASSUME HInv, BInv, SInv, Cleanup
     PROVE  SInv'
  <2> USE <1>SInvCleanup
  <2>1. PICK F, R : Cleaned(F, R)
    BY CleanupStep
  <2>2. /\ UNCHANGED <<max_tokens, closed, chan, prefill_queue>>
        /\ F = {r \in Active : Finished(r)} /\ R = F \cup (closed \cap Active)
        /\ Active' = Active \ R /\ (\A s \in Active' : active'[s] = active[s])
        /\ events' = [r \in Requests |-> IF r \in F \ closed THEN Append(events[r], "finished")
                                         ELSE events[r]]
        /\ Active \subseteq Requests
    BY <2>1, SMTT(30) DEF Cleaned, clientVars, BInv, Typed
  <2>3. ASSUME NEW r \in Requests
        PROVE  /\ events[r] \in Seq(Event) /\ Append(events[r], "finished") \in Seq(Event)
               /\ events'[r] = IF r \in F \ closed THEN Append(events[r], "finished") ELSE events[r]
    BY <2>2, EventAppended, ZenonT(30) DEF SInv, Event
  <2>4. events' \in [Requests -> Seq(Event)]
    BY <2>2, <2>3, SMTT(30)
  <2>5. Unsent'
    BY <2>2, <2>3, <1>UnsentKept, SMTT(30)
  <2>6. \A s \in Active' : StreamOfActive(s)'
    <3> SUFFICES ASSUME NEW s \in Active' PROVE StreamOfActive(s)'
      BY SMTT(30)
    <3>1. s \in Active /\ s \in Requests /\ s \notin F /\ ~Finished(s) /\ events'[s] = events[s]
          /\ active'[s] = active[s]
      BY <2>2, <2>3, ZenonT(30)
    <3>2. StreamOfActive(s)
      BY <3>1, ZenonT(30) DEF SInv
    <3>3. ~Finished(s)'
      BY <3>1 DEF Finished
    <3> QED BY <2>2, <3>1, <3>2, <3>3, ZenonT(30) DEF StreamOfActive
  <2>7. \A s \in Requests \ Active' : StreamEnded(s)'
    <3> SUFFICES ASSUME NEW s \in Requests \ Active' PROVE StreamEnded(s)'
      BY SMTT(30)
    <3>1. CASE s \notin Active
      <4>1. StreamEnded(s) /\ events'[s] = events[s]
        BY <2>2, <2>3, <3>1, ZenonT(30) DEF SInv
      <4> QED BY <2>2, <4>1, ZenonT(30) DEF StreamEnded
    <3>2. CASE s \in Active
      <4>1. /\ StreamOk(active[s], events[s], max_tokens[s]) /\ active[s] \in SequenceType
            /\ max_tokens[s] \in Nat
        BY <3>2, SMTT(30) DEF SInv, StreamOfActive, BInv, Typed
      <4>2. Ended1(events[s], max_tokens[s]) /\ Ended1(Append(events[s], "finished"), max_tokens[s])
        BY <2>3, <4>1, StreamEnds, ZenonT(30)
      <4> QED BY <2>2, <2>3, <4>2 DEF StreamEnded
    <3> QED BY <3>1, <3>2
  <2> QED BY <2>4, <2>5, <2>6, <2>7 DEF SInv
<1> SUFFICES ASSUME HInv, BInv, SInv, [Next]_vars PROVE SInv'
  OBVIOUS
<1>1. CASE Client
  BY <1>1, <1>SInvQuiet DEF Client
<1>2. CASE Loop
  BY <1>2, <1>SInvQuiet, <1>SInvReceive, <1>SInvSchedule, <1>SInvAdmit, <1>SInvAdmitFails,
     <1>SInvForward,
     <1>SInvAbort, <1>SInvSample, <1>SInvCleanup, SMTT(30) DEF Loop
<1>3. CASE ForwardFails \/ ForwardPanics \/ Ended \/ UNCHANGED vars
  BY <1>3, <1>SInvQuiet, <1>SInvForward DEF Ended
<1> QED BY <1>1, <1>2, <1>3, Zenon DEF Next
=============================================================================
