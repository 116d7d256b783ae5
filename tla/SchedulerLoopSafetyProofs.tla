---------------------- MODULE SchedulerLoopSafetyProofs ----------------------
(***************************************************************************)
(* What the scheduler loop makes of its cache, its batches and its         *)
(* clients' streams is right, for every set of requests, every             *)
(* configuration and every size of the pool: CacheFollows, BatchesBounded  *)
(* and ClientsServed.                                                      *)
(***************************************************************************)
EXTENDS SchedulerLoopProofs

-----------------------------------------------------------------------------
(***************************************************************************)
(* PInv: the rows of each sequence.                                        *)
(***************************************************************************)
InBatch(r) == \E k \in 1 .. Size : Slices[k].seq = r
Pending(k) == pc = "prefill" \/ (pc = "forward" /\ k >= i)
Appended(k) == (pc = "forward" /\ k < i) \/ (pc = "sample" /\ k >= i)
Settled(r) == IF InBatch(r) THEN Sampled1(r) /\ ~Finished(r) ELSE TRUE

Progress(r) == prompt_len[r] - active[r].remaining + SatSub(active[r].generated, 1)
RopeBelow(h, p) == \A a \in DOMAIN rope[h] : rope[h][a] < p

RowsSettled(r) ==
  /\ RopeBelow(active[r].handle, active[r].current_pos)
  /\ prompt_len[r] > 0 => /\ len[active[r].handle] = Progress(r)
                          /\ active[r].remaining = 0 <=> active[r].generated > 0

(* A prefill slice moved current_pos when it was cut, a decode slice moves *)
(* it when its token is sampled.                                           *)
RowsOfSlice(k) ==
  LET s == Slices[k]
      a == active[s.seq]
      now == IF Pending(k) THEN 0 ELSE s.n
      chunk == IF k <= Len(prefills) THEN s.n ELSE 0
  IN  /\ RopeBelow(s.handle, s.pos + now) /\ a.current_pos = s.pos + chunk
      /\ prompt_len[s.seq] > 0 => /\ len[s.handle] + chunk = Progress(s.seq) + now
                                  /\ a.generated > 0 <=> k > Len(prefills)
                                  /\ s.n > 0

CacheTyped == /\ len \in [Live -> Nat] /\ rope \in [Live -> Seq(Nat)]
              /\ DOMAIN len = Live

SpareOnlyInAbort ==
  \A h \in Live : \/ owned[h] = BlocksFor(len[h])
                  \/ pc = "abort" /\ \E k \in 1 .. Size : k >= i /\ Slices[k].handle = h

PInv ==
  /\ CacheTyped /\ SpareOnlyInAbort /\ RopeIncreasing
  /\ ~poisoned => /\ \A r \in Active : Settled(r) => RowsSettled(r)
                  /\ \A k \in 1 .. Size : Pending(k) \/ Appended(k) => RowsOfSlice(k)

(* PInv is inductive.                                                      *)

LEMMA PInvInit == Init => PInv
<1> SUFFICES ASSUME Init PROVE PInv
  BY Zenon
<1>1. /\ owned = [h \in {} |-> 0] /\ len = [h \in {} |-> 0] /\ rope = [h \in {} |-> <<>>]
      /\ active = [r \in {} |-> 0] /\ prefills = <<>> /\ decodes = <<>>
  BY Zenon DEF Init, AccountingInit
<1>2. Live = {} /\ Active = {} /\ Size = 0
  BY <1>1 DEF Live, Active, Size
<1>3. CacheTyped
  BY <1>1, <1>2, Zenon DEF CacheTyped
<1> QED BY <1>2, <1>3 DEF PInv, SpareOnlyInAbort, RopeIncreasing

(* Between batches every sequence is settled.                              *)
LEMMA IdleSettled ==
  ASSUME BInv, PInv, Idle
  PROVE  /\ Size = 0 /\ \A h \in Live : owned[h] = BlocksFor(len[h])
         /\ ~poisoned => \A r \in Active : RowsSettled(r)
<1>1. Size = 0 /\ pc # "abort"
  BY DEF BInv, Phases, Idle, Size
<1>2. \A r \in Active : Settled(r)
  BY <1>1 DEF Settled, InBatch
<1> QED BY <1>1, <1>2, Zenon DEF PInv, SpareOnlyInAbort

LEMMA PInvNext == HInv /\ BInv /\ Countable /\ PInv /\ [Next]_vars => PInv'
(* Rows appended at the positions p, p + 1, ... p + n - 1.                 *)
<1>RopeAppended.
     ASSUME NEW q \in Seq(Nat), NEW p \in Nat, NEW n \in Nat,
            \A a, b \in DOMAIN q : a < b => q[a] < q[b], \A a \in DOMAIN q : q[a] < p,
            NEW z, z = q \o [k \in 1 .. n |-> p + k - 1]
     PROVE  /\ z \in Seq(Nat) /\ \A a, b \in DOMAIN z : a < b => z[a] < z[b]
            /\ \A a \in DOMAIN z : z[a] < p + n
  <2> USE <1>RopeAppended
  <2>1. PICK w : w = [k \in 1 .. n |-> p + k - 1]
    BY Zenon
  <2>2. w \in Seq(Nat) /\ Len(w) = n /\ \A k \in 1 .. n : w[k] = p + k - 1
    BY <2>1
  <2>3. /\ z \in Seq(Nat) /\ DOMAIN z = 1 .. (Len(q) + n) /\ Len(q) \in Nat
        /\ \A k \in 1 .. Len(q) : z[k] = q[k] /\ q[k] \in Nat
        /\ \A k \in 1 .. n : z[Len(q) + k] = p + k - 1
    BY <2>1, <2>2
  <2>4. \A k \in (Len(q) + 1) .. (Len(q) + n) : z[k] = p + (k - Len(q)) - 1
    <3> TAKE k \in (Len(q) + 1) .. (Len(q) + n)
    <3>1. k - Len(q) \in 1 .. n /\ Len(q) + (k - Len(q)) = k
      BY <2>3
    <3> QED BY <2>3, <3>1, Zenon
  <2>5. DOMAIN q = 1 .. Len(q)
    OBVIOUS
  <2>6. ASSUME NEW a \in DOMAIN z, NEW b \in DOMAIN z, a < b PROVE z[a] < z[b]
    <3>1. CASE b <= Len(q)
      BY <2>3, <2>5, <2>6, <3>1
    <3>2. CASE a <= Len(q) /\ b > Len(q)
      <4>1. z[a] < p
        BY <2>3, <2>5, <3>2
      <4>2. z[b] = p + (b - Len(q)) - 1
        BY <2>3, <2>4, <3>2
      <4>3. z[a] \in Nat
        BY <2>3, <3>2
      <4> QED BY <2>3, <3>2, <4>1, <4>2, <4>3
    <3>3. CASE a > Len(q)
      <4>1. z[a] = p + (a - Len(q)) - 1 /\ z[b] = p + (b - Len(q)) - 1
        <5>1. a \in (Len(q) + 1) .. (Len(q) + n) /\ b \in (Len(q) + 1) .. (Len(q) + n)
          BY <2>3, <2>6, <3>3
        <5> QED BY <2>4, <5>1, Zenon
      <4> QED BY <2>3, <2>6, <3>3, <4>1
    <3> QED BY <2>3, <2>6, <3>1, <3>2, <3>3
  <2>7. ASSUME NEW a \in DOMAIN z PROVE z[a] < p + n
    <3>1. CASE a <= Len(q)
      <4>1. z[a] = q[a] /\ q[a] < p /\ q[a] \in Nat
        BY <2>3, <2>5, <3>1
      <4> QED BY <4>1
    <3>2. CASE a > Len(q)
      <4>1. z[a] = p + (a - Len(q)) - 1
        BY <2>3, <2>4, <3>2
      <4> QED BY <2>3, <3>2, <4>1
    <3> QED BY <2>3, <3>1, <3>2
  <2> QED BY <2>3, <2>6, <2>7, Zenon
(* Outside an abort, no two sequences of the batch or beside it share a    *)
(* handle, and every handle is live.                                       *)
<1>SliceHandles.
     ASSUME HInv, BInv, pc # "abort"
     PROVE  \A k \in 1 .. Size :
              /\ Slices[k].seq \in Active /\ Slices[k].handle = active[Slices[k].seq].handle
              /\ Slices[k].handle \in Live
              /\ \A j \in 1 .. Size : Slices[j].handle = Slices[k].handle => j = k
              /\ \A s \in Active : active[s].handle = Slices[k].handle => s = Slices[k].seq
  <2> USE <1>SliceHandles
  <2>1. \A k \in 1 .. Size : Slices[k].seq \in Active /\ Slices[k].handle = active[Slices[k].seq].handle
    BY Zenon DEF BInv, SlicesActive, SliceOk
  <2>2. \A r, s \in Active : active[r].handle = active[s].handle => r = s
    BY Zenon DEF HInv, HandlesMatchCache
  <2>3. \A r \in Active : active[r].handle \in Live
    BY Zenon DEF HInv, HandlesMatchCache
  <2>4. \A j, k \in 1 .. Size : Slices[j].seq = Slices[k].seq => j = k
    BY Zenon DEF BInv, OneSliceEach
  <2> QED BY <2>1, <2>2, <2>3, <2>4
<1>RowsSettledSame.
     ASSUME NEW r, RowsSettled(r), active'[r] = active[r], prompt_len' = prompt_len,
            rope'[active[r].handle] = rope[active[r].handle],
            len'[active[r].handle] = len[active[r].handle]
     PROVE  RowsSettled(r)'
  BY <1>RowsSettledSame, Zenon DEF RowsSettled, RopeBelow, Progress
<1>RowsOfSliceSame.
     ASSUME NEW k, NEW m, RowsOfSlice(k), Slices'[m] = Slices[k],
            m <= Len(prefills') <=> k <= Len(prefills), m > Len(prefills') <=> k > Len(prefills),
            Pending(m)' <=> Pending(k),
            active'[Slices[k].seq] = active[Slices[k].seq], prompt_len' = prompt_len,
            rope'[Slices[k].handle] = rope[Slices[k].handle],
            len'[Slices[k].handle] = len[Slices[k].handle]
     PROVE  RowsOfSlice(m)'
  BY <1>RowsOfSliceSame, Zenon DEF RowsOfSlice, RopeBelow, Progress
(* Steps after which there is no batch.                                    *)
<1>PInvIdle.
     ASSUME PInv, UNCHANGED <<owned, len, rope, prompt_len>>, Size' = 0, Active' \subseteq Active,
            \A s \in Active' : active'[s] = active[s],
            \A h \in Live : owned[h] = BlocksFor(len[h]),
            ~poisoned' => \A s \in Active' : RowsSettled(s)
     PROVE  PInv'
  <2> USE <1>PInvIdle
  <2>1. Live' = Live /\ CacheTyped' /\ RopeIncreasing'
    BY DEF PInv, Live, CacheTyped, RopeIncreasing
  <2>2. SpareOnlyInAbort'
    BY <2>1, Zenon DEF SpareOnlyInAbort
  <2>3. ~poisoned' => \A s \in Active' : RowsSettled(s)'
    BY <1>RowsSettledSame, Zenon
  <2>4. \A k \in 1 .. Size' : FALSE
    OBVIOUS
  <2> QED BY <2>1, <2>2, <2>3, <2>4, Zenon DEF PInv
(* Steps that touch neither the cache nor the batch.                       *)
<1>PInvSame.
     ASSUME PInv, UNCHANGED <<owned, len, rope, prompt_len, active, prefills, decodes, i, pc, poisoned>>
     PROVE  PInv'
  <2> USE <1>PInvSame
  <2>1. Live' = Live /\ CacheTyped' /\ RopeIncreasing' /\ Active' = Active
    BY Zenon DEF PInv, Live, CacheTyped, RopeIncreasing, Active
  <2>2. Size' = Size /\ Slices' = Slices /\ Len(prefills') = Len(prefills)
    BY Zenon DEF Size, Slices
  <2>3. SpareOnlyInAbort'
    BY <2>1, <2>2, Zenon DEF PInv, SpareOnlyInAbort
  <2>4. \A k : (Pending(k)' <=> Pending(k)) /\ (Appended(k)' <=> Appended(k))
    BY Zenon DEF Pending, Appended
  <2>5. \A k \in 1 .. Size : RowsOfSlice(k) => RowsOfSlice(k)'
    BY <2>2, <2>4, <1>RowsOfSliceSame, Zenon
  <2>6. \A r \in Active : RowsSettled(r) => RowsSettled(r)'
    BY <1>RowsSettledSame, Zenon
  <2>7. \A r \in Active : Settled(r)' <=> Settled(r)
    BY <2>2, Zenon DEF Settled, InBatch, Sampled1, Finished
  <2> QED BY <2>1, <2>2, <2>3, <2>4, <2>5, <2>6, <2>7, Zenon DEF PInv
<1>PInvQuiet.
     ASSUME PInv,
            \/ \E r \in Requests : Submit(r) \/ Disconnect(r)
            \/ Snapshot \/ DropHandle \/ AdmitFails \/ UNCHANGED vars
     PROVE  PInv'
  <2> USE <1>PInvQuiet
  <2>1. UNCHANGED <<owned, len, rope, prompt_len, active, prefills, decodes, i, pc, poisoned>>
    BY Zenon DEF Submit, Disconnect, Snapshot, DropHandle, AdmitFails, vars, clientVars,
       decisionVars,
           scheduleFrame, cacheVars, AllocOom
  <2> QED BY <2>1, <1>PInvSame, Zenon
<1>PInvReceive.
     ASSUME BInv, PInv, Drain \/ DrainEmpty \/ Recv \/ RecvNone \/ LockFails \/ NextIteration
     PROVE  PInv'
  <2> USE <1>PInvReceive
  <2>1. UNCHANGED <<owned, len, rope, prompt_len, active, prefills, decodes, poisoned>>
    BY Zenon DEF Drain, DrainEmpty, Recv, RecvNone, LockFails, NextIteration, loopFrame,
       clientVars,
           decisionVars, cacheVars
  <2>2. Idle
    BY Zenon DEF Drain, DrainEmpty, Recv, RecvNone, LockFails, NextIteration, Idle
  <2>3. Size' = Size /\ Active' = Active
    BY <2>1, Zenon DEF Size, Active
  <2> QED BY <2>1, <2>2, <2>3, IdleSettled, <1>PInvIdle, Zenon
(* A handle leaves the cache.                                              *)
<1>RowsFreed.
     ASSUME CacheTyped, RopeIncreasing, NEW h, Free(h), rope' = Without(rope, {h})
     PROVE  /\ Live' = Live \ {h} /\ CacheTyped' /\ RopeIncreasing'
            /\ \A g \in Live' : owned'[g] = owned[g] /\ len'[g] = len[g] /\ rope'[g] = rope[g]
  <2> USE <1>RowsFreed
  <2>1. Live' = Live \ {h}
    BY Zenon DEF Free, Live
  <2>2. rope' = [g \in Live \ {h} |-> rope[g]]
    BY Zenon DEF CacheTyped, Without, Restrict
  <2>3. /\ owned' = [g \in Live \ {h} |-> owned[g]] /\ len' = [g \in Live \ {h} |-> len[g]]
    BY Zenon DEF Free
  <2>4. \A g \in Live' : owned'[g] = owned[g] /\ len'[g] = len[g] /\ rope'[g] = rope[g]
    BY <2>1, <2>2, <2>3, Zenon
  <2>5. CacheTyped'
    BY <2>1, <2>2, <2>3, Zenon DEF CacheTyped
  <2> QED BY <2>1, <2>4, <2>5, ZenonT(30) DEF RopeIncreasing
<1>PInvFree.
     ASSUME HInv, BInv, PInv, NEW h \in completed, FreeCompleted(h)
     PROVE  PInv'
  <2> USE <1>PInvFree
  <2>1. /\ Free(h) /\ rope' = Without(rope, {h}) /\ pc = "free"
        /\ UNCHANGED <<prompt_len, active, prefills, decodes, poisoned, i, pc>>
    BY Zenon DEF FreeCompleted, clientVars, decisionVars
  <2>2. Idle
    BY <2>1, Zenon DEF Idle
  <2>3. /\ Live' = Live \ {h} /\ CacheTyped' /\ RopeIncreasing'
        /\ \A g \in Live' : owned'[g] = owned[g] /\ len'[g] = len[g] /\ rope'[g] = rope[g]
    BY <2>1, <1>RowsFreed, Zenon DEF PInv
  <2>4. Size = 0 /\ (\A g \in Live : owned[g] = BlocksFor(len[g]))
        /\ (~poisoned => \A r \in Active : RowsSettled(r))
    BY <2>2, IdleSettled, Zenon
  <2>5. Size' = 0 /\ Active' = Active
    BY <2>1, <2>4, Zenon DEF Size, Active
  <2>6. \A r \in Active : active[r].handle \in Live'
    BY <2>3, Zenon DEF HInv, HandlesMatchCache
  <2>7. \A r \in Active : RowsSettled(r) => RowsSettled(r)'
    BY <2>1, <2>3, <2>6, <1>RowsSettledSame, Zenon
  <2>8. SpareOnlyInAbort'
    BY <2>3, <2>4, Zenon DEF SpareOnlyInAbort
  <2> QED BY <2>1, <2>3, <2>4, <2>5, <2>7, <2>8 DEF PInv
<1>PInvDropped.
     ASSUME BInv, PInv, ForwardPanics \/ AbortDone
     PROVE  PInv'
  <2> USE <1>PInvDropped
  <2>1. /\ UNCHANGED <<owned, len, rope, prompt_len, active>>
        /\ Size' = 0 /\ Active' = Active
    BY DEF ForwardPanics, AbortDone, forwardFrame, clientVars, cacheVars, DecisionDropped, Size,
           Active
  <2>2. CASE ForwardPanics
    <3>1. poisoned' /\ pc # "abort"
      BY <2>2, Zenon DEF ForwardPanics
    <3>2. \A h \in Live : owned[h] = BlocksFor(len[h])
      BY <3>1, Zenon DEF PInv, SpareOnlyInAbort
    <3> QED BY <2>1, <3>1, <3>2, <1>PInvIdle, Zenon
  <2>3. CASE AbortDone
    <3>1. i > Size /\ pc = "abort" /\ poisoned' = poisoned
      BY <2>3, SlicesType, Zenon DEF AbortDone, BInv
    <3>2. i \in Nat /\ Size \in Nat
      BY SlicesType, Zenon DEF BInv, Typed
    <3>3. \A h \in Live : owned[h] = BlocksFor(len[h])
      BY <3>1, <3>2 DEF PInv, SpareOnlyInAbort
    <3>4. \A r \in Active : ~InBatch(r)
      BY <3>1, <3>2 DEF BInv, SlicesActive, InBatch
    <3> QED BY <2>1, <3>1, <3>3, <3>4, <1>PInvIdle, Zenon DEF PInv, Settled
  <2> QED BY <2>2, <2>3, Zenon
<1>PInvCleanup.
     ASSUME HInv, BInv, PInv, Cleanup
     PROVE  PInv'
  <2> USE <1>PInvCleanup
  <2>1. PICK F, R : Cleaned(F, R)
    BY CleanupStep, Zenon
  <2>2. /\ UNCHANGED <<owned, len, rope, prompt_len, poisoned>> /\ Size' = 0 /\ Active' \subseteq Active
        /\ \A s \in Active' : active'[s] = active[s] /\ ~Finished(s)
        /\ pc = "sample" /\ i > Size
    BY <2>1 DEF Cleaned, clientVars, cacheVars, DecisionDropped, Size
  <2>3. \A h \in Live : owned[h] = BlocksFor(len[h])
    BY <2>2, Zenon DEF PInv, SpareOnlyInAbort
  <2>4. i \in Nat /\ Size \in Nat
    BY SlicesType, Zenon DEF BInv, Typed
  <2>5. \A s \in Active' : Settled(s)
    BY <2>2, <2>4 DEF Settled, InBatch, Sampled1
  <2> QED BY <2>2, <2>3, <2>5, <1>PInvIdle, Zenon DEF PInv
<1>PInvDecide.
     ASSUME BInv, PInv, Decide
     PROVE  PInv'
  <2> USE <1>PInvDecide
  <2>1. /\ UNCHANGED <<owned, len, rope, prompt_len, active, poisoned>> /\ pc = "prefill"
        /\ \/ pc' = "forward" /\ UNCHANGED <<prefills, decodes, i>>
           \/ pc' = "drain" /\ DecisionDropped /\ total_tokens = 0
    BY Zenon DEF Decide, clientVars, cacheVars, decisionVars
  <2>2. Active' = Active /\ Live' = Live
    BY <2>1, Zenon DEF Active, Live
  <2>3. \A h \in Live : owned[h] = BlocksFor(len[h])
    BY <2>1, Zenon DEF PInv, SpareOnlyInAbort
  <2>4. \A k \in 1 .. Size : Slices[k] \in JobType /\ Slices[k].n \in Nat /\ Slices[k].pos \in Nat
    BY SlicesType, Zenon DEF BInv, JobType
  <2>5. CASE pc' = "drain" /\ DecisionDropped /\ total_tokens = 0
    <3>1. Size' = 0
      BY <2>5 DEF DecisionDropped, Size
    <3>2. ASSUME NEW r \in Active, InBatch(r), ~poisoned PROVE RowsSettled(r)
      <4>1. PICK k \in 1 .. Size : Slices[k].seq = r
        BY <3>2, Zenon DEF InBatch
      <4>2. Slices[k].n = 0
        BY <2>4, <2>5 DEF BInv, Capped
      <4>3. SliceOk(k)
        BY <2>1, Zenon DEF BInv, SlicesActive
      <4>4. RowsOfSlice(k) /\ Pending(k)
        BY <2>1, <3>2, Zenon DEF PInv, Pending
      <4> QED BY <2>4, <4>1, <4>2, <4>3, <4>4 DEF RowsOfSlice, RowsSettled, SliceOk, RopeBelow
    <3>3. ~poisoned => \A r \in Active : RowsSettled(r)
      BY <3>2, Zenon DEF PInv, Settled
    <3> QED BY <2>1, <2>2, <2>3, <3>1, <3>3, <1>PInvIdle, Zenon
  <2>6. CASE pc' = "forward" /\ UNCHANGED <<prefills, decodes, i>>
    <3>1. Size' = Size /\ Slices' = Slices /\ Len(prefills') = Len(prefills) /\ i = 1
      BY <2>1, <2>6, Zenon DEF Size, Slices, BInv, Phases
    <3>2. \A k \in 1 .. Size : Pending(k) /\ Pending(k)'
      BY <2>1, <2>6, <3>1 DEF Pending
    <3>3. \A k \in 1 .. Size : RowsOfSlice(k) => RowsOfSlice(k)'
      BY <2>1, <3>1, <3>2, <1>RowsOfSliceSame, Zenon
    <3>4. \A r \in Active : RowsSettled(r) => RowsSettled(r)'
      BY <2>1, <1>RowsSettledSame, Zenon
    <3>5. \A r \in Active : Settled(r)' => Settled(r)
      BY <2>1, <2>6, <3>1, Zenon DEF Settled, InBatch, Sampled1
    <3>6. SpareOnlyInAbort' /\ CacheTyped' /\ RopeIncreasing'
      BY <2>1, <2>2, <2>3 DEF SpareOnlyInAbort, PInv, CacheTyped, RopeIncreasing
    <3> QED BY <2>1, <2>2, <3>1, <3>2, <3>3, <3>4, <3>5, <3>6, Zenon DEF PInv
  <2> QED BY <2>1, <2>5, <2>6, Zenon
<1>PInvDecode.
     ASSUME BInv, Countable, PInv, DecodePass
     PROVE  PInv'
  <2> USE <1>PInvDecode
  <2>1. PICK room, open : DecodeBatch(room, open)
    BY DecodeStep, Zenon
  <2>2. /\ pc = "decode" /\ ~poisoned /\ pc' = "prefill" /\ Active' = Active /\ Live' = Live
        /\ UNCHANGED <<active, prompt_len, len, rope, owned, poisoned>>
        /\ prefills' = <<>> /\ Size' = room /\ room \in Nat
    BY <2>1, Zenon DEF DecodeBatch, scheduleFrame, clientVars, Active, cacheVars, Live, DecodePass
  <2>3. Idle
    BY <2>2, Zenon DEF Idle
  <2>4. (\A h \in Live : owned[h] = BlocksFor(len[h])) /\ \A r \in Active : RowsSettled(r)
    BY <2>2, <2>3, IdleSettled, Zenon
  <2>5. ASSUME NEW k \in 1 .. room
        PROVE  \E r \in Active : /\ active[r].remaining = 0
                                 /\ Slices'[k] = Job(r, active[r].handle, 1, active[r].current_pos)
    BY <2>1 DEF DecodeBatch
  <2>6. ASSUME NEW k \in 1 .. room PROVE RowsOfSlice(k)'
    <3>1. PICK r \in Active : /\ active[r].remaining = 0
                              /\ Slices'[k] = Job(r, active[r].handle, 1, active[r].current_pos)
      BY <2>5, Zenon
    <3>2. /\ Slices'[k].seq = r /\ Slices'[k].handle = active[r].handle /\ Slices'[k].n = 1
          /\ Slices'[k].pos = active[r].current_pos
      BY <3>1, JobFields
    <3>3. Pending(k)' /\ Len(prefills') = 0 /\ k > 0 /\ ~(k <= Len(prefills'))
      BY <2>2 DEF Pending
    <3>4. /\ RopeBelow(active[r].handle, active[r].current_pos)
          /\ prompt_len[r] > 0 => /\ len[active[r].handle] = Progress(r)
                                  /\ active[r].generated > 0
      BY <2>4, <3>1, Zenon DEF RowsSettled
    <3>5. active[r].current_pos \in Nat
      BY SequenceOf, Zenon DEF BInv, Typed
    <3>6. active[r].generated \in Nat /\ active[r].remaining \in Nat /\ prompt_len[r] \in Nat
      BY SequenceOf, Zenon DEF BInv, Typed
    <3>7. Progress(r) \in Int
      <4>1. 1 \in Nat
        OBVIOUS
      <4>2. SatSub(active[r].generated, 1) \in Nat
        BY <3>6, <4>1, SatSubFacts, Zenon
      <4> QED BY <3>6, <4>2, SMTT(30) DEF Progress
    <3>8. Progress(r)' = Progress(r)
      BY <2>2, Zenon DEF Progress
    <3> QED BY <2>2, <3>2, <3>3, <3>4, <3>5, <3>7, <3>8 DEF RowsOfSlice, RopeBelow
  <2>7. \A r \in Active : RowsSettled(r)'
    BY <2>2, <2>4, <1>RowsSettledSame, Zenon
  <2>8. CacheTyped' /\ SpareOnlyInAbort' /\ RopeIncreasing'
    BY <2>2, <2>4 DEF PInv, CacheTyped, SpareOnlyInAbort, RopeIncreasing
  <2> QED BY <2>2, <2>6, <2>7, <2>8, Zenon DEF PInv
(* A prefill job joins the batch; its sequence was settled or is new.      *)
<1>PInvAdded.
     ASSUME HInv, BInv, PInv, NEW r \in Active', NEW h, NEW n \in Nat, NEW p \in Nat,
            SliceAdded(r, h, n, p),
            Active \subseteq Active', Active' \subseteq Active \cup {r},
            \A s \in Active \ {r} : active'[s] = active[s],
            active'[r] \in SequenceType, r \in Requests,
            UNCHANGED <<prompt_len, i, poisoned>>, CacheTyped', RopeIncreasing',
            \A g \in Live : rope'[g] = rope[g] /\ len'[g] = len[g],
            \A g \in Live' : owned'[g] = BlocksFor(len'[g]),
            RopeBelow(h, p)', active'[r].current_pos = p + n,
            prompt_len[r] > 0 => len'[h] + n = Progress(r)' /\ active'[r].generated = 0 /\ n > 0
     PROVE  PInv'
  <2> USE <1>PInvAdded
  <2>1. /\ Len(prefills) \in Nat /\ Size \in Nat /\ Len(prefills) <= Size
    BY SlicesType DEF BInv, Size
  <2>2. pc = "prefill" /\ pc' = "prefill" /\ Size' = Size + 1 /\ Len(prefills') = Len(prefills) + 1
    BY Zenon DEF SliceAdded
  <2>3. ~poisoned
    BY <2>2, Zenon DEF BInv, Phases
  <2>4. \A k : Pending(k) /\ Pending(k)'
    BY <2>2, Zenon DEF Pending
  <2>5. SpareOnlyInAbort'
    BY Zenon DEF SpareOnlyInAbort
  <2>6. ASSUME NEW k \in 1 .. Size' PROVE RowsOfSlice(k)'
    <3>1. CASE k = Len(prefills) + 1 /\ Slices'[k] = Job(r, h, n, p)
      <4>1. /\ Slices'[k].seq = r /\ Slices'[k].handle = h /\ Slices'[k].n = n /\ Slices'[k].pos = p
        BY <3>1, JobFields
      <4>2. k <= Len(prefills') /\ ~(k > Len(prefills'))
        BY <2>1, <2>2, <3>1
      <4>3. prompt_len'[r] = prompt_len[r] /\ p + 0 = p
        OBVIOUS
      <4>4. prompt_len[r] > 0 => len'[h] + n = Progress(r)' + 0
        <5>1. active'[r] \in SequenceType /\ prompt_len[r] \in Nat
          BY Zenon DEF BInv, Typed
        <5>2. active'[r].remaining \in Nat /\ active'[r].generated \in Nat
          BY <5>1, SequenceOf, Zenon
        <5>3. Progress(r)' \in Int
          <6>1. SatSub(active'[r].generated, 1) \in Nat
            BY <5>2, SatSubFacts, Zenon
          <6>2. Progress(r)' = prompt_len[r] - active'[r].remaining + SatSub(active'[r].generated, 1)
            BY <4>3, Zenon DEF Progress
          <6> QED BY <5>1, <5>2, <6>1, <6>2
        <5>4. Progress(r)' + 0 = Progress(r)'
          BY <5>3
        <5> QED BY <5>4, Zenon
      <4>5. (RopeBelow(Slices[k].handle, Slices[k].pos + 0))'
        BY <4>1, <4>3 DEF RopeBelow
      <4> QED BY <2>4, <4>1, <4>2, <4>3, <4>4, <4>5 DEF RowsOfSlice
    <3>2. CASE \E m \in 1 .. Size : /\ Slices'[k] = Slices[m]
                                    /\ m = IF k <= Len(prefills) THEN k ELSE k - 1
                                    /\ k # Len(prefills) + 1
      <4>1. PICK m \in 1 .. Size : /\ Slices'[k] = Slices[m] /\ k # Len(prefills) + 1
                                   /\ m = IF k <= Len(prefills) THEN k ELSE k - 1
        BY <3>2, Zenon
      <4>2. RowsOfSlice(m)
        BY <2>3, <2>4, Zenon DEF PInv
      <4>3. Slices[m].seq \in Active /\ Slices[m].handle \in Live /\ Slices[m].seq # r
        BY <2>2, <1>SliceHandles DEF SliceAdded
      <4>4. (k <= Len(prefills') <=> m <= Len(prefills)) /\ (k > Len(prefills') <=> m > Len(prefills))
        BY <2>1, <2>2, <4>1
      <4> QED BY <2>4, <4>1, <4>2, <4>3, <4>4, <1>RowsOfSliceSame
    <3> QED BY <3>1, <3>2, AddedIndex
  <2>7. ASSUME NEW s \in Active', Settled(s)' PROVE RowsSettled(s)'
    <3>1. ~InBatch(s)'
      BY <2>2, <2>7, Zenon DEF Settled, Sampled1
    <3>2. s # r
      <4>1. Slices'[Len(prefills) + 1] = Job(r, h, n, p) /\ Len(prefills) + 1 \in 1 .. Size'
        BY <2>1, <2>2 DEF SliceAdded
      <4> QED BY <3>1, <4>1, JobFields DEF InBatch
    <3>3. s \in Active /\ active'[s] = active[s]
      BY <3>2, Zenon
    <3>4. ~InBatch(s)
      <4> SUFFICES ASSUME NEW m \in 1 .. Size, Slices[m].seq = s PROVE FALSE
        BY Zenon DEF InBatch
      <4>1. CASE m <= Len(prefills)
        <5>1. m \in 1 .. Size' /\ m \in 1 .. (Size + 1)
          BY <2>1, <2>2
        <5>2. Slices'[m] = Slices[m]
          BY <4>1, <5>1, Zenon DEF SliceAdded
        <5> QED BY <3>1, <5>1, <5>2, Zenon DEF InBatch
      <4>2. CASE m > Len(prefills)
        <5>1. m + 1 \in 1 .. Size' /\ m + 1 \in 1 .. (Size + 1) /\ (m + 1) - 1 = m
              /\ ~(m + 1 <= Len(prefills)) /\ m + 1 # Len(prefills) + 1
          BY <2>1, <2>2, <4>2
        <5>2. Slices'[m + 1] = Slices[m]
          BY <5>1, ZenonT(30) DEF SliceAdded
        <5> QED BY <3>1, <5>1, <5>2, Zenon DEF InBatch
      <4> QED BY <2>1, <4>1, <4>2
    <3>5. RowsSettled(s)
      BY <2>3, <3>3, <3>4, Zenon DEF PInv, Settled
    <3>6. active[s].handle \in Live
      BY <3>3, Zenon DEF HInv, HandlesMatchCache
    <3> QED BY <3>3, <3>5, <3>6, <1>RowsSettledSame, Zenon
  <2> QED BY <2>5, <2>6, <2>7, Zenon DEF PInv
<1>PInvChunk.
     ASSUME HInv, BInv, PInv, NEW r \in Active, ContinueChunk(r)
     PROVE  PInv'
  <2> USE <1>PInvChunk
  <2>1. PICK n \in Nat : ChunkCut(r, n)
    BY ChunkStep, Zenon
  <2>2. PICK h, p : h = active[r].handle /\ p = active[r].current_pos
    BY Zenon
  <2>3. /\ SliceAdded(r, h, n, p) /\ n > 0 /\ n <= active[r].remaining /\ pc = "prefill"
        /\ Active' = Active /\ active' \in [Active -> SequenceType]
        /\ \A s \in Active \ {r} : active'[s] = active[s]
        /\ active'[r].current_pos = p + n
        /\ active'[r].generated = active[r].generated
        /\ active'[r].remaining = active[r].remaining - n
        /\ UNCHANGED <<prompt_len, i, poisoned, owned, len, rope>> /\ Live' = Live
    BY <2>1, <2>2, Zenon DEF ChunkCut, SliceAdded, cacheVars, clientVars, Live
  <2>4. ~poisoned /\ r \in Requests /\ prompt_len[r] \in Nat /\ active[r] \in SequenceType
    BY <2>3, Zenon DEF BInv, Phases, Typed
  <2>5. /\ active[r].remaining \in Nat /\ active[r].generated \in Nat /\ p \in Nat /\ h \in Nat
    BY <2>2, <2>4, SequenceOf, Zenon
  <2>6. RowsSettled(r)
    <3>1. ~InBatch(r)
      BY <2>3, Zenon DEF SliceAdded, InBatch
    <3> QED BY <2>4, <3>1, Zenon DEF PInv, Settled
  <2>7. CacheTyped' /\ RopeIncreasing' /\ \A g \in Live' : owned'[g] = BlocksFor(len'[g])
    BY <2>3 DEF PInv, CacheTyped, RopeIncreasing, SpareOnlyInAbort
  <2>8. RopeBelow(h, p)'
    BY <2>2, <2>3, <2>6, Zenon DEF RowsSettled, RopeBelow
  <2>9. prompt_len[r] > 0 => len'[h] + n = Progress(r)' /\ active'[r].generated = 0 /\ n > 0
    <3> SUFFICES ASSUME prompt_len[r] > 0
                 PROVE  len'[h] + n = Progress(r)' /\ active'[r].generated = 0
      BY <2>3, Zenon
    <3>1. len[h] = Progress(r) /\ (active[r].remaining = 0 <=> active[r].generated > 0)
      BY <2>2, <2>6, Zenon DEF RowsSettled
    <3>2. active[r].generated = 0
      BY <2>3, <2>5, <3>1
    <3>3. SatSub(active[r].generated, 1) \in Nat
      BY <2>5, SatSubFacts, Zenon
    <3>4. Progress(r)' = prompt_len[r] - (active[r].remaining - n) + SatSub(active[r].generated, 1)
      BY <2>3, Zenon DEF Progress
    <3>5. len'[h] = prompt_len[r] - active[r].remaining + SatSub(active[r].generated, 1)
      BY <2>3, <3>1, Zenon DEF Progress
    <3> QED BY <2>3, <2>4, <2>5, <3>2, <3>3, <3>4, <3>5
  <2> QED BY <2>3, <2>4, <2>5, <2>7, <2>8, <2>9, <1>PInvAdded, Zenon
<1>PInvAdmit.
     ASSUME HInv, BInv, PInv, Admit
     PROVE  PInv'
  <2> USE <1>PInvAdmit
  <2>1. PICK r : \E n \in Nat : Admitted(r, n)
    BY AdmitStep, Zenon
  <2>2. PICK n \in Nat : Admitted(r, n)
    BY <2>1, Zenon
  <2>3. PICK h : h = next_id
    BY Zenon
  <2>4. /\ SliceAdded(r, h, n, 0) /\ pc = "prefill" /\ n <= prompt_len[r] /\ (prompt_len[r] > 0 => n > 0)
        /\ r \in Requests \ Active /\ Active' = Active \cup {r}
        /\ active' \in [Active' -> SequenceType] /\ \A s \in Active : active'[s] = active[s]
        /\ active'[r].current_pos = n /\ active'[r].generated = 0
        /\ active'[r].remaining = prompt_len[r] - n
        /\ h \in Nat \ Live
        /\ rope' = [g \in Live' |-> IF g = h THEN <<>> ELSE rope[g]]
        /\ UNCHANGED <<prompt_len, i, poisoned>>
    BY <2>2, <2>3, ZenonT(30) DEF Admitted, SliceAdded, clientVars
  <2>5. /\ owned' = [g \in Live \cup {h} |-> IF g = h THEN 1 ELSE owned[g]]
        /\ len' = [g \in Live \cup {h} |-> IF g = h THEN 0 ELSE len[g]]
    BY <2>2, <2>3, Zenon DEF Admitted, AllocOk
  <2>6. Live' = Live \cup {h}
    BY <2>5, Zenon DEF Live
  <2>7. /\ \A g \in Live : rope'[g] = rope[g] /\ len'[g] = len[g] /\ owned'[g] = owned[g]
        /\ rope'[h] = <<>> /\ len'[h] = 0 /\ owned'[h] = 1
    BY <2>4, <2>5, <2>6
  <2>8. CacheTyped'
    <3>1. len \in [Live -> Nat] /\ rope \in [Live -> Seq(Nat)]
      BY Zenon DEF PInv, CacheTyped
    <3>2. <<>> \in Seq(Nat) /\ 0 \in Nat
      OBVIOUS
    <3>3. rope' = [g \in Live' |-> IF g = h THEN <<>> ELSE rope[g]]
      BY <2>4, Zenon
    <3>4. rope' \in [Live' -> Seq(Nat)]
      BY <2>6, <3>1, <3>2, <3>3, ZenonT(30)
    <3>5. len' \in [Live' -> Nat]
      BY <2>5, <2>6, <3>1, <3>2, ZenonT(30)
    <3> QED BY <3>4, <3>5, Zenon DEF CacheTyped
  <2>9. \A g \in Live' : owned'[g] = BlocksFor(len'[g])
    BY <2>4, <2>6, <2>7 DEF PInv, SpareOnlyInAbort, BlocksFor
  <2>10. RopeIncreasing' /\ RopeBelow(h, 0)'
    BY <2>6, <2>7 DEF PInv, RopeIncreasing, RopeBelow
  <2>11. prompt_len[r] \in Nat
    BY <2>4, Zenon DEF BInv, Typed
  <2>12. len'[h] + n = Progress(r)'
    <3>1. Progress(r)' = prompt_len[r] - (prompt_len[r] - n) + SatSub(0, 1)
      BY <2>4, Zenon DEF Progress
    <3> QED BY <2>7, <2>11, <3>1 DEF SatSub
  <2>13. active'[r] \in SequenceType /\ r \in Active' /\ 0 \in Nat /\ 0 + n = n
    BY <2>4
  <2> QED BY <2>4, <2>6, <2>7, <2>8, <2>9, <2>10, <2>12, <2>13, <1>PInvAdded, ZenonT(30)
(* AppendSlice: the rows of slice i are stored.                            *)
<1>PInvAppend.
     ASSUME HInv, BInv, PInv, AppendSlice
     PROVE  PInv'
  <2> USE <1>PInvAppend
  <2>1. PICK s, h : s = Slices[i] /\ h = s.handle
    BY Zenon
  <2>2. /\ pc = "forward" /\ pc' = "forward" /\ i \in 1 .. Size /\ i' = i + 1
        /\ UNCHANGED <<prompt_len, active, prefills, decodes, poisoned>>
        /\ AppendOk(h, s.n)
        /\ rope' = [rope EXCEPT ![h] = @ \o [k \in 1 .. s.n |-> s.pos + k - 1]]
    BY <2>1, SlicesType DEF AppendSlice, BInv, Typed, forwardFrame, clientVars, decisionVars
  <2>3. s \in JobType /\ s.n \in Nat /\ s.pos \in Nat
    BY <2>1, <2>2, SlicesType, Zenon DEF BInv, JobType
  <2>4. /\ h \in Live /\ Live' = Live /\ len[h] \in Nat /\ rope[h] \in Seq(Nat)
        /\ len' = [len EXCEPT ![h] = @ + s.n] /\ owned'[h] = BlocksFor(len[h] + s.n)
        /\ \A g \in Live \ {h} : owned'[g] = owned[g]
    BY <2>2, Zenon DEF AppendOk, Sound, Live, PInv, CacheTyped
  <2>5. /\ Size' = Size /\ Slices' = Slices /\ Active' = Active /\ Len(prefills') = Len(prefills)
    BY <2>2, Zenon DEF Size, Slices, Active
  <2>6. ~poisoned /\ Pending(i) /\ RowsOfSlice(i) /\ SliceOk(i)
    BY <2>2 DEF BInv, Phases, PInv, Pending, SlicesActive
  <2>7. RopeBelow(h, s.pos)
    BY <2>1, <2>3, <2>6 DEF RowsOfSlice
  <2>8. PICK z : z = rope[h] \o [k \in 1 .. s.n |-> s.pos + k - 1]
    BY Zenon
  <2>9. /\ z \in Seq(Nat) /\ \A a, b \in DOMAIN z : a < b => z[a] < z[b]
        /\ \A a \in DOMAIN z : z[a] < s.pos + s.n
    BY <2>3, <2>4, <2>7, <2>8, <1>RopeAppended, ZenonT(30) DEF RopeBelow, PInv, RopeIncreasing
  <2>10. /\ rope' = [rope EXCEPT ![h] = z] /\ rope'[h] = z /\ len'[h] = len[h] + s.n
         /\ \A g \in Live \ {h} : rope'[g] = rope[g] /\ len'[g] = len[g]
    BY <2>2, <2>4, <2>8, Zenon DEF PInv, CacheTyped
  <2>11. CacheTyped'
    BY <2>3, <2>4, <2>9, <2>10 DEF PInv, CacheTyped
  <2>12. RopeIncreasing'
    BY <2>4, <2>9, <2>10 DEF PInv, RopeIncreasing
  <2>13. SpareOnlyInAbort'
    BY <2>2, <2>4, <2>10 DEF PInv, SpareOnlyInAbort
  <2>14. \A k \in 1 .. Size : Slices[k].handle \in Live /\ (k # i => Slices[k].handle # h)
    BY <2>1, <2>2, <1>SliceHandles, Zenon
  <2>15. ASSUME NEW k \in 1 .. Size PROVE RowsOfSlice(k)'
    <3>1. CASE k = i
      <4>2. PICK g : g = i
        BY Zenon
      <4>3. ~Pending(g)' /\ Slices'[g] = s /\ k = g /\ active'[s.seq] = active[s.seq]
        BY <2>1, <2>2, <2>5, <3>1, <4>2 DEF Pending
      <4>4. active'[s.seq].current_pos = s.pos + (IF g <= Len(prefills') THEN s.n ELSE 0)
        BY <2>1, <2>5, <2>6, <4>2, <4>3 DEF RowsOfSlice
      <4>5. RopeBelow(s.handle, s.pos + s.n)'
        <5>1. rope'[s.handle] = z
          BY <2>1, <2>10, Zenon
        <5>2. \A a \in DOMAIN z : z[a] < s.pos + s.n
          BY <2>9, Zenon
        <5> QED BY <5>1, <5>2, Zenon DEF RopeBelow
      <4>6. ASSUME prompt_len[s.seq] > 0
            PROVE  /\ len'[h] + (IF g <= Len(prefills') THEN s.n ELSE 0) = Progress(s.seq)' + s.n
                   /\ active'[s.seq].generated > 0 <=> g > Len(prefills')
                   /\ s.n > 0
        <5>1. /\ len[h] + (IF g <= Len(prefills) THEN s.n ELSE 0) = Progress(s.seq) + 0
              /\ active[s.seq].generated > 0 <=> g > Len(prefills)
              /\ s.n > 0
          BY <2>1, <2>6, <4>2, <4>6, Zenon DEF RowsOfSlice
        <5>2. Progress(s.seq)' = Progress(s.seq)
          BY <2>2, Zenon DEF Progress
        <5>3. Progress(s.seq) \in Int
          <6>1. active[s.seq] \in SequenceType /\ prompt_len[s.seq] \in Nat
            BY <2>1, <2>6, Zenon DEF BInv, Typed, SliceOk
          <6>2. active[s.seq].remaining \in Nat /\ active[s.seq].generated \in Nat
            BY <6>1, SequenceOf, Zenon
          <6>3. SatSub(active[s.seq].generated, 1) \in Nat
            BY <6>2, SatSubFacts, Zenon
          <6> QED BY <6>1, <6>2, <6>3 DEF Progress
        <5> QED BY <2>2, <2>3, <2>4, <2>5, <2>10, <5>1, <5>2, <5>3
      <4> QED BY <2>1, <2>2, <4>3, <4>4, <4>5, <4>6, Zenon DEF RowsOfSlice
    <3>2. CASE k # i
      <4>1. RowsOfSlice(k)
        BY <2>2, <2>6 DEF PInv, Pending, Appended
      <4>2. Pending(k)' <=> Pending(k)
        BY <2>2, <3>2 DEF Pending
      <4> QED BY <2>2, <2>5, <2>10, <2>14, <3>2, <4>1, <4>2, <1>RowsOfSliceSame, Zenon
    <3> QED BY <3>1, <3>2, Zenon
  <2>16. ASSUME NEW r \in Active, Settled(r)' PROVE RowsSettled(r)'
    <3>1. ~InBatch(r)
      BY <2>2, <2>5, <2>16, ZenonT(30) DEF Settled, InBatch, Sampled1
    <3>2. active[r].handle \in Live /\ active[r].handle # h
      BY <2>1, <2>2, <3>1, <1>SliceHandles, ZenonT(30) DEF InBatch, HInv, HandlesMatchCache
    <3>3. RowsSettled(r)
      BY <2>6, <3>1, Zenon DEF PInv, Settled
    <3> QED BY <2>2, <2>10, <3>2, <3>3, <1>RowsSettledSame, Zenon
  <2> QED BY <2>5, <2>11, <2>12, <2>13, <2>15, <2>16, Zenon DEF PInv
(* The batch fails, or its pass is over.                                   *)
<1>PInvForward.
     ASSUME HInv, BInv, PInv, AppendSliceOom \/ ForwardFails \/ ForwardDone
     PROVE  PInv'
  <2> USE <1>PInvForward
  <2>1. /\ pc = "forward" /\ pc' \in {"abort", "sample"} /\ i' = 1
        /\ UNCHANGED <<prompt_len, active, prefills, decodes, poisoned, len, rope>>
    BY Zenon DEF AppendSliceOom, ForwardFails, ForwardDone, forwardFrame, clientVars,
       decisionVars,
           cacheVars, AppendOom
  <2>2. Size' = Size /\ Slices' = Slices /\ Active' = Active /\ Len(prefills') = Len(prefills)
    BY <2>1 DEF Size, Slices, Active
  <2>3. \A h \in Live : owned[h] = BlocksFor(len[h])
    BY <2>1, Zenon DEF PInv, SpareOnlyInAbort
  <2>4. Live' = Live /\ SpareOnlyInAbort'
    <3>1. CASE AppendSliceOom
      <4>1. PICK k, h : k = i /\ h = Slices[k].handle
        OBVIOUS
      <4>2. /\ pc' = "abort" /\ k \in 1 .. Size /\ Live' = Live
            /\ \A g \in Live \ {h} : owned'[g] = owned[g]
        BY <3>1, <4>1, SlicesType DEF AppendSliceOom, BInv, Typed, AppendOom, Live
      <4> QED BY <2>1, <2>2, <2>3, <4>1, <4>2 DEF SpareOnlyInAbort
    <3>2. CASE ForwardFails \/ ForwardDone
      <4>1. owned' = owned
        BY <3>2, Zenon DEF ForwardFails, ForwardDone, cacheVars
      <4> QED BY <2>1, <2>3, <4>1, Zenon DEF SpareOnlyInAbort, Live
    <3> QED BY <3>1, <3>2, Zenon
  <2>5. CacheTyped' /\ RopeIncreasing'
    BY <2>1, <2>4 DEF PInv, CacheTyped, RopeIncreasing
  <2>6. ASSUME NEW r \in Active, Settled(r)', ~poisoned PROVE RowsSettled(r)'
    <3>1. ~InBatch(r)
      <4>1. ~Sampled1(r)'
        BY <2>1 DEF Sampled1
      <4> QED BY <2>2, <2>6, <4>1, Zenon DEF Settled, InBatch
    <3>2. RowsSettled(r)
      BY <2>6, <3>1, Zenon DEF PInv, Settled
    <3> QED BY <2>1, <3>2, <1>RowsSettledSame, Zenon
  <2>7. ASSUME NEW k \in 1 .. Size, (Pending(k) \/ Appended(k))', ~poisoned PROVE RowsOfSlice(k)'
    <3>1. pc' = "sample" /\ ForwardDone
      BY <2>1, <2>7, Zenon DEF Pending, Appended, AppendSliceOom, ForwardFails
    <3>2. k < i
      BY <3>1, SlicesType DEF ForwardDone, BInv, Typed
    <3>3. i \in Nat
      BY Zenon DEF BInv, Typed
    <3>4. Appended(k) /\ ~Pending(k) /\ ~Pending(k)'
      BY <2>1, <3>1, <3>2, <3>3 DEF Appended, Pending
    <3>5. RowsOfSlice(k)
      BY <2>7, <3>4, Zenon DEF PInv
    <3> QED BY <2>1, <2>2, <3>4, <3>5, <1>RowsOfSliceSame, Zenon
  <2> QED BY <2>1, <2>2, <2>4, <2>5, <2>6, <2>7, Zenon DEF PInv
<1>PInvAbort.
     ASSUME HInv, BInv, PInv, AbortOne
     PROVE  PInv'
  <2> USE <1>PInvAbort
  <2>1. PICK r \in Active : Aborted(r)
    BY AbortStep, Zenon
  <2>2. PICK h : h = active[r].handle
    BY Zenon
  <2>3. /\ pc = "abort" /\ pc' = "abort" /\ i \in 1 .. Size /\ i' = i + 1 /\ r = Slices[i].seq
        /\ Active' = Active \ {r} /\ \A s \in Active' : active'[s] = active[s]
        /\ Free(h) /\ rope' = Without(rope, {h})
        /\ UNCHANGED <<prompt_len, prefills, decodes, poisoned>>
    BY <2>1, <2>2, Zenon DEF Aborted, clientVars, decisionVars
  <2>4. Size' = Size /\ Slices' = Slices /\ Size \in Nat
    BY <2>3, SlicesType, Zenon DEF Size, Slices, BInv
  <2>5. /\ Live' = Live \ {h} /\ CacheTyped' /\ RopeIncreasing'
        /\ \A g \in Live' : owned'[g] = owned[g] /\ len'[g] = len[g] /\ rope'[g] = rope[g]
    BY <2>3, <1>RowsFreed, Zenon DEF PInv
  <2>6. Slices[i].handle = h
    BY <2>2, <2>3, Zenon DEF BInv, SlicesActive, SliceOk
  <2>7. SpareOnlyInAbort'
    <3> SUFFICES ASSUME NEW g \in Live', owned[g] # BlocksFor(len[g])
                 PROVE  \E k \in 1 .. Size : k >= i + 1 /\ Slices[k].handle = g
      BY <2>3, <2>4, <2>5 DEF SpareOnlyInAbort
    <3>1. PICK k \in 1 .. Size : k >= i /\ Slices[k].handle = g
      BY <2>5, Zenon DEF PInv, SpareOnlyInAbort
    <3>2. k # i
      BY <2>5, <2>6, <3>1, Zenon
    <3> QED BY <2>3, <2>4, <3>1, <3>2, SMTT(30)
  <2>8. \A k : ~(Pending(k) \/ Appended(k))'
    BY <2>3, Zenon DEF Pending, Appended
  <2>9. ASSUME NEW s \in Active', Settled(s)', ~poisoned PROVE RowsSettled(s)'
    <3>1. ~InBatch(s)
      <4>1. ~Sampled1(s)'
        BY <2>3, Zenon DEF Sampled1
      <4> QED BY <2>4, <2>9, <4>1 DEF Settled, InBatch
    <3>2. s \in Active /\ s # r /\ active'[s] = active[s]
      BY <2>3, Zenon
    <3>3. RowsSettled(s)
      BY <2>9, <3>1, <3>2, Zenon DEF PInv, Settled
    <3>4. active[s].handle \in Live'
      BY <2>2, <2>5, <3>2 DEF HInv, HandlesMatchCache
    <3> QED BY <2>3, <2>5, <3>2, <3>3, <3>4, <1>RowsSettledSame, Zenon
  <2> QED BY <2>3, <2>4, <2>5, <2>7, <2>8, <2>9, Zenon DEF PInv
(* What the sampling of its slice makes of a sequence's rows.              *)
<1>RowsSampled.
     ASSUME HInv, BInv, PInv, NEW r \in Active, SampleEffects(r), ~poisoned, ~Finished(r)'
     PROVE  RowsSettled(r)'
  <2> USE <1>RowsSampled
  <2>1. /\ pc = "sample" /\ i \in 1 .. Size /\ r = Slices[i].seq
        /\ UNCHANGED <<prompt_len, prefills, decodes, len, rope>>
    BY Zenon DEF SampleEffects, sampleFrame, clientVars, decisionVars, cacheVars
  <2>2. PICK s, k : k = i /\ s = Slices[i]
    OBVIOUS
  <2>3. ~Pending(k) /\ RowsOfSlice(k) /\ SliceOk(k)
    <3>1. Appended(k) /\ ~Pending(k)
      BY <2>1, <2>2 DEF Appended, Pending
    <3> QED BY <2>1, <2>2, <3>1, Zenon DEF PInv, BInv, SlicesActive
  <2>4. s \in JobType /\ s.n \in Nat /\ s.pos \in Nat /\ s.seq = r /\ Len(prefills) \in Nat
        /\ k \in Nat
    BY <2>1, <2>2, SlicesType DEF BInv, JobType
  <2>5. PICK a, h, c, g, m, q : /\ a = active[r] /\ h = a.handle /\ c = a.current_pos
                                /\ g = a.generated /\ m = a.remaining /\ q = prompt_len[r]
    BY Zenon
  <2>6. a \in SequenceType /\ q \in Nat /\ g \in Nat /\ m \in Nat /\ c \in Nat
    BY <2>5, SequenceOf, Zenon DEF BInv, Typed
  <2>7. PICK chunk : chunk = IF k <= Len(prefills) THEN s.n ELSE 0
    BY Zenon
  <2>8. /\ RopeBelow(h, s.pos + s.n) /\ c = s.pos + chunk
        /\ q > 0 => /\ len[h] + chunk = Progress(r) + s.n
                    /\ g > 0 <=> k > Len(prefills)
                    /\ s.n > 0
    BY <2>2, <2>3, <2>4, <2>5, <2>7, Zenon DEF RowsOfSlice, SliceOk
  <2>9. h = s.handle /\ (k > Len(prefills) => m = 0 /\ s.n = 1)
    BY <2>2, <2>3, <2>4, <2>5, Zenon DEF SliceOk
  <2>10. Progress(r) = q - m + SatSub(g, 1) /\ SatSub(g, 1) \in Nat
    BY <2>5, <2>6, SatSubFacts, Zenon DEF Progress
  <2>11. \A b \in DOMAIN rope[h] : rope[h][b] \in Nat
    <3>1. h \in Live
      BY <2>5, Zenon DEF HInv, HandlesMatchCache
    <3> QED BY <3>1 DEF PInv, CacheTyped
  <2>12. len[h] \in Int
    <3>1. h \in Live
      BY <2>5, Zenon DEF HInv, HandlesMatchCache
    <3> QED BY <3>1 DEF PInv, CacheTyped
  <2>13. CASE SkipUnfinishedChunk(r)
    <3>1. active' = active /\ k <= Len(prefills) /\ m > 0
      BY <2>2, <2>5, <2>13, Zenon DEF SkipUnfinishedChunk
    <3>2. RopeBelow(h, c)
      BY <2>7, <2>8, <3>1, Zenon
    <3>3. q > 0 => g = 0 /\ Progress(r) \in Int /\ len[h] = Progress(r)
      <4> SUFFICES ASSUME q > 0 PROVE g = 0 /\ Progress(r) \in Int /\ len[h] = Progress(r)
        BY Zenon
      <4> QED BY <2>4, <2>6, <2>7, <2>8, <2>10, <3>1, <2>12
    <3>4. RowsSettled(r)
      BY <2>5, <2>6, <3>1, <3>2, <3>3 DEF RowsSettled
    <3> QED BY <2>1, <3>1, <3>4, <1>RowsSettledSame, Zenon
  <2>14. ASSUME NEW stop \in BOOLEAN, TokenSampled(r, stop) PROVE RowsSettled(r)'
    <3>1. /\ k > Len(prefills) \/ m = 0
          /\ active'[r].handle = h /\ active'[r].current_pos = c + 1
          /\ active'[r].generated = g + 1 /\ active'[r].remaining = m
      BY <2>2, <2>5, <2>14, Zenon DEF TokenSampled, OneChanged
    <3>2. m = 0
      BY <2>9, <3>1, Zenon
    <3>3. \A b \in DOMAIN rope[h] : rope[h][b] < c + 1
      BY <2>4, <2>6, <2>7, <2>8, <2>9, <2>11, SMTT(30) DEF RopeBelow
    <3>4. q > 0 => len[h] = q - m + SatSub(g + 1, 1)
      <4> SUFFICES ASSUME q > 0 PROVE len[h] = q - m + SatSub(g + 1, 1)
        BY Zenon
      <4>1. SatSub(g + 1, 1) = g /\ (g = 0 => SatSub(g, 1) = 0) /\ (g > 0 => SatSub(g, 1) = g - 1)
        BY <2>6 DEF SatSub
      <4>2. PICK L \in Int, y \in Nat, w \in Nat : L = len[h] /\ y = s.n /\ w = SatSub(g, 1)
        BY <2>4, <2>10, <2>12, Zenon
      <4>3. L + chunk = q - m + w + y
        BY <2>8, <2>10, <4>2, Zenon
      <4>4. k <= Len(prefills) \/ (~(k <= Len(prefills)) /\ k > Len(prefills))
        <5>1. k \in Nat /\ Len(prefills) \in Nat
          BY <2>4, Zenon
        <5> QED BY <5>1
      <4>5. CASE k <= Len(prefills)
        <5>1. chunk = y /\ ~(g > 0)
          <6>1. ~(k > Len(prefills))
            BY <2>4, <4>5
          <6> QED BY <2>7, <2>8, <4>2, <4>5, <6>1, Zenon
        <5>2. g = 0 /\ w = 0
          BY <2>6, <4>1, <4>2, <5>1
        <5>3. L = q - m + g
          BY <2>6, <4>3, <5>1, <5>2
        <5> QED BY <4>1, <4>2, <5>3, Zenon
      <4>6. CASE ~(k <= Len(prefills)) /\ k > Len(prefills)
        <5>1. chunk = 0 /\ g > 0 /\ y = 1
          BY <2>7, <2>8, <2>9, <4>2, <4>6, Zenon
        <5>2. w = g - 1
          BY <4>1, <4>2, <5>1, Zenon
        <5>3. L = q - m + g
          BY <2>6, <4>3, <5>1, <5>2
        <5> QED BY <4>1, <4>2, <5>3, Zenon
      <4> QED BY <4>4, <4>5, <4>6, Zenon
    <3>5. Progress(r)' = q - m + SatSub(g + 1, 1)
      BY <2>1, <2>5, <3>1, Zenon DEF Progress
    <3>6. RopeBelow(active[r].handle, active[r].current_pos)'
      BY <2>1, <3>1, <3>3, SMTT(30) DEF RopeBelow
    <3>7. /\ prompt_len'[r] = q /\ len'[active'[r].handle] = len[h]
          /\ active'[r].remaining = 0 /\ active'[r].generated > 0
      <4>1. g + 1 > 0
        BY <2>6
      <4> QED BY <2>1, <2>5, <3>1, <3>2, <4>1, Zenon
    <3> QED BY <3>4, <3>5, <3>6, <3>7, Zenon DEF RowsSettled
  <2>15. CASE SamplingFailed(r)
    <3>1. active'[r].limit = 0 /\ active'[r].generated \in Nat
      BY <2>5, <2>6, <2>15, Zenon DEF SamplingFailed
    <3> QED BY <3>1 DEF Finished
  <2> QED BY <2>13, <2>14, <2>15, Zenon DEF SampleEffects
<1>PInvSample.
     ASSUME HInv, BInv, PInv, Sample
     PROVE  PInv'
  <2> USE <1>PInvSample
  <2>1. PICK r \in Active : SampleEffects(r)
    BY SampleStep, Zenon
  <2>2. /\ UNCHANGED <<prompt_len, prefills, decodes, poisoned, len, rope, owned>>
        /\ Size' = Size /\ Slices' = Slices /\ Live' = Live
        /\ pc = "sample" /\ pc' = "sample" /\ i \in 1 .. Size /\ i' = i + 1 /\ r = Slices[i].seq
    BY <2>1, Zenon DEF SampleEffects, sampleFrame, clientVars, decisionVars, Size, Slices,
       cacheVars, Live
  <2>3. Active' = Active /\ ~poisoned
    BY <2>1, <2>2, SampleKeeps, Zenon DEF BInv, Phases
  <2>4. \A s \in Active \ {r} : active'[s] = active[s]
    BY <2>1, ZenonT(30) DEF SampleEffects, SkipUnfinishedChunk, TokenSampled, SamplingFailed,
       OneChanged
  <2>5. CacheTyped' /\ RopeIncreasing' /\ SpareOnlyInAbort'
    BY <2>2, ZenonT(30) DEF PInv, CacheTyped, RopeIncreasing, SpareOnlyInAbort
  <2>6. \A k \in 1 .. Size : Slices[k].seq = r => k = i
    BY <2>2, Zenon DEF BInv, OneSliceEach
  <2>7. ASSUME NEW k \in 1 .. Size, (Pending(k) \/ Appended(k))' PROVE RowsOfSlice(k)'
    <3>1. k > i
      BY <2>2, <2>7 DEF Pending, Appended
    <3>2. Appended(k) /\ ~Pending(k) /\ ~Pending(k)' /\ Slices[k].seq # r
      BY <2>2, <2>6, <3>1 DEF Pending, Appended
    <3>3. RowsOfSlice(k) /\ Slices[k].seq \in Active
      BY <2>2, <2>3, <3>2, <1>SliceHandles, Zenon DEF PInv
    <3> QED BY <2>2, <2>4, <3>2, <3>3, <1>RowsOfSliceSame, Zenon
  <2>8. ASSUME NEW s \in Active, Settled(s)' PROVE RowsSettled(s)'
    <3>1. CASE s = r
      <4>1. ~Finished(r)'
        BY <2>2, <2>8, <3>1, Zenon DEF Settled, InBatch
      <4> QED BY <2>1, <2>3, <3>1, <4>1, <1>RowsSampled, Zenon
    <3>2. CASE s # r
      <4>1. Settled(s)
        <5>1. CASE InBatch(s)
          <6>1. InBatch(s)'
            BY <2>2, <5>1, Zenon DEF InBatch
          <6>2. Sampled1(s)' /\ ~Finished(s)'
            BY <2>8, <6>1, Zenon DEF Settled
          <6>3. PICK k \in 1 .. Size : k < i + 1 /\ Slices[k].seq = s
            BY <2>2, <6>2, Zenon DEF Sampled1
          <6>4. k < i
            BY <2>2, <3>2, <6>3
          <6> QED BY <2>2, <2>4, <3>2, <6>2, <6>3, <6>4 DEF Settled, Sampled1, Finished
        <5>2. CASE ~InBatch(s)
          BY <5>2, Zenon DEF Settled
        <5> QED BY <5>1, <5>2, Zenon
      <4>2. RowsSettled(s)
        BY <2>3, <4>1, Zenon DEF PInv
      <4> QED BY <2>2, <2>4, <3>2, <4>2, <1>RowsSettledSame, Zenon
    <3> QED BY <3>1, <3>2, Zenon
  <2> QED BY <2>2, <2>3, <2>5, <2>7, <2>8, Zenon DEF PInv
<1> SUFFICES ASSUME HInv, BInv, Countable, PInv, [Next]_vars PROVE PInv'
  BY Zenon
<1>1. CASE Client
  BY <1>1, <1>PInvQuiet, Zenon DEF Client
<1>2. CASE Loop
  BY <1>2, <1>PInvQuiet, <1>PInvReceive, <1>PInvFree, <1>PInvDecode, <1>PInvChunk, <1>PInvAdmit,
     <1>PInvDecide,
     <1>PInvAppend, <1>PInvForward, <1>PInvDropped, <1>PInvAbort, <1>PInvSample, <1>PInvCleanup,
        Zenon DEF Loop
<1>3. CASE ForwardFails \/ ForwardPanics
  BY <1>3, <1>PInvForward, <1>PInvDropped, Zenon
<1>4. CASE Ended \/ UNCHANGED vars
  BY <1>4, <1>PInvQuiet, Zenon DEF Ended
<1> QED BY <1>1, <1>2, <1>3, <1>4, Zenon DEF Next

LEMMA RowsFollow ==
  ASSUME BInv, PInv
  PROVE  CacheFollows
<1>1. CacheMatchesProgress
  <2> SUFFICES ASSUME pc \in {"drain", "recv", "decode"}, ~poisoned
               PROVE  \A r \in Active : prompt_len[r] > 0 => len[active[r].handle] = Progress(r)
    BY Zenon DEF CacheMatchesProgress, Progress
  <2>1. \A r \in Active : RowsSettled(r)
    BY IdleSettled, Zenon DEF Idle
  <2> QED BY <2>1, Zenon DEF RowsSettled
<1>2. NoSpareBlocks
  BY Zenon DEF PInv, SpareOnlyInAbort, NoSpareBlocks, Sound
<1> QED BY <1>1, <1>2, Zenon DEF PInv, CacheFollows

-----------------------------------------------------------------------------
(* From here on the proofs count.                                          *)
INSTANCE FiniteSetTheorems

LEMMA CountableInit == Init => Countable
<1> SUFFICES ASSUME Init PROVE Countable
  BY Zenon
<1>1. Active = {}
  BY Zenon DEF Init, Active
<1>2. ASSUME NEW S \in SUBSET Active PROVE S = {}
  BY <1>1, Zenon
<1> QED BY <1>2, FS_EmptySet DEF Countable

(* Only Admit adds a sequence, and it adds one.                            *)
LEMMA CountableNext == HInv /\ BInv /\ Countable /\ [Next]_vars => Countable'
<1> SUFFICES ASSUME HInv, BInv, Countable, [Next]_vars PROVE Countable'
  BY Zenon
<1>1. IsFiniteSet(Active)
  BY Zenon DEF Countable
<1>2. SUFFICES \E r : Active' \subseteq Active \cup {r}
  <2>1. PICK r : Active' \subseteq Active \cup {r}
    BY <1>2, Zenon
  <2>2. IsFiniteSet(Active \cup {r})
    BY <1>1, FS_AddElement, Zenon
  <2>3. ASSUME NEW S \in SUBSET Active' PROVE IsFiniteSet(S)
    BY <2>1, <2>2, FS_Subset, Zenon
  <2> QED BY <2>3, FS_CardinalityType, Zenon DEF Countable
<1>3. CASE UNCHANGED active
  BY <1>3, Zenon DEF Active
<1>4. CASE \E r \in Active : ContinueChunk(r)
  <2>1. PICK r \in Active : ContinueChunk(r)
    BY <1>4, Zenon
  <2>2. \E n \in Nat : ChunkCut(r, n)
    BY <2>1, ChunkStep, Zenon
  <2> QED BY <2>2, Zenon DEF ChunkCut
<1>5. CASE Admit
  BY <1>5, AdmitStep, Zenon DEF Admitted
<1>6. CASE AbortOne
  BY <1>6, AbortStep, Zenon DEF Aborted
<1>7. CASE Sample
  BY <1>7, SampleStep, SampleKeeps, Zenon
<1>8. CASE Cleanup
  BY <1>8, CleanupStep, Zenon DEF Cleaned
<1>9. CASE Client \/ Ended \/ UNCHANGED vars
  BY <1>3, <1>9, Zenon DEF Client, Submit, Disconnect, Snapshot, DropHandle, Ended, vars
<1>10. CASE Drain \/ DrainEmpty \/ Recv \/ RecvNone \/ LockFails \/ NextIteration
  BY <1>3, <1>10, ZenonT(30) DEF Drain, DrainEmpty, Recv, RecvNone, LockFails, NextIteration,
     loopFrame
<1>11. CASE DecodePass \/ AdmitFails \/ Decide \/ AppendSlice \/ AppendSliceOom
  BY <1>3, <1>11, Zenon DEF DecodePass, AdmitFails, Decide, AppendSlice, AppendSliceOom,
     forwardFrame
<1>12. CASE ForwardDone \/ ForwardFails \/ ForwardPanics \/ AbortDone
            \/ (\E h \in completed : FreeCompleted(h))
  BY <1>3, <1>12, Zenon DEF ForwardDone, ForwardFails, ForwardPanics, AbortDone, FreeCompleted,
     forwardFrame
<1> QED BY <1>4, <1>5, <1>6, <1>7, <1>8, <1>9, <1>10, <1>11, <1>12, Zenon DEF Next, Loop

-----------------------------------------------------------------------------
(***************************************************************************)
(* RInv: while there is room, every open sequence is in the batch          *)
(* or waits for a chunk; the counters count the tokens of the batch.       *)
(***************************************************************************)

RoomMeansCovered ==
  pc = "prefill" /\ Size < MaxBatchSize /\ total_tokens < MaxBatchTokens =>
    \A r \in Active \ closed : active[r].remaining > 0 \/ InBatch(r)

Counted ==
  /\ total_tokens = prefill_tokens + Len(decodes)
  /\ IsFiniteSet(BatchTokens(prefills)) /\ Cardinality(BatchTokens(prefills)) = prefill_tokens
  /\ IsFiniteSet(BatchTokens(decodes)) /\ Cardinality(BatchTokens(decodes)) = Len(decodes)

RInv == RoomMeansCovered /\ Counted /\ OpenActiveBounded

(* RInv is inductive.                                                      *)

(* Counting what a list names.                                             *)
LEMMA ListedOnce ==
  ASSUME NEW n \in Nat, NEW f, f = [k \in 1 .. n |-> f[k]],
         \A j, k \in 1 .. n : f[j] = f[k] => j = k,
         NEW S, S = {f[k] : k \in 1 .. n}
  PROVE  IsFiniteSet(S) /\ Cardinality(S) = n
<1>1. f \in Bijection(1 .. n, S)
  BY Zenon DEF Bijection, Injection, Surjection, IsInjective
<1>2. ExistsBijection(1 .. n, S)
  BY <1>1, Zenon DEF ExistsBijection
<1>3. Cardinality(S) = n
  BY <1>2, FS_CountingElements, Zenon
<1>4. IsFiniteSet(S)
  BY <1>2, FS_NatBijection, Zenon
<1> QED BY <1>3, <1>4, Zenon

LEMMA NoTokens == BatchTokens(<<>>) = {} /\ IsFiniteSet(BatchTokens(<<>>))
                  /\ Cardinality(BatchTokens(<<>>)) = 0
<1>1. BatchTokens(<<>>) = {}
  BY DEF BatchTokens, Range
<1> QED BY <1>1, FS_EmptySet, Zenon

(* The tokens of the batch are those of its two parts.                     *)
LEMMA TokensOfBatch ==
  ASSUME BInv, Counted
  PROVE  IsFiniteSet(BatchTokens(Slices)) /\ Cardinality(BatchTokens(Slices)) <= total_tokens
<1>1. prefills \in Seq(JobType) /\ decodes \in Seq(JobType)
  BY Zenon DEF BInv, Typed
<1>2. Range(Slices) \subseteq Range(prefills) \cup Range(decodes)
  BY <1>1 DEF Slices, Range
<1> DEFINE A == BatchTokens(prefills)
           B == BatchTokens(decodes)
           S == BatchTokens(Slices)
<1>3. S \in SUBSET (A \cup B)
  BY <1>2, Zenon DEF BatchTokens
<1>4. IsFiniteSet(A) /\ IsFiniteSet(B) /\ Cardinality(A) + Cardinality(B) = total_tokens
  BY Zenon DEF Counted
<1> HIDE DEF A, B, S
<1>5. IsFiniteSet(A \cup B) /\ Cardinality(A \cup B) = Cardinality(A) + Cardinality(B) - Cardinality(A \cap B)
  BY <1>4, FS_Union, Zenon
<1>6. IsFiniteSet(A \cap B)
  BY <1>4, FS_Intersection, Zenon
<1>7. Cardinality(A) \in Nat /\ Cardinality(B) \in Nat /\ Cardinality(A \cap B) \in Nat
  BY <1>4, <1>6, FS_CardinalityType, Zenon
<1>8. IsFiniteSet(S) /\ Cardinality(S) <= Cardinality(A \cup B)
  BY <1>3, <1>5, FS_Subset, Zenon
<1>9. Cardinality(S) \in Nat
  BY <1>8, FS_CardinalityType, Zenon
<1> QED BY <1>4, <1>5, <1>7, <1>8, <1>9 DEF S

LEMMA RInvInit == Init => RInv
<1> SUFFICES ASSUME Init PROVE RInv
  BY Zenon
<1>1. prefills = <<>> /\ decodes = <<>> /\ total_tokens = 0 /\ prefill_tokens = 0 /\ pc = "drain"
      /\ Active = {}
  BY Zenon DEF Init, Active
<1>2. BatchTokens(prefills) = BatchTokens(<<>>) /\ BatchTokens(decodes) = BatchTokens(<<>>)
      /\ Len(decodes) = 0 /\ Active \ closed = {}
  BY <1>1, Zenon
<1> QED BY <1>1, <1>2, NoTokens, FS_EmptySet, LoopAssumption, SMTT(30)
        DEF RInv, RoomMeansCovered, Counted, OpenActiveBounded

LEMMA RInvNext == HInv /\ BInv /\ Countable /\ RInv /\ [Next]_vars => RInv'
<1>ListedAtMost.
     ASSUME NEW n \in Nat, NEW f, f = [k \in 1 .. n |-> f[k]],
            NEW T, T \subseteq {f[k] : k \in 1 .. n}
     PROVE  IsFiniteSet(T) /\ Cardinality(T) <= n
  <2> USE <1>ListedAtMost
  <2> DEFINE S == {f[k] : k \in 1 .. n}
  <2>1. f \in Surjection(1 .. n, S)
    BY Zenon DEF Surjection
  <2>2. IsFiniteSet(1 .. n) /\ Cardinality(1 .. n) = n
    BY FS_Interval
  <2> HIDE DEF S
  <2>3. IsFiniteSet(S) /\ Cardinality(S) <= n
    BY <2>1, <2>2, FS_Surjection, SMTT(30)
  <2>4. T \in SUBSET S
    BY Zenon DEF S
  <2>5. IsFiniteSet(T) /\ Cardinality(T) <= Cardinality(S)
    BY <2>3, <2>4, FS_Subset, Zenon
  <2>6. Cardinality(T) \in Nat /\ Cardinality(S) \in Nat
    BY <2>3, <2>5, FS_CardinalityType, ZenonT(30)
  <2> QED BY <2>3, <2>5, <2>6
<1>TokensOf.
     ASSUME NEW r, NEW n \in Nat
     PROVE  IsFiniteSet({r} \X (1 .. n)) /\ Cardinality({r} \X (1 .. n)) = n
  <2> USE <1>TokensOf
  <2>1. IsFiniteSet({r}) /\ Cardinality({r}) = 1
    BY FS_Singleton, Zenon
  <2>2. IsFiniteSet(1 .. n) /\ Cardinality(1 .. n) = n
    BY FS_Interval
  <2>3. IsFiniteSet({r} \X (1 .. n)) /\ Cardinality({r} \X (1 .. n)) = Cardinality({r}) * Cardinality(1 .. n)
    BY <2>1, <2>2, FS_Product, ZenonT(30)
  <2> QED BY <2>1, <2>2, <2>3
(* One more job: its tokens are new if its sequence is.                    *)
<1>TokensAdded.
     ASSUME NEW p \in Seq(JobType), NEW x \in JobType, \A k \in 1 .. Len(p) : p[k].seq # x.seq,
            IsFiniteSet(BatchTokens(p))
     PROVE  /\ IsFiniteSet(BatchTokens(Append(p, x)))
            /\ Cardinality(BatchTokens(Append(p, x))) = Cardinality(BatchTokens(p)) + x.n
  <2> USE <1>TokensAdded
  <2> DEFINE A == BatchTokens(p)
             B == {x.seq} \X (1 .. x.n)
  <2>1. Range(Append(p, x)) = Range(p) \cup {x}
    <3>1. \A y \in Range(Append(p, x)) : y \in Range(p) \cup {x}
      BY DEF Range
    <3>2. x \in Range(Append(p, x))
      <4>1. Append(p, x)[Len(p) + 1] = x /\ Len(p) + 1 \in DOMAIN Append(p, x)
        OBVIOUS
      <4> QED BY <4>1, Zenon DEF Range
    <3>3. \A y \in Range(p) : y \in Range(Append(p, x))
      <4>1. \A k \in DOMAIN p : Append(p, x)[k] = p[k] /\ k \in DOMAIN Append(p, x)
        OBVIOUS
      <4> QED BY <4>1, Zenon DEF Range
    <3> QED BY <3>1, <3>2, <3>3, Zenon
  <2>2. BatchTokens(Append(p, x)) = A \cup B
    BY <2>1 DEF BatchTokens
  <2>3. A \cap B = {}
    BY DEF BatchTokens, Range
  <2>4. x.n \in Nat
    BY Zenon DEF JobType
  <2>5. IsFiniteSet(B) /\ Cardinality(B) = x.n
    BY <2>4, <1>TokensOf, Zenon
  <2> HIDE DEF A, B
  <2>6. IsFiniteSet(A \cup B) /\ Cardinality(A \cup B) = Cardinality(A) + Cardinality(B) - Cardinality(A \cap B)
    BY <2>5, FS_Union, Zenon DEF A
  <2>7. Cardinality(A) \in Nat /\ Cardinality(A \cap B) = 0
    BY <2>3, FS_CardinalityType, FS_EmptySet, Zenon DEF A
  <2> QED BY <2>2, <2>4, <2>5, <2>6, <2>7, SMTT(30) DEF A
(* A list of decode jobs has one token for each.                           *)
<1>TokensDecoded.
     ASSUME NEW d \in Seq(JobType), \A k \in 1 .. Len(d) : d[k].n = 1,
            \A j, k \in 1 .. Len(d) : d[j].seq = d[k].seq => j = k
     PROVE  IsFiniteSet(BatchTokens(d)) /\ Cardinality(BatchTokens(d)) = Len(d)
  <2> USE <1>TokensDecoded
  <2>0. PICK f : f = [k \in 1 .. Len(d) |-> <<d[k].seq, 1>>]
    BY Zenon
  <2>1. Len(d) \in Nat /\ DOMAIN d = 1 .. Len(d)
    OBVIOUS
  <2>2. f = [k \in 1 .. Len(d) |-> f[k]]
        /\ \A j, k \in 1 .. Len(d) : f[j] = f[k] => j = k
    BY <2>0, Zenon
  <2>3. BatchTokens(d) = {f[k] : k \in 1 .. Len(d)}
    <3>1. Range(d) = {d[k] : k \in 1 .. Len(d)}
      BY <2>1, Zenon DEF Range
    <3>2. \A k \in 1 .. Len(d) : {d[k].seq} \X (1 .. d[k].n) = {f[k]}
      BY <2>0
    <3>3. ASSUME NEW x \in BatchTokens(d) PROVE \E k \in 1 .. Len(d) : x = f[k]
      <4>1. PICK s \in Range(d) : x \in {s.seq} \X (1 .. s.n)
        BY <3>3, Zenon DEF BatchTokens
      <4>2. PICK k \in 1 .. Len(d) : s = d[k]
        BY <3>1, Zenon
      <4>3. x \in {f[k]}
        BY <3>2, <4>1, <4>2, Zenon
      <4> QED BY <4>3, Zenon
    <3>4. ASSUME NEW k \in 1 .. Len(d) PROVE f[k] \in BatchTokens(d)
      <4>1. d[k] \in Range(d)
        BY <3>1, Zenon
      <4>2. f[k] \in {d[k].seq} \X (1 .. d[k].n)
        BY <3>2, Zenon
      <4> QED BY <4>1, <4>2, Zenon DEF BatchTokens
    <3> QED BY <3>3, <3>4
  <2> QED BY <2>1, <2>2, <2>3, ListedOnce
<1>OpenKept.
     ASSUME BInv, Countable, OpenActiveBounded, Active' \ closed' \subseteq Active \ closed
     PROVE  OpenActiveBounded'
  <2> USE <1>OpenKept
  <2> DEFINE S == Active \ closed
             T == Active' \ closed'
  <2>1. IsFiniteSet(S) /\ T \in SUBSET S
    BY Zenon DEF Countable
  <2>2. Cardinality(S) <= MaxBatchSize /\ MaxBatchSize \in Nat
    BY LoopAssumption, Zenon DEF OpenActiveBounded
  <2> HIDE DEF S, T
  <2>3. IsFiniteSet(T) /\ Cardinality(T) <= Cardinality(S)
    BY <2>1, FS_Subset, Zenon
  <2>4. Cardinality(T) \in Nat /\ Cardinality(S) \in Nat
    BY <2>1, <2>3, FS_CardinalityType, Zenon
  <2>5. Cardinality(T) <= MaxBatchSize
    BY <2>2, <2>3, <2>4
  <2> QED BY <2>5, Zenon DEF T, OpenActiveBounded
(* Steps that neither build a batch nor admit a request.                   *)
<1>RInvKept.
     ASSUME BInv, Countable, RInv, UNCHANGED <<prefills, decodes, total_tokens, prefill_tokens>>,
            Active' \subseteq Active, closed \subseteq closed',
            pc' # "prefill" \/ UNCHANGED <<pc, active>>
     PROVE  RInv'
  <2> USE <1>RInvKept
  <2>1. OpenActiveBounded'
    BY <1>OpenKept, Zenon DEF RInv
  <2>2. Counted'
    BY Zenon DEF RInv, Counted
  <2>3. RoomMeansCovered'
    BY Zenon DEF RInv, RoomMeansCovered, InBatch, Size, Slices, Active
  <2> QED BY <2>1, <2>2, <2>3, Zenon DEF RInv
<1>RInvDropped.
     ASSUME BInv, Countable, RInv, DecisionDropped, Active' \subseteq Active, closed' = closed, pc' # "prefill"
     PROVE  RInv'
  <2> USE <1>RInvDropped
  <2>1. OpenActiveBounded'
    BY <1>OpenKept, Zenon DEF RInv
  <2>2. prefills' = <<>> /\ decodes' = <<>> /\ total_tokens' = 0 /\ prefill_tokens' = 0
    BY Zenon DEF DecisionDropped
  <2>3. Counted'
    <3>1. BatchTokens(prefills') = BatchTokens(<<>>) /\ BatchTokens(decodes') = BatchTokens(<<>>)
          /\ Len(decodes') = 0
      BY <2>2, Zenon
    <3> QED BY <2>2, <3>1, NoTokens, SMTT(30) DEF Counted
  <2>4. RoomMeansCovered'
    BY Zenon DEF RoomMeansCovered
  <2> QED BY <2>1, <2>3, <2>4, Zenon DEF RInv
<1>RInvQuiet.
     ASSUME BInv, Countable, RInv,
            \/ \E r \in Requests : Submit(r) \/ Disconnect(r)
            \/ Snapshot \/ DropHandle \/ AdmitFails
            \/ (\E h \in completed : FreeCompleted(h)) \/ UNCHANGED vars
     PROVE  RInv'
  <2> USE <1>RInvQuiet
  <2>1. /\ UNCHANGED <<prefills, decodes, total_tokens, prefill_tokens, pc, active>>
        /\ closed \subseteq closed'
    BY Zenon DEF Submit, Disconnect, Snapshot, DropHandle, AdmitFails, FreeCompleted, vars,
           clientVars, decisionVars, scheduleFrame
  <2>2. Active' = Active
    BY <2>1, Zenon DEF Active
  <2> QED BY <2>1, <2>2, <1>RInvKept
<1>RInvReceive.
     ASSUME BInv, Countable, RInv, Drain \/ DrainEmpty \/ Recv \/ RecvNone \/ LockFails \/ NextIteration
     PROVE  RInv'
  <2> USE <1>RInvReceive
  <2>1. /\ UNCHANGED <<prefills, decodes, total_tokens, prefill_tokens, active, closed>>
        /\ pc' \in {"drain", "recv", "decode", "returned", "dead"}
    BY Zenon DEF Drain, DrainEmpty, Recv, RecvNone, LockFails, NextIteration, HandleCommand,
       loopFrame,
           clientVars, decisionVars
  <2>2. Active' = Active
    BY <2>1, Zenon DEF Active
  <2> QED BY <2>1, <2>2, <1>RInvKept, Zenon
<1>RInvForward.
     ASSUME HInv, BInv, Countable, RInv,
            AppendSlice \/ AppendSliceOom \/ ForwardFails \/ ForwardDone \/ AbortOne \/ Sample
     PROVE  RInv'
  <2> USE <1>RInvForward
  <2>1. CASE AppendSlice \/ AppendSliceOom \/ ForwardFails \/ ForwardDone
    <3>1. /\ UNCHANGED <<prefills, decodes, total_tokens, prefill_tokens, active, closed>>
          /\ pc' \in {"forward", "abort", "sample"}
      BY <2>1, Zenon DEF AppendSlice, AppendSliceOom, ForwardFails, ForwardDone, forwardFrame,
                  clientVars, decisionVars
    <3>2. Active' = Active
      BY <3>1, Zenon DEF Active
    <3> QED BY <3>1, <3>2, <1>RInvKept, Zenon
  <2>2. CASE AbortOne
    <3>1. PICK r \in Active : Aborted(r)
      BY <2>2, AbortStep, Zenon
    <3> QED BY <3>1, <1>RInvKept, Zenon DEF Aborted, clientVars, decisionVars
  <2>3. CASE Sample
    <3>1. PICK r \in Active : SampleEffects(r)
      BY <2>3, SampleStep, Zenon
    <3>2. Active' = Active
      BY <3>1, SampleKeeps, Zenon
    <3> QED BY <3>1, <3>2, <1>RInvKept, Zenon DEF SampleEffects, sampleFrame, clientVars,
               decisionVars
  <2> QED BY <2>1, <2>2, <2>3, Zenon
<1>RInvEnds.
     ASSUME HInv, BInv, Countable, RInv, ForwardPanics \/ AbortDone \/ Cleanup \/ Decide
     PROVE  RInv'
  <2> USE <1>RInvEnds
  <2>1. CASE ForwardPanics \/ AbortDone
    <3>1. DecisionDropped /\ UNCHANGED <<active, closed>> /\ pc' = "drain"
      BY <2>1, Zenon DEF ForwardPanics, AbortDone, forwardFrame, clientVars
    <3>2. Active' = Active
      BY <3>1, Zenon DEF Active
    <3> QED BY <3>1, <3>2, <1>RInvDropped, Zenon
  <2>2. CASE Cleanup
    <3>1. PICK F, R : Cleaned(F, R)
      BY <2>2, CleanupStep, Zenon
    <3> QED BY <3>1, <1>RInvDropped, Zenon DEF Cleaned, clientVars
  <2>3. CASE Decide
    <3>1. /\ UNCHANGED <<active, closed>>
          /\ \/ pc' = "forward" /\ UNCHANGED decisionVars
             \/ pc' = "drain" /\ DecisionDropped
      BY <2>3, Zenon DEF Decide, clientVars
    <3>2. Active' = Active
      BY <3>1, Zenon DEF Active
    <3> QED BY <3>1, <3>2, <1>RInvDropped, <1>RInvKept, Zenon DEF decisionVars
  <2> QED BY <2>1, <2>2, <2>3, Zenon
(* With room left, the decode pass took every open decodable sequence.     *)
<1>RInvDecode.
     ASSUME BInv, Countable, RInv, DecodePass
     PROVE  RInv'
  <2> USE <1>RInvDecode
  <2>1. PICK room, open : DecodeBatch(room, open)
    BY DecodeStep, Zenon
  <2>2. /\ UNCHANGED <<active, closed>> /\ Active' = Active
        /\ decodes' \in Seq(JobType) /\ Len(decodes') = room /\ room \in Nat /\ Size' = room
        /\ prefills' = <<>> /\ total_tokens' = room /\ prefill_tokens' = 0
    BY <2>1, ZenonT(30) DEF DecodeBatch, scheduleFrame, clientVars, Active
  <2>3. /\ \A k \in 1 .. room : decodes'[k].n = 1 /\ Slices'[k] = decodes'[k] /\ decodes'[k].seq \in open
        /\ \A j, k \in 1 .. room : decodes'[j].seq = decodes'[k].seq => j = k
    BY <2>1, JobFields DEF DecodeBatch
  <2>4. OpenActiveBounded'
    BY <2>2, <1>OpenKept, Zenon DEF RInv
  <2>5. Counted'
    <3>1. IsFiniteSet(BatchTokens(decodes')) /\ Cardinality(BatchTokens(decodes')) = Len(decodes')
      BY <2>2, <2>3, <1>TokensDecoded, Zenon
    <3>2. BatchTokens(prefills') = BatchTokens(<<>>)
      BY <2>2, Zenon
    <3> QED BY <2>2, <3>1, <3>2, NoTokens DEF Counted
  <2>6. RoomMeansCovered'
    <3> SUFFICES ASSUME room < MaxBatchSize, room < MaxBatchTokens,
                        NEW r \in Active \ closed, ~(active[r].remaining > 0)
                 PROVE  \E k \in 1 .. room : Slices'[k].seq = r
      BY <2>2, ZenonT(30) DEF RoomMeansCovered, InBatch
    <3>1. r \in open
      <4>1. active[r].remaining \in Nat
        BY SequenceOf, Zenon DEF BInv, Typed
      <4>2. active[r].remaining = 0
        BY <4>1, NotPositive, Zenon
      <4> QED BY <2>1, <4>2, Zenon DEF DecodeBatch
    <3>2. room = Cardinality(open) /\ IsFiniteSet(open)
      BY <2>1 DEF DecodeBatch
    <3>3. PICK f : f = [k \in 1 .. room |-> decodes'[k].seq]
      BY Zenon
    <3>4. f \in Injection(1 .. room, open)
      BY <2>3, <3>3, ZenonT(30) DEF Injection, IsInjective
    <3>5. Cardinality(1 .. room) = room
      BY <2>2, FS_Interval
    <3>6. f \in Surjection(1 .. room, open)
      BY <3>2, <3>4, <3>5, FS_Injection, Zenon
    <3>7. PICK k \in 1 .. room : f[k] = r
      BY <3>1, <3>6, Zenon DEF Surjection
    <3> QED BY <2>3, <3>3, <3>7, Zenon
  <2> QED BY <2>4, <2>5, <2>6, Zenon DEF RInv
(* A new prefill job: everything in the batch stays, its sequence joins.   *)
<1>RInvAdded.
     ASSUME BInv, RInv, NEW r, NEW h, NEW n, NEW p, SliceAdded(r, h, n, p)
     PROVE  /\ Counted'
            /\ \A s : InBatch(s) => InBatch(s)'
            /\ InBatch(r)'
  <2>0. Job(r, h, n, p).seq = r /\ Job(r, h, n, p).n = n
    BY Zenon DEF Job
  <2> USE <1>RInvAdded
  <2>1. /\ Len(prefills) \in Nat /\ Size \in Nat /\ Len(prefills) <= Size
        /\ prefills \in Seq(JobType) /\ decodes \in Seq(JobType)
    BY SlicesType, PrefillsFirst, Zenon DEF BInv, Typed
  <2>2. /\ Job(r, h, n, p).seq = r /\ Job(r, h, n, p).n = n /\ Job(r, h, n, p) \in JobType
        /\ prefills' = Append(prefills, Job(r, h, n, p)) /\ decodes' = decodes
        /\ total_tokens' = total_tokens + n /\ prefill_tokens' = prefill_tokens + n /\ n \in Nat
        /\ Size' = Size + 1
        /\ \A k \in 1 .. Size : Slices[k].seq # r
        /\ \A k \in 1 .. (Size + 1) :
             Slices'[k] = IF k <= Len(prefills) THEN Slices[k]
                          ELSE IF k = Len(prefills) + 1 THEN Job(r, h, n, p) ELSE Slices[k - 1]
    BY <2>0, ZenonT(30) DEF SliceAdded
  <2>3. Counted'
    <3> DEFINE x == Job(r, h, n, p)
    <3>1. \A k \in 1 .. Len(prefills) : prefills[k].seq # x.seq
      <4> SUFFICES ASSUME NEW k \in 1 .. Len(prefills) PROVE prefills[k].seq # r
        BY <2>2, Zenon
      <4>1. Slices[k] = prefills[k]
        BY PrefillsFirst, Zenon DEF BInv
      <4>2. k \in 1 .. Size
        BY <2>1
      <4> QED BY <2>2, <4>1, <4>2, Zenon
    <3>2. IsFiniteSet(BatchTokens(prefills))
      BY Zenon DEF RInv, Counted
    <3>3. /\ IsFiniteSet(BatchTokens(Append(prefills, x)))
          /\ Cardinality(BatchTokens(Append(prefills, x))) = Cardinality(BatchTokens(prefills)) + x.n
      BY <2>1, <2>2, <3>1, <3>2, <1>TokensAdded, Zenon
    <3>4. /\ IsFiniteSet(BatchTokens(prefills'))
          /\ Cardinality(BatchTokens(prefills')) = prefill_tokens'
      BY <2>2, <3>3, Zenon DEF RInv, Counted
    <3>5. total_tokens' = prefill_tokens' + Len(decodes')
      <4>1. PICK t \in Nat, u \in Nat, d \in Nat :
              t = total_tokens /\ u = prefill_tokens /\ d = Len(decodes)
        BY SlicesType, Zenon DEF BInv, Typed
      <4>2. t = u + d
        BY <4>1, Zenon DEF RInv, Counted
      <4>3. total_tokens' = t + n /\ prefill_tokens' = u + n /\ Len(decodes') = d /\ n \in Nat
        BY <2>2, <4>1, Zenon
      <4>4. t + n = (u + n) + d
        BY <4>2, <4>3
      <4> QED BY <4>3, <4>4, Zenon
    <3> QED BY <2>2, <3>4, <3>5, ZenonT(30) DEF RInv, Counted
  <2>4. ASSUME NEW s, InBatch(s) PROVE InBatch(s)'
    <3>1. PICK k \in 1 .. Size : Slices[k].seq = s
      BY <2>4, Zenon DEF InBatch
    <3>2. CASE k <= Len(prefills)
      <4>1. k \in 1 .. (Size + 1) /\ Slices'[k] = Slices[k]
        <5>1. k \in 1 .. (Size + 1)
          BY <2>1
        <5> QED BY <2>2, <3>2, <5>1, Zenon
      <4> QED BY <2>2, <3>1, <4>1, ZenonT(30) DEF InBatch
    <3>3. CASE k > Len(prefills)
      <4>1. k + 1 \in 1 .. (Size + 1) /\ Slices'[k + 1] = Slices[k]
        <5>1. /\ k + 1 \in 1 .. (Size + 1) /\ ~(k + 1 <= Len(prefills))
              /\ k + 1 # Len(prefills) + 1 /\ (k + 1) - 1 = k
          BY <2>1, <3>3
        <5> QED BY <2>2, <5>1, Zenon
      <4> QED BY <2>2, <3>1, <4>1, ZenonT(30) DEF InBatch
    <3> QED BY <2>1, <3>2, <3>3, SMTT(30)
  <2>5. InBatch(r)'
    <3>1. Len(prefills) + 1 \in 1 .. (Size + 1) /\ Slices'[Len(prefills) + 1] = Job(r, h, n, p)
      <4>1. Len(prefills) + 1 \in 1 .. (Size + 1) /\ ~(Len(prefills) + 1 <= Len(prefills))
        BY <2>1
      <4> QED BY <2>2, <4>1, Zenon
    <3> QED BY <2>2, <3>1, ZenonT(30) DEF InBatch
  <2> QED BY <2>3, <2>4, <2>5, ZenonT(30)
<1>RInvChunk.
     ASSUME BInv, Countable, RInv, NEW r \in Active, ContinueChunk(r)
     PROVE  RInv'
  <2> USE <1>RInvChunk
  <2>1. PICK n \in Nat : ChunkCut(r, n)
    BY ChunkStep, Zenon
  <2>2. /\ SliceAdded(r, active[r].handle, n, active[r].current_pos)
        /\ Active' = Active /\ closed' = closed /\ \A s \in Active \ {r} : active'[s] = active[s]
    BY <2>1, Zenon DEF ChunkCut, clientVars
  <2>3. Counted' /\ (\A s : InBatch(s) => InBatch(s)') /\ InBatch(r)'
    BY <2>2, <1>RInvAdded, Zenon
  <2>4. OpenActiveBounded'
    <3>1. Active' \ closed' \subseteq Active \ closed
      BY <2>2, Zenon
    <3> QED BY <3>1, <1>OpenKept, Zenon DEF RInv
  <2>5. RoomMeansCovered'
    <3> SUFFICES ASSUME NEW s \in Active \ closed, s # r
                 PROVE  active[s].remaining > 0 \/ InBatch(s)'
      BY <2>2, <2>3, Zenon DEF RoomMeansCovered
    <3>1. pc = "prefill" /\ Size < MaxBatchSize /\ total_tokens < MaxBatchTokens
      BY <2>2, Zenon DEF SliceAdded
    <3> QED BY <2>3, <3>1, Zenon DEF RInv, RoomMeansCovered
  <2> QED BY <2>3, <2>4, <2>5 DEF RInv
(* Admission needs room, so every open sequence has a slice.               *)
<1>RInvAdmit.
     ASSUME HInv, BInv, RInv, Admit
     PROVE  RInv'
  <2> USE <1>RInvAdmit
  <2>0. PICK r : \E n \in Nat : Admitted(r, n)
    BY AdmitStep, Zenon
  <2>1. PICK n \in Nat : Admitted(r, n)
    BY <2>0, Zenon
  <2>2. /\ SliceAdded(r, next_id, n, 0)
        /\ Active' = Active \cup {r} /\ closed' = closed /\ \A s \in Active : active'[s] = active[s]
        /\ Chunked = {} /\ r \notin Active
    BY <2>1, Zenon DEF Admitted, clientVars
  <2>3. Counted' /\ (\A s : InBatch(s) => InBatch(s)') /\ InBatch(r)'
    BY <2>2, <1>RInvAdded, Zenon
  <2>4. pc = "prefill" /\ Size < MaxBatchSize /\ total_tokens < MaxBatchTokens
    BY <2>2, Zenon DEF SliceAdded
  <2>5. ASSUME NEW s \in Active \ closed PROVE InBatch(s)
    <3>1. CASE active[s].remaining > 0
      <4>1. PICK k \in DOMAIN prefills : prefills[k].seq = s
        BY <2>2, <3>1, ZenonT(30) DEF Chunked
      <4>2. k \in 1 .. Size /\ Slices[k] = prefills[k]
        BY <4>1, PrefillsFirst, Zenon DEF BInv
      <4> QED BY <4>1, <4>2, Zenon DEF InBatch
    <3> QED BY <2>4, <3>1, Zenon DEF RInv, RoomMeansCovered
  <2>6. RoomMeansCovered'
    BY <2>2, <2>3, <2>5, Zenon DEF RoomMeansCovered
  <2>7. OpenActiveBounded'
    <3> DEFINE S == Active \ closed
               T == Active' \ closed'
    <3>1. PICK f : f = [k \in 1 .. Size |-> Slices[k].seq]
      BY Zenon
    <3>2. Size \in Nat /\ MaxBatchSize \in Nat
      BY SlicesType, LoopAssumption, Zenon DEF BInv
    <3>3. S \subseteq {f[k] : k \in 1 .. Size}
      BY <2>5, <3>1, Zenon DEF InBatch
    <3>4. T \in SUBSET (S \cup {r})
      BY <2>2, Zenon
    <3> HIDE DEF S, T
    <3>5. IsFiniteSet(S) /\ Cardinality(S) <= Size
      <4>1. f = [k \in 1 .. Size |-> f[k]]
        BY <3>1, Zenon
      <4> QED BY <3>2, <3>3, <4>1, <1>ListedAtMost, Zenon
    <3>6. IsFiniteSet(S \cup {r}) /\ Cardinality(S \cup {r}) <= Cardinality(S) + 1
      <4>1. /\ IsFiniteSet(S \cup {r})
            /\ Cardinality(S \cup {r}) = IF r \in S THEN Cardinality(S) ELSE Cardinality(S) + 1
        BY <3>5, FS_AddElement, Zenon
      <4>2. Cardinality(S) \in Nat
        BY <3>5, FS_CardinalityType, Zenon
      <4> QED BY <4>1, <4>2
    <3>7. IsFiniteSet(T) /\ Cardinality(T) <= Cardinality(S \cup {r})
      BY <3>4, <3>6, FS_Subset, Zenon
    <3>8. Cardinality(S) \in Nat /\ Cardinality(T) \in Nat /\ Cardinality(S \cup {r}) \in Nat
      BY <3>5, <3>6, <3>7, FS_CardinalityType, ZenonT(30)
    <3>9. Cardinality(T) <= MaxBatchSize
      <4>1. PICK x \in Nat, y \in Nat, z \in Nat :
              x = Cardinality(S) /\ y = Cardinality(S \cup {r}) /\ z = Cardinality(T)
        BY <3>8, Zenon
      <4>2. PICK m \in Nat, t \in Nat : m = MaxBatchSize /\ t = Size
        BY <3>2, Zenon
      <4>3. t < m /\ x <= t /\ y <= x + 1 /\ z <= y
        BY <2>4, <3>5, <3>6, <3>7, <4>1, <4>2, Zenon
      <4>4. z <= m
        BY <4>3
      <4> QED BY <4>1, <4>2, <4>4, Zenon
    <3> QED BY <3>9, Zenon DEF OpenActiveBounded, T
  <2> QED BY <2>3, <2>6, <2>7, Zenon DEF RInv
<1> SUFFICES ASSUME HInv, BInv, Countable, RInv, [Next]_vars PROVE RInv'
  BY Zenon
<1>1. CASE Client
  BY <1>1, <1>RInvQuiet, Zenon DEF Client
<1>2. CASE Loop
  BY <1>2, <1>RInvQuiet, <1>RInvReceive, <1>RInvDecode, <1>RInvChunk, <1>RInvAdmit,
     <1>RInvForward, <1>RInvEnds, Zenon DEF Loop
<1>3. CASE ForwardFails \/ ForwardPanics \/ Ended \/ UNCHANGED vars
  BY <1>3, <1>RInvQuiet, <1>RInvForward, <1>RInvEnds, Zenon DEF Ended
<1> QED BY <1>1, <1>2, <1>3, Zenon DEF Next

LEMMA BatchesFollow ==
  ASSUME BInv, RInv
  PROVE  BatchWellFormed /\ OpenActiveBounded
<1>1. Len(Slices) = Size /\ DOMAIN Slices = 1 .. Size /\ Size <= MaxBatchSize
  BY SlicesType, Zenon DEF BInv, Capped
<1>2. IsInjective([k \in DOMAIN Slices |-> Slices[k].seq])
  BY <1>1, Zenon DEF BInv, OneSliceEach, IsInjective
<1>3. IsFiniteSet(BatchTokens(prefills)) /\ Cardinality(BatchTokens(prefills)) <= MaxPrefillTokens
  BY Zenon DEF RInv, Counted, BInv, Capped
<1>4. Cardinality(BatchTokens(Slices)) <= total_tokens /\ total_tokens <= MaxBatchTokens
      /\ total_tokens \in Nat /\ MaxBatchTokens \in Nat
  BY TokensOfBatch, LoopAssumption, Zenon DEF RInv, BInv, Capped, Typed
<1>5. Cardinality(BatchTokens(Slices)) <= MaxBatchTokens
  <2>1. IsFiniteSet(BatchTokens(Slices))
    BY TokensOfBatch, Zenon DEF RInv
  <2>2. Cardinality(BatchTokens(Slices)) \in Nat
    BY <2>1, FS_CardinalityType, Zenon
  <2> QED BY <1>4, <2>2
<1> QED BY <1>1, <1>2, <1>3, <1>5, Zenon DEF BatchWellFormed, RInv

LEMMA StreamsFollow ==
  ASSUME BInv, SInv
  PROVE  ClientsServed
<1>1. TokensDelivered
  BY Zenon DEF SInv, StreamOfActive, Owed, TokensDelivered
<1>2. ASSUME NEW r \in Requests
      PROVE  /\ events[r] \in Seq(Event) /\ max_tokens[r] \in Nat
             /\ Ended1(events[r], max_tokens[r])
             /\ r \in Active => \A k \in 1 .. Len(events[r]) : events[r][k] # "finished"
  <2>1. events[r] \in Seq(Event) /\ max_tokens[r] \in Nat
    BY Zenon DEF SInv, BInv, Typed
  <2>2. CASE r \in Active
    <3>1. StreamOk(active[r], events[r], max_tokens[r]) /\ active[r] \in SequenceType
      BY <2>2, Zenon DEF SInv, StreamOfActive, BInv, Typed
    <3>2. Ended1(events[r], max_tokens[r])
      BY <2>1, <3>1, StreamEnds, Zenon
    <3> QED BY <2>1, <3>1, <3>2, Zenon DEF StreamOk
  <2>3. CASE r \notin Active
    BY <2>1, <2>3, Zenon DEF SInv, StreamEnded
  <2> QED BY <2>2, <2>3, Zenon
<1>3. ASSUME NEW r \in Requests
      PROVE  Cardinality({k \in 1 .. Len(events[r]) : events[r][k] = "token"}) <= max_tokens[r]
  <2> DEFINE m == max_tokens[r]
             T == {k \in 1 .. Len(events[r]) : events[r][k] = "token"}
  <2>1. T \in SUBSET (1 .. m) /\ m \in Nat
    BY <1>2 DEF Ended1
  <2> HIDE DEF m, T
  <2>2. IsFiniteSet(1 .. m) /\ Cardinality(1 .. m) = m
    BY <2>1, FS_Interval
  <2>3. Cardinality(T) <= m
    BY <2>1, <2>2, FS_Subset, ZenonT(30)
  <2> QED BY <2>3, ZenonT(30) DEF m, T
<1>4. StreamsWellFormed
  BY <1>2, <1>3, Zenon DEF StreamsWellFormed, Ended1
<1> QED BY <1>1, <1>4, Zenon DEF ClientsServed

-----------------------------------------------------------------------------
(* CInv.  No block is lost: some assignment of the blocks to               *)
(* the free list (-1) and to the live handles has the sizes the cache      *)
(* counts.                                                                 *)
BlocksOf(o, x) == {b \in 1 .. NumBlocks : o[b] = x}

Assigns(o) ==
  /\ o \in [1 .. NumBlocks -> Live \cup {-1}]
  /\ num_free = Cardinality(BlocksOf(o, -1))
  /\ \A h \in Live : owned[h] = Cardinality(BlocksOf(o, h))

CInv == (\E o : Assigns(o)) /\ free_blocks \in 0 .. NumBlocks

LEMMA BlocksFinite ==
  ASSUME NEW T \in SUBSET (1 .. NumBlocks)
  PROVE  IsFiniteSet(T) /\ Cardinality(T) \in 0 .. NumBlocks
<1>1. IsFiniteSet(1 .. NumBlocks) /\ Cardinality(1 .. NumBlocks) = NumBlocks /\ NumBlocks \in Nat
  BY FS_Interval, PoolAssumption
<1>2. IsFiniteSet(T) /\ Cardinality(T) <= NumBlocks
  BY <1>1, FS_Subset, ZenonT(30)
<1>3. Cardinality(T) \in Nat
  BY <1>2, FS_CardinalityType, Zenon
<1> QED BY <1>1, <1>2, <1>3

LEMMA FreeBounded ==
  ASSUME CInv
  PROVE  num_free \in 0 .. NumBlocks
<1>1. PICK o : Assigns(o)
  BY Zenon DEF CInv
<1>2. BlocksOf(o, -1) \in SUBSET (1 .. NumBlocks)
  BY Zenon DEF BlocksOf
<1> QED BY <1>1, <1>2, BlocksFinite, Zenon DEF Assigns

LEMMA CInvInit == Init => CInv
<1> SUFFICES ASSUME Init PROVE CInv
  BY Zenon
<1>1. num_free = NumBlocks /\ owned = [h \in {} |-> 0] /\ free_blocks = 0 /\ NumBlocks \in Nat
  BY PoolAssumption, Zenon DEF Init, AccountingInit
<1>2. PICK o : o = [b \in 1 .. NumBlocks |-> -1]
  BY Zenon
<1>3. BlocksOf(o, -1) = 1 .. NumBlocks
  BY <1>2, Zenon DEF BlocksOf
<1>4. Cardinality(1 .. NumBlocks) = NumBlocks
  BY <1>1, FS_Interval
<1>5. Assigns(o)
  BY <1>1, <1>2, <1>3, <1>4, Zenon DEF Assigns, Live
<1> QED BY <1>1, <1>5 DEF CInv

LEMMA CInvNext == HInv /\ BInv /\ PInv /\ CInv /\ [Next]_vars => CInv'
<1>SubsetOfSize.
     ASSUME NEW S, IsFiniteSet(S), NEW k \in Nat, k <= Cardinality(S)
     PROVE  \E T \in SUBSET S : Cardinality(T) = k
  <2> USE <1>SubsetOfSize
  <2>1. PICK f : f \in Bijection(1 .. Cardinality(S), S)
    BY FS_CardinalityType, Zenon DEF ExistsBijection
  <2>2. Cardinality(S) \in Nat
    BY FS_CardinalityType, Zenon
  <2>3. PICK g : g = [x \in 1 .. k |-> f[x]]
    BY Zenon
  <2>4. \A x \in 1 .. k : x \in 1 .. Cardinality(S) /\ f[x] \in S /\ g[x] = f[x]
    BY <2>1, <2>2, <2>3 DEF Bijection, Injection
  <2>5. \A x, y \in 1 .. k : g[x] = g[y] => x = y
    BY <2>1, <2>4, Zenon DEF Bijection, Injection, IsInjective
  <2>6. PICK T : T = {g[x] : x \in 1 .. k}
    BY Zenon
  <2>7. Cardinality(T) = k
    BY <2>3, <2>5, <2>6, ListedOnce
  <2> QED BY <2>4, <2>6, <2>7, Zenon
(* k blocks go from the free list to h.                                    *)
<1>BlocksTaken.
     ASSUME NEW o, Assigns(o), NEW h \in Nat, NEW k \in Nat, k <= num_free,
            num_free' = num_free - k, Live' = Live \cup {h},
            owned'[h] = k + (IF h \in Live THEN owned[h] ELSE 0),
            \A g \in Live \ {h} : owned'[g] = owned[g], Live \subseteq Nat
     PROVE  \E q : Assigns(q)'
  <2> USE <1>BlocksTaken
  <2>1. PICK F, H : F = BlocksOf(o, -1) /\ H = BlocksOf(o, h)
    BY Zenon
  <2>2. /\ IsFiniteSet(F) /\ IsFiniteSet(H) /\ Cardinality(F) = num_free
        /\ Cardinality(F) \in Nat /\ Cardinality(H) \in Nat
    BY <2>1, BlocksFinite DEF BlocksOf, Assigns
  <2>3. PICK T \in SUBSET F : Cardinality(T) = k
    BY <2>2, <1>SubsetOfSize, Zenon
  <2>4. IsFiniteSet(T)
    BY <2>2, FS_Subset, Zenon
  <2>5. PICK q : q = [b \in 1 .. NumBlocks |-> IF b \in T THEN h ELSE o[b]]
    BY Zenon
  <2>6. q \in [1 .. NumBlocks -> Live' \cup {-1}]
    BY <2>5, Zenon DEF Assigns
  <2>7. BlocksOf(q, -1) = F \ T /\ BlocksOf(q, h) = H \cup T /\ H \cap T = {} /\ F \cap T = T
    <3>1. h # -1
      OBVIOUS
    <3>2. \A b \in 1 .. NumBlocks : q[b] = IF b \in T THEN h ELSE o[b]
      BY <2>5, Zenon
    <3>3. \A b : b \in F <=> b \in 1 .. NumBlocks /\ o[b] = -1
      BY <2>1, Zenon DEF BlocksOf
    <3>4. \A b : b \in H <=> b \in 1 .. NumBlocks /\ o[b] = h
      BY <2>1, Zenon DEF BlocksOf
    <3>5. \A b : b \in BlocksOf(q, -1) <=> b \in F \ T
      BY <2>3, <3>1, <3>2, <3>3, Zenon DEF BlocksOf
    <3>6. \A b : b \in BlocksOf(q, h) <=> b \in H \cup T
      BY <2>3, <3>2, <3>3, <3>4, ZenonT(30) DEF BlocksOf
    <3>7. H \cap T = {} /\ F \cap T = T
      BY <2>3, <3>1, <3>3, <3>4
    <3> QED BY <3>5, <3>6, <3>7, Zenon
  <2>8. Cardinality(BlocksOf(q, -1)) = num_free'
    BY <2>2, <2>3, <2>7, FS_Difference, ZenonT(30)
  <2>9. Cardinality(BlocksOf(q, h)) = Cardinality(H) + k
    <3>1. Cardinality(H \cap T) = 0
      BY <2>7, FS_EmptySet, Zenon
    <3>2. Cardinality(H \cup T) = Cardinality(H) + Cardinality(T) - Cardinality(H \cap T)
      BY <2>2, <2>4, FS_Union, Zenon
    <3> QED BY <2>2, <2>3, <2>7, <3>1, <3>2
  <2>10. owned'[h] = Cardinality(BlocksOf(q, h))
    <3>1. CASE h \in Live
      <4>1. owned'[h] = k + Cardinality(H)
        BY <2>1, <3>1, Zenon DEF Assigns
      <4>2. k + Cardinality(H) = Cardinality(H) + k
        BY <2>2
      <4> QED BY <2>9, <4>1, <4>2, Zenon
    <3>2. CASE h \notin Live
      <4>1. H = {}
        BY <2>1, <3>2 DEF BlocksOf, Assigns
      <4>2. owned'[h] = k + 0 /\ Cardinality(BlocksOf(q, h)) = 0 + k
        BY <2>9, <3>2, <4>1, FS_EmptySet, Zenon
      <4>3. k + 0 = 0 + k
        OBVIOUS
      <4> QED BY <4>2, <4>3, Zenon
    <3> QED BY <3>1, <3>2, Zenon
  <2>11. ASSUME NEW g \in Live \ {h} PROVE owned'[g] = Cardinality(BlocksOf(q, g))
    <3>1. g # -1
      OBVIOUS
    <3>2. BlocksOf(q, g) = BlocksOf(o, g)
      BY <2>1, <2>3, <2>5, <3>1, Zenon DEF BlocksOf
    <3> QED BY <3>2, Zenon DEF Assigns
  <2>12. Assigns(q)'
    BY <2>6, <2>8, <2>10, <2>11, Zenon DEF Assigns, BlocksOf
  <2> QED BY <2>12, Zenon
(* The blocks of h go back to the free list.                               *)
<1>BlocksGiven.
     ASSUME NEW o, Assigns(o), NEW h \in Live, Free(h), Live \subseteq Nat
     PROVE  \E q : Assigns(q)'
  <2> USE <1>BlocksGiven
  <2>1. PICK F, H : F = BlocksOf(o, -1) /\ H = BlocksOf(o, h)
    BY Zenon
  <2>2. /\ IsFiniteSet(F) /\ IsFiniteSet(H) /\ Cardinality(F) = num_free
        /\ Cardinality(H) = owned[h] /\ Cardinality(F) \in Nat /\ Cardinality(H) \in Nat
    <3>1. F \in SUBSET (1 .. NumBlocks) /\ H \in SUBSET (1 .. NumBlocks)
      BY <2>1, Zenon DEF BlocksOf
    <3>2. Cardinality(F) = num_free /\ Cardinality(H) = owned[h]
      BY <2>1, Zenon DEF Assigns
    <3> QED BY <3>1, <3>2, BlocksFinite
  <2>3. Live' = Live \ {h} /\ num_free' = num_free + owned[h] /\ \A g \in Live' : owned'[g] = owned[g]
    BY Zenon DEF Free, Live
  <2>4. PICK q : q = [b \in 1 .. NumBlocks |-> IF b \in H THEN -1 ELSE o[b]]
    BY Zenon
  <2>5. q \in [1 .. NumBlocks -> Live' \cup {-1}]
    BY <2>1, <2>3, <2>4, Zenon DEF Assigns, BlocksOf
  <2>6. h # -1 /\ \A g \in Live : g # -1
    OBVIOUS
  <2>7. BlocksOf(q, -1) = F \cup H /\ F \cap H = {}
    BY <2>1, <2>4, <2>6, ZenonT(30) DEF BlocksOf
  <2>8. Cardinality(BlocksOf(q, -1)) = num_free'
    <3>1. Cardinality(F \cup H) = Cardinality(F) + Cardinality(H) - Cardinality(F \cap H)
      BY <2>2, FS_Union, Zenon
    <3>2. Cardinality(F \cap H) = 0
      BY <2>7, FS_EmptySet, Zenon
    <3>3. PICK a \in Nat, b \in Nat : a = Cardinality(F) /\ b = Cardinality(H)
      BY <2>2, Zenon
    <3>4. num_free' = a + b
      BY <2>2, <2>3, <3>3, Zenon
    <3>5. Cardinality(BlocksOf(q, -1)) = a + b - 0
      BY <2>7, <3>1, <3>2, <3>3, Zenon
    <3> QED BY <3>4, <3>5, SMTT(30)
  <2>9. ASSUME NEW g \in Live' PROVE owned'[g] = Cardinality(BlocksOf(q, g))
    <3>1. BlocksOf(q, g) = BlocksOf(o, g)
      BY <2>1, <2>3, <2>4, <2>6, Zenon DEF BlocksOf
    <3> QED BY <2>3, <3>1, Zenon DEF Assigns
  <2>10. Assigns(q)'
    BY <2>5, <2>8, <2>9, Zenon DEF Assigns, BlocksOf
  <2> QED BY <2>10, Zenon
(* More tokens never need fewer blocks.                                    *)
<1>BlocksForMonotone.
     ASSUME NEW l \in Nat, NEW n \in Nat
     PROVE  BlocksFor(l) \in Nat /\ BlocksFor(l + n) \in Nat /\ BlocksFor(l) <= BlocksFor(l + n)
  <2> USE <1>BlocksForMonotone
  <2>1. PICK b : b = BlockSize
    BY Zenon
  <2>2. b \in Nat \ {0}
    BY <2>1, PoolAssumption, Zenon
  <2>3. ASSUME NEW x \in Nat, NEW y \in Nat, x <= y
        PROVE  x \div b \in Nat /\ y \div b \in Nat /\ x \div b <= y \div b
    <3>1. PICK c, d : c = x \div b /\ d = y \div b
      BY Zenon
    <3>2. /\ c \in Nat /\ x % b \in 0 .. b - 1 /\ x = b * c + (x % b)
      BY <2>2, <3>1
    <3>3. /\ d \in Nat /\ y % b \in 0 .. b - 1 /\ y = b * d + (y % b)
      BY <2>2, <3>1
    <3>4. ASSUME c >= d + 1 PROVE FALSE
      <4>1. /\ c - (d + 1) \in Nat /\ b * (c - (d + 1)) \in Nat
            /\ b * c = b * d + b + b * (c - (d + 1)) /\ b * d \in Nat
        BY <2>2, <3>2, <3>3, <3>4, SMTT(30)
      <4>2. PICK u, v, w, j, k : /\ u = b * c /\ v = b * d /\ w = b * (c - (d + 1))
                                 /\ j = x % b /\ k = y % b
        BY Zenon
      <4>3. /\ x = u + j /\ y = v + k /\ u = v + b + w
            /\ j \in 0 .. b - 1 /\ k \in 0 .. b - 1 /\ v \in Nat /\ w \in Nat
        BY <3>2, <3>3, <4>1, <4>2, Zenon
      <4> QED BY <2>2, <2>3, <4>3
    <3> QED BY <3>1, <3>2, <3>3, <3>4
  <2>4. ASSUME NEW y \in Nat \ {0} PROVE (y + b - 1) \div b >= 1 /\ (y + b - 1) \div b \in Nat
    <3>1. b \div b = 1
      BY <2>2
    <3>2. y + b - 1 \in Nat /\ b <= y + b - 1
      BY <2>2
    <3> QED BY <2>2, <2>3, <3>1, <3>2, Zenon
  <2>5. CASE l = 0
    BY <2>1, <2>4, <2>5 DEF BlocksFor
  <2>6. CASE l # 0
    <3>1. l + b - 1 \in Nat /\ l + n + b - 1 \in Nat /\ l + b - 1 <= l + n + b - 1 /\ l + n # 0
      BY <2>2, <2>6
    <3> QED BY <2>1, <2>3, <2>6, <3>1, Zenon DEF BlocksFor
  <2> QED BY <2>5, <2>6, Zenon
(* Steps that move no block.                                               *)
<1>CInvSame.
     ASSUME CInv, UNCHANGED <<num_free, owned>>, free_blocks' \in {free_blocks, num_free, 0}
     PROVE  CInv'
  <2> USE <1>CInvSame
  <2>1. PICK o : Assigns(o)
    BY Zenon DEF CInv
  <2>2. Assigns(o)'
    BY <2>1, Zenon DEF Assigns, BlocksOf, Live
  <2>3. free_blocks' \in 0 .. NumBlocks
    BY FreeBounded, PoolAssumption DEF CInv
  <2> QED BY <2>2, <2>3, Zenon DEF CInv
<1>CInvTaken.
     ASSUME HInv, BInv, PInv, CInv, Admit \/ AppendSlice \/ AppendSliceOom
     PROVE  CInv'
  <2> USE <1>CInvTaken
  <2>1. PICK o : Assigns(o)
    BY Zenon DEF CInv
  <2>2. Live \subseteq Nat /\ next_id \in Nat \ Live /\ num_free \in Nat
    BY FreeBounded DEF HInv, HandlesUsed
  <2>3. CASE Admit
    <3>1. AllocOk /\ free_blocks' = free_blocks
      BY <2>3, Zenon DEF Admit, AddPrefill
    <3>2. PICK h : h = next_id
      BY Zenon
    <3>3. /\ num_free' = num_free - 1 /\ num_free > 0
          /\ owned' = [g \in Live \cup {h} |-> IF g = h THEN 1 ELSE owned[g]]
      BY <3>1, <3>2, Zenon DEF AllocOk
    <3>4. /\ Live' = Live \cup {h} /\ owned'[h] = 1 + 0 /\ h \notin Live /\ h \in Nat
          /\ \A g \in Live \ {h} : owned'[g] = owned[g]
      <4>1. 1 = 1 + 0
        OBVIOUS
      <4> QED BY <2>2, <3>2, <3>3, <4>1, Zenon DEF Live
    <3>5. \E q : Assigns(q)'
      <4>1. 1 \in Nat /\ 1 <= num_free
        BY <2>2, <3>3
      <4>2. owned'[h] = 1 + (IF h \in Live THEN owned[h] ELSE 0)
        BY <3>4, Zenon
      <4> QED BY <2>1, <2>2, <3>3, <3>4, <4>1, <4>2, <1>BlocksTaken, Zenon
    <3> QED BY <3>1, <3>5, Zenon DEF CInv
  <2>4. CASE AppendSlice \/ AppendSliceOom
    <3>1. PICK s, h : s = Slices[i] /\ h = s.handle
      BY Zenon
    <3>2. /\ i \in 1 .. Size /\ free_blocks' = free_blocks
          /\ AppendOk(h, s.n) \/ AppendOom(h, s.n)
      <4>1. i <= Len(Slices) /\ free_blocks' = free_blocks
        BY <2>4, Zenon DEF AppendSlice, AppendSliceOom, decisionVars
      <4>2. AppendOk(h, s.n) \/ AppendOom(h, s.n)
        BY <2>4, <3>1, Zenon DEF AppendSlice, AppendSliceOom
      <4> QED BY <4>1, <4>2, SlicesType DEF BInv, Typed
    <3>3. s.n \in Nat
      BY <3>1, <3>2, SlicesType, Zenon DEF BInv, JobType
    <3>4. /\ h \in Live /\ h \in Nat /\ len[h] \in Nat /\ owned[h] = BlocksFor(len[h])
      BY <2>2, <3>2, Zenon DEF AppendOk, AppendOom, Sound, PInv, CacheTyped
    <3>5. PICK a, b, k : a = owned[h] /\ b = BlocksFor(len[h] + s.n)
                         /\ k = IF b - a <= num_free THEN b - a ELSE num_free
      BY Zenon
    <3>6. a \in Nat /\ b \in Nat /\ a <= b
      BY <3>3, <3>4, <3>5, <1>BlocksForMonotone, Zenon
    <3>7. k \in Nat /\ k <= num_free
      BY <2>2, <3>5, <3>6
    <3>8. num_free' = num_free - k /\ Live' = Live /\ owned' = [owned EXCEPT ![h] = a + k]
      <4>1. CASE AppendOk(h, s.n)
        <5>1. b - a <= num_free /\ num_free' = num_free - (b - a)
          BY <3>5, <4>1, Zenon DEF AppendOk, BlocksMissing
        <5>2. owned' = [owned EXCEPT ![h] = b]
          BY <3>5, <4>1, Zenon DEF AppendOk
        <5>3. a + k = b /\ k = b - a
          BY <3>5, <3>6, <5>1
        <5> QED BY <5>1, <5>2, <5>3, Zenon DEF Live
      <4>2. CASE AppendOom(h, s.n)
        <5>1. b - a > num_free /\ num_free' = 0
          BY <3>5, <4>2, Zenon DEF AppendOom, BlocksMissing
        <5>2. owned' = [owned EXCEPT ![h] = a + num_free]
          BY <3>4, <3>5, <4>2, Zenon DEF AppendOom, Live
        <5>3. k = num_free /\ num_free - k = 0
          <6>1. ~(b - a <= num_free) /\ num_free - num_free = 0
            BY <2>2, <3>6, <5>1
          <6> QED BY <3>5, <6>1, Zenon
        <5> QED BY <5>1, <5>2, <5>3, Zenon DEF Live
      <4> QED BY <3>2, <4>1, <4>2, Zenon
    <3>9. /\ Live' = Live \cup {h} /\ owned'[h] = k + (IF h \in Live THEN owned[h] ELSE 0)
          /\ \A g \in Live \ {h} : owned'[g] = owned[g]
      <4>1. owned'[h] = a + k /\ \A g \in Live \ {h} : owned'[g] = owned[g]
        BY <3>4, <3>8, Zenon DEF Live
      <4>2. a + k = k + a
        BY <3>6, <3>7
      <4> QED BY <3>4, <3>5, <3>8, <4>1, <4>2, Zenon
    <3>10. \E q : Assigns(q)'
      BY <2>1, <2>2, <3>4, <3>7, <3>8, <3>9, <1>BlocksTaken, Zenon
    <3> QED BY <3>2, <3>10, Zenon DEF CInv
  <2> QED BY <2>3, <2>4, Zenon
<1>CInvGiven.
     ASSUME HInv, CInv, AbortOne \/ \E h \in completed : FreeCompleted(h)
     PROVE  CInv'
  <2> USE <1>CInvGiven
  <2>1. PICK o : Assigns(o)
    BY Zenon DEF CInv
  <2>2. Live \subseteq Nat
    BY Zenon DEF HInv, HandlesUsed
  <2>3. PICK h : Free(h) /\ free_blocks' = free_blocks
    BY Zenon DEF AbortOne, FreeCompleted, decisionVars
  <2>4. h \in Live
    BY <2>3, Zenon DEF Free
  <2>5. \E q : Assigns(q)'
    BY <2>1, <2>2, <2>3, <2>4, <1>BlocksGiven, Zenon
  <2> QED BY <2>3, <2>5, Zenon DEF CInv
<1> SUFFICES ASSUME HInv, BInv, PInv, CInv, [Next]_vars PROVE CInv'
  BY Zenon
<1>1. CASE Client
  BY <1>1, <1>CInvSame, Zenon DEF Client, Submit, Disconnect, Snapshot, DropHandle, cacheVars,
     decisionVars
<1>2. CASE Drain \/ DrainEmpty \/ Recv \/ RecvNone \/ LockFails \/ NextIteration
  BY <1>2, <1>CInvSame, Zenon DEF Drain, DrainEmpty, Recv, RecvNone, LockFails, NextIteration,
     loopFrame,
                        cacheVars, decisionVars
<1>3. CASE DecodePass \/ (\E r \in Active : ContinueChunk(r)) \/ AdmitFails \/ Decide
  BY <1>3, <1>CInvSame, Zenon DEF DecodePass, ContinueChunk, AddPrefill, AdmitFails, AllocOom,
     Decide,
                        DecisionDropped, cacheVars, decisionVars
<1>4. CASE ForwardDone \/ ForwardFails \/ ForwardPanics \/ AbortDone
  BY <1>4, <1>CInvSame, Zenon DEF ForwardDone, ForwardFails, ForwardPanics, AbortDone,
     DecisionDropped,
                        cacheVars, decisionVars
<1>5. CASE Sample \/ Cleanup
  BY <1>5, <1>CInvSame, Zenon DEF Sample, Cleanup, DecisionDropped, cacheVars, decisionVars
<1>6. CASE Ended \/ UNCHANGED vars
  BY <1>6, <1>CInvSame, Zenon DEF Ended, vars, cacheVars, decisionVars
<1> QED BY <1>1, <1>2, <1>3, <1>4, <1>5, <1>6, <1>CInvTaken, <1>CInvGiven, Zenon DEF Next, Loop

LEMMA LoopTyped ==
  ASSUME HInv, BInv, SInv, CInv
  PROVE  LoopTypeOK
<1>1. /\ pc \in {"drain", "recv", "decode", "prefill", "forward", "abort", "sample",
                 "free", "returned", "dead"}
      /\ active \in [Active -> [handle : Nat, current_pos : Nat, generated : Nat,
                                stopped : BOOLEAN, remaining : Nat, limit : Nat]]
      /\ Active \subseteq Requests
      /\ events \in [Requests -> Seq({"token", "finished", "error"})]
  BY Zenon DEF BInv, Typed, SequenceType, SInv, Event
<1>2. Range(prefill_queue) \subseteq Requests
  BY DEF HInv, QueueFresh, Range
<1>3. {s.seq : s \in Range(Slices)} \subseteq Requests
  BY SlicesType, ZenonT(30) DEF BInv, Range, JobType
<1>4. total_tokens \in 0 .. MaxBatchTokens /\ prefill_tokens \in 0 .. MaxPrefillTokens
  BY LoopAssumption DEF BInv, Typed, Capped
<1>5. free_blocks \in 0 .. NumBlocks /\ num_free \in 0 .. NumBlocks
  BY FreeBounded, Zenon DEF CInv
<1>6. i \in 1 .. MaxBatchSize + 1
  <2>1. /\ i \in Nat \ {0} /\ i <= Size + 1 /\ Size <= MaxBatchSize
        /\ Size \in Nat /\ MaxBatchSize \in Nat
    BY SlicesType, LoopAssumption, Zenon DEF BInv, Typed, Phases, Capped
  <2> QED BY <2>1
<1>7. completed \subseteq Live
  BY Zenon DEF HInv, HandlesMatchCache
<1> QED BY <1>1, <1>2, <1>3, <1>4, <1>5, <1>6, <1>7, Zenon DEF LoopTypeOK

-----------------------------------------------------------------------------
(***************************************************************************)
(* BatchScheduler::schedule, over its decode, chunk and admission passes:  *)
(* whatever the clients do, a batch respects max_batch_size,               *)
(* max_batch_tokens and max_prefill_tokens counted over its tokens, names  *)
(* each sequence once, and at most max_batch_size sequences with a         *)
(* listening client are active; for every configuration and every pool.    *)
(***************************************************************************)
THEOREM BatchesBoundedCorrect == Spec => []BatchesBounded
<1> DEFINE Inv == HInv /\ BInv /\ Countable /\ RInv /\ SInv /\ PInv /\ CInv
<1>1. Init => Inv
  BY HInvInit, BInvInit, CountableInit, RInvInit, SInvInit, PInvInit, CInvInit, Zenon
<1>2. Inv /\ [Next]_vars => Inv'
  BY HInvNext, BInvNext, CountableNext, RInvNext, SInvNext, PInvNext, CInvNext, Zenon
<1>3. Inv => BatchesBounded
  BY LoopTyped, BatchesFollow, Zenon DEF BatchesBounded
<1> QED BY <1>1, <1>2, <1>3, PTL DEF Spec

(***************************************************************************)
(* What the loop sends: every client sees at most max_tokens tokens and at *)
(* most one end, and one that listens has every token sampled for it,      *)
(* through failed forward passes, failed sampling, disconnects and panics. *)
(***************************************************************************)
THEOREM ClientsServedCorrect == Spec => []ClientsServed
<1> DEFINE Inv == HInv /\ BInv /\ Countable /\ SInv
<1>1. Init => Inv
  BY HInvInit, BInvInit, CountableInit, SInvInit, Zenon
<1>2. Inv /\ [Next]_vars => Inv'
  BY HInvNext, BInvNext, CountableNext, SInvNext, Zenon
<1>3. Inv => ClientsServed
  BY StreamsFollow, Zenon
<1> QED BY <1>1, <1>2, <1>3, PTL DEF Spec

(***************************************************************************)
(* What the loop leaves in the cache: between iterations a sequence's rows *)
(* are its prefilled prompt and its generated tokens but the last, at      *)
(* increasing positions, in exactly the blocks they need; chunked prefill, *)
(* a pool that runs dry and aborted batches included.                      *)
(***************************************************************************)
THEOREM CacheFollowsCorrect == Spec => []CacheFollows
<1> DEFINE Inv == HInv /\ BInv /\ Countable /\ PInv
<1>1. Init => Inv
  BY HInvInit, BInvInit, CountableInit, PInvInit, Zenon
<1>2. Inv /\ [Next]_vars => Inv'
  BY HInvNext, BInvNext, CountableNext, PInvNext, Zenon
<1>3. Inv => CacheFollows
  BY RowsFollow, Zenon
<1> QED BY <1>1, <1>2, <1>3, PTL DEF Spec
=============================================================================
