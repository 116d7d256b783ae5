---------------------- MODULE DistributedPipelineProofs ----------------------
(***************************************************************************)
(* What holds of the pipeline whatever happens (no cache of a failed or    *)
(* aborted batch survives on a living worker), and what holds as long as   *)
(* no allocation is refused and no connection breaks (a call takes its own *)
(* answers only, and coordinator and workers agree on the caches).         *)
(***************************************************************************)
EXTENDS DistributedPipeline, TLAPS

Beat == Msg("Heartbeat", {}, 0)
Types == {"none", "Heartbeat", "HeartbeatAck", "CacheAlloc", "CacheAllocAck", "CacheFree",
          "BatchedForward", "BatchedForwardResult", "Error"}
Message == [type : Types, seqs : SUBSET SeqId, call : Nat]

\* Everything in q is in T; and: but for one message, which is in M.
All(q, T) == \A i \in 1 .. Len(q) : q[i] \in T
Only(q, M, T) ==
  \E i \in 1 .. Len(q) : q[i] \in M /\ \A j \in 1 .. Len(q) : j # i => q[j] \in T

\* Frees(S) has one CacheFree for each sequence of S and nothing else: proved
\* last, with the theorems on finite sets, and assumed as Given before.
FreesExact ==
  \A S \in SUBSET SeqId :
    /\ Frees(S) \in Seq(Message)
    /\ All(Frees(S), {Free(s) : s \in S})
    /\ \A s \in S : Only(Frees(S), {Free(s)}, Message \ {Free(s)})
Given == PipelineAssumption /\ FreesExact

-----------------------------------------------------------------------------
(* The shape of the state.                                                 *)
CallType == [op : {"idle", "alloc", "forward"}, seqs : SUBSET SeqId, stage : 0 .. Stages,
             wait : SUBSET Stage, ok : SUBSET Stage, got : [Stage -> Message]]
UsedType == [calls : Nat, beats : Nat, oom : Nat, errors : Nat, losses : Nat, replaced : Nat]

TInv ==
  /\ fate \in [SeqId -> Fate]
  /\ allocated \in SUBSET SeqId
  /\ call \in CallType
  /\ down \in [Stage -> Seq(Message)]
  /\ inbox \in [Stage -> Seq(Message)]
  /\ up \in [Stage -> Seq(Message)]
  /\ handles \in [Stage -> SUBSET SeqId]
  /\ linked \in [Stage -> BOOLEAN]
  /\ dead \in SUBSET Stage
  /\ used \in UsedType
  /\ \A w \in dead : ~linked[w]
  /\ call.op = "alloc" => \E s \in SeqId : call.seqs = {s} /\ fate[s] = "new"
  /\ call.op = "forward" => call.stage \in Stage /\ call.seqs \subseteq Active
                            /\ call.wait = {call.stage}

-----------------------------------------------------------------------------
(* No cache of a failed or aborted batch survives: whatever the worker has *)
(* still to do with such a sequence ends with a CacheFree.                 *)
Allocs(s) == {m \in Message : m.type = "CacheAlloc" /\ s \in m.seqs}
Unasked(q, s) == All(q, Message \ Allocs(s))
FreedLast(q, s) ==
  \E i \in 1 .. Len(q) :
    q[i] = Free(s) /\ \A j \in 1 .. Len(q) : j > i => q[j] \in Message \ Allocs(s)
Gone(w, s) ==
  \/ FreedLast(down[w], s)
  \/ Unasked(down[w], s) /\ FreedLast(inbox[w], s)
  \/ Unasked(down[w], s) /\ Unasked(inbox[w], s) /\ s \notin handles[w]

AInv ==
  \A w \in Stage : \A s \in SeqId :
    linked[w] /\ fate[s] \in {"failed", "aborted"} => Gone(w, s)

-----------------------------------------------------------------------------
(* Without refusals and losses: one request of the call that runs is       *)
(* outstanding at a worker, all else on the wires is background.           *)
Reliable == MaxOom = 0 /\ MaxLosses = 0 /\ MaxReplaced = 0

Background == {Free(s) : s \in SeqId} \cup {Beat}
Acks == {Msg("HeartbeatAck", {}, 0)}

\* With d on the way to a worker, n in its queue and u on the way back: no
\* request; the request m, not yet served; an answer from M, not yet taken.
Clear(d, n, u) == All(d, Background) /\ All(n, Background) /\ All(u, Acks)
Pending(d, n, u, m) ==
  /\ \/ Only(d, {m}, Background) /\ All(n, Background)
     \/ All(d, Background) /\ Only(n, {m}, Background)
  /\ All(u, Acks)
Replied(d, n, u, M) == All(d, Background) /\ All(n, Background) /\ Only(u, M, Acks)

AllocReq == Msg("CacheAlloc", call.seqs, Id)
AllocAck == Msg("CacheAllocAck", call.seqs, Id)
PassReq == Msg("BatchedForward", call.seqs, Id)
PassAnswers == {Msg("BatchedForwardResult", call.seqs, Id), Msg("Error", call.seqs, Id)}

Resting(w) == Clear(down[w], inbox[w], up[w])

Allocating(w) ==
  \/ /\ w \in call.wait /\ call.got[w] = NoMsg
     /\ Pending(down[w], inbox[w], up[w], AllocReq) /\ call.seqs \cap handles[w] = {}
  \/ /\ w \in call.wait /\ call.got[w] = NoMsg
     /\ Replied(down[w], inbox[w], up[w], {AllocAck}) /\ call.seqs \subseteq handles[w]
  \/ /\ call.got[w] = AllocAck
     /\ Resting(w) /\ call.seqs \subseteq handles[w]

Passing(w) ==
  /\ call.got[w] = NoMsg
  /\ w = call.stage => \/ Pending(down[w], inbox[w], up[w], PassReq)
                       \/ Replied(down[w], inbox[w], up[w], PassAnswers)
  /\ w # call.stage => Resting(w)

\* The caches of a worker: those of the active sequences, those that the one
\* CacheFree on the way will free, and that of the call which allocates.
Other(s) == Message \ {Free(s)}
Owed(d, n, s) ==
  \/ Only(d, {Free(s)}, Other(s)) /\ All(n, Other(s))
  \/ All(d, Other(s)) /\ Only(n, {Free(s)}, Other(s))
NotOwed(d, n, s) == All(d, Other(s)) /\ All(n, Other(s))

Held(w, s) ==
  \/ fate[s] = "active" /\ s \in handles[w]
  \/ fate[s] \in {"freed", "failed"} /\ s \notin handles[w]
  \/ fate[s] = "new" /\ (s \in handles[w] => call.op = "alloc" /\ s \in call.seqs)
Account(w, s) ==
  \/ fate[s] \in {"freed", "failed"} /\ s \in handles[w] /\ Owed(down[w], inbox[w], s)
  \/ NotOwed(down[w], inbox[w], s) /\ Held(w, s)

Connected == (\A w \in Stage : linked[w]) /\ dead = {}

FInv ==
  /\ Connected
  /\ allocated = Active
  /\ call.op = "idle" => \A w \in Stage : Resting(w) /\ call.got[w] = NoMsg
  /\ call.op = "alloc" => \A w \in Stage : Allocating(w)
  /\ call.op = "forward" => \A w \in Stage : Passing(w)
  /\ \A w \in Stage : \A s \in SeqId : Account(w, s)

-----------------------------------------------------------------------------
(* Queues.                                                                 *)
LEMMA AllTail ==
  ASSUME NEW U, NEW q \in Seq(U), q # <<>>, NEW T, All(q, T)
  PROVE  Head(q) \in T /\ All(Tail(q), T)
<1>1. Len(q) \in Nat /\ Len(q) > 0 /\ Head(q) = q[1]
  OBVIOUS
<1>2. Len(Tail(q)) = Len(q) - 1 /\ \A i \in 1 .. Len(Tail(q)) : Tail(q)[i] = q[i + 1]
  OBVIOUS
<1> QED
  BY <1>1, <1>2 DEF All

LEMMA AllConcat ==
  ASSUME NEW U, NEW q \in Seq(U), NEW r \in Seq(U), NEW T, All(q, T), All(r, T)
  PROVE  All(q \o r, T)
<1>1. Len(q) \in Nat /\ Len(r) \in Nat /\ Len(q \o r) = Len(q) + Len(r)
  OBVIOUS
<1>2. \A i \in 1 .. Len(q \o r) : (q \o r)[i] = IF i <= Len(q) THEN q[i] ELSE r[i - Len(q)]
  OBVIOUS
<1> QED
  BY <1>1, <1>2 DEF All

LEMMA AllAppend ==
  ASSUME NEW U, NEW q \in Seq(U), NEW T, All(q, T), NEW x \in U, x \in T
  PROVE  All(Append(q, x), T)
<1>1. /\ Len(q) \in Nat /\ Len(Append(q, x)) = Len(q) + 1
      /\ \A i \in 1 .. Len(q) : Append(q, x)[i] = q[i]
      /\ Append(q, x)[Len(q) + 1] = x
  OBVIOUS
<1> QED
  BY <1>1 DEF All

LEMMA AllEmpty == ASSUME NEW T PROVE All(<<>>, T)
BY DEF All

LEMMA OnlyTail ==
  ASSUME NEW U, NEW q \in Seq(U), NEW M, NEW T, Only(q, M, T)
  PROVE  /\ q # <<>>
         /\ \/ Head(q) \in M /\ All(Tail(q), T)
            \/ Head(q) \in T /\ Only(Tail(q), M, T)
<1>1. PICK i \in 1 .. Len(q) : q[i] \in M /\ \A j \in 1 .. Len(q) : j # i => q[j] \in T
  BY Zenon DEF Only
<1>2. q # <<>> /\ Len(q) \in Nat /\ Len(q) > 0 /\ Head(q) = q[1]
  BY <1>1
<1>3. Len(Tail(q)) = Len(q) - 1 /\ \A k \in 1 .. Len(Tail(q)) : Tail(q)[k] = q[k + 1]
  BY <1>2
<1>4. CASE i = 1
  BY <1>1, <1>2, <1>3, <1>4 DEF All
<1>5. CASE i # 1
  <2>1. i - 1 \in 1 .. Len(Tail(q)) /\ Tail(q)[i - 1] = q[i]
    BY <1>1, <1>2, <1>3, <1>5
  <2>2. \A k \in 1 .. Len(Tail(q)) : k # i - 1 => Tail(q)[k] \in T
    BY <1>1, <1>2, <1>3, <1>5
  <2>3. Only(Tail(q), M, T)
    BY <1>1, <2>1, <2>2, Zenon DEF Only
  <2>4. Head(q) \in T
    BY <1>1, <1>2, <1>5
  <2> QED
    BY <1>2, <2>3, <2>4, Zenon
<1> QED
  BY <1>4, <1>5, Zenon

LEMMA OnlyThenAll ==
  ASSUME NEW U, NEW q \in Seq(U), NEW r \in Seq(U), NEW M, NEW T, Only(q, M, T), All(r, T)
  PROVE  Only(q \o r, M, T)
<1>1. PICK i \in 1 .. Len(q) : q[i] \in M /\ \A j \in 1 .. Len(q) : j # i => q[j] \in T
  BY Zenon DEF Only
<1>2. Len(q) \in Nat /\ Len(r) \in Nat /\ Len(q \o r) = Len(q) + Len(r)
  OBVIOUS
<1>3. \A k \in 1 .. Len(q \o r) : (q \o r)[k] = IF k <= Len(q) THEN q[k] ELSE r[k - Len(q)]
  OBVIOUS
<1>4. i \in 1 .. Len(q \o r) /\ (q \o r)[i] \in M
  BY <1>1, <1>2, <1>3
<1>5. \A k \in 1 .. Len(q \o r) : k # i => (q \o r)[k] \in T
  BY <1>1, <1>2, <1>3 DEF All
<1> QED
  BY <1>4, <1>5, Zenon DEF Only

LEMMA AllThenOnly ==
  ASSUME NEW U, NEW q \in Seq(U), NEW r \in Seq(U), NEW M, NEW T, All(q, T), Only(r, M, T)
  PROVE  Only(q \o r, M, T)
<1>1. PICK i \in 1 .. Len(r) : r[i] \in M /\ \A j \in 1 .. Len(r) : j # i => r[j] \in T
  BY Zenon DEF Only
<1>2. Len(q) \in Nat /\ Len(r) \in Nat /\ Len(q \o r) = Len(q) + Len(r)
  OBVIOUS
<1>3. \A k \in 1 .. Len(q \o r) : (q \o r)[k] = IF k <= Len(q) THEN q[k] ELSE r[k - Len(q)]
  OBVIOUS
<1>4. Len(q) + i \in 1 .. Len(q \o r) /\ (q \o r)[Len(q) + i] \in M
  BY <1>1, <1>2, <1>3
<1>5. \A k \in 1 .. Len(q \o r) : k # Len(q) + i => (q \o r)[k] \in T
  BY <1>1, <1>2, <1>3, SMTT(30) DEF All
<1> QED
  BY <1>4, <1>5, Zenon DEF Only

LEMMA OnlyAppended ==
  ASSUME NEW U, NEW q \in Seq(U), NEW M, NEW T, All(q, T), NEW x \in U, x \in M
  PROVE  Only(Append(q, x), M, T)
<1>1. /\ Len(q) \in Nat /\ Len(Append(q, x)) = Len(q) + 1
      /\ \A i \in 1 .. Len(q) : Append(q, x)[i] = q[i]
      /\ Append(q, x)[Len(q) + 1] = x
  OBVIOUS
<1>2. Len(q) + 1 \in 1 .. Len(Append(q, x))
  BY <1>1
<1>3. \A j \in 1 .. Len(Append(q, x)) : j # Len(q) + 1 => Append(q, x)[j] \in T
  BY <1>1 DEF All
<1> QED
  BY <1>1, <1>2, <1>3, Zenon DEF Only

LEMMA OnlyAppend ==
  ASSUME NEW U, NEW q \in Seq(U), NEW M, NEW T, Only(q, M, T), NEW x \in U, x \in T
  PROVE  Only(Append(q, x), M, T)
<1>1. <<x>> \in Seq(U) /\ All(<<x>>, T) /\ Append(q, x) = q \o <<x>>
  BY DEF All
<1> QED
  BY <1>1, OnlyThenAll, Zenon

LEMMA FreesWhole ==
  ASSUME Given, NEW S \in SUBSET SeqId
  PROVE  /\ Frees(S) \in Seq(Message)
         /\ All(Frees(S), {Free(s) : s \in S})
         /\ \A s \in S : Only(Frees(S), {Free(s)}, Message \ {Free(s)})
  BY Zenon DEF Given, FreesExact

LEMMA MsgTyped ==
  ASSUME NEW type \in Types, NEW S \in SUBSET SeqId, NEW c \in Nat
  PROVE  /\ Msg(type, S, c) \in Message
         /\ Msg(type, S, c).type = type /\ Msg(type, S, c).seqs = S
         /\ Msg(type, S, c).call = c
BY Zenon DEF Msg, Message

LEMMA FreeTyped ==
  /\ NoMsg \in Message /\ NoMsg.type = "none"
  /\ Beat \in Message /\ Beat.type = "Heartbeat"
  /\ \A s \in SeqId : Free(s) \in Message /\ Free(s).type = "CacheFree" /\ Free(s).seqs = {s}
BY Zenon DEF Free, Msg, Message, Types, NoMsg, Beat

LEMMA SentTyped ==
  ASSUME linked \in [Stage -> BOOLEAN], NEW wires \in [Stage -> Seq(Message)],
         NEW S \in SUBSET Stage, NEW m \in Message
  PROVE  /\ Sent(wires, S, m) \in [Stage -> Seq(Message)]
         /\ \A w \in Stage : Sent(wires, S, m)[w] =
              IF w \in S /\ linked[w] THEN Append(wires[w], m) ELSE wires[w]
<1>1. \A w \in Stage : Append(wires[w], m) \in Seq(Message)
  OBVIOUS
<1> QED
  BY <1>1, Zenon DEF Sent

LEMMA SentAllTyped ==
  ASSUME linked \in [Stage -> BOOLEAN], NEW wires \in [Stage -> Seq(Message)],
         NEW S \in SUBSET Stage, NEW msgs \in Seq(Message)
  PROVE  /\ SentAll(wires, S, msgs) \in [Stage -> Seq(Message)]
         /\ \A w \in Stage : SentAll(wires, S, msgs)[w] =
              IF w \in S /\ linked[w] THEN wires[w] \o msgs ELSE wires[w]
<1>1. \A w \in Stage : wires[w] \o msgs \in Seq(Message)
  OBVIOUS
<1> QED
  BY <1>1, Zenon DEF SentAll

LEMMA IdleTyped ==
  ASSUME Given
  PROVE  /\ Idle \in CallType /\ Idle.op = "idle"
         /\ Idle.got \in [Stage -> Message] /\ \A w \in Stage : Idle.got[w] = NoMsg
<1>1. Stages \in Nat /\ Stage = 1 .. Stages
  BY Zenon DEF Given, PipelineAssumption, Stage
<1>2. Idle.got \in [Stage -> Message] /\ \A w \in Stage : Idle.got[w] = NoMsg
  BY FreeTyped, Zenon DEF Idle
<1> QED
  BY <1>1, <1>2 DEF Idle, CallType

LEMMA ForwardTyped ==
  ASSUME Given, NEW S \in SUBSET SeqId, NEW k \in Stage,
         call' = [Idle EXCEPT !.op = "forward", !.seqs = S, !.stage = k, !.wait = {k}]
  PROVE  /\ call' \in CallType /\ call'.op = "forward" /\ call'.seqs = S
         /\ call'.stage = k /\ call'.wait = {k} /\ call'.got = Idle.got
<1>1. k \in 0 .. Stages
  BY DEF Given, PipelineAssumption, Stage
<1> QED
  BY <1>1, IdleTyped, Zenon DEF CallType

LEMMA AllocTyped ==
  ASSUME Given, NEW s \in SeqId, NEW c,
         c = [Idle EXCEPT !.op = "alloc", !.seqs = {s}, !.wait = Stage]
  PROVE  /\ c \in CallType /\ c.op = "alloc" /\ c.seqs = {s} /\ c.wait = Stage
         /\ c.got = Idle.got
BY IdleTyped, Zenon DEF CallType

LEMMA TInvInit ==
  ASSUME Given, Init
  PROVE  TInv
<1>1. \A w \in Stage : <<>> \in Seq(Message)
  OBVIOUS
<1> QED
  BY <1>1, IdleTyped, Zenon DEF Init, TInv, Fate, UsedType

LEMMA Spending ==
  ASSUME used \in UsedType, NEW max \in Nat
  PROVE  /\ Spend("calls", max) => used' \in UsedType /\ used'.calls = used.calls + 1
         /\ Spend("beats", max) => used' \in UsedType /\ used'.calls = used.calls
         /\ Spend("oom", max) => used' \in UsedType /\ used'.calls = used.calls /\ max # 0
         /\ Spend("errors", max) => used' \in UsedType /\ used'.calls = used.calls
         /\ Spend("losses", max) => used' \in UsedType /\ used'.calls = used.calls /\ max # 0
         /\ Spend("replaced", max) => used' \in UsedType /\ used'.calls = used.calls /\ max # 0
BY DEF UsedType, Spend

\* What a failed batch leaves behind.
LEMMA BatchFailed ==
  ASSUME Given, TInv, NEW S \in SUBSET Active, FailedBatch(S, down)
  PROVE  /\ fate' \in [SeqId -> Fate] /\ allocated' \in SUBSET SeqId
         /\ call' = Idle /\ call' \in CallType
         /\ down' \in [Stage -> Seq(Message)]
         /\ Frees(S) \in Seq(Message) /\ S \in SUBSET SeqId
         /\ \A w \in Stage : down'[w] = IF w \in Reachable /\ linked[w]
                                        THEN down[w] \o Frees(S) ELSE down[w]
<1>1. S \in SUBSET SeqId
  BY Zenon DEF Active
<1>3. Frees(S) \in Seq(Message)
  BY <1>1, FreesWhole, Zenon
<1>4. Reachable \in SUBSET Stage
  BY Zenon DEF Reachable
<1>5. linked \in [Stage -> BOOLEAN] /\ down \in [Stage -> Seq(Message)]
  BY Zenon DEF TInv
<1>6. down' = SentAll(down, Reachable, Frees(S))
  BY Zenon DEF FailedBatch
<1>7. /\ down' \in [Stage -> Seq(Message)]
      /\ \A w \in Stage : down'[w] = IF w \in Reachable /\ linked[w]
                                     THEN down[w] \o Frees(S) ELSE down[w]
  BY <1>3, <1>4, <1>5, <1>6, SentAllTyped, Zenon
<1>8. fate' \in [SeqId -> Fate] /\ allocated' \in SUBSET SeqId /\ call' = Idle
  BY Zenon DEF FailedBatch, TInv, Fate
<1> QED
  BY <1>1, <1>3, <1>7, <1>8, IdleTyped, Zenon

\* The parts of TInv that a step of a call can disturb.
CallInv ==
  /\ fate \in [SeqId -> Fate]
  /\ allocated \in SUBSET SeqId
  /\ call \in CallType
  /\ down \in [Stage -> Seq(Message)]
  /\ call.op = "alloc" => \E s \in SeqId : call.seqs = {s} /\ fate[s] = "new"
  /\ call.op = "forward" => call.stage \in Stage /\ call.seqs \subseteq Active
                            /\ call.wait = {call.stage}

LEMMA StageSentTyped ==
  ASSUME Given, TInv, NEW S \in SUBSET Active, NEW k \in Stage, NEW c \in Nat,
         StageSent(S, k, c)
  PROVE  CallInv'
<1>1. S \in SUBSET SeqId
  BY Zenon DEF Active
<1>2. CASE FailedBatch(S, down)
  BY <1>2, BatchFailed, IdleTyped, Zenon DEF CallInv
<1>3. CASE /\ down' = Sent(down, {k}, Msg("BatchedForward", S, c))
           /\ call' = [Idle EXCEPT !.op = "forward", !.seqs = S, !.stage = k, !.wait = {k}]
           /\ UNCHANGED <<allocated, fate>>
  <2>1. Msg("BatchedForward", S, c) \in Message
    BY <1>1, MsgTyped, Zenon DEF Types
  <2>2. linked \in [Stage -> BOOLEAN] /\ down \in [Stage -> Seq(Message)]
    BY Zenon DEF TInv
  <2>3. down' \in [Stage -> Seq(Message)]
    BY <1>3, <2>1, <2>2, SentTyped, Zenon
  <2>4. /\ call' \in CallType /\ call'.op = "forward" /\ call'.seqs = S /\ call'.stage = k
        /\ call'.wait = {k}
    <3>1. call' = [Idle EXCEPT !.op = "forward", !.seqs = S, !.stage = k, !.wait = {k}]
      BY <1>3, Zenon
    <3> QED
      BY <1>1, <3>1, ForwardTyped, Zenon
  <2>5. Active' = Active
    BY <1>3, Zenon DEF Active
  <2> QED
    BY <1>3, <2>3, <2>4, <2>5, Zenon DEF CallInv, TInv
<1> QED
  BY <1>2, <1>3, Zenon DEF StageSent

LEMMA AnswerTyped ==
  ASSUME up \in [Stage -> Seq(Message)], NEW w \in Stage, NEW m \in Message,
         NEW type \in Types, Answer(w, type, m)
  PROVE  /\ up' \in [Stage -> Seq(Message)]
         /\ Msg(type, m.seqs, m.call) \in Message
         /\ up'[w] = Append(up[w], Msg(type, m.seqs, m.call))
         /\ \A v \in Stage : v # w => up'[v] = up[v]
<1>1. m.seqs \in SUBSET SeqId /\ m.call \in Nat
  BY Zenon DEF Message
<1>2. Msg(type, m.seqs, m.call) \in Message
  BY <1>1, MsgTyped, Zenon
<1> QED
  BY <1>2 DEF Answer

LEMMA TInvCaller ==
  ASSUME Given, TInv, Caller
  PROVE  TInv'
<1>0. /\ linked \in [Stage -> BOOLEAN] /\ down \in [Stage -> Seq(Message)]
      /\ used \in UsedType /\ Id \in Nat /\ fate \in [SeqId -> Fate]
      /\ allocated \in SUBSET SeqId
      /\ MaxCalls \in Nat /\ MaxBeats \in Nat /\ MaxReplaced \in Nat
  BY Zenon DEF TInv, UsedType, Id, Given, PipelineAssumption
<1>1. ASSUME NEW s \in SeqId, AllocCall(s) PROVE TInv'
  <2>1. PICK S \in SUBSET Stage :
          /\ down' = Sent(down, S, Msg("CacheAlloc", {s}, Id + 1))
          /\ IF S = Stage
             THEN /\ call' = [Idle EXCEPT !.op = "alloc", !.seqs = {s}, !.wait = Stage]
                  /\ fate' = fate
             ELSE /\ call' = Idle
                  /\ fate' = [fate EXCEPT ![s] = "refused"]
    BY <1>1, Zenon DEF AllocCall
  <2>2. Msg("CacheAlloc", {s}, Id + 1) \in Message
    BY <1>0, MsgTyped DEF Types
  <2>3. down' \in [Stage -> Seq(Message)]
    BY <1>0, <2>1, <2>2, SentTyped, Zenon
  <2>4. used' \in UsedType
    BY <1>0, <1>1, Spending, Zenon DEF AllocCall
  <2>5. fate[s] = "new" /\ UNCHANGED <<allocated, inbox, up, handles, linked, dead>>
    BY <1>1, Zenon DEF AllocCall
  <2>6. fate' \in [SeqId -> Fate]
    BY <1>0, <2>1, Zenon DEF Fate
  <2>7. call' \in CallType /\ call'.op # "forward"
    <3>1. CASE S = Stage
      BY <2>1, <3>1, AllocTyped, Zenon
    <3>2. CASE S # Stage
      BY <2>1, <3>2, IdleTyped, Zenon
    <3> QED
      BY <3>1, <3>2, Zenon
  <2>8. call'.op = "alloc" => call'.seqs = {s} /\ fate'[s] = "new"
    <3>1. CASE S = Stage
      BY <2>1, <2>5, <3>1, AllocTyped, Zenon
    <3>2. CASE S # Stage
      BY <2>1, <3>2, IdleTyped, Zenon
    <3> QED
      BY <3>1, <3>2, Zenon
  <2>9. call'.op = "alloc" => \E t \in SeqId : call'.seqs = {t} /\ fate'[t] = "new"
    BY <2>8, Zenon
  <2>10. allocated' \in SUBSET SeqId /\ \A w \in dead' : ~linked'[w]
    BY <2>5, Zenon DEF TInv
  <2> QED
    BY <2>3, <2>4, <2>5, <2>6, <2>7, <2>9, <2>10, Zenon DEF TInv
<1>2. ASSUME NEW s \in SeqId, FreeCall(s) PROVE TInv'
  <2>1. Free(s) \in Message
    BY FreeTyped, Zenon
  <2>2. down' \in [Stage -> Seq(Message)]
    <3>1. CASE s \in allocated
      <4>1. PICK S \in SUBSET Stage : down' = Sent(down, S, Free(s))
        BY <1>2, <3>1, Zenon DEF FreeCall
      <4> QED
        BY <1>0, <2>1, <4>1, SentTyped, Zenon
    <3>2. CASE s \notin allocated
      BY <1>0, <1>2, <3>2, Zenon DEF FreeCall
    <3> QED
      BY <3>1, <3>2, Zenon
  <2>3. fate' \in [SeqId -> Fate] /\ allocated' \in SUBSET SeqId
    BY <1>0, <1>2, Zenon DEF FreeCall, Fate
  <2>4. call.op = "idle" /\ UNCHANGED <<call, inbox, up, handles, linked, dead, used>>
    BY <1>2, Zenon DEF FreeCall, Callable
  <2> QED
    BY <2>2, <2>3, <2>4, Zenon DEF TInv
<1>3. ASSUME NEW S \in SUBSET SeqId, ForwardCall(S) PROVE TInv'
  <2>1. S \in SUBSET Active
    BY <1>3, Zenon DEF ForwardCall
  <2>2. used' \in UsedType /\ UNCHANGED <<inbox, up, handles, linked, dead>>
    BY <1>0, <1>3, Spending, Zenon DEF ForwardCall
  <2>3. CASE FailedBatch(S, down)
    BY <2>1, <2>2, <2>3, BatchFailed, IdleTyped, Zenon DEF TInv
  <2>4. CASE StageSent(S, 1, Id + 1)
    <3>1. 1 \in Stage /\ Id + 1 \in Nat
      BY <1>0 DEF Given, PipelineAssumption, Stage
    <3>2. CallInv'
      BY <2>1, <2>4, <3>1, StageSentTyped, Zenon
    <3> QED
      BY <2>2, <3>2, Zenon DEF TInv, CallInv, Active
  <2> QED
    BY <1>3, <2>3, <2>4, Zenon DEF ForwardCall
<1>4. CASE Replace
  BY <1>0, <1>4, Spending, Zenon DEF Replace, TInv
<1>5. CASE SendHeartbeats
  <2>1. Reachable \in SUBSET Stage /\ Msg("Heartbeat", {}, 0) \in Message
    BY FreeTyped, Zenon DEF Reachable, Beat
  <2>2. down' \in [Stage -> Seq(Message)]
    BY <1>0, <1>5, <2>1, SentTyped, Zenon DEF SendHeartbeats
  <2>3. used' \in UsedType
    BY <1>0, <1>5, Spending, Zenon DEF SendHeartbeats
  <2>4. call.op = "idle" /\ UNCHANGED <<fate, allocated, call, inbox, up, handles, linked, dead>>
    BY <1>5, Zenon DEF SendHeartbeats
  <2> QED
    BY <2>2, <2>3, <2>4, Zenon DEF TInv
<1>6. ASSUME NEW w \in Stage, WorkerDies(w) PROVE TInv'
  <2>2. Frees(allocated) \in Seq(Message)
    BY <1>0, FreesWhole, Zenon
  <2>3. dead' \in SUBSET Stage /\ \A v \in dead' : ~linked[v]
    BY <1>6, Zenon DEF WorkerDies, TInv
  <2>4. down' = SentAll(down, Stage \ dead', Frees(allocated))
    BY <1>6, Zenon DEF WorkerDies
  <2>5. down' \in [Stage -> Seq(Message)]
    BY <1>0, <2>2, <2>4, SentAllTyped, Zenon
  <2>6. fate' \in [SeqId -> Fate] /\ allocated' = {}
    BY <1>0, <1>6, Zenon DEF WorkerDies, Fate
  <2>7. call.op = "idle" /\ UNCHANGED <<call, inbox, up, handles, linked, used>>
    BY <1>6, Zenon DEF WorkerDies
  <2> QED
    BY <2>3, <2>5, <2>6, <2>7, Zenon DEF TInv
<1> QED
  BY <1>1, <1>2, <1>3, <1>4, <1>5, <1>6, Zenon DEF Caller

LEMMA HeadTyped ==
  ASSUME NEW q \in Seq(Message), q # <<>>
  PROVE  Head(q) \in Message /\ Tail(q) \in Seq(Message)
OBVIOUS

LEMMA TInvCall ==
  ASSUME Given, TInv, CallStep
  PROVE  TInv'
<1>0. /\ linked \in [Stage -> BOOLEAN] /\ down \in [Stage -> Seq(Message)]
      /\ up \in [Stage -> Seq(Message)] /\ Id \in Nat /\ fate \in [SeqId -> Fate]
      /\ call \in CallType /\ call.wait \in SUBSET Stage /\ call.ok \in SUBSET Stage
      /\ call.got \in [Stage -> Message]
  BY Zenon DEF TInv, UsedType, Id, CallType
<1>1. CASE ForwardAnswer
  <2>1. PICK w : w = call.stage
    BY Zenon
  <2>2. w \in Stage /\ call.seqs \in SUBSET Active
    BY <1>1, <2>1, Zenon DEF ForwardAnswer, TInv
  <2>3. up' = [up EXCEPT ![w] = IF @ = <<>> THEN @ ELSE Tail(@)]
    BY <1>1, <2>1, Zenon DEF ForwardAnswer
  <2>4. up' \in [Stage -> Seq(Message)]
    BY <1>0, <2>2, <2>3, HeadTyped, Zenon
  <2>5. UNCHANGED <<inbox, handles, linked, dead, used>>
    BY <1>1, Zenon DEF ForwardAnswer
  <2>6. \/ FailedBatch(call.seqs, down)
        \/ call' = Idle /\ UNCHANGED <<allocated, fate, down>>
        \/ w # Stages /\ StageSent(call.seqs, w + 1, Id)
    BY <1>1, <2>1, Zenon DEF ForwardAnswer
  <2>7. CASE FailedBatch(call.seqs, down)
    BY <2>2, <2>4, <2>5, <2>7, BatchFailed, IdleTyped, Zenon DEF TInv
  <2>8. CASE call' = Idle /\ UNCHANGED <<allocated, fate, down>>
    BY <2>4, <2>5, <2>8, IdleTyped, Zenon DEF TInv
  <2>9. CASE w # Stages /\ StageSent(call.seqs, w + 1, Id)
    <3>1. w + 1 \in Stage
      BY <2>2, <2>9 DEF Given, PipelineAssumption, Stage
    <3>2. CallInv'
      BY <1>0, <2>2, <2>9, <3>1, StageSentTyped, Zenon
    <3> QED
      BY <2>4, <2>5, <3>2, Zenon DEF TInv, CallInv, Active
  <2> QED
    BY <2>6, <2>7, <2>8, <2>9, Zenon
<1>2. ASSUME NEW w \in Stage, SkipAck(w) PROVE TInv'
  <2>1. up' \in [Stage -> Seq(Message)]
    BY <1>0, <1>2, HeadTyped, Zenon DEF SkipAck
  <2>2. UNCHANGED <<fate, allocated, call, down, inbox, handles, linked, dead, used>>
    BY <1>2, Zenon DEF SkipAck
  <2> QED
    BY <2>1, <2>2, Zenon DEF TInv, Active
<1>3. ASSUME NEW w \in Stage, TaskRecv(w) PROVE TInv'
  <2>1. up' \in [Stage -> Seq(Message)] /\ Head(up[w]) \in Message
    BY <1>0, <1>3, HeadTyped, Zenon DEF TaskRecv
  <2>2. UNCHANGED <<fate, allocated, down, inbox, handles, linked, dead, used>>
    BY <1>3, Zenon DEF TaskRecv
  <2>3. call.op = "alloc" /\ call' = [call EXCEPT !.got[w] = Head(up[w])]
    BY <1>3, Zenon DEF TaskRecv
  <2>4. call' \in CallType /\ call'.op = "alloc" /\ call'.seqs = call.seqs
    BY <1>0, <2>1, <2>3, Zenon DEF CallType
  <2> QED
    BY <2>1, <2>2, <2>3, <2>4, Zenon DEF TInv
<1>4. ASSUME NEW w \in Stage, AllocJoin(w) PROVE TInv'
  <2>1. PICK s \in SeqId : call.seqs = {s} /\ fate[s] = "new"
    BY <1>4, Zenon DEF AllocJoin, TInv
  <2>2. UNCHANGED <<inbox, up, handles, linked, dead, used>>
    BY <1>4, Zenon DEF AllocJoin
  <2>3. CASE AllocFails
    <3>1. call' = Idle /\ UNCHANGED allocated /\ down' = Sent(down, call.ok, Free(s))
          /\ fate' = [fate EXCEPT ![s] = "refused"]
      BY <2>1, <2>3, Zenon DEF AllocFails
    <3>2. down' \in [Stage -> Seq(Message)]
      BY <1>0, <3>1, FreeTyped, SentTyped, Zenon
    <3>3. fate' \in [SeqId -> Fate]
      BY <1>0, <3>1, Zenon DEF Fate
    <3> QED
      BY <2>2, <3>1, <3>2, <3>3, IdleTyped, Zenon DEF TInv
  <2>4. CASE /\ call' = Idle /\ allocated' = allocated \cup call.seqs
             /\ fate' = [t \in SeqId |-> IF t \in call.seqs THEN "active" ELSE fate[t]]
             /\ UNCHANGED down
    <3>1. fate' \in [SeqId -> Fate]
      BY <1>0, <2>4, Zenon DEF Fate
    <3>2. allocated' \in SUBSET SeqId
      BY <2>1, <2>4, Zenon DEF TInv
    <3> QED
      BY <2>2, <2>4, <3>1, <3>2, IdleTyped, Zenon DEF TInv
  <2>5. CASE /\ call' = [call EXCEPT !.wait = @ \ {w}, !.ok = @ \cup {w}]
             /\ UNCHANGED <<allocated, fate, down>>
    <3>1. call.op = "alloc"
      BY <1>4, Zenon DEF AllocJoin
    <3>2. call' \in CallType /\ call'.op = "alloc" /\ call'.seqs = call.seqs
      BY <1>0, <2>5, <3>1, Zenon DEF CallType
    <3> QED
      BY <2>1, <2>2, <2>5, <3>2, Zenon DEF TInv
  <2> QED
    BY <1>4, <2>3, <2>4, <2>5, Zenon DEF AllocJoin
<1> QED
  BY <1>1, <1>2, <1>3, <1>4, Zenon DEF CallStep

\* A worker serves the head of its queue: its queue is the tail, and at most
\* its answers and its handles change.
LEMMA ServeStep ==
  ASSUME Given, TInv, NEW w \in Stage, ServeAlloc(w) \/ ServeFree(w) \/ ServeForward(w)
  PROVE  /\ linked[w] /\ inbox[w] # <<>> /\ inbox' = [inbox EXCEPT ![w] = Tail(@)]
         /\ Asked(w) \in Message /\ inbox' \in [Stage -> Seq(Message)]
         /\ up' \in [Stage -> Seq(Message)] /\ handles' \in [Stage -> SUBSET SeqId]
         /\ used' \in UsedType /\ used'.calls = used.calls
         /\ \A v \in Stage : v # w => up'[v] = up[v] /\ handles'[v] = handles[v]
         /\ UNCHANGED <<fate, allocated, call, down, linked, dead>>
<1>0. /\ inbox \in [Stage -> Seq(Message)] /\ up \in [Stage -> Seq(Message)]
      /\ handles \in [Stage -> SUBSET SeqId] /\ used \in UsedType
      /\ MaxOom \in Nat /\ MaxErrors \in Nat
  BY Zenon DEF TInv, Given, PipelineAssumption
<1>1. /\ linked[w] /\ inbox[w] # <<>> /\ inbox' = [inbox EXCEPT ![w] = Tail(@)]
      /\ UNCHANGED <<fate, allocated, call, down, linked, dead>>
  BY Zenon DEF ServeAlloc, ServeFree, ServeForward, Serves, Served
<1>2. Asked(w) \in Message /\ inbox' \in [Stage -> Seq(Message)]
  BY <1>0, <1>1, HeadTyped, Zenon DEF Asked
<1>3. PICK m \in Message : m = Asked(w)
  BY <1>2, Zenon
<1>4. m.seqs \in SUBSET SeqId
  BY <1>3, Zenon DEF Message
<1>5. /\ up' \in [Stage -> Seq(Message)]
      /\ \A v \in Stage : v # w => up'[v] = up[v]
  <2>1. \/ UNCHANGED up
        \/ \E t \in {"CacheAllocAck", "Error", "BatchedForwardResult"} : Answer(w, t, m)
    BY <1>3, Zenon DEF ServeAlloc, ServeFree, ServeForward
  <2>2. CASE UNCHANGED up
    BY <1>0, <2>2, Zenon
  <2>3. ASSUME NEW t \in {"CacheAllocAck", "Error", "BatchedForwardResult"}, Answer(w, t, m)
        PROVE  /\ up' \in [Stage -> Seq(Message)]
               /\ \A v \in Stage : v # w => up'[v] = up[v]
    <3>1. t \in Types
      BY <2>3, Zenon DEF Types
    <3> QED
      BY <1>0, <2>3, <3>1, AnswerTyped, Zenon
  <2> QED
    BY <2>1, <2>2, <2>3, Zenon
<1>6. /\ handles' \in [Stage -> SUBSET SeqId]
      /\ \A v \in Stage : v # w => handles'[v] = handles[v]
  <2>1. \/ UNCHANGED handles
        \/ handles' = [handles EXCEPT ![w] = @ \cup m.seqs]
        \/ handles' = [handles EXCEPT ![w] = @ \ m.seqs]
    BY <1>3, Zenon DEF ServeAlloc, ServeFree, ServeForward
  <2> QED
    BY <1>0, <1>4, <2>1, ZenonT(30)
<1>7. used' \in UsedType /\ used'.calls = used.calls
  <2>1. UNCHANGED used \/ Spend("oom", MaxOom) \/ Spend("errors", MaxErrors)
    BY Zenon DEF ServeAlloc, ServeFree, ServeForward
  <2> QED
    BY <1>0, <2>1, Spending, Zenon
<1> QED
  BY <1>1, <1>2, <1>5, <1>6, <1>7, Zenon

LEMMA RouterStep ==
  ASSUME Given, TInv, NEW w \in Stage, Router(w)
  PROVE  /\ linked[w] /\ down[w] # <<>> /\ Head(down[w]) \in Message
         /\ down' = [down EXCEPT ![w] = Tail(@)] /\ down' \in [Stage -> Seq(Message)]
         /\ inbox' \in [Stage -> Seq(Message)] /\ up' \in [Stage -> Seq(Message)]
         /\ \A v \in Stage : v # w => inbox'[v] = inbox[v] /\ up'[v] = up[v]
         /\ IF Head(down[w]).type = "Heartbeat"
            THEN /\ inbox'[w] = inbox[w]
                 /\ up'[w] = Append(up[w], Msg("HeartbeatAck", Head(down[w]).seqs,
                                               Head(down[w]).call))
                 /\ Msg("HeartbeatAck", Head(down[w]).seqs, Head(down[w]).call) \in Message
            ELSE inbox'[w] = Append(inbox[w], Head(down[w])) /\ up'[w] = up[w]
         /\ UNCHANGED <<fate, allocated, call, handles, linked, dead, used>>
<1>0. /\ inbox \in [Stage -> Seq(Message)] /\ up \in [Stage -> Seq(Message)]
      /\ down \in [Stage -> Seq(Message)]
  BY Zenon DEF TInv
<1>1. /\ linked[w] /\ down[w] # <<>> /\ down' = [down EXCEPT ![w] = Tail(@)]
      /\ UNCHANGED <<fate, allocated, call, handles, linked, dead, used>>
  BY Zenon DEF Router
<1>2. Head(down[w]) \in Message /\ down' \in [Stage -> Seq(Message)]
  BY <1>0, <1>1, HeadTyped, Zenon
<1>3. PICK m \in Message : m = Head(down[w])
  BY <1>2, Zenon
<1>4. CASE m.type = "Heartbeat"
  <2>1. Answer(w, "HeartbeatAck", m) /\ UNCHANGED inbox
    BY <1>3, <1>4, Zenon DEF Router
  <2>2. /\ up' \in [Stage -> Seq(Message)]
        /\ Msg("HeartbeatAck", m.seqs, m.call) \in Message
        /\ up'[w] = Append(up[w], Msg("HeartbeatAck", m.seqs, m.call))
        /\ \A v \in Stage : v # w => up'[v] = up[v]
    <3>1. "HeartbeatAck" \in Types
      BY Zenon DEF Types
    <3> QED
      BY <1>0, <2>1, <3>1, AnswerTyped, Zenon
  <2> QED
    BY <1>0, <1>1, <1>2, <1>3, <1>4, <2>1, <2>2, Zenon
<1>5. CASE m.type # "Heartbeat"
  <2>1. inbox' = [inbox EXCEPT ![w] = Append(@, m)] /\ UNCHANGED up
    BY <1>3, <1>5, Zenon DEF Router
  <2>2. Append(inbox[w], m) \in Seq(Message)
    BY <1>0
  <2>3. inbox' \in [Stage -> Seq(Message)]
    BY <1>0, <2>1, <2>2, Zenon
  <2> QED
    BY <1>0, <1>1, <1>2, <1>3, <1>5, <2>1, <2>3, Zenon
<1> QED
  BY <1>4, <1>5, Zenon

LEMMA TInvNext ==
  ASSUME Given, TInv, [Next]_vars
  PROVE  TInv'
<1>1. ASSUME NEW w \in Stage, WorkerStep(w) PROVE TInv'
  <2>1. CASE Router(w)
    <3>1. /\ down' \in [Stage -> Seq(Message)]
          /\ inbox' \in [Stage -> Seq(Message)] /\ up' \in [Stage -> Seq(Message)]
          /\ UNCHANGED <<fate, allocated, call, handles, linked, dead, used>>
      BY <2>1, RouterStep, Zenon
    <3> QED
      BY <3>1, Zenon DEF TInv, Active
  <2>2. CASE ServeAlloc(w) \/ ServeFree(w) \/ ServeForward(w)
    <3>1. /\ inbox' \in [Stage -> Seq(Message)] /\ up' \in [Stage -> Seq(Message)]
          /\ handles' \in [Stage -> SUBSET SeqId] /\ used' \in UsedType
          /\ UNCHANGED <<fate, allocated, call, down, linked, dead>>
      BY <2>2, ServeStep, Zenon
    <3> QED
      BY <3>1, Zenon DEF TInv, Active
  <2> QED
    BY <1>1, <2>1, <2>2, Zenon DEF WorkerStep
<1>2. ASSUME NEW w \in Stage, LinkLost(w) PROVE TInv'
  <2>1. MaxLosses \in Nat /\ used \in UsedType /\ Spend("losses", MaxLosses)
    BY <1>2, Zenon DEF LinkLost, TInv, Given, PipelineAssumption
  <2>2. used' \in UsedType
    BY <2>1, Spending, Zenon
  <2>3. /\ linked' = [linked EXCEPT ![w] = FALSE] /\ down' = [down EXCEPT ![w] = <<>>]
        /\ UNCHANGED <<fate, allocated, call, inbox, up, handles, dead>>
    BY <1>2, Zenon DEF LinkLost
  <2>4. linked' \in [Stage -> BOOLEAN] /\ \A v \in dead : ~linked'[v]
    BY <2>3, Zenon DEF TInv
  <2>5. down' \in [Stage -> Seq(Message)]
    BY <2>3 DEF TInv
  <2> QED
    BY <2>2, <2>3, <2>4, <2>5, Zenon DEF TInv, Active
<1>3. CASE Quiet \/ UNCHANGED vars
  BY <1>3, Zenon DEF Quiet, vars, TInv, Active
<1> QED
  BY <1>1, <1>2, <1>3, TInvCaller, TInvCall, Zenon DEF Next

-----------------------------------------------------------------------------
(* AInv is inductive.                                                      *)
LEMMA FreedLastTail ==
  ASSUME NEW q \in Seq(Message), NEW s, FreedLast(q, s)
  PROVE  /\ q # <<>>
         /\ \/ Head(q) = Free(s) /\ Unasked(Tail(q), s)
            \/ FreedLast(Tail(q), s)
<1>1. PICK i \in 1 .. Len(q) :
        q[i] = Free(s) /\ \A j \in 1 .. Len(q) : j > i => q[j] \in Message \ Allocs(s)
  BY Zenon DEF FreedLast
<1>2. q # <<>> /\ Len(q) \in Nat /\ Len(q) > 0 /\ Head(q) = q[1]
  BY <1>1
<1>3. Len(Tail(q)) = Len(q) - 1 /\ \A k \in 1 .. Len(Tail(q)) : Tail(q)[k] = q[k + 1]
  BY <1>2
<1>4. CASE i = 1
  BY <1>1, <1>2, <1>3, <1>4 DEF Unasked, All
<1>5. CASE i # 1
  <2>1. i - 1 \in 1 .. Len(Tail(q)) /\ Tail(q)[i - 1] = Free(s)
    BY <1>1, <1>2, <1>3, <1>5
  <2>2. \A k \in 1 .. Len(Tail(q)) : k > i - 1 => Tail(q)[k] \in Message \ Allocs(s)
    BY <1>1, <1>2, <1>3, <1>5
  <2> QED
    BY <1>2, <2>1, <2>2, Zenon DEF FreedLast
<1> QED
  BY <1>4, <1>5, Zenon

LEMMA FreedLastConcat ==
  ASSUME NEW q \in Seq(Message), NEW r \in Seq(Message), NEW s, Unasked(r, s)
  PROVE  /\ FreedLast(q, s) => FreedLast(q \o r, s)
         /\ FreedLast(r, s) => FreedLast(q \o r, s)
         /\ Unasked(q, s) => Unasked(q \o r, s)
<1>2. Len(q) \in Nat /\ Len(r) \in Nat /\ Len(q \o r) = Len(q) + Len(r)
  OBVIOUS
<1>3. \A k \in 1 .. Len(q \o r) : (q \o r)[k] = IF k <= Len(q) THEN q[k] ELSE r[k - Len(q)]
  OBVIOUS
<1>4. ASSUME FreedLast(q, s) PROVE FreedLast(q \o r, s)
  <2>1. PICK i \in 1 .. Len(q) :
          q[i] = Free(s) /\ \A j \in 1 .. Len(q) : j > i => q[j] \in Message \ Allocs(s)
    BY <1>4, Zenon DEF FreedLast
  <2>2. i \in 1 .. Len(q \o r) /\ (q \o r)[i] = Free(s)
    BY <1>2, <1>3, <2>1
  <2>3. \A k \in 1 .. Len(q \o r) : k > i => (q \o r)[k] \in Message \ Allocs(s)
    BY <1>2, <1>3, <2>1 DEF Unasked, All
  <2> QED
    BY <2>2, <2>3, Zenon DEF FreedLast
<1>5. ASSUME FreedLast(r, s) PROVE FreedLast(q \o r, s)
  <2>1. PICK i \in 1 .. Len(r) :
          r[i] = Free(s) /\ \A j \in 1 .. Len(r) : j > i => r[j] \in Message \ Allocs(s)
    BY <1>5, Zenon DEF FreedLast
  <2>2. Len(q) + i \in 1 .. Len(q \o r) /\ (q \o r)[Len(q) + i] = Free(s)
    BY <1>2, <1>3, <2>1
  <2>3. \A k \in 1 .. Len(q \o r) : k > Len(q) + i => (q \o r)[k] \in Message \ Allocs(s)
    BY <1>2, <1>3, <2>1
  <2> QED
    BY <2>2, <2>3, Zenon DEF FreedLast
<1>6. Unasked(q, s) => Unasked(q \o r, s)
  BY AllConcat, Zenon DEF Unasked
<1> QED
  BY <1>4, <1>5, <1>6, Zenon

\* A single message on its own.
LEMMA Alone ==
  ASSUME NEW q \in Seq(Message), NEW m \in Message, NEW s
  PROVE  /\ Append(q, m) = q \o <<m>> /\ <<m>> \in Seq(Message)
         /\ m \notin Allocs(s) => Unasked(<<m>>, s)
         /\ m = Free(s) => FreedLast(<<m>>, s)
<1>1. Append(q, m) = q \o <<m>> /\ <<m>> \in Seq(Message)
  OBVIOUS
<1>2. Len(<<m>>) = 1 /\ <<m>>[1] = m
  BY Zenon
<1>3. m \notin Allocs(s) => Unasked(<<m>>, s)
  BY <1>2 DEF Unasked, All
<1>4. m = Free(s) => FreedLast(<<m>>, s)
  BY <1>2 DEF FreedLast
<1> QED
  BY <1>1, <1>3, <1>4, Zenon

LEMMA NotAlloc ==
  ASSUME NEW m \in Message, NEW s, m.type # "CacheAlloc" \/ s \notin m.seqs
  PROVE  m \notin Allocs(s)
BY Zenon DEF Allocs

LEMMA FreesLast ==
  ASSUME Given, NEW S \in SUBSET SeqId, NEW s \in SeqId
  PROVE  /\ Frees(S) \in Seq(Message)
         /\ Unasked(Frees(S), s)
         /\ s \in S => FreedLast(Frees(S), s)
<1>1. Frees(S) \in Seq(Message) /\ All(Frees(S), {Free(t) : t \in S})
  BY FreesWhole, Zenon
<1>2. \A t \in S : Free(t) \in Message \ Allocs(s)
  BY FreeTyped, NotAlloc, Zenon
<1>3. Unasked(Frees(S), s)
  BY <1>1, <1>2, Zenon DEF Unasked, All
<1>4. ASSUME s \in S PROVE FreedLast(Frees(S), s)
  <2>1. Only(Frees(S), {Free(s)}, Message \ {Free(s)})
    BY <1>4, FreesWhole, Zenon
  <2>2. PICK i \in 1 .. Len(Frees(S)) : Frees(S)[i] = Free(s)
    BY <2>1, Zenon DEF Only
  <2>3. Len(Frees(S)) \in Nat
    BY <1>1
  <2> QED
    BY <1>3, <2>2, <2>3, Zenon DEF FreedLast, Unasked, All
<1> QED
  BY <1>1, <1>3, <1>4, Zenon

LEMMA GoneKept ==
  ASSUME TInv, NEW w \in Stage, NEW s \in SeqId, NEW r \in Seq(Message), Unasked(r, s),
         down'[w] = down[w] \o r, UNCHANGED <<inbox, handles>>,
         Gone(w, s) \/ FreedLast(r, s)
  PROVE  Gone(w, s)'
<1>1. down[w] \in Seq(Message)
  BY Zenon DEF TInv
<1>2. /\ FreedLast(down[w], s) => FreedLast(down'[w], s)
      /\ FreedLast(r, s) => FreedLast(down'[w], s)
      /\ Unasked(down[w], s) => Unasked(down'[w], s)
  BY <1>1, FreedLastConcat, Zenon
<1>3. /\ FreedLast(inbox[w], s)' <=> FreedLast(inbox[w], s)
      /\ Unasked(inbox[w], s)' <=> Unasked(inbox[w], s)
      /\ FreedLast(down[w], s)' <=> FreedLast(down'[w], s)
      /\ Unasked(down[w], s)' <=> Unasked(down'[w], s)
  BY DEF FreedLast, Unasked, All, Allocs, Free, Msg
<1> QED
  BY <1>2, <1>3, Zenon DEF Gone

Lost(s) == fate[s] \in {"failed", "aborted"}

\* Steps that send, and fail or abort no sequence.
LEMMA AInvSent ==
  ASSUME TInv, AInv, UNCHANGED <<inbox, handles, linked>>,
         \A s \in SeqId : Lost(s)' => Lost(s),
         \A w \in Stage, s \in SeqId : Lost(s) =>
           \E r \in Seq(Message) : down'[w] = down[w] \o r /\ Unasked(r, s)
  PROVE  AInv'
<1> SUFFICES ASSUME NEW w \in Stage, NEW s \in SeqId, linked'[w], Lost(s)'
             PROVE  Gone(w, s)'
  BY Zenon DEF AInv, Lost
<1>1. Lost(s) /\ Gone(w, s)
  BY Zenon DEF AInv, Lost
<1>2. PICK r \in Seq(Message) : down'[w] = down[w] \o r /\ Unasked(r, s)
  BY <1>1, Zenon
<1> QED
  BY <1>1, <1>2, GoneKept, Zenon

\* Steps that fail or abort the sequences of S and tell every worker.
LEMMA AInvFreed ==
  ASSUME Given, TInv, AInv, UNCHANGED <<inbox, handles, linked>>,
         NEW S \in SUBSET SeqId,
         \A s \in SeqId : Lost(s)' => Lost(s) \/ s \in S,
         \A w \in Stage : linked[w] => down'[w] = down[w] \o Frees(S)
  PROVE  AInv'
<1> SUFFICES ASSUME NEW w \in Stage, NEW s \in SeqId, linked'[w], Lost(s)'
             PROVE  Gone(w, s)'
  BY Zenon DEF AInv, Lost
<1>1. /\ Frees(S) \in Seq(Message) /\ Unasked(Frees(S), s)
      /\ s \in S => FreedLast(Frees(S), s)
  BY FreesLast, Zenon
<1>2. Lost(s) => Gone(w, s)
  BY Zenon DEF AInv, Lost
<1>3. down'[w] = down[w] \o Frees(S) /\ (Gone(w, s) \/ FreedLast(Frees(S), s))
  BY <1>1, <1>2, Zenon
<1> QED
  BY <1>1, <1>3, GoneKept, Zenon

\* Sending one message, or nothing, to a worker.
LEMMA SentSuffix ==
  ASSUME TInv, NEW S \in SUBSET Stage, NEW m \in Message, down' = Sent(down, S, m),
         NEW w \in Stage, NEW s, m \notin Allocs(s)
  PROVE  \E r \in Seq(Message) : down'[w] = down[w] \o r /\ Unasked(r, s)
<1>1. /\ linked \in [Stage -> BOOLEAN] /\ down \in [Stage -> Seq(Message)]
      /\ down[w] \in Seq(Message)
  BY Zenon DEF TInv
<1>2. down'[w] = IF w \in S /\ linked[w] THEN Append(down[w], m) ELSE down[w]
  BY <1>1, SentTyped, ZenonT(30)
<1>3. CASE w \in S /\ linked[w]
  BY <1>1, <1>2, <1>3, Alone, Zenon
<1>4. CASE ~(w \in S /\ linked[w])
  <2>1. down'[w] = down[w] \o <<>> /\ <<>> \in Seq(Message) /\ Unasked(<<>>, s)
    BY <1>1, <1>2, <1>4, AllEmpty DEF Unasked
  <2> QED
    BY <2>1, Zenon
<1> QED
  BY <1>3, <1>4, Zenon

LEMMA SameSuffix ==
  ASSUME TInv, down' = down, NEW w \in Stage, NEW s
  PROVE  \E r \in Seq(Message) : down'[w] = down[w] \o r /\ Unasked(r, s)
<1>1. down[w] \in Seq(Message)
  BY Zenon DEF TInv
<1>2. down'[w] = down[w] \o <<>> /\ <<>> \in Seq(Message) /\ Unasked(<<>>, s)
  BY <1>1, AllEmpty DEF Unasked
<1> QED
  BY <1>2, Zenon

LEMMA AInvFailed ==
  ASSUME Given, TInv, AInv, NEW S \in SUBSET Active, FailedBatch(S, down),
         UNCHANGED <<inbox, handles, linked>>
  PROVE  AInv'
<1>1. /\ S \in SUBSET SeqId
      /\ \A w \in Stage : down'[w] = IF w \in Reachable /\ linked[w]
                                     THEN down[w] \o Frees(S) ELSE down[w]
  BY BatchFailed, Zenon
<1>2. \A w \in Stage : linked[w] => w \in Reachable
  BY Zenon DEF Reachable, TInv
<1>3. \A s \in SeqId : Lost(s)' => Lost(s) \/ s \in S
  BY Zenon DEF FailedBatch, Lost
<1> QED
  BY <1>1, <1>2, <1>3, AInvFreed, Zenon

LEMMA AInvStage ==
  ASSUME Given, TInv, AInv, NEW S \in SUBSET Active, NEW k \in Stage, NEW c \in Nat,
         StageSent(S, k, c), UNCHANGED <<inbox, handles, linked>>
  PROVE  AInv'
<1>1. CASE FailedBatch(S, down)
  BY <1>1, AInvFailed, Zenon
<1>2. CASE down' = Sent(down, {k}, Msg("BatchedForward", S, c)) /\ UNCHANGED fate
  <2>1. S \in SUBSET SeqId
    BY Zenon DEF Active
  <2>2. PICK m \in Message : m = Msg("BatchedForward", S, c) /\ m.type = "BatchedForward"
    BY <2>1, MsgTyped DEF Types
  <2>3. \A w \in Stage, s \in SeqId :
          \E r \in Seq(Message) : down'[w] = down[w] \o r /\ Unasked(r, s)
    BY <1>2, <2>2, NotAlloc, SentSuffix, ZenonT(30)
  <2>4. \A s \in SeqId : Lost(s)' => Lost(s)
    BY <1>2, Zenon DEF Lost
  <2> QED
    BY <2>3, <2>4, AInvSent, Zenon
<1> QED
  BY <1>1, <1>2 DEF StageSent

LEMMA AInvCaller ==
  ASSUME Given, TInv, AInv, Caller
  PROVE  AInv'
<1>0. Id \in Nat /\ fate \in [SeqId -> Fate] /\ Id + 1 \in Nat
  BY DEF TInv, UsedType, Id
<1>1. ASSUME NEW s \in SeqId, AllocCall(s) PROVE AInv'
  <2>1. PICK m \in Message : m = Msg("CacheAlloc", {s}, Id + 1) /\ m.seqs = {s}
    BY <1>0, MsgTyped DEF Types
  <2>2. PICK S \in SUBSET Stage : down' = Sent(down, S, m)
    BY <1>1, <2>1, Zenon DEF AllocCall
  <2>3. UNCHANGED <<inbox, handles, linked>> /\ ~Lost(s)
    BY <1>1, Zenon DEF AllocCall, Lost
  <2>4. fate' = fate \/ fate' = [fate EXCEPT ![s] = "refused"]
    BY <1>1, Zenon DEF AllocCall
  <2>5. \A t \in SeqId : Lost(t)' => Lost(t)
    BY <1>0, <2>4, Zenon DEF Lost
  <2>6. ASSUME NEW w \in Stage, NEW t \in SeqId, Lost(t)
        PROVE  \E r \in Seq(Message) : down'[w] = down[w] \o r /\ Unasked(r, t)
    <3>1. t \notin m.seqs
      BY <2>1, <2>3, <2>6, Zenon
    <3> QED
      BY <2>2, <3>1, NotAlloc, SentSuffix, ZenonT(30)
  <2> QED
    BY <2>3, <2>5, <2>6, AInvSent, Zenon
<1>2. ASSUME NEW s \in SeqId, FreeCall(s) PROVE AInv'
  <2>1. Free(s) \in Message /\ Free(s).type = "CacheFree"
    BY FreeTyped, Zenon
  <2>2. UNCHANGED <<inbox, handles, linked>> /\ fate' = [fate EXCEPT ![s] = "freed"]
    BY <1>2, Zenon DEF FreeCall
  <2>3. \A t \in SeqId : Lost(t)' => Lost(t)
    BY <1>0, <2>2, Zenon DEF Lost
  <2>4. down' = down \/ \E S \in SUBSET Stage : down' = Sent(down, S, Free(s))
    BY <1>2, Zenon DEF FreeCall
  <2>5. \A w \in Stage, t \in SeqId :
          \E r \in Seq(Message) : down'[w] = down[w] \o r /\ Unasked(r, t)
    BY <2>1, <2>4, NotAlloc, SentSuffix, SameSuffix, Zenon
  <2> QED
    BY <2>2, <2>3, <2>5, AInvSent, Zenon
<1>3. ASSUME NEW S \in SUBSET SeqId, ForwardCall(S) PROVE AInv'
  <2>1. S \in SUBSET Active /\ UNCHANGED <<inbox, handles, linked>> /\ 1 \in Stage
    BY <1>3 DEF ForwardCall, Given, PipelineAssumption, Stage
  <2>2. FailedBatch(S, down) \/ StageSent(S, 1, Id + 1)
    BY <1>3, Zenon DEF ForwardCall
  <2> QED
    BY <1>0, <2>1, <2>2, AInvFailed, AInvStage, Zenon
<1>4. CASE Replace
  <2>1. ASSUME NEW w \in Stage, NEW s \in SeqId PROVE Gone(w, s)'
    <3>1. down'[w] = <<>> /\ inbox'[w] = <<>> /\ s \notin handles'[w]
      BY <1>4, Zenon DEF Replace
    <3> QED
      BY <3>1 DEF Gone, Unasked, All
  <2> QED
    BY <2>1, Zenon DEF AInv
<1>5. CASE SendHeartbeats
  <2>1. Beat \in Message /\ Beat.type = "Heartbeat" /\ Reachable \in SUBSET Stage
    BY FreeTyped, Zenon DEF Reachable
  <2>2. down' = Sent(down, Reachable, Beat) /\ UNCHANGED <<fate, inbox, handles, linked>>
    BY <1>5, Zenon DEF SendHeartbeats, Beat
  <2>3. \A t \in SeqId : Lost(t)' => Lost(t)
    BY <2>2, Zenon DEF Lost
  <2>4. \A w \in Stage, t \in SeqId :
          \E r \in Seq(Message) : down'[w] = down[w] \o r /\ Unasked(r, t)
    BY <2>1, <2>2, NotAlloc, SentSuffix, Zenon
  <2> QED
    BY <2>2, <2>3, <2>4, AInvSent, Zenon
<1>6. ASSUME NEW w \in Stage, WorkerDies(w) PROVE AInv'
  <2>1. allocated \in SUBSET SeqId
    BY Zenon DEF TInv
  <2>2. /\ dead' = dead \cup {w} /\ ~linked[w] /\ UNCHANGED <<inbox, handles, linked>>
        /\ down' = SentAll(down, Stage \ dead', Frees(allocated))
    BY <1>6, Zenon DEF WorkerDies
  <2>3. Frees(allocated) \in Seq(Message)
    BY <2>1, FreesWhole, Zenon
  <2>4. linked \in [Stage -> BOOLEAN] /\ down \in [Stage -> Seq(Message)]
    BY Zenon DEF TInv
  <2>5. \A v \in Stage : linked[v] => v \in Stage \ dead'
    BY <2>2 DEF TInv
  <2>6. \A v \in Stage : linked[v] => down'[v] = down[v] \o Frees(allocated)
    <3>1. PICK D \in SUBSET Stage : D = Stage \ dead'
      BY Zenon
    <3>2. down' = SentAll(down, D, Frees(allocated))
      BY <2>2, <3>1, Zenon
    <3>3. \A v \in Stage : down'[v] = IF v \in D /\ linked[v] THEN down[v] \o Frees(allocated)
                                      ELSE down[v]
      BY <2>3, <2>4, <3>2, SentAllTyped, Zenon
    <3> QED
      BY <2>5, <3>1, <3>3, Zenon
  <2>7. \A s \in SeqId : Lost(s)' => Lost(s) \/ s \in allocated
    BY <1>6, Zenon DEF WorkerDies, Lost
  <2> QED
    BY <2>1, <2>2, <2>6, <2>7, AInvFreed, Zenon
<1> QED
  BY <1>1, <1>2, <1>3, <1>4, <1>5, <1>6, Zenon DEF Caller

LEMMA AInvCall ==
  ASSUME Given, TInv, AInv, CallStep
  PROVE  AInv'
<1>0. Id \in Nat /\ fate \in [SeqId -> Fate] /\ call.ok \in SUBSET Stage
  BY Zenon DEF TInv, UsedType, Id, CallType
<1>1. CASE ForwardAnswer
  <2>1. PICK w : w = call.stage
    BY Zenon
  <2>2. w \in Stage /\ call.seqs \in SUBSET Active
    BY <1>1, <2>1, Zenon DEF ForwardAnswer, TInv
  <2>3. UNCHANGED <<inbox, handles, linked>>
    BY <1>1, Zenon DEF ForwardAnswer
  <2>4. \/ FailedBatch(call.seqs, down)
        \/ UNCHANGED <<fate, down>>
        \/ w # Stages /\ StageSent(call.seqs, w + 1, Id)
    BY <1>1, <2>1, Zenon DEF ForwardAnswer
  <2>5. CASE FailedBatch(call.seqs, down)
    BY <2>2, <2>3, <2>5, AInvFailed, Zenon
  <2>6. CASE UNCHANGED <<fate, down>>
    BY <2>3, <2>6, SameSuffix, AInvSent, Zenon DEF Lost
  <2>7. CASE w # Stages /\ StageSent(call.seqs, w + 1, Id)
    <3>1. w + 1 \in Stage
      BY <2>2, <2>7 DEF Given, PipelineAssumption, Stage
    <3> QED
      BY <1>0, <2>2, <2>3, <2>7, <3>1, AInvStage, Zenon
  <2> QED
    BY <2>4, <2>5, <2>6, <2>7, Zenon
<1>2. ASSUME NEW w \in Stage, SkipAck(w) \/ TaskRecv(w) PROVE AInv'
  <2>1. UNCHANGED <<fate, down, inbox, handles, linked>>
    BY <1>2, Zenon DEF SkipAck, TaskRecv
  <2> QED
    BY <2>1, SameSuffix, AInvSent, Zenon DEF Lost
<1>3. ASSUME NEW w \in Stage, AllocJoin(w) PROVE AInv'
  <2>1. PICK s \in SeqId : call.seqs = {s} /\ fate[s] = "new"
    BY <1>3, Zenon DEF AllocJoin, TInv
  <2>2. UNCHANGED <<inbox, handles, linked>>
    BY <1>3, Zenon DEF AllocJoin
  <2>3. CASE AllocFails
    <3>1. down' = Sent(down, call.ok, Free(s)) /\ fate' = [fate EXCEPT ![s] = "refused"]
      BY <2>1, <2>3, Zenon DEF AllocFails
    <3>2. Free(s) \in Message /\ Free(s).type = "CacheFree"
      BY FreeTyped, Zenon
    <3>3. \A t \in SeqId : Lost(t)' => Lost(t)
      BY <1>0, <3>1, Zenon DEF Lost
    <3>4. \A v \in Stage, t \in SeqId :
            \E r \in Seq(Message) : down'[v] = down[v] \o r /\ Unasked(r, t)
      BY <1>0, <3>1, <3>2, NotAlloc, SentSuffix, ZenonT(30)
    <3> QED
      BY <2>2, <3>3, <3>4, AInvSent, Zenon
  <2>4. CASE /\ UNCHANGED down
             /\ \/ fate' = [t \in SeqId |-> IF t \in call.seqs THEN "active" ELSE fate[t]]
                \/ UNCHANGED fate
    <3>1. \A t \in SeqId : Lost(t)' => Lost(t)
      BY <2>4 DEF Lost
    <3> QED
      BY <2>2, <2>4, <3>1, SameSuffix, AInvSent, Zenon
  <2> QED
    BY <1>3, <2>3, <2>4, Zenon DEF AllocJoin
<1> QED
  BY <1>1, <1>2, <1>3, Zenon DEF CallStep

LEMMA AInvRouter ==
  ASSUME Given, TInv, AInv, NEW w \in Stage, Router(w)
  PROVE  AInv'
<1> SUFFICES ASSUME NEW v \in Stage, NEW s \in SeqId, linked'[v], Lost(s)'
             PROVE  Gone(v, s)'
  BY Zenon DEF AInv, Lost
<1>0. /\ down \in [Stage -> Seq(Message)] /\ down[w] \in Seq(Message)
      /\ inbox[w] \in Seq(Message)
  BY Zenon DEF TInv
<1>1. /\ down[w] # <<>> /\ Head(down[w]) \in Message
      /\ down' = [down EXCEPT ![w] = Tail(@)]
      /\ \A u \in Stage : u # w => inbox'[u] = inbox[u]
      /\ IF Head(down[w]).type = "Heartbeat" THEN inbox'[w] = inbox[w]
         ELSE inbox'[w] = Append(inbox[w], Head(down[w]))
      /\ UNCHANGED <<fate, handles, linked>>
  BY RouterStep
<1>2. Gone(v, s)
  BY <1>1, Zenon DEF AInv, Lost
<1>3. CASE v # w
  <2>1. down'[v] = down[v] /\ inbox'[v] = inbox[v] /\ handles'[v] = handles[v]
    BY <1>0, <1>1, <1>3, Zenon
  <2> QED
    BY <1>2, <2>1 DEF Gone, FreedLast, Unasked, All, Allocs
<1>4. CASE v = w
  <2>1. PICK m \in Message : m = Head(down[w])
    BY <1>1, Zenon
  <2>2. PICK d, n : d = Tail(down[w]) /\ n = inbox'[w]
    BY Zenon
  <2>3. down'[w] = d /\ inbox'[w] = n /\ handles'[w] = handles[w] /\ d \in Seq(Message)
    BY <1>0, <1>1, <2>2, HeadTyped, Zenon
  <2>4. m \notin Allocs(s) =>
          /\ FreedLast(inbox[w], s) => FreedLast(n, s)
          /\ Unasked(inbox[w], s) => Unasked(n, s)
          /\ m = Free(s) => FreedLast(n, s)
    <3>1. CASE m.type = "Heartbeat"
      BY <1>1, <2>1, <2>2, <3>1, FreeTyped, Zenon
    <3>2. CASE m.type # "Heartbeat"
      <4>1. n = Append(inbox[w], m)
        BY <1>1, <2>1, <2>2, <3>2, Zenon
      <4>2. /\ n = inbox[w] \o <<m>> /\ <<m>> \in Seq(Message)
            /\ m \notin Allocs(s) => Unasked(<<m>>, s)
            /\ m = Free(s) => FreedLast(<<m>>, s)
        BY <1>0, <4>1, Alone, Zenon
      <4> QED
        BY <1>0, <4>2, FreedLastConcat, Zenon
    <3> QED
      BY <3>1, <3>2, Zenon
  <2>5. CASE FreedLast(down[w], s)
    <3>1. CASE m = Free(s) /\ Unasked(d, s)
      <4>1. m \notin Allocs(s)
        BY <3>1, FreeTyped, NotAlloc, Zenon
      <4>2. Unasked(d, s) /\ FreedLast(n, s)
        BY <2>4, <3>1, <4>1, Zenon
      <4> QED
        BY <1>4, <2>3, <4>2 DEF Gone, FreedLast, Unasked, All, Allocs
    <3>2. CASE FreedLast(d, s)
      BY <1>4, <2>3, <3>2 DEF Gone, FreedLast, Unasked, All, Allocs
    <3> QED
      BY <1>0, <2>1, <2>2, <2>5, <3>1, <3>2, FreedLastTail, Zenon
  <2>6. CASE Unasked(down[w], s)
    <3>1. m \notin Allocs(s) /\ Unasked(d, s)
      BY <1>0, <1>1, <2>1, <2>2, <2>6, AllTail, Zenon DEF Unasked
    <3>2. CASE FreedLast(inbox[w], s)
      <4>1. FreedLast(n, s)
        BY <2>4, <3>1, <3>2, Zenon
      <4> QED
        BY <1>4, <2>3, <3>1, <4>1 DEF Gone, FreedLast, Unasked, All, Allocs
    <3>3. CASE Unasked(inbox[w], s) /\ s \notin handles[w]
      <4>1. Unasked(n, s)
        BY <2>4, <3>1, <3>3, Zenon
      <4> QED
        BY <1>4, <2>3, <3>1, <3>3, <4>1 DEF Gone, FreedLast, Unasked, All, Allocs
    <3>4. CASE FreedLast(down[w], s)
      BY <2>5, <3>4, Zenon
    <3> QED
      BY <1>2, <1>4, <3>2, <3>3, <3>4, Zenon DEF Gone
  <2> QED
    BY <1>2, <1>4, <2>5, <2>6, Zenon DEF Gone
<1> QED
  BY <1>3, <1>4, Zenon

LEMMA AInvServe ==
  ASSUME Given, TInv, AInv, NEW w \in Stage,
         ServeAlloc(w) \/ ServeFree(w) \/ ServeForward(w)
  PROVE  AInv'
<1> SUFFICES ASSUME NEW v \in Stage, NEW s \in SeqId, linked'[v], Lost(s)'
             PROVE  Gone(v, s)'
  BY Zenon DEF AInv, Lost
<1>0. inbox \in [Stage -> Seq(Message)] /\ inbox[w] \in Seq(Message)
      /\ handles \in [Stage -> SUBSET SeqId]
  BY Zenon DEF TInv
<1>1. /\ inbox[w] # <<>> /\ inbox' = [inbox EXCEPT ![w] = Tail(@)]
      /\ Asked(w) \in Message
      /\ \A u \in Stage : u # w => handles'[u] = handles[u]
      /\ UNCHANGED <<fate, down, linked>>
  BY ServeStep
<1>2. Gone(v, s)
  BY <1>1, Zenon DEF AInv, Lost
<1>3. CASE v # w
  <2>1. down'[v] = down[v] /\ inbox'[v] = inbox[v] /\ handles'[v] = handles[v]
    BY <1>0, <1>1, <1>3
  <2> QED
    BY <1>2, <2>1 DEF Gone, FreedLast, Unasked, All, Allocs
<1>4. CASE v = w
  <2>1. PICK m \in Message : m = Asked(w)
    BY <1>1, Zenon
  <2>2. PICK n, d : n = Tail(inbox[w]) /\ d = down[w]
    BY Zenon
  <2>3. inbox'[w] = n /\ down'[w] = d /\ m = Head(inbox[w])
    BY <1>0, <1>1, <2>1, <2>2, Zenon DEF Asked
  <2>4. /\ m = Free(s) => s \notin handles'[w]
        /\ m \notin Allocs(s) /\ s \notin handles[w] => s \notin handles'[w]
    <3>1. CASE ServeAlloc(w)
      <4>1. m.type = "CacheAlloc"
        BY <2>3, <3>1, Zenon DEF ServeAlloc, Serves
      <4>2. handles' = handles \/ handles' = [handles EXCEPT ![w] = @ \cup m.seqs]
        BY <2>1, <3>1, Zenon DEF ServeAlloc
      <4>3. m # Free(s) /\ (m \notin Allocs(s) => s \notin m.seqs)
        BY <4>1, FreeTyped, Zenon DEF Allocs
      <4> QED
        BY <1>0, <4>2, <4>3, Zenon
    <3>2. CASE ServeFree(w)
      <4>1. IF m.seqs \subseteq handles[w]
            THEN handles' = [handles EXCEPT ![w] = @ \ m.seqs] ELSE handles' = handles
        BY <2>1, <3>2, Zenon DEF ServeFree
      <4>2. m = Free(s) => m.seqs = {s}
        BY FreeTyped, Zenon
      <4> QED
        BY <1>0, <4>1, <4>2, Zenon
    <3>3. CASE ServeForward(w)
      <4>1. m.type = "BatchedForward" /\ handles' = handles
        BY <2>3, <3>3, Zenon DEF ServeForward, Serves
      <4> QED
        BY <4>1, FreeTyped, Zenon
    <3> QED
      BY <3>1, <3>2, <3>3, Zenon
  <2>5. CASE FreedLast(d, s)
    BY <1>4, <2>3, <2>5 DEF Gone, FreedLast, Unasked, All, Allocs
  <2>6. CASE Unasked(d, s) /\ FreedLast(inbox[w], s)
    <3>1. (m = Free(s) /\ Unasked(n, s)) \/ FreedLast(n, s)
      BY <1>0, <2>2, <2>3, <2>6, FreedLastTail, Zenon
    <3> QED
      BY <1>4, <2>3, <2>4, <2>6, <3>1 DEF Gone, FreedLast, Unasked, All, Allocs
  <2>7. CASE Unasked(d, s) /\ Unasked(inbox[w], s) /\ s \notin handles[w]
    <3>1. m \notin Allocs(s) /\ Unasked(n, s)
      BY <1>0, <1>1, <2>2, <2>3, <2>7, AllTail DEF Unasked
    <3>2. s \notin handles'[w]
      BY <2>4, <2>7, <3>1, Zenon
    <3> QED
      BY <1>4, <2>3, <2>7, <3>1, <3>2 DEF Gone, FreedLast, Unasked, All, Allocs
  <2> QED
    BY <1>2, <1>4, <2>2, <2>5, <2>6, <2>7, Zenon DEF Gone
<1> QED
  BY <1>3, <1>4, Zenon

LEMMA AInvNext ==
  ASSUME Given, TInv, AInv, [Next]_vars
  PROVE  AInv'
<1>1. ASSUME NEW w \in Stage, LinkLost(w) PROVE AInv'
  <2>1. /\ linked' = [linked EXCEPT ![w] = FALSE] /\ down' = [down EXCEPT ![w] = <<>>]
        /\ UNCHANGED <<fate, inbox, handles>>
        /\ linked \in [Stage -> BOOLEAN] /\ down \in [Stage -> Seq(Message)]
    BY <1>1, Zenon DEF LinkLost, TInv
  <2>2. ASSUME NEW v \in Stage, NEW s \in SeqId, linked'[v], Lost(s)'
        PROVE  Gone(v, s)'
    <3>1. v # w /\ linked[v] /\ Lost(s) /\ down'[v] = down[v]
      BY <2>1, <2>2, Zenon DEF Lost
    <3>2. Gone(v, s)
      BY <3>1, Zenon DEF AInv, Lost
    <3> QED
      BY <2>1, <3>1, <3>2, ZenonT(30) DEF Gone, FreedLast, Unasked, All, Allocs
  <2> QED
    BY <2>2, Zenon DEF AInv, Lost
<1>2. CASE Quiet \/ UNCHANGED vars
  <2>1. UNCHANGED <<fate, inbox, handles, linked, down>>
    BY <1>2, Zenon DEF Quiet, vars
  <2> QED
    BY <2>1, SameSuffix, AInvSent, Zenon DEF Lost
<1>3. ASSUME NEW w \in Stage, WorkerStep(w) PROVE AInv'
  BY <1>3, AInvRouter, AInvServe, Zenon DEF WorkerStep
<1> QED
  BY <1>1, <1>2, <1>3, AInvCaller, AInvCall, Zenon DEF Next

-----------------------------------------------------------------------------
(* FInv is inductive when nothing is refused or lost.  First, what a step  *)
(* does to the queues of one worker.                                       *)
LEMMA BackgroundTyped ==
  /\ Background \subseteq Message
  /\ \A m \in Background : m.type = "Heartbeat" => m = Beat
  /\ \A m \in Background : m.type \in {"Heartbeat", "CacheFree"}
  /\ \A m \in Acks : m \in Message /\ m.type = "HeartbeatAck" /\ m.call = 0
  /\ Msg("HeartbeatAck", Beat.seqs, Beat.call) \in Acks
<1>1. Background \subseteq Message /\ \A m \in Background : m = Beat \/ m.type = "CacheFree"
  BY FreeTyped DEF Background
<1>2. Beat.seqs = {} /\ Beat.call = 0 /\ Beat.type = "Heartbeat"
  BY Zenon DEF Beat, Msg
<1>3. \A m \in Acks : m \in Message /\ m.type = "HeartbeatAck" /\ m.call = 0
  BY MsgTyped DEF Acks, Types
<1> QED
  BY <1>1, <1>2, <1>3, Zenon DEF Acks

\* Sending background messages, or one request.
LEMMA ClearSent ==
  ASSUME NEW d \in Seq(Message), NEW n \in Seq(Message), NEW u \in Seq(Message),
         Clear(d, n, u)
  PROVE  /\ \A r \in Seq(Message) : All(r, Background) => Clear(d \o r, n, u)
         /\ \A m \in Message : Pending(Append(d, m), n, u, m)
<1>1. \A r \in Seq(Message) : All(r, Background) => Clear(d \o r, n, u)
  BY AllConcat, Zenon DEF Clear
<1>2. ASSUME NEW m \in Message PROVE Pending(Append(d, m), n, u, m)
  <2>1. All(d, Background) /\ m \in {m}
    BY Zenon DEF Clear
  <2>2. Only(Append(d, m), {m}, Background)
    BY <2>1, OnlyAppended, Zenon
  <2> QED
    BY <2>2, Zenon DEF Clear, Pending
<1> QED
  BY <1>1, <1>2, Zenon

LEMMA OwedSent ==
  ASSUME NEW d \in Seq(Message), NEW n \in Seq(Message), NEW r \in Seq(Message), NEW s
  PROVE  /\ All(r, Other(s)) /\ Owed(d, n, s) => Owed(d \o r, n, s)
         /\ All(r, Other(s)) /\ NotOwed(d, n, s) => NotOwed(d \o r, n, s)
         /\ Only(r, {Free(s)}, Other(s)) /\ NotOwed(d, n, s) => Owed(d \o r, n, s)
<1>1. All(r, Other(s)) /\ Owed(d, n, s) => Owed(d \o r, n, s)
  BY AllConcat, OnlyThenAll, Zenon DEF Owed
<1>2. All(r, Other(s)) /\ NotOwed(d, n, s) => NotOwed(d \o r, n, s)
  BY AllConcat, Zenon DEF NotOwed
<1>3. Only(r, {Free(s)}, Other(s)) /\ NotOwed(d, n, s) => Owed(d \o r, n, s)
  BY AllThenOnly, Zenon DEF NotOwed, Owed
<1> QED
  BY <1>1, <1>2, <1>3, Zenon

\* The router takes one message off the connection.
Routed(d, n, u, d2, n2, u2) ==
  /\ d # <<>> /\ d2 = Tail(d)
  /\ IF Head(d).type = "Heartbeat"
     THEN n2 = n /\ u2 = Append(u, Msg("HeartbeatAck", Head(d).seqs, Head(d).call))
     ELSE n2 = Append(n, Head(d)) /\ u2 = u

\* One message x, and the rest of d.
LEMMA RoutedBackground ==
  ASSUME NEW d \in Seq(Message), NEW n \in Seq(Message), NEW u \in Seq(Message),
         NEW d2, NEW n2, NEW u2, Routed(d, n, u, d2, n2, u2), Head(d) \in Background,
         NEW M
  PROVE  /\ All(n, Background) => All(n2, Background)
         /\ Only(n, M, Background) => Only(n2, M, Background)
         /\ All(u, Acks) => All(u2, Acks)
         /\ Only(u, M, Acks) => Only(u2, M, Acks)
<1>1. PICK x : x = Head(d)
  BY Zenon
<1>2. x \in Message /\ x \in Background
  BY <1>1, BackgroundTyped, Zenon
<1>3. CASE x.type = "Heartbeat"
  <2>1. PICK a : a = Msg("HeartbeatAck", Beat.seqs, Beat.call)
    BY Zenon
  <2>2. a \in Acks /\ a \in Message /\ x = Beat
    BY <1>2, <1>3, <2>1, BackgroundTyped, Zenon
  <2>3. n2 = n /\ u2 = Append(u, a)
    BY <1>1, <1>3, <2>1, <2>2, Zenon DEF Routed
  <2> QED
    BY <2>2, <2>3, AllAppend, OnlyAppend, Zenon
<1>4. CASE x.type # "Heartbeat"
  <2>1. n2 = Append(n, x) /\ u2 = u
    BY <1>1, <1>4, Zenon DEF Routed
  <2> QED
    BY <1>2, <2>1, AllAppend, OnlyAppend, Zenon
<1> QED
  BY <1>3, <1>4, Zenon

LEMMA RoutedKeeps ==
  ASSUME NEW d \in Seq(Message), NEW n \in Seq(Message), NEW u \in Seq(Message),
         NEW d2, NEW n2, NEW u2, Routed(d, n, u, d2, n2, u2)
  PROVE  /\ Clear(d, n, u) => Clear(d2, n2, u2)
         /\ \A m \in Message : m.type # "Heartbeat" /\ Pending(d, n, u, m)
                                 => Pending(d2, n2, u2, m)
         /\ \A M : Replied(d, n, u, M) => Replied(d2, n2, u2, M)
<1>1. d # <<>> /\ d2 = Tail(d)
  BY Zenon DEF Routed
<1>2. ASSUME All(d, Background) PROVE Head(d) \in Background /\ All(d2, Background)
  BY <1>1, <1>2, AllTail, Zenon
<1>3. Clear(d, n, u) => Clear(d2, n2, u2)
  BY <1>2, RoutedBackground, Zenon DEF Clear
<1>4. ASSUME NEW M, Replied(d, n, u, M) PROVE Replied(d2, n2, u2, M)
  BY <1>2, <1>4, RoutedBackground, Zenon DEF Replied
<1>5. ASSUME NEW m \in Message, m.type # "Heartbeat", Pending(d, n, u, m)
      PROVE  Pending(d2, n2, u2, m)
  <2>1. CASE All(d, Background) /\ Only(n, {m}, Background)
    BY <1>2, <1>5, <2>1, RoutedBackground, Zenon DEF Pending
  <2>2. CASE Only(d, {m}, Background) /\ All(n, Background)
    <3>1. \/ Head(d) = m /\ All(d2, Background)
          \/ Head(d) \in Background /\ Only(d2, {m}, Background)
      BY <1>1, <2>2, OnlyTail
    <3>2. CASE Head(d) = m /\ All(d2, Background)
      <4>1. n2 = Append(n, m) /\ u2 = u /\ m \in {m}
        BY <1>5, <3>2, Zenon DEF Routed
      <4>2. Only(n2, {m}, Background)
        BY <2>2, <4>1, OnlyAppended, Zenon
      <4> QED
        BY <1>5, <3>2, <4>1, <4>2, Zenon DEF Pending
    <3>3. CASE Head(d) \in Background /\ Only(d2, {m}, Background)
      <4>1. All(n2, Background) /\ All(u2, Acks)
        BY <1>5, <2>2, <3>3, RoutedBackground, Zenon DEF Pending
      <4> QED
        BY <3>3, <4>1, Zenon DEF Pending
    <3> QED
      BY <3>1, <3>2, <3>3, Zenon
  <2> QED
    BY <1>5, <2>1, <2>2, Zenon DEF Pending
<1> QED
  BY <1>3, <1>4, <1>5, Zenon

LEMMA RoutedOwed ==
  ASSUME NEW d \in Seq(Message), NEW n \in Seq(Message), NEW u \in Seq(Message),
         NEW d2, NEW n2, NEW u2, Routed(d, n, u, d2, n2, u2), NEW s \in SeqId
  PROVE  /\ Owed(d, n, s) => Owed(d2, n2, s)
         /\ NotOwed(d, n, s) => NotOwed(d2, n2, s)
<1>1. d # <<>> /\ d2 = Tail(d) /\ Head(d) \in Message
  BY HeadTyped, Zenon DEF Routed
<1>2. n2 = n \/ n2 = Append(n, Head(d))
  BY Zenon DEF Routed
<1>3. ASSUME Head(d) \in Other(s)
      PROVE  /\ All(n, Other(s)) => All(n2, Other(s))
             /\ Only(n, {Free(s)}, Other(s)) => Only(n2, {Free(s)}, Other(s))
  <2>1. PICK x \in Message : x = Head(d)
    BY <1>1
  <2>2. CASE n2 = n
    BY <2>2, Zenon
  <2>3. CASE n2 = Append(n, x)
    BY <1>3, <2>1, <2>3, AllAppend, OnlyAppend, Zenon
  <2> QED
    BY <1>2, <2>1, <2>2, <2>3, Zenon
<1>4. ASSUME All(d, Other(s)) PROVE Head(d) \in Other(s) /\ All(d2, Other(s))
  BY <1>1, <1>4, AllTail, Zenon
<1>5. NotOwed(d, n, s) => NotOwed(d2, n2, s)
  BY <1>3, <1>4, Zenon DEF NotOwed
<1>6. CASE All(d, Other(s)) /\ Only(n, {Free(s)}, Other(s))
  BY <1>3, <1>4, <1>5, <1>6, Zenon DEF Owed
<1>7. CASE Only(d, {Free(s)}, Other(s)) /\ All(n, Other(s))
  <2>1. \/ Head(d) = Free(s) /\ All(d2, Other(s))
        \/ Head(d) \in Other(s) /\ Only(d2, {Free(s)}, Other(s))
    BY <1>1, <1>7, OnlyTail
  <2>2. CASE Head(d) = Free(s) /\ All(d2, Other(s))
    <3>1. n2 = Append(n, Free(s)) /\ Free(s) \in {Free(s)} /\ Free(s) \in Message
      BY <2>2, FreeTyped, Zenon DEF Routed
    <3>2. Only(n2, {Free(s)}, Other(s))
      BY <1>7, <3>1, OnlyAppended, Zenon
    <3> QED
      BY <1>5, <2>2, <3>2, Zenon DEF Owed
  <2>3. CASE Head(d) \in Other(s) /\ Only(d2, {Free(s)}, Other(s))
    BY <1>3, <1>5, <1>7, <2>3, Zenon DEF Owed
  <2> QED
    BY <2>1, <2>2, <2>3, Zenon
<1> QED
  BY <1>5, <1>6, <1>7, Zenon DEF Owed

\* The worker takes one message from its queue n.
LEMMA ServedKeeps ==
  ASSUME NEW d, NEW n \in Seq(Message), n # <<>>, NEW u
  PROVE  /\ Clear(d, n, u) => Head(n) \in Background /\ Clear(d, Tail(n), u)
         /\ \A m : Pending(d, n, u, m) => \/ Head(n) = m /\ Clear(d, Tail(n), u)
                                          \/ Head(n) \in Background /\ Pending(d, Tail(n), u, m)
         /\ \A M : Replied(d, n, u, M) => Head(n) \in Background /\ Replied(d, Tail(n), u, M)
<1>1. All(n, Background) => Head(n) \in Background /\ All(Tail(n), Background)
  BY AllTail, Zenon
<1>2. ASSUME NEW m, Only(n, {m}, Background)
      PROVE  \/ Head(n) = m /\ All(Tail(n), Background)
             \/ Head(n) \in Background /\ Only(Tail(n), {m}, Background)
  BY <1>2, OnlyTail, Zenon
<1>3. \A m : Pending(d, n, u, m) => \/ Head(n) = m /\ Clear(d, Tail(n), u)
                                    \/ Head(n) \in Background /\ Pending(d, Tail(n), u, m)
  BY <1>1, <1>2, Zenon DEF Pending, Clear
<1> QED
  BY <1>1, <1>3 DEF Clear, Replied

LEMMA ServedOwed ==
  ASSUME NEW d, NEW n \in Seq(Message), n # <<>>, NEW s
  PROVE  /\ NotOwed(d, n, s) => Head(n) # Free(s) /\ NotOwed(d, Tail(n), s)
         /\ Owed(d, n, s) => \/ Head(n) = Free(s) /\ NotOwed(d, Tail(n), s)
                             \/ Head(n) # Free(s) /\ Owed(d, Tail(n), s)
<1>1. All(n, Other(s)) => Head(n) # Free(s) /\ All(Tail(n), Other(s))
  BY AllTail, Zenon DEF Other
<1>2. Only(n, {Free(s)}, Other(s)) => \/ Head(n) = Free(s) /\ All(Tail(n), Other(s))
                                      \/ Head(n) # Free(s) /\ Only(Tail(n), {Free(s)}, Other(s))
  BY OnlyTail DEF Other
<1> QED
  BY <1>1, <1>2, Zenon DEF Owed, NotOwed

\* An answer is put on the connection, and taken off it.
LEMMA Answering ==
  ASSUME NEW d, NEW n, NEW u \in Seq(Message), NEW a \in Message, NEW M, a \in M,
         Clear(d, n, u)
  PROVE  Replied(d, n, Append(u, a), M)
BY OnlyAppended DEF Clear, Replied

LEMMA Taking ==
  ASSUME NEW d, NEW n, NEW u \in Seq(Message), u # <<>>
  PROVE  /\ Clear(d, n, u) => Head(u) \in Acks /\ Clear(d, n, Tail(u))
         /\ \A m : Pending(d, n, u, m) => Head(u) \in Acks /\ Pending(d, n, Tail(u), m)
         /\ \A M : Replied(d, n, u, M) => \/ Head(u) \in M /\ Clear(d, n, Tail(u))
                                          \/ Head(u) \in Acks /\ Replied(d, n, Tail(u), M)
<1>1. All(u, Acks) => Head(u) \in Acks /\ All(Tail(u), Acks)
  BY AllTail, Zenon
<1>2. ASSUME NEW M, Only(u, M, Acks)
      PROVE  \/ Head(u) \in M /\ All(Tail(u), Acks)
             \/ Head(u) \in Acks /\ Only(Tail(u), M, Acks)
  BY <1>2, OnlyTail, Zenon
<1>3. \A M : Replied(d, n, u, M) => \/ Head(u) \in M /\ Clear(d, n, Tail(u))
                                    \/ Head(u) \in Acks /\ Replied(d, n, Tail(u), M)
  BY <1>2, Zenon DEF Replied, Clear
<1> QED
  BY <1>1, <1>3, Zenon DEF Clear, Pending

LEMMA AloneIn ==
  ASSUME NEW q \in Seq(Message), NEW m \in Message, NEW T, m \in T
  PROVE  Append(q, m) = q \o <<m>> /\ <<m>> \in Seq(Message) /\ All(<<m>>, T)
<1>1. Append(q, m) = q \o <<m>> /\ <<m>> \in Seq(Message)
  OBVIOUS
<1>2. Len(<<m>>) = 1 /\ <<m>>[1] = m
  BY Zenon
<1> QED
  BY <1>1, <1>2 DEF All

LEMMA Typed ==
  ASSUME TInv, NEW w \in Stage
  PROVE  /\ down[w] \in Seq(Message) /\ inbox[w] \in Seq(Message) /\ up[w] \in Seq(Message)
         /\ handles[w] \in SUBSET SeqId /\ Id \in Nat
BY Zenon DEF TInv, UsedType, Id

LEMMA AccountSent ==
  ASSUME TInv, NEW w \in Stage, NEW s \in SeqId, Account(w, s),
         NEW r \in Seq(Message), All(r, Other(s)),
         down'[w] = down[w] \o r, inbox'[w] = inbox[w], handles'[w] = handles[w],
         fate'[s] = fate[s],
         fate[s] = "new" => s \notin handles[w] \/ (call'.op = "alloc" /\ s \in call'.seqs)
  PROVE  Account(w, s)'
<1>1. down[w] \in Seq(Message) /\ inbox[w] \in Seq(Message)
  BY Typed, Zenon
<1>2. /\ Owed(down[w], inbox[w], s) => Owed(down'[w], inbox'[w], s)
      /\ NotOwed(down[w], inbox[w], s) => NotOwed(down'[w], inbox'[w], s)
  BY <1>1, OwedSent, Zenon
<1>3. /\ Owed(down[w], inbox[w], s)' <=> Owed(down'[w], inbox'[w], s)
      /\ NotOwed(down[w], inbox[w], s)' <=> NotOwed(down'[w], inbox'[w], s)
  BY Zenon DEF Owed, NotOwed, All, Only, Other, Free, Msg, Message, Types
<1> QED
  BY <1>2, <1>3, Zenon DEF Account, Held

\* Nothing of what the accounts speak of changes.
LEMMA AccountSame ==
  ASSUME TInv, NEW w \in Stage, NEW s \in SeqId, Account(w, s),
         down'[w] = down[w], inbox'[w] = inbox[w], handles'[w] = handles[w],
         fate'[s] = fate[s],
         fate[s] = "new" => s \notin handles[w] \/ (call'.op = "alloc" /\ s \in call'.seqs)
  PROVE  Account(w, s)'
<1>1. down'[w] = down[w] \o <<>> /\ <<>> \in Seq(Message) /\ All(<<>>, Other(s))
  BY Typed, AllEmpty
<1> QED
  BY <1>1, AccountSent, Zenon

LEMMA AllLinked ==
  ASSUME Connected, Given
  PROVE  \A S \in SUBSET Stage : Reached(S) => S = Stage
BY Zenon DEF Connected, Reached

LEMMA FInvAlloc ==
  ASSUME Given, TInv, FInv, NEW s \in SeqId, AllocCall(s)
  PROVE  FInv'
<1>0. used \in UsedType /\ Id \in Nat /\ MaxCalls \in Nat /\ linked \in [Stage -> BOOLEAN]
      /\ down \in [Stage -> Seq(Message)]
  BY Zenon DEF TInv, UsedType, Id, Given, PipelineAssumption
<1>1. /\ call.op = "idle" /\ fate[s] = "new" /\ Spend("calls", MaxCalls)
      /\ UNCHANGED <<allocated, inbox, up, handles, linked, dead>>
  BY Zenon DEF AllocCall, Callable
<1>2. used'.calls = used.calls + 1
  BY <1>0, <1>1, Spending, Zenon
<1>3. PICK m \in Message :
        m = Msg("CacheAlloc", {s}, Id + 1) /\ m.type = "CacheAlloc" /\ m.seqs = {s}
  BY <1>0, MsgTyped DEF Types
<1>4. Connected
  BY Zenon DEF FInv
<1>5. /\ down' = Sent(down, Stage, m)
      /\ call' = [Idle EXCEPT !.op = "alloc", !.seqs = {s}, !.wait = Stage]
      /\ fate' = fate
  BY <1>3, <1>4, AllLinked, Zenon DEF AllocCall
<1>6. \A w \in Stage : down'[w] = Append(down[w], m)
  BY <1>0, <1>4, <1>5, SentTyped, ZenonT(30) DEF Connected
<1>7. /\ call'.op = "alloc" /\ call'.seqs = {s} /\ call'.wait = Stage
      /\ \A w \in Stage : call'.got[w] = NoMsg
  BY <1>5, AllocTyped, IdleTyped, Zenon
<1>8. AllocReq' = m
  BY <1>2, <1>3, <1>7, Zenon DEF AllocReq, Id
<1>9. ASSUME NEW w \in Stage PROVE Allocating(w)'
  <2>1. Clear(down[w], inbox[w], up[w])
    BY <1>1, Zenon DEF FInv, Resting
  <2>2. Pending(down'[w], inbox[w], up[w], m)
    BY <1>6, <2>1, Typed, ClearSent, Zenon
  <2>3. Account(w, s)
    BY Zenon DEF FInv
  <2>4. s \notin handles[w]
    BY <1>1, <2>3, Zenon DEF Account, Held
  <2>5. Pending(down[w], inbox[w], up[w], AllocReq)'
    BY <1>1, <1>8, <2>2, Zenon
  <2> QED
    BY <1>1, <1>7, <2>4, <2>5 DEF Allocating
<1>10. ASSUME NEW w \in Stage, NEW t \in SeqId PROVE Account(w, t)'
  <2>1. Account(w, t)
    BY Zenon DEF FInv
  <2>2. m \in Other(t)
    BY <1>3, FreeTyped, Zenon DEF Other
  <2>3. <<m>> \in Seq(Message) /\ All(<<m>>, Other(t)) /\ down'[w] = down[w] \o <<m>>
    BY <1>6, <2>2, Typed, AloneIn, Zenon
  <2>4. fate[t] = "new" => t \notin handles[w]
    BY <1>1, <2>1, Zenon DEF Account, Held
  <2> QED
    BY <1>1, <1>5, <2>1, <2>3, <2>4, AccountSent, Zenon
<1>11. (allocated = Active)' /\ Connected'
  BY <1>1, <1>5, Zenon DEF FInv, Active, Connected
<1> QED
  BY <1>7, <1>9, <1>10, <1>11, Zenon DEF FInv

\* A call takes a message off the connection of w; the rest is as it was.
LEMMA FInvSkip ==
  ASSUME Given, TInv, FInv, NEW w \in Stage, SkipAck(w)
  PROVE  FInv'
<1>1. /\ w \in call.wait /\ call.got[w] = NoMsg /\ call.op # "idle"
      /\ up[w] # <<>> /\ Head(up[w]).type = "HeartbeatAck" /\ up' = [up EXCEPT ![w] = Tail(@)]
      /\ UNCHANGED <<fate, allocated, call, down, inbox, handles, linked, dead, used>>
  BY Zenon DEF SkipAck
<1>2. up'[w] = Tail(up[w]) /\ \A v \in Stage : v # w => up'[v] = up[v]
  BY <1>1, Zenon DEF TInv
<1>3. call.op \in {"alloc", "forward"}
  BY <1>1, Zenon DEF TInv, CallType
<1>4. AllocReq' = AllocReq /\ AllocAck' = AllocAck /\ PassReq' = PassReq
      /\ PassAnswers' = PassAnswers
  BY <1>1, Zenon DEF AllocReq, AllocAck, PassReq, PassAnswers, Id
<1>5. call.seqs \in SUBSET SeqId /\ Id \in Nat
  BY Typed, Zenon DEF TInv, CallType
<1>6. AllocAck.type = "CacheAllocAck"
      /\ \A a \in PassAnswers : a.type \in {"BatchedForwardResult", "Error"}
  BY <1>5, MsgTyped DEF AllocAck, PassAnswers, Types
<1>7. /\ Clear(down[w], inbox[w], up[w]) => Clear(down[w], inbox[w], Tail(up[w]))
      /\ \A m : Pending(down[w], inbox[w], up[w], m) => Pending(down[w], inbox[w], Tail(up[w]), m)
      /\ \A M : Replied(down[w], inbox[w], up[w], M) =>
                 Head(up[w]) \in M \/ Replied(down[w], inbox[w], Tail(up[w]), M)
  BY <1>1, Typed, Taking, Zenon
<1>8. ASSUME call.op = "alloc", NEW v \in Stage PROVE Allocating(v)'
  <2>1. Allocating(v)
    BY <1>8, Zenon DEF FInv
  <2>2. CASE v # w
    BY <1>1, <1>2, <1>4, <2>1, <2>2, Zenon DEF Allocating, Resting
  <2>3. CASE v = w
    <3>1. /\ \/ Pending(down[w], inbox[w], up[w], AllocReq) /\ call.seqs \cap handles[w] = {}
             \/ Replied(down[w], inbox[w], up[w], {AllocAck}) /\ call.seqs \subseteq handles[w]
      <4>1. AllocAck # NoMsg
        BY <1>6, FreeTyped, Zenon
      <4> QED
        BY <1>1, <2>1, <2>3, <4>1, Zenon DEF Allocating
    <3>2. Head(up[w]) \notin {AllocAck}
      BY <1>1, <1>6, Zenon
    <3>3. \/ /\ Pending(down'[w], inbox'[w], up'[w], AllocReq')
             /\ call'.seqs \cap handles'[w] = {}
          \/ /\ Replied(down'[w], inbox'[w], up'[w], {AllocAck'})
             /\ call'.seqs \subseteq handles'[w]
      BY <1>1, <1>2, <1>4, <1>7, <3>1, <3>2, Zenon
    <3> QED
      BY <1>1, <2>3, <3>3, Zenon DEF Allocating
  <2> QED
    BY <2>2, <2>3, Zenon
<1>9. ASSUME call.op = "forward", NEW v \in Stage PROVE Passing(v)'
  <2>1. Passing(v)
    BY <1>9, Zenon DEF FInv
  <2>2. CASE v # w
    BY <1>1, <1>2, <1>4, <2>1, <2>2, SMTT(30) DEF Passing, Resting
  <2>3. CASE v = w
    <3>1. w = call.stage
      BY <1>1, <1>9, Zenon DEF TInv
    <3>2. \/ Pending(down[w], inbox[w], up[w], PassReq)
          \/ Replied(down[w], inbox[w], up[w], PassAnswers)
      BY <2>1, <2>3, <3>1, Zenon DEF Passing
    <3>3. Head(up[w]) \notin PassAnswers
      BY <1>1, <1>6, Zenon
    <3>4. \/ Pending(down'[w], inbox'[w], up'[w], PassReq')
          \/ Replied(down'[w], inbox'[w], up'[w], PassAnswers')
      BY <1>1, <1>2, <1>4, <1>7, <3>2, <3>3, Zenon
    <3> QED
      BY <1>1, <2>1, <2>3, <3>1, <3>4 DEF Passing
  <2> QED
    BY <2>2, <2>3, Zenon
<1>10. ASSUME NEW v \in Stage, NEW s \in SeqId PROVE Account(v, s)'
  <2>1. Account(v, s)
    BY Zenon DEF FInv
  <2> QED
    BY <1>1, <2>1, Zenon DEF Account, Held, Owed, NotOwed
<1>11. (allocated = Active)' /\ Connected'
  BY <1>1, Zenon DEF FInv, Active, Connected
<1> QED
  BY <1>1, <1>3, <1>8, <1>9, <1>10, <1>11, Zenon DEF FInv

LEMMA FInvTask ==
  ASSUME Given, TInv, FInv, NEW w \in Stage, TaskRecv(w)
  PROVE  FInv'
<1>1. /\ w \in call.wait /\ call.got[w] = NoMsg /\ call.op = "alloc"
      /\ up[w] # <<>> /\ Head(up[w]).type # "HeartbeatAck" /\ up' = [up EXCEPT ![w] = Tail(@)]
      /\ call' = [call EXCEPT !.got[w] = Head(up[w])]
      /\ UNCHANGED <<fate, allocated, down, inbox, handles, linked, dead, used>>
  BY Zenon DEF TaskRecv
<1>2. up'[w] = Tail(up[w]) /\ \A v \in Stage : v # w => up'[v] = up[v]
  BY <1>1, Zenon DEF TInv
<1>3. /\ call'.op = "alloc" /\ call'.seqs = call.seqs /\ call'.wait = call.wait
      /\ call'.got[w] = Head(up[w]) /\ \A v \in Stage : v # w => call'.got[v] = call.got[v]
  BY <1>1, Zenon DEF TInv, CallType
<1>4. AllocReq' = AllocReq /\ AllocAck' = AllocAck
  BY <1>1, <1>3, Zenon DEF AllocReq, AllocAck, Id
<1>5. AllocAck # NoMsg
  <2>1. call.seqs \in SUBSET SeqId /\ Id \in Nat
    BY Typed, Zenon DEF TInv, CallType
  <2> QED
    BY <2>1, MsgTyped, FreeTyped DEF AllocAck, Types
<1>6. Head(up[w]) \notin Acks
  BY <1>1, BackgroundTyped, Zenon
<1>7. /\ \A m : ~Pending(down[w], inbox[w], up[w], m)
      /\ \A M : Replied(down[w], inbox[w], up[w], M) =>
                 Head(up[w]) \in M /\ Clear(down[w], inbox[w], Tail(up[w]))
  BY <1>1, <1>6, Typed, Taking, Zenon
<1>8. ASSUME NEW v \in Stage PROVE Allocating(v)'
  <2>1. Allocating(v)
    BY <1>1, Zenon DEF FInv
  <2>2. CASE v # w
    BY <1>1, <1>2, <1>3, <1>4, <2>1, <2>2, Zenon DEF Allocating, Resting
  <2>3. CASE v = w
    <3>1. Replied(down[w], inbox[w], up[w], {AllocAck}) /\ call.seqs \subseteq handles[w]
      BY <1>1, <1>5, <1>7, <2>1, <2>3, Zenon DEF Allocating
    <3>2. Head(up[w]) = AllocAck /\ Clear(down[w], inbox[w], Tail(up[w]))
      BY <1>7, <3>1
    <3>3. call'.got[w] = AllocAck' /\ Resting(w)' /\ call'.seqs \subseteq handles'[w]
      BY <1>1, <1>2, <1>3, <1>4, <3>1, <3>2, Zenon DEF Resting
    <3> QED
      BY <2>3, <3>3, Zenon DEF Allocating
  <2> QED
    BY <2>2, <2>3, Zenon
<1>9. ASSUME NEW v \in Stage, NEW s \in SeqId PROVE Account(v, s)'
  <2>1. Account(v, s)
    BY Zenon DEF FInv
  <2> QED
    BY <1>1, <1>3, <2>1, Zenon DEF Account, Held, Owed, NotOwed
<1>10. (allocated = Active)' /\ Connected'
  BY <1>1, Zenon DEF FInv, Active, Connected
<1> QED
  BY <1>3, <1>8, <1>9, <1>10, Zenon DEF FInv

LEMMA FInvJoin ==
  ASSUME Given, TInv, FInv, NEW w \in Stage, AllocJoin(w)
  PROVE  FInv'
<1>1. /\ call.op = "alloc" /\ w \in call.wait /\ linked[w]
      /\ UNCHANGED <<inbox, up, handles, linked, dead, used>>
  BY Zenon DEF AllocJoin, FInv, Connected
<1>2. PICK s \in SeqId : call.seqs = {s} /\ fate[s] = "new"
  BY <1>1, Zenon DEF TInv
<1>3. AllocAck # NoMsg /\ AllocAck.type = "CacheAllocAck"
  <2>1. call.seqs \in SUBSET SeqId /\ Id \in Nat
    BY Typed, Zenon DEF TInv, CallType
  <2> QED
    BY <2>1, MsgTyped, FreeTyped DEF AllocAck, Types
<1>4. \A v \in Stage : Allocating(v)
  BY <1>1, Zenon DEF FInv
<1>5. call.got[w] \in {NoMsg, AllocAck}
  BY <1>4, Zenon DEF Allocating
<1>6. /\ call.got[w] = AllocAck /\ UNCHANGED down
      /\ IF call.wait = {w}
         THEN /\ call' = Idle
              /\ allocated' = allocated \cup call.seqs
              /\ fate' = [t \in SeqId |-> IF t \in call.seqs THEN "active" ELSE fate[t]]
         ELSE /\ call' = [call EXCEPT !.wait = @ \ {w}, !.ok = @ \cup {w}]
              /\ UNCHANGED <<allocated, fate>>
  BY <1>1, <1>3, <1>5, Zenon DEF AllocJoin, Broken
<1>7. CASE call.wait = {w}
  <2>1. \A v \in Stage : Resting(v) /\ s \in handles[v]
    BY <1>2, <1>3, <1>4, <1>6, <1>7, Zenon DEF Allocating
  <2>2. call' = Idle /\ call'.op = "idle" /\ \A v \in Stage : call'.got[v] = NoMsg
    BY <1>6, <1>7, IdleTyped, Zenon
  <2>3. /\ allocated' = allocated \cup {s}
        /\ fate' = [t \in SeqId |-> IF t = s THEN "active" ELSE fate[t]]
    BY <1>2, <1>6, <1>7, Zenon
  <2>4. ASSUME NEW v \in Stage PROVE Resting(v)'
    <3>1. Clear(down[v], inbox[v], up[v])
      BY <2>1, Zenon DEF Resting
    <3> QED
      BY <1>1, <1>6, <3>1, Zenon DEF Resting
  <2>5. ASSUME NEW v \in Stage, NEW t \in SeqId PROVE Account(v, t)'
    <3>1. Account(v, t)
      BY Zenon DEF FInv
    <3>2. UNCHANGED <<down, inbox, handles>> /\ fate'[t] = IF t = s THEN "active" ELSE fate[t]
      BY <1>1, <1>6, <2>3, Zenon
    <3>3. CASE t = s
      <4>1. NotOwed(down[v], inbox[v], s)
        BY <1>2, <3>1, <3>3, Zenon DEF Account
      <4> QED
        BY <2>1, <3>2, <3>3, <4>1, Zenon DEF Account, Held, NotOwed
    <3>4. CASE t # s
      <4>1. fate[t] = "new" => t \notin handles[v]
        BY <1>2, <3>1, <3>4, Zenon DEF Account, Held
      <4> QED
        BY <3>1, <3>2, <3>4, <4>1, AccountSame, Zenon
    <3> QED
      BY <3>3, <3>4, Zenon
  <2>6. (allocated = Active)' /\ Connected'
    <3>1. allocated = Active /\ Connected
      BY Zenon DEF FInv
    <3>2. Active' = Active \cup {s}
      BY <2>3, Zenon DEF Active
    <3> QED
      BY <1>1, <2>3, <3>1, <3>2 DEF Connected
  <2> QED
    BY <2>2, <2>4, <2>5, <2>6 DEF FInv
<1>8. CASE call.wait # {w}
  <2>1. /\ call'.op = "alloc" /\ call'.seqs = call.seqs /\ call'.got = call.got
        /\ call'.wait = call.wait \ {w}
    BY <1>1, <1>6, <1>8, ZenonT(30) DEF TInv, CallType
  <2>2. UNCHANGED <<allocated, fate, down>>
    BY <1>6, <1>8, Zenon
  <2>3. AllocReq' = AllocReq /\ AllocAck' = AllocAck
    BY <1>1, <2>1, Zenon DEF AllocReq, AllocAck, Id
  <2>4. ASSUME NEW v \in Stage PROVE Allocating(v)'
    <3>1. Allocating(v) /\ (v = w => call.got[v] = AllocAck)
      BY <1>4, <1>6, Zenon
    <3>2. CASE v = w
      <4>1. Resting(v) /\ call.seqs \subseteq handles[v] /\ call.got[v] = AllocAck
        BY <1>3, <3>1, <3>2, Zenon DEF Allocating
      <4>2. Resting(v)' /\ call'.seqs \subseteq handles'[v] /\ call'.got[v] = AllocAck'
        BY <1>1, <2>1, <2>2, <2>3, <4>1 DEF Resting
      <4> QED
        BY <4>2, Zenon DEF Allocating
    <3>3. CASE v # w
      BY <1>1, <2>1, <2>2, <2>3, <3>1, <3>3, Zenon DEF Allocating, Resting
    <3> QED
      BY <3>2, <3>3, Zenon
  <2>5. ASSUME NEW v \in Stage, NEW t \in SeqId PROVE Account(v, t)'
    <3>1. Account(v, t)
      BY Zenon DEF FInv
    <3> QED
      BY <1>1, <2>1, <2>2, <3>1, Zenon DEF Account, Held, Owed, NotOwed
  <2>6. (allocated = Active)' /\ Connected'
    BY <1>1, <2>2, Zenon DEF FInv, Active, Connected
  <2> QED
    BY <2>1, <2>4, <2>5, <2>6, Zenon DEF FInv
<1> QED
  BY <1>7, <1>8, Zenon

\* A request of a pass goes out to stage k of a pipeline at rest.
LEMMA FInvStage ==
  ASSUME Given, TInv, FInv, NEW S \in SUBSET Active, NEW k \in Stage,
         Id' \in Nat, StageSent(S, k, Id'), UNCHANGED <<inbox, handles, linked, dead>>,
         \A w \in Stage : Clear(down[w], inbox[w], up'[w]),
         \A w \in Stage, s \in SeqId : fate[s] = "new" => s \notin handles[w]
  PROVE  FInv'
<1>0. /\ linked \in [Stage -> BOOLEAN] /\ down \in [Stage -> Seq(Message)]
      /\ S \in SUBSET SeqId /\ Connected
  BY Zenon DEF TInv, Active, FInv
<1>1. PICK m \in Message : m = Msg("BatchedForward", S, Id') /\ m.type = "BatchedForward"
  BY <1>0, MsgTyped DEF Types
<1>2. /\ down' = Sent(down, {k}, m)
      /\ call' = [Idle EXCEPT !.op = "forward", !.seqs = S, !.stage = k, !.wait = {k}]
      /\ UNCHANGED <<allocated, fate>>
  BY <1>0, <1>1, Zenon DEF StageSent, Connected
<1>3. \A w \in Stage : down'[w] = IF w = k THEN Append(down[w], m) ELSE down[w]
  <2>1. PICK K \in SUBSET Stage : K = {k}
    BY Zenon
  <2>2. \A w \in Stage : Sent(down, K, m)[w] =
          IF w \in K /\ linked[w] THEN Append(down[w], m) ELSE down[w]
    BY <1>0, SentTyped, Zenon
  <2> QED
    BY <1>0, <1>2, <2>1, <2>2, Zenon DEF Connected
<1>4. /\ call'.op = "forward" /\ call'.seqs = S /\ call'.stage = k
      /\ \A w \in Stage : call'.got[w] = NoMsg
  BY <1>0, <1>2, ForwardTyped, IdleTyped, Zenon
<1>5. PassReq' = m
  BY <1>1, <1>4, Zenon DEF PassReq
<1>6. ASSUME NEW w \in Stage PROVE Passing(w)'
  <2>1. CASE w = k
    <3>2. Only(down'[w], {m}, Background)
      <4>1. All(down[w], Background) /\ m \in {m} /\ down[w] \in Seq(Message)
        BY Typed, Zenon DEF Clear
      <4>2. Only(Append(down[w], m), {m}, Background)
        BY <4>1, OnlyAppended, Zenon
      <4> QED
        BY <1>3, <2>1, <4>2, Zenon
    <3>3. Pending(down'[w], inbox[w], up'[w], m)
      BY <3>2, Zenon DEF Pending, Clear
    <3>4. Pending(down[w], inbox[w], up[w], PassReq)'
      BY <1>5, <3>3, Zenon
    <3> QED
      BY <1>4, <2>1, <3>4, Zenon DEF Passing
  <2>2. CASE w # k
    <3>1. Clear(down'[w], inbox'[w], up'[w])
      BY <1>3, <2>2, Zenon
    <3> QED
      BY <1>4, <2>2, <3>1, Zenon DEF Passing, Resting
  <2> QED
    BY <2>1, <2>2, Zenon
<1>7. ASSUME NEW w \in Stage, NEW t \in SeqId PROVE Account(w, t)'
  <2>1. Account(w, t)
    BY Zenon DEF FInv
  <2>2. m \in Other(t)
    BY <1>1, FreeTyped, Zenon DEF Other
  <2>3. CASE w = k
    <3>1. <<m>> \in Seq(Message) /\ All(<<m>>, Other(t)) /\ down'[w] = down[w] \o <<m>>
      BY <1>3, <2>2, <2>3, Typed, AloneIn, Zenon
    <3> QED
      BY <1>2, <2>1, <3>1, AccountSent, Zenon
  <2>4. CASE w # k
    BY <1>2, <1>3, <2>1, <2>4, AccountSame, SMTT(30)
  <2> QED
    BY <2>3, <2>4, Zenon
<1>8. (allocated = Active)' /\ Connected'
  BY <1>2, Zenon DEF FInv, Active, Connected
<1> QED
  BY <1>4, <1>6, <1>7, <1>8, Zenon DEF FInv

LEMMA FInvForward ==
  ASSUME Given, TInv, FInv, NEW S \in SUBSET SeqId, ForwardCall(S)
  PROVE  FInv'
<1>1. /\ call.op = "idle" /\ S \subseteq Active /\ Spend("calls", MaxCalls)
      /\ UNCHANGED <<inbox, up, handles, linked, dead>>
  BY Zenon DEF ForwardCall, Callable
<1>2. StageSent(S, 1, Id + 1)
  BY <1>1, Zenon DEF ForwardCall, ForwardRefused, FInv
<1>3. Id' = Id + 1 /\ Id' \in Nat
  <2>1. used \in UsedType /\ MaxCalls \in Nat /\ Id \in Nat
    BY Zenon DEF TInv, UsedType, Id, Given, PipelineAssumption
  <2> QED
    BY <1>1, <2>1, Spending DEF Id
<1>4. StageSent(S, 1, Id')
  BY <1>2, <1>3, Zenon
<1>5. \A w \in Stage : Clear(down[w], inbox[w], up'[w])
  BY <1>1, Zenon DEF FInv, Resting
<1>6. ASSUME NEW w \in Stage, NEW s \in SeqId, fate[s] = "new" PROVE s \notin handles[w]
  <2>1. Account(w, s)
    BY Zenon DEF FInv
  <2> QED
    BY <1>1, <1>6, <2>1, Zenon DEF Account, Held
<1>7. 1 \in Stage
  BY DEF Stage, Given, PipelineAssumption
<1> QED
  BY <1>1, <1>3, <1>4, <1>5, <1>6, <1>7, FInvStage, Zenon

\* A failed batch: its sequences are freed at every worker.
LEMMA FInvFailed ==
  ASSUME Given, TInv, FInv, NEW S \in SUBSET Active, FailedBatch(S, down),
         UNCHANGED <<inbox, handles, linked, dead>>,
         \A w \in Stage : Clear(down[w], inbox[w], up'[w]),
         \A w \in Stage, s \in SeqId : fate[s] = "new" => s \notin handles[w],
         \A w \in Stage : up'[w] \in Seq(Message)
  PROVE  FInv'
<1>0. Connected /\ allocated = Active
  BY Zenon DEF FInv
<1>1. /\ call' = Idle /\ Frees(S) \in Seq(Message) /\ S \in SUBSET SeqId
      /\ \A w \in Stage : down'[w] = down[w] \o Frees(S)
  BY <1>0, BatchFailed, Zenon DEF Connected, Reachable
<1>2. /\ fate' = [s \in SeqId |-> IF s \in S THEN "failed" ELSE fate[s]]
      /\ allocated' = allocated \ S
  BY Zenon DEF FailedBatch
<1>3. call'.op = "idle" /\ \A w \in Stage : call'.got[w] = NoMsg
  BY <1>1, IdleTyped, Zenon
<1>4. /\ All(Frees(S), {Free(s) : s \in S})
      /\ \A s \in S : Only(Frees(S), {Free(s)}, Other(s))
  BY <1>1, FreesWhole, Zenon DEF Other
<1>5. ASSUME NEW w \in Stage PROVE Resting(w)'
  <2>1. All(Frees(S), Background)
    BY <1>1, <1>4, Zenon DEF All, Background
  <2>2. Clear(down[w] \o Frees(S), inbox[w], up'[w])
    BY <1>1, <2>1, Typed, ClearSent, Zenon
  <2> QED
    BY <1>1, <2>2, Zenon DEF Resting
<1>6. ASSUME NEW w \in Stage, NEW t \in SeqId PROVE Account(w, t)'
  <2>1. Account(w, t)
    BY Zenon DEF FInv
  <2>2. CASE t \in S
    <3>1. fate[t] = "active" /\ fate'[t] = "failed"
      BY <1>2, <2>2, Zenon DEF Active
    <3>2. NotOwed(down[w], inbox[w], t) /\ t \in handles[w]
      BY <2>1, <3>1, Zenon DEF Account, Held
    <3>3. Owed(down[w] \o Frees(S), inbox[w], t)
      BY <1>1, <1>4, <2>2, <3>2, Typed, OwedSent, Zenon
    <3> QED
      BY <1>1, <3>1, <3>2, <3>3, Zenon DEF Account
  <2>3. CASE t \notin S
    <3>1. fate'[t] = fate[t]
      BY <1>2, <2>3, Zenon
    <3>2. \A s \in S : Free(s) \in Message /\ Free(s) # Free(t)
      BY <1>1, <2>3, FreeTyped, Zenon
    <3>3. All(Frees(S), Other(t))
      BY <1>4, <3>2, Zenon DEF All, Other
    <3> QED
      BY <1>1, <2>1, <3>1, <3>3, AccountSent, Zenon
  <2> QED
    BY <2>2, <2>3, Zenon
<1>7. (allocated = Active)' /\ Connected'
  <2>1. Active' = Active \ S
    BY <1>1, <1>2, Zenon DEF Active
  <2> QED
    BY <1>0, <1>2, <2>1, Zenon DEF Connected
<1> QED
  BY <1>3, <1>5, <1>6, <1>7, Zenon DEF FInv

LEMMA FInvAnswer ==
  ASSUME Given, TInv, FInv, ForwardAnswer
  PROVE  FInv'
<1>1. PICK k : k = call.stage
  BY Zenon
<1>2. call.op = "forward" /\ k \in Stage /\ call.seqs \subseteq Active
      /\ call.seqs \in SUBSET SeqId
  BY <1>1, Zenon DEF ForwardAnswer, TInv, CallType
<1>3. linked[k]
  BY <1>2, Zenon DEF FInv, Connected
<1>4. /\ up[k] # <<>> /\ Head(up[k]).type # "HeartbeatAck"
      /\ up' = [up EXCEPT ![k] = Tail(@)]
      /\ UNCHANGED <<inbox, handles, linked, dead, used>>
      /\ \/ FailedBatch(call.seqs, down)
         \/ k = Stages /\ call' = Idle /\ UNCHANGED <<allocated, fate, down>>
         \/ k # Stages /\ StageSent(call.seqs, k + 1, Id)
  BY <1>1, <1>2, <1>3, Zenon DEF ForwardAnswer, Broken
<1>5. /\ up'[k] = Tail(up[k]) /\ \A v \in Stage : v # k => up'[v] = up[v]
      /\ \A v \in Stage : up'[v] \in Seq(Message)
  BY <1>2, <1>4, HeadTyped, Zenon DEF TInv
<1>6. Head(up[k]) \notin Acks
  BY <1>4, BackgroundTyped, Zenon
<1>7. Clear(down[k], inbox[k], Tail(up[k]))
  <2>1. Passing(k)
    BY <1>2, Zenon DEF FInv
  <2>2. \/ Pending(down[k], inbox[k], up[k], PassReq)
        \/ Replied(down[k], inbox[k], up[k], PassAnswers)
    BY <1>1, <2>1, Zenon DEF Passing
  <2> QED
    BY <1>2, <1>4, <1>6, <2>2, Typed, Taking, Zenon
<1>8. ASSUME NEW w \in Stage PROVE Clear(down[w], inbox[w], up'[w])
  <2>1. CASE w = k
    BY <1>5, <1>7, <2>1, Zenon
  <2>2. CASE w # k
    <3>1. Passing(w)
      BY <1>2, Zenon DEF FInv
    <3> QED
      BY <1>1, <1>5, <2>2, <3>1, Zenon DEF Passing, Resting
  <2> QED
    BY <2>1, <2>2, Zenon
<1>9. ASSUME NEW w \in Stage, NEW s \in SeqId, fate[s] = "new" PROVE s \notin handles[w]
  <2>1. Account(w, s)
    BY Zenon DEF FInv
  <2> QED
    BY <1>2, <1>9, <2>1, Zenon DEF Account, Held
<1>10. CASE FailedBatch(call.seqs, down)
  BY <1>2, <1>4, <1>5, <1>8, <1>9, <1>10, FInvFailed, Zenon
<1>11. CASE k = Stages /\ call' = Idle /\ UNCHANGED <<allocated, fate, down>>
  <2>1. call'.op = "idle" /\ \A w \in Stage : call'.got[w] = NoMsg
    BY <1>11, IdleTyped, Zenon
  <2>2. ASSUME NEW w \in Stage PROVE Resting(w)'
    BY <1>4, <1>8, <1>11, Zenon DEF Resting
  <2>3. ASSUME NEW w \in Stage, NEW s \in SeqId PROVE Account(w, s)'
    <3>1. Account(w, s)
      BY Zenon DEF FInv
    <3> QED
      BY <1>4, <1>9, <1>11, <3>1, AccountSame, Zenon
  <2>4. (allocated = Active)' /\ Connected'
    BY <1>4, <1>11, Zenon DEF FInv, Active, Connected
  <2> QED
    BY <2>1, <2>2, <2>3, <2>4, Zenon DEF FInv
<1>12. CASE k # Stages /\ StageSent(call.seqs, k + 1, Id)
  <2>1. k + 1 \in Stage
    BY <1>2, <1>12 DEF Stage, Given, PipelineAssumption
  <2>2. Id' = Id /\ Id' \in Nat
    BY <1>2, <1>4, Typed, Zenon DEF Id
  <2>3. StageSent(call.seqs, k + 1, Id')
    BY <1>12, <2>2, Zenon
  <2> QED
    BY <1>2, <1>4, <1>8, <1>9, <2>1, <2>2, <2>3, FInvStage, Zenon
<1> QED
  BY <1>4, <1>10, <1>11, <1>12, Zenon

\* Between calls every worker is sent the same background message.
LEMMA ToldAll ==
  ASSUME Given, TInv, FInv, call.op = "idle", NEW m \in Message, m \in Background,
         down' = Sent(down, Stage, m), UNCHANGED <<call, inbox, up, handles, linked, dead>>
  PROVE  /\ \A w \in Stage : down'[w] = Append(down[w], m) /\ Resting(w)'
         /\ Connected'
         /\ call'.op = "idle" /\ \A w \in Stage : call'.got[w] = NoMsg
         /\ \A w \in Stage, t \in SeqId : fate'[t] = fate[t] /\ m \in Other(t) => Account(w, t)'
<1>0. linked \in [Stage -> BOOLEAN] /\ down \in [Stage -> Seq(Message)] /\ Connected
  BY Zenon DEF TInv, FInv
<1>1. ASSUME NEW w \in Stage PROVE down'[w] = Append(down[w], m)
  BY <1>0, SentTyped, ZenonT(30) DEF Connected
<1>2. ASSUME NEW w \in Stage PROVE Resting(w)'
  <2>1. Clear(down[w], inbox[w], up[w])
    BY Zenon DEF FInv, Resting
  <2>2. Append(down[w], m) = down[w] \o <<m>> /\ <<m>> \in Seq(Message)
        /\ All(<<m>>, Background)
    BY Typed, AloneIn, Zenon
  <2>3. Clear(Append(down[w], m), inbox[w], up[w])
    BY <2>1, <2>2, Typed, ClearSent, Zenon
  <2> QED
    BY <1>1, <2>3, Zenon DEF Resting
<1>3. Connected' /\ call'.op = "idle" /\ \A w \in Stage : call'.got[w] = NoMsg
  BY <1>0, Zenon DEF Connected, FInv
<1>4. ASSUME NEW w \in Stage, NEW t \in SeqId, fate'[t] = fate[t], m \in Other(t)
      PROVE  Account(w, t)'
  <2>1. Account(w, t)
    BY Zenon DEF FInv
  <2>2. <<m>> \in Seq(Message) /\ All(<<m>>, Other(t)) /\ down'[w] = down[w] \o <<m>>
    BY <1>1, <1>4, Typed, AloneIn, Zenon
  <2>3. fate[t] = "new" => t \notin handles[w]
    BY <2>1, Zenon DEF Account, Held
  <2> QED
    BY <1>4, <2>1, <2>2, <2>3, AccountSent, Zenon
<1> QED
  BY <1>1, <1>2, <1>3, <1>4, Zenon

LEMMA FInvFree ==
  ASSUME Given, TInv, FInv, NEW s \in SeqId, FreeCall(s)
  PROVE  FInv'
<1>0. Connected /\ allocated = Active /\ fate \in [SeqId -> Fate]
  BY Zenon DEF FInv, TInv
<1>1. /\ call.op = "idle" /\ fate[s] = "active" /\ fate' = [fate EXCEPT ![s] = "freed"]
      /\ allocated' = allocated \ {s}
      /\ UNCHANGED <<call, inbox, up, handles, linked, dead>>
  BY Zenon DEF FreeCall, Callable
<1>2. PICK m \in Message : m = Free(s) /\ m.type = "CacheFree" /\ m.seqs = {s}
  BY FreeTyped, Zenon
<1>3. down' = Sent(down, Stage, m)
  BY <1>0, <1>1, <1>2, AllLinked, Zenon DEF FreeCall, Active
<1>4. m \in Background
  BY <1>2, Zenon DEF Background
<1>5. /\ \A w \in Stage : down'[w] = Append(down[w], m) /\ Resting(w)'
      /\ Connected'
      /\ call'.op = "idle" /\ \A w \in Stage : call'.got[w] = NoMsg
      /\ \A w \in Stage, t \in SeqId : fate'[t] = fate[t] /\ m \in Other(t) => Account(w, t)'
  BY <1>1, <1>3, <1>4, ToldAll, Zenon
<1>6. ASSUME NEW w \in Stage, NEW t \in SeqId PROVE Account(w, t)'
  <2>1. CASE t = s
    <3>1. Account(w, s)
      BY Zenon DEF FInv
    <3>2. NotOwed(down[w], inbox[w], s) /\ s \in handles[w]
      BY <1>1, <3>1, Zenon DEF Account, Held
    <3>3. Only(Append(down[w], m), {Free(s)}, Other(s)) /\ All(inbox[w], Other(s))
      BY <1>2, <3>2, Typed, OnlyAppended, Zenon DEF NotOwed
    <3>4. Owed(down'[w], inbox'[w], s)
      BY <1>1, <1>5, <3>3, Zenon DEF Owed
    <3>5. fate'[s] = "freed" /\ s \in handles'[w]
      BY <1>0, <1>1, <3>2, Zenon
    <3> QED
      BY <2>1, <3>4, <3>5, Zenon DEF Account
  <2>2. CASE t # s
    <3>1. fate'[t] = fate[t]
      BY <1>0, <1>1, <2>2, Zenon
    <3>2. m \in Other(t)
      <4>1. Free(t).seqs = {t}
        BY FreeTyped, Zenon
      <4> QED
        BY <1>2, <2>2, <4>1, Zenon DEF Other
    <3> QED
      BY <1>5, <3>1, <3>2, Zenon
  <2> QED
    BY <2>1, <2>2, Zenon
<1>7. (allocated = Active)'
  <2>1. Active' = Active \ {s}
    BY <1>0, <1>1, Zenon DEF Active
  <2> QED
    BY <1>0, <1>1, <2>1, Zenon
<1> QED
  BY <1>5, <1>6, <1>7, Zenon DEF FInv

LEMMA FInvBeats ==
  ASSUME Given, TInv, FInv, SendHeartbeats
  PROVE  FInv'
<1>1. /\ call.op = "idle" /\ UNCHANGED <<fate, allocated, call, inbox, up, handles, linked, dead>>
      /\ down' = Sent(down, Stage, Beat)
  BY Zenon DEF SendHeartbeats, FInv, Connected, Reachable, Beat
<1>2. PICK m \in Message : m = Beat /\ m.type = "Heartbeat"
  BY FreeTyped, Zenon
<1>3. m \in Background /\ \A t \in SeqId : m \in Other(t)
  BY <1>2, FreeTyped, Zenon DEF Background, Other
<1>4. /\ \A w \in Stage : down'[w] = Append(down[w], m) /\ Resting(w)'
      /\ Connected'
      /\ call'.op = "idle" /\ \A w \in Stage : call'.got[w] = NoMsg
      /\ \A w \in Stage, t \in SeqId : fate'[t] = fate[t] /\ m \in Other(t) => Account(w, t)'
  BY <1>1, <1>2, <1>3, ToldAll, Zenon
<1>5. (allocated = Active)'
  BY <1>1, Zenon DEF FInv, Active
<1> QED
  BY <1>1, <1>3, <1>4, <1>5, Zenon DEF FInv

LEMMA FInvRouter ==
  ASSUME Given, TInv, FInv, NEW w \in Stage, Router(w)
  PROVE  FInv'
<1>0. UNCHANGED <<fate, allocated, call, handles, linked, dead, used>>
  BY RouterStep, Zenon
<1>1. /\ down' = [down EXCEPT ![w] = Tail(@)]
      /\ Routed(down[w], inbox[w], up[w], Tail(down[w]), inbox'[w], up'[w])
      /\ \A v \in Stage : v # w => inbox'[v] = inbox[v] /\ up'[v] = up[v]
  BY RouterStep, Zenon DEF Routed
<1>2. down'[w] = Tail(down[w]) /\ \A v \in Stage : v # w => down'[v] = down[v]
  BY <1>1, Zenon DEF TInv
<1>3. AllocReq' = AllocReq /\ AllocAck' = AllocAck /\ PassReq' = PassReq
      /\ PassAnswers' = PassAnswers
  BY <1>0, Zenon DEF AllocReq, AllocAck, PassReq, PassAnswers, Id
<1>4. /\ AllocReq \in Message /\ AllocReq.type # "Heartbeat"
      /\ PassReq \in Message /\ PassReq.type # "Heartbeat"
  <2>1. call.seqs \in SUBSET SeqId /\ Id \in Nat
    BY Typed, Zenon DEF TInv, CallType
  <2> QED
    BY <2>1, MsgTyped DEF AllocReq, PassReq, Types
<1>5. ASSUME NEW v \in Stage
      PROVE  /\ Clear(down[v], inbox[v], up[v]) => Clear(down'[v], inbox'[v], up'[v])
             /\ \A m \in {AllocReq, PassReq} : Pending(down[v], inbox[v], up[v], m)
                                              => Pending(down'[v], inbox'[v], up'[v], m)
             /\ \A M : Replied(down[v], inbox[v], up[v], M)
                         => Replied(down'[v], inbox'[v], up'[v], M)
             /\ \A s \in SeqId : Owed(down[v], inbox[v], s) => Owed(down'[v], inbox'[v], s)
             /\ \A s \in SeqId : NotOwed(down[v], inbox[v], s) => NotOwed(down'[v], inbox'[v], s)
  <2>1. CASE v # w
    BY <1>1, <1>2, <2>1, Zenon
  <2>2. CASE v = w
    <3>1. PICK d2, n2, u2 : d2 = Tail(down[w]) /\ n2 = inbox'[w] /\ u2 = up'[w]
      BY Zenon
    <3>2. Routed(down[w], inbox[w], up[w], d2, n2, u2)
      BY <1>1, <3>1, Zenon
    <3>3. /\ Clear(down[w], inbox[w], up[w]) => Clear(d2, n2, u2)
          /\ \A m \in Message : m.type # "Heartbeat" /\ Pending(down[w], inbox[w], up[w], m)
                                 => Pending(d2, n2, u2, m)
          /\ \A M : Replied(down[w], inbox[w], up[w], M) => Replied(d2, n2, u2, M)
      BY <3>2, Typed, RoutedKeeps, Zenon
    <3>4. \A s \in SeqId : /\ Owed(down[w], inbox[w], s) => Owed(d2, n2, s)
                           /\ NotOwed(down[w], inbox[w], s) => NotOwed(d2, n2, s)
      BY <3>2, Typed, RoutedOwed, Zenon
    <3>5. d2 = down'[w] /\ n2 = inbox'[w] /\ u2 = up'[w]
      BY <1>2, <3>1, Zenon
    <3> QED
      BY <1>4, <2>2, <3>3, <3>4, <3>5, Zenon
  <2> QED
    BY <2>1, <2>2, Zenon
<1>6. ASSUME NEW v \in Stage, Resting(v) PROVE Resting(v)'
  BY <1>5, <1>6, Zenon DEF Resting
<1>7. ASSUME NEW v \in Stage, Allocating(v) PROVE Allocating(v)'
  <2>1. CASE Resting(v) /\ call.got[v] = AllocAck /\ call.seqs \subseteq handles[v]
    <3>1. Resting(v)' /\ call'.got[v] = AllocAck' /\ call'.seqs \subseteq handles'[v]
      BY <1>0, <1>3, <1>6, <2>1, Zenon
    <3> QED
      BY <3>1, Zenon DEF Allocating
  <2>2. CASE /\ v \in call.wait /\ call.got[v] = NoMsg
             /\ Pending(down[v], inbox[v], up[v], AllocReq) /\ call.seqs \cap handles[v] = {}
    <3>1. Pending(down'[v], inbox'[v], up'[v], AllocReq')
      BY <1>3, <1>5, <2>2, Zenon
    <3> QED
      BY <1>0, <2>2, <3>1, Zenon DEF Allocating
  <2>3. CASE /\ v \in call.wait /\ call.got[v] = NoMsg
             /\ Replied(down[v], inbox[v], up[v], {AllocAck}) /\ call.seqs \subseteq handles[v]
    <3>1. Replied(down'[v], inbox'[v], up'[v], {AllocAck'})
      BY <1>3, <1>5, <2>3, Zenon
    <3> QED
      BY <1>0, <2>3, <3>1, Zenon DEF Allocating
  <2> QED
    BY <1>7, <2>1, <2>2, <2>3, Zenon DEF Allocating
<1>8. ASSUME NEW v \in Stage, Passing(v) PROVE Passing(v)'
  <2>1. CASE v # call.stage
    BY <1>0, <1>6, <1>8, <2>1, Zenon DEF Passing
  <2>2. CASE v = call.stage
    <3>1. \/ Pending(down'[v], inbox'[v], up'[v], PassReq')
          \/ Replied(down'[v], inbox'[v], up'[v], PassAnswers')
      BY <1>3, <1>5, <1>8, <2>2, Zenon DEF Passing
    <3> QED
      BY <1>0, <1>8, <2>2, <3>1, Zenon DEF Passing
  <2> QED
    BY <2>1, <2>2, Zenon
<1>9. ASSUME NEW v \in Stage, NEW s \in SeqId PROVE Account(v, s)'
  <2>1. Account(v, s)
    BY Zenon DEF FInv
  <2>2. Held(v, s) => Held(v, s)'
    BY <1>0, Zenon DEF Held
  <2>3. CASE fate[s] \in {"freed", "failed"} /\ s \in handles[v] /\ Owed(down[v], inbox[v], s)
    <3>1. Owed(down'[v], inbox'[v], s)
      BY <1>5, <2>3, Zenon
    <3> QED
      BY <1>0, <2>3, <3>1, Zenon DEF Account
  <2>4. CASE NotOwed(down[v], inbox[v], s) /\ Held(v, s)
    <3>1. NotOwed(down'[v], inbox'[v], s)
      BY <1>5, <2>4, Zenon
    <3> QED
      BY <2>2, <2>4, <3>1, Zenon DEF Account
  <2> QED
    BY <2>1, <2>3, <2>4, Zenon DEF Account
<1>10. (allocated = Active)' /\ Connected'
  BY <1>0, Zenon DEF FInv, Active, Connected
<1> QED
  BY <1>0, <1>6, <1>7, <1>8, <1>9, <1>10, Zenon DEF FInv

\* A worker serves the head m of its queue; the queues of the others are as
\* they were.
LEMMA ServedHead ==
  ASSUME Given, TInv, NEW w \in Stage, ServeAlloc(w) \/ ServeFree(w) \/ ServeForward(w)
  PROVE  /\ inbox[w] # <<>> /\ inbox'[w] = Tail(inbox[w])
         /\ Head(inbox[w]) \in Message
         /\ \A v \in Stage : v # w => /\ inbox'[v] = inbox[v] /\ up'[v] = up[v]
                                       /\ handles'[v] = handles[v]
         /\ UNCHANGED <<fate, allocated, call, down, linked, dead>>
         /\ AllocReq' = AllocReq /\ AllocAck' = AllocAck /\ PassReq' = PassReq
         /\ PassAnswers' = PassAnswers
<1>1. /\ inbox[w] # <<>> /\ inbox' = [inbox EXCEPT ![w] = Tail(@)]
      /\ Asked(w) \in Message /\ used'.calls = used.calls
      /\ \A v \in Stage : v # w => up'[v] = up[v] /\ handles'[v] = handles[v]
      /\ UNCHANGED <<fate, allocated, call, down, linked, dead>>
  BY ServeStep, Zenon
<1>2. inbox \in [Stage -> Seq(Message)]
  BY Zenon DEF TInv
<1>3. inbox'[w] = Tail(inbox[w]) /\ \A v \in Stage : v # w => inbox'[v] = inbox[v]
  BY <1>1, <1>2, Zenon
<1>4. AllocReq' = AllocReq /\ AllocAck' = AllocAck /\ PassReq' = PassReq
      /\ PassAnswers' = PassAnswers
  BY <1>1, Zenon DEF AllocReq, AllocAck, PassReq, PassAnswers, Id
<1> QED
  BY <1>1, <1>3, <1>4, Zenon DEF Asked

\* Nothing changes for the other workers.
LEMMA ServedOthers ==
  ASSUME Given, TInv, FInv, NEW w \in Stage, ServeAlloc(w) \/ ServeFree(w) \/ ServeForward(w),
         NEW v \in Stage, v # w
  PROVE  /\ Resting(v) => Resting(v)'
         /\ Allocating(v) => Allocating(v)'
         /\ Passing(v) => Passing(v)'
         /\ \A s \in SeqId : Account(v, s)'
<1>1. /\ inbox'[v] = inbox[v] /\ up'[v] = up[v] /\ handles'[v] = handles[v]
      /\ UNCHANGED <<fate, call, down>>
      /\ AllocReq' = AllocReq /\ AllocAck' = AllocAck /\ PassReq' = PassReq
      /\ PassAnswers' = PassAnswers
  BY ServedHead, Zenon
<1>2. Resting(v) => Resting(v)'
  BY <1>1, Zenon DEF Resting
<1>3. Allocating(v) => Allocating(v)'
  BY <1>1, <1>2, Zenon DEF Allocating
<1>4. Passing(v) => Passing(v)'
  BY <1>1, <1>2, Zenon DEF Passing
<1>5. ASSUME NEW s \in SeqId PROVE Account(v, s)'
  <2>1. Account(v, s)
    BY Zenon DEF FInv
  <2> QED
    BY <1>1, <2>1, Zenon DEF Account, Held, Owed, NotOwed
<1> QED
  BY <1>2, <1>3, <1>4, <1>5, Zenon

\* What a request the worker serves says about the call.
LEMMA ServedRequest ==
  ASSUME Given, TInv, FInv, NEW w \in Stage, inbox[w] # <<>>
  PROVE  /\ Head(inbox[w]).type = "CacheAlloc" =>
              /\ call.op = "alloc" /\ Head(inbox[w]) = AllocReq
              /\ w \in call.wait /\ call.got[w] = NoMsg
              /\ Clear(down[w], Tail(inbox[w]), up[w]) /\ call.seqs \cap handles[w] = {}
         /\ Head(inbox[w]).type = "BatchedForward" =>
              /\ call.op = "forward" /\ Head(inbox[w]) = PassReq
              /\ w = call.stage /\ call.got[w] = NoMsg
              /\ Clear(down[w], Tail(inbox[w]), up[w])
         /\ Head(inbox[w]).type = "CacheFree" =>
              /\ \E s \in SeqId : Head(inbox[w]) = Free(s)
              /\ \A m \in {AllocReq, PassReq} : Pending(down[w], inbox[w], up[w], m)
                    => Pending(down[w], Tail(inbox[w]), up[w], m)
<1>1. PICK m : m = Head(inbox[w])
  BY Zenon
<1>2. call.seqs \in SUBSET SeqId /\ Id \in Nat /\ call.op \in {"idle", "alloc", "forward"}
  BY Typed, Zenon DEF TInv, CallType
<1>3. AllocReq.type = "CacheAlloc" /\ PassReq.type = "BatchedForward"
  BY <1>2, MsgTyped DEF AllocReq, PassReq, Types
<1>4. /\ Clear(down[w], inbox[w], up[w]) => m \in Background
      /\ \A r : Pending(down[w], inbox[w], up[w], r) =>
               \/ m = r /\ Clear(down[w], Tail(inbox[w]), up[w])
               \/ m \in Background /\ Pending(down[w], Tail(inbox[w]), up[w], r)
      /\ \A M : Replied(down[w], inbox[w], up[w], M) => m \in Background
  BY <1>1, Typed, ServedKeeps, Zenon
<1>5. /\ m \in Background => m.type \in {"Heartbeat", "CacheFree"}
      /\ m \in Background /\ m.type = "CacheFree" => \E s \in SeqId : m = Free(s)
  BY BackgroundTyped, FreeTyped, Zenon DEF Background
<1>6. CASE m \in Background
  <2>1. m.type # "CacheAlloc" /\ m.type # "BatchedForward" /\ m # AllocReq /\ m # PassReq
    BY <1>3, <1>5, <1>6, Zenon
  <2> QED
    BY <1>1, <1>4, <1>5, <1>6, <2>1, Zenon
<1>7. CASE m \notin Background
  <2>1. ~Resting(w)
    BY <1>4, <1>7, Zenon DEF Resting
  <2>2. CASE call.op = "idle"
    BY <2>1, <2>2, Zenon DEF FInv
  <2>3. CASE call.op = "alloc"
    <3>1. /\ w \in call.wait /\ call.got[w] = NoMsg /\ call.seqs \cap handles[w] = {}
          /\ Pending(down[w], inbox[w], up[w], AllocReq)
      BY <1>4, <1>7, <2>1, <2>3, Zenon DEF FInv, Allocating
    <3>2. m = AllocReq /\ Clear(down[w], Tail(inbox[w]), up[w])
      BY <1>4, <1>7, <3>1, Zenon
    <3> QED
      BY <1>1, <1>3, <2>3, <3>1, <3>2, Zenon
  <2>4. CASE call.op = "forward"
    <3>1. Passing(w)
      BY <2>4, Zenon DEF FInv
    <3>2. /\ w = call.stage /\ call.got[w] = NoMsg
          /\ Pending(down[w], inbox[w], up[w], PassReq)
      BY <1>4, <1>7, <2>1, <3>1, Zenon DEF Passing
    <3>3. m = PassReq /\ Clear(down[w], Tail(inbox[w]), up[w])
      BY <1>4, <1>7, <3>2, Zenon
    <3> QED
      BY <1>1, <1>3, <2>4, <3>2, <3>3, Zenon
  <2> QED
    BY <1>2, <2>2, <2>3, <2>4, Zenon
<1> QED
  BY <1>6, <1>7, Zenon

LEMMA FInvServeAlloc ==
  ASSUME Given, Reliable, TInv, FInv, NEW w \in Stage, ServeAlloc(w)
  PROVE  FInv'
<1>0. /\ inbox[w] # <<>> /\ inbox'[w] = Tail(inbox[w]) /\ Head(inbox[w]) \in Message
      /\ UNCHANGED <<fate, allocated, call, down, linked, dead>>
      /\ AllocAck' = AllocAck
  BY ServedHead, Zenon
<1>1. PICK m \in Message : m = Head(inbox[w])
  BY <1>0, Zenon
<1>2. m.type = "CacheAlloc"
  BY <1>1, Zenon DEF ServeAlloc, Serves
<1>3. /\ call.op = "alloc" /\ m = AllocReq /\ w \in call.wait /\ call.got[w] = NoMsg
      /\ Clear(down[w], Tail(inbox[w]), up[w]) /\ call.seqs \cap handles[w] = {}
  BY <1>0, <1>1, <1>2, ServedRequest, Zenon
<1>4. PICK x \in SeqId : call.seqs = {x} /\ fate[x] = "new"
  BY <1>3, Zenon DEF TInv
<1>5. /\ m.seqs = {x} /\ m.call = Id /\ AllocAck \in Message
      /\ Msg("CacheAllocAck", m.seqs, m.call) = AllocAck
  <2>1. {x} \in SUBSET SeqId /\ Id \in Nat
    BY Typed, Zenon
  <2> QED
    BY <1>3, <1>4, <2>1, MsgTyped DEF AllocReq, AllocAck, Types
<1>6. ~Spend("oom", MaxOom)
  <2>1. used \in UsedType /\ MaxOom \in Nat /\ MaxOom = 0
    BY Zenon DEF TInv, Given, PipelineAssumption, Reliable
  <2> QED
    BY <2>1, Spending, Zenon
<1>7. x \notin handles[w]
  BY <1>3, <1>4, Zenon
<1>8. /\ handles' = [handles EXCEPT ![w] = @ \cup m.seqs]
      /\ Answer(w, "CacheAllocAck", m)
  BY <1>1, <1>5, <1>6, <1>7, Zenon DEF ServeAlloc, Asked
<1>9. handles'[w] = handles[w] \cup {x} /\ up'[w] = Append(up[w], AllocAck)
  BY <1>5, <1>8, Zenon DEF Answer, TInv
<1>10. Allocating(w)'
  <2>1. Replied(down[w], Tail(inbox[w]), Append(up[w], AllocAck), {AllocAck})
    BY <1>3, <1>5, Typed, Answering, Zenon
  <2>2. Replied(down'[w], inbox'[w], up'[w], {AllocAck'})
    BY <1>0, <1>9, <2>1, Zenon
  <2>3. call'.seqs \subseteq handles'[w] /\ w \in call'.wait /\ call'.got[w] = NoMsg
    BY <1>0, <1>3, <1>4, <1>9, Zenon
  <2> QED
    BY <2>2, <2>3, Zenon DEF Allocating
<1>11. ASSUME NEW s \in SeqId PROVE Account(w, s)'
  <2>1. Account(w, s)
    BY Zenon DEF FInv
  <2>2. m # Free(s)
    BY <1>2, FreeTyped
  <2>3. /\ NotOwed(down[w], inbox[w], s) => NotOwed(down'[w], inbox'[w], s)
        /\ Owed(down[w], inbox[w], s) => Owed(down'[w], inbox'[w], s)
    BY <1>0, <1>1, <2>2, Typed, ServedOwed, Zenon
  <2>4. CASE s = x
    <3>1. NotOwed(down'[w], inbox'[w], s)
      BY <1>4, <2>1, <2>3, <2>4, Zenon DEF Account
    <3>2. Held(w, s)'
      BY <1>0, <1>3, <1>4, <2>4, Zenon DEF Held
    <3> QED
      BY <3>1, <3>2, Zenon DEF Account
  <2>5. CASE s # x
    <3>1. s \in handles'[w] <=> s \in handles[w]
      BY <1>9, <2>5, Zenon
    <3>2. Held(w, s) => Held(w, s)'
      BY <1>0, <3>1, Zenon DEF Held
    <3> QED
      BY <1>0, <2>1, <2>3, <3>1, <3>2, Zenon DEF Account
  <2> QED
    BY <2>4, <2>5, Zenon
<1>12. \A v \in Stage : v # w => Allocating(v)' /\ \A s \in SeqId : Account(v, s)'
  BY <1>3, ServedOthers, Zenon DEF FInv
<1>13. (allocated = Active)' /\ Connected' /\ call'.op = "alloc"
  BY <1>0, <1>3, Zenon DEF FInv, Active, Connected
<1> QED
  BY <1>10, <1>11, <1>12, <1>13, Zenon DEF FInv

LEMMA FInvServeForward ==
  ASSUME Given, TInv, FInv, NEW w \in Stage, ServeForward(w)
  PROVE  FInv'
<1>0. /\ inbox[w] # <<>> /\ inbox'[w] = Tail(inbox[w]) /\ Head(inbox[w]) \in Message
      /\ UNCHANGED <<fate, allocated, call, down, linked, dead>>
      /\ PassAnswers' = PassAnswers
  BY ServedHead, Zenon
<1>1. PICK m \in Message : m = Head(inbox[w])
  BY <1>0, Zenon
<1>2. m.type = "BatchedForward" /\ UNCHANGED handles
  BY <1>1, Zenon DEF ServeForward, Serves
<1>3. /\ call.op = "forward" /\ m = PassReq /\ w = call.stage /\ call.got[w] = NoMsg
      /\ Clear(down[w], Tail(inbox[w]), up[w])
  BY <1>0, <1>1, <1>2, ServedRequest, Zenon
<1>4. PICK a \in Message : a \in PassAnswers /\ up' = [up EXCEPT ![w] = Append(@, a)]
  <2>1. call.seqs \in SUBSET SeqId /\ Id \in Nat
    BY Typed, Zenon DEF TInv, CallType
  <2>2. /\ m.seqs = call.seqs /\ m.call = Id
        /\ Msg("BatchedForwardResult", m.seqs, m.call) \in PassAnswers \cap Message
        /\ Msg("Error", m.seqs, m.call) \in PassAnswers \cap Message
    BY <1>3, <2>1, MsgTyped DEF PassReq, PassAnswers, Types
  <2>3. Answer(w, "BatchedForwardResult", m) \/ Answer(w, "Error", m)
    BY <1>1, Zenon DEF ServeForward, Asked
  <2> QED
    BY <2>2, <2>3, Zenon DEF Answer
<1>5. up'[w] = Append(up[w], a)
  BY <1>4, Zenon DEF TInv
<1>6. Passing(w)'
  <2>1. Replied(down[w], Tail(inbox[w]), Append(up[w], a), PassAnswers)
    BY <1>3, <1>4, Typed, Answering, Zenon
  <2>2. Replied(down'[w], inbox'[w], up'[w], PassAnswers')
    BY <1>0, <1>5, <2>1, Zenon
  <2> QED
    BY <1>0, <1>3, <2>2, Zenon DEF Passing
<1>7. ASSUME NEW s \in SeqId PROVE Account(w, s)'
  <2>1. Account(w, s)
    BY Zenon DEF FInv
  <2>2. m # Free(s)
    BY <1>2, FreeTyped, Zenon
  <2>3. /\ NotOwed(down[w], inbox[w], s) => NotOwed(down'[w], inbox'[w], s)
        /\ Owed(down[w], inbox[w], s) => Owed(down'[w], inbox'[w], s)
    BY <1>0, <1>1, <2>2, Typed, ServedOwed, Zenon
  <2>4. Held(w, s) => Held(w, s)'
    BY <1>0, <1>2, Zenon DEF Held
  <2> QED
    BY <1>0, <1>2, <2>1, <2>3, <2>4, Zenon DEF Account
<1>8. \A v \in Stage : v # w => Passing(v)' /\ \A s \in SeqId : Account(v, s)'
  BY <1>3, ServedOthers, Zenon DEF FInv
<1>9. (allocated = Active)' /\ Connected' /\ call'.op = "forward"
  BY <1>0, <1>3, Zenon DEF FInv, Active, Connected
<1> QED
  BY <1>6, <1>7, <1>8, <1>9, Zenon DEF FInv

LEMMA FInvServeFree ==
  ASSUME Given, TInv, FInv, NEW w \in Stage, ServeFree(w)
  PROVE  FInv'
<1>0. /\ inbox[w] # <<>> /\ inbox'[w] = Tail(inbox[w]) /\ Head(inbox[w]) \in Message
      /\ UNCHANGED <<fate, allocated, call, down, linked, dead>>
      /\ AllocReq' = AllocReq /\ AllocAck' = AllocAck /\ PassReq' = PassReq
      /\ PassAnswers' = PassAnswers
  BY ServedHead, Zenon
<1>1. Head(inbox[w]).type = "CacheFree"
  BY Zenon DEF ServeFree, Serves
<1>2. PICK x \in SeqId : Head(inbox[w]) = Free(x)
  BY <1>0, <1>1, ServedRequest, Zenon
<1>3. Free(x).seqs = {x}
  BY FreeTyped, Zenon
<1>4. /\ fate[x] \in {"freed", "failed"} /\ x \in handles[w]
      /\ NotOwed(down[w], Tail(inbox[w]), x)
  <2>1. Account(w, x)
    BY Zenon DEF FInv
  <2>2. /\ NotOwed(down[w], inbox[w], x) => Head(inbox[w]) # Free(x)
        /\ Owed(down[w], inbox[w], x) => \/ NotOwed(down[w], Tail(inbox[w]), x)
                                        \/ Head(inbox[w]) # Free(x)
    BY <1>0, Typed, ServedOwed, Zenon
  <2> QED
    BY <1>2, <2>1, <2>2, Zenon DEF Account
<1>5. handles' = [handles EXCEPT ![w] = @ \ {x}] /\ UNCHANGED up
  BY <1>2, <1>3, <1>4 DEF ServeFree, Asked
<1>6. handles'[w] = handles[w] \ {x}
  BY <1>5, Zenon DEF TInv
<1>7. /\ Clear(down[w], inbox[w], up[w]) => Clear(down'[w], inbox'[w], up'[w])
      /\ \A m \in {AllocReq, PassReq} : Pending(down[w], inbox[w], up[w], m)
            => Pending(down'[w], inbox'[w], up'[w], m)
      /\ \A M : Replied(down[w], inbox[w], up[w], M) => Replied(down'[w], inbox'[w], up'[w], M)
  <2>1. /\ Clear(down[w], inbox[w], up[w]) => Clear(down[w], Tail(inbox[w]), up[w])
        /\ \A M : Replied(down[w], inbox[w], up[w], M)
                    => Replied(down[w], Tail(inbox[w]), up[w], M)
    BY <1>0, Typed, ServedKeeps, Zenon
  <2>2. \A m \in {AllocReq, PassReq} : Pending(down[w], inbox[w], up[w], m)
            => Pending(down[w], Tail(inbox[w]), up[w], m)
    BY <1>0, <1>1, ServedRequest, Zenon
  <2> QED
    BY <1>0, <1>5, <2>1, <2>2, Zenon
<1>8. Resting(w) => Resting(w)'
  BY <1>7, Zenon DEF Resting
<1>9. ASSUME call.op = "alloc" PROVE Allocating(w)'
  <2>1. Allocating(w)
    BY <1>9, Zenon DEF FInv
  <2>2. PICK s \in SeqId : call.seqs = {s} /\ fate[s] = "new"
    BY <1>9, Zenon DEF TInv
  <2>3. s # x
    BY <1>4, <2>2, Zenon
  <2>4. /\ call.seqs \cap handles[w] = {} => call'.seqs \cap handles'[w] = {}
        /\ call.seqs \subseteq handles[w] => call'.seqs \subseteq handles'[w]
    BY <1>0, <1>6, <2>2, <2>3, Zenon
  <2>5. /\ Pending(down[w], inbox[w], up[w], AllocReq)
            => Pending(down'[w], inbox'[w], up'[w], AllocReq')
        /\ Replied(down[w], inbox[w], up[w], {AllocAck})
            => Replied(down'[w], inbox'[w], up'[w], {AllocAck'})
    BY <1>0, <1>7, Zenon
  <2> QED
    BY <1>0, <1>8, <2>1, <2>4, <2>5, Zenon DEF Allocating
<1>10. ASSUME call.op = "forward" PROVE Passing(w)'
  <2>1. Passing(w)
    BY <1>10, Zenon DEF FInv
  <2>2. /\ Pending(down[w], inbox[w], up[w], PassReq)
            => Pending(down'[w], inbox'[w], up'[w], PassReq')
        /\ Replied(down[w], inbox[w], up[w], PassAnswers)
            => Replied(down'[w], inbox'[w], up'[w], PassAnswers')
    BY <1>0, <1>7, Zenon
  <2> QED
    BY <1>0, <1>8, <2>1, <2>2, Zenon DEF Passing
<1>11. ASSUME NEW s \in SeqId PROVE Account(w, s)'
  <2>1. CASE s = x
    <3>1. NotOwed(down'[w], inbox'[w], s)
      BY <1>0, <1>4, <2>1, Zenon
    <3>2. Held(w, s)'
      BY <1>0, <1>4, <1>6, <2>1, Zenon DEF Held
    <3> QED
      BY <3>1, <3>2, Zenon DEF Account
  <2>2. CASE s # x
    <3>1. Account(w, s) /\ (s \in handles'[w] <=> s \in handles[w])
      BY <1>6, <2>2, Zenon DEF FInv
    <3>2. Head(inbox[w]) # Free(s)
      BY <1>2, <1>3, <2>2, FreeTyped, Zenon
    <3>3. /\ NotOwed(down[w], inbox[w], s) => NotOwed(down'[w], inbox'[w], s)
          /\ Owed(down[w], inbox[w], s) => Owed(down'[w], inbox'[w], s)
      BY <1>0, <3>2, Typed, ServedOwed
    <3>4. Held(w, s) => Held(w, s)'
      BY <1>0, <3>1, Zenon DEF Held
    <3> QED
      BY <1>0, <3>1, <3>3, <3>4, Zenon DEF Account
  <2> QED
    BY <2>1, <2>2, Zenon
<1>12. \A v \in Stage : v # w => /\ Resting(v) => Resting(v)'
                                 /\ Allocating(v) => Allocating(v)'
                                 /\ Passing(v) => Passing(v)'
                                 /\ \A s \in SeqId : Account(v, s)'
  BY ServedOthers, Zenon
<1>13. (allocated = Active)' /\ Connected'
  BY <1>0, Zenon DEF FInv, Active, Connected
<1>14. CASE call.op = "idle"
  BY <1>0, <1>8, <1>11, <1>12, <1>13, <1>14, Zenon DEF FInv
<1>15. CASE call.op = "alloc"
  BY <1>0, <1>9, <1>11, <1>12, <1>13, <1>15, Zenon DEF FInv
<1>16. CASE call.op = "forward"
  BY <1>0, <1>10, <1>11, <1>12, <1>13, <1>16, Zenon DEF FInv
<1> QED
  BY <1>14, <1>15, <1>16, Zenon DEF TInv, CallType

LEMMA FInvInit ==
  ASSUME Given, Init
  PROVE  FInv
<1>1. call = Idle /\ call.op = "idle" /\ \A w \in Stage : call.got[w] = NoMsg
  BY IdleTyped, Zenon DEF Init
<1>2. ASSUME NEW w \in Stage
      PROVE  down[w] = <<>> /\ inbox[w] = <<>> /\ up[w] = <<>> /\ handles[w] = {} /\ linked[w]
  BY Zenon DEF Init
<1>3. ASSUME NEW w \in Stage PROVE Resting(w)
  BY <1>2, AllEmpty, Zenon DEF Resting, Clear
<1>4. ASSUME NEW w \in Stage, NEW s \in SeqId PROVE Account(w, s)
  <2>1. NotOwed(down[w], inbox[w], s)
    BY <1>2, AllEmpty, Zenon DEF NotOwed
  <2>2. fate[s] = "new" /\ s \notin handles[w]
    BY <1>2, Zenon DEF Init
  <2> QED
    BY <2>1, <2>2, Zenon DEF Account, Held
<1>5. Connected /\ allocated = Active
  BY <1>2, Zenon DEF Init, Connected, Active
<1> QED
  BY <1>1, <1>3, <1>4, <1>5, Zenon DEF FInv

\* What a reliable pipeline never does.
LEMMA NeverLost ==
  ASSUME Given, Reliable, TInv, FInv, NEW w \in Stage
  PROVE  ~WorkerDies(w) /\ ~LinkLost(w) /\ ~Replace
<1>1. used \in UsedType /\ MaxLosses \in Nat /\ MaxReplaced \in Nat
      /\ MaxLosses = 0 /\ MaxReplaced = 0
  BY Zenon DEF TInv, Given, PipelineAssumption, Reliable
<1>2. ~Spend("losses", MaxLosses) /\ ~Spend("replaced", MaxReplaced)
  BY <1>1, Spending, Zenon
<1>3. linked[w]
  BY Zenon DEF FInv, Connected
<1> QED
  BY <1>2, <1>3, Zenon DEF WorkerDies, LinkLost, Replace

LEMMA FInvNext ==
  ASSUME Given, Reliable, TInv, FInv, [Next]_vars
  PROVE  FInv'
<1>1. CASE Caller
  <2>1. 1 \in Stage
    BY DEF Stage, Given, PipelineAssumption
  <2>2. ~Replace /\ \A w \in Stage : ~WorkerDies(w)
    BY <2>1, NeverLost, Zenon
  <2> QED
    BY <1>1, <2>2, FInvAlloc, FInvFree, FInvForward, FInvBeats, Zenon DEF Caller
<1>2. CASE CallStep
  BY <1>2, FInvAnswer, FInvSkip, FInvTask, FInvJoin, Zenon DEF CallStep
<1>3. ASSUME NEW w \in Stage, WorkerStep(w) PROVE FInv'
  BY <1>3, FInvRouter, FInvServeAlloc, FInvServeFree, FInvServeForward, Zenon DEF WorkerStep
<1>4. CASE Quiet \/ UNCHANGED vars
  <2>1. /\ UNCHANGED <<fate, allocated, call, down, inbox, up, handles, linked, dead>>
        /\ UNCHANGED used
    BY <1>4, Zenon DEF Quiet, vars
  <2>2. AllocReq' = AllocReq /\ AllocAck' = AllocAck /\ PassReq' = PassReq
        /\ PassAnswers' = PassAnswers
    BY <2>1, Zenon DEF AllocReq, AllocAck, PassReq, PassAnswers, Id
  <2>3. ASSUME NEW w \in Stage
        PROVE  /\ Resting(w) => Resting(w)'
               /\ Allocating(w) => Allocating(w)'
               /\ Passing(w) => Passing(w)'
               /\ \A s \in SeqId : Account(w, s) => Account(w, s)'
    <3>1. Resting(w) => Resting(w)'
      BY <2>1, Zenon DEF Resting
    <3>2. Allocating(w) => Allocating(w)'
      BY <2>1, <2>2, <3>1, Zenon DEF Allocating
    <3>3. Passing(w) => Passing(w)'
      BY <2>1, <2>2, <3>1 DEF Passing
    <3>4. ASSUME NEW s \in SeqId PROVE Account(w, s) => Account(w, s)'
      BY <2>1, Zenon DEF Account, Held, Owed, NotOwed
    <3> QED
      BY <3>1, <3>2, <3>3, <3>4, Zenon
  <2>4. (allocated = Active)' /\ Connected'
    BY <2>1, Zenon DEF FInv, Active, Connected
  <2> QED
    BY <2>1, <2>3, <2>4, Zenon DEF FInv
<1> QED
  BY <1>1, <1>2, <1>3, <1>4, NeverLost, Zenon DEF Next

-----------------------------------------------------------------------------
(* What the calls are answered and what the workers hold follows.          *)
LEMMA AnswersFollow ==
  ASSUME Given, TInv, FInv
  PROVE  AnswersOwn
<1>0. call.seqs \in SUBSET SeqId /\ Id \in Nat
      /\ call.op \in {"idle", "alloc", "forward"}
  <2>1. 1 \in Stage
    BY DEF Stage, Given, PipelineAssumption
  <2> QED
    BY <2>1, Typed, Zenon DEF TInv, CallType
<1>1. ASSUME NEW w \in Stage, call.got[w] # NoMsg PROVE call.got[w].call = Id
  <2>1. call.op = "alloc"
    BY <1>0, <1>1, Zenon DEF FInv, Passing
  <2>2. call.got[w] = AllocAck
    BY <1>1, <2>1, Zenon DEF FInv, Allocating
  <2> QED
    BY <1>0, <2>2, MsgTyped DEF AllocAck, Types
<1>2. ASSUME call.op = "forward", up[call.stage] # <<>>
      PROVE  Head(up[call.stage]).call \in {Id, 0} /\ Head(up[call.stage]).type # "CacheAllocAck"
  <2>1. PICK k \in Stage : k = call.stage
    BY <1>2, Zenon DEF TInv
  <2>2. Passing(k)
    BY <1>2, Zenon DEF FInv
  <2>3. \/ Pending(down[k], inbox[k], up[k], PassReq)
        \/ Replied(down[k], inbox[k], up[k], PassAnswers)
    BY <2>1, <2>2, Zenon DEF Passing
  <2>4. Head(up[k]) \in Acks \/ Head(up[k]) \in PassAnswers
    BY <1>2, <2>1, <2>3, Typed, Taking, Zenon
  <2>5. \A m \in Acks : m.call = 0 /\ m.type = "HeartbeatAck"
    BY BackgroundTyped, Zenon
  <2>6. \A m \in PassAnswers : m.call = Id /\ m.type \in {"BatchedForwardResult", "Error"}
    BY <1>0, MsgTyped DEF PassAnswers, Types
  <2> QED
    BY <2>1, <2>4, <2>5, <2>6, Zenon
<1>3. ASSUME call.op = "idle", NEW w \in Stage, NEW i \in DOMAIN up[w]
      PROVE  up[w][i].type = "HeartbeatAck"
  <2>1. All(up[w], Acks)
    BY <1>3, Zenon DEF FInv, Resting, Clear
  <2>2. i \in 1 .. Len(up[w])
    BY <1>3, Typed
  <2> QED
    BY <2>1, <2>2, BackgroundTyped, Zenon DEF All
<1> QED
  BY <1>1, <1>2, <1>3, Zenon DEF AnswersOwn

LEMMA CachesFollow ==
  ASSUME Given, TInv, FInv
  PROVE  CachesAgree
<1>1. ASSUME NEW w \in Stage, Settled(w) PROVE handles[w] = Active
  <2>1. call.op = "idle" /\ down[w] = <<>> /\ inbox[w] = <<>>
    BY <1>1, Zenon DEF Settled
  <2>2. ASSUME NEW s \in SeqId PROVE s \in handles[w] <=> fate[s] = "active"
    <3>1. ~Owed(down[w], inbox[w], s)
      BY <2>1 DEF Owed, Only
    <3>2. Held(w, s)
      BY <3>1, Zenon DEF FInv, Account
    <3> QED
      BY <2>1, <3>2, Zenon DEF Held
  <2> QED
    BY <2>2, Typed, Zenon DEF Active
<1> QED
  BY <1>1, Zenon DEF CachesAgree, FInv

-----------------------------------------------------------------------------
(* Given holds, by the theorems on finite sets.                            *)
INSTANCE FiniteSetTheorems

LEMMA GivenHolds == PipelineAssumption => Given
<1> SUFFICES ASSUME PipelineAssumption, NEW S \in SUBSET SeqId
             PROVE  /\ Frees(S) \in Seq(Message)
                    /\ All(Frees(S), {Free(s) : s \in S})
                    /\ \A s \in S : Only(Frees(S), {Free(s)}, Message \ {Free(s)})
  BY Zenon DEF Given, FreesExact
<1>1. PICK n : n = Cardinality(S)
  BY Zenon
<1>2. IsFiniteSet(S)
  BY FS_Subset, Zenon DEF PipelineAssumption
<1>3. n \in Nat /\ ExistsBijection(1 .. n, S)
  BY <1>1, <1>2, FS_CardinalityType, Zenon
<1>4. PICK f : f \in Bijection(1 .. n, S) /\ Frees(S) = [i \in 1 .. n |-> Free(f[i])]
  BY <1>1, <1>3, Zenon DEF ExistsBijection, Frees
<1>5. /\ f \in [1 .. n -> S]
      /\ \A i, j \in 1 .. n : f[i] = f[j] => i = j
      /\ \A s \in S : \E i \in 1 .. n : f[i] = s
  BY <1>4, Zenon DEF Bijection, Injection, Surjection, IsInjective
<1>6. \A i \in 1 .. n : Free(f[i]) \in Message
  BY <1>5, FreeTyped, Zenon
<1>7. Frees(S) \in Seq(Message) /\ Len(Frees(S)) = n
      /\ \A i \in 1 .. n : Frees(S)[i] = Free(f[i]) /\ f[i] \in S
  BY <1>3, <1>4, <1>5, <1>6
<1>8. All(Frees(S), {Free(s) : s \in S})
  BY <1>7, Zenon DEF All
<1>9. ASSUME NEW s \in S PROVE Only(Frees(S), {Free(s)}, Message \ {Free(s)})
  <2>1. PICK i \in 1 .. n : f[i] = s
    BY <1>5, Zenon
  <2>2. ASSUME NEW j \in 1 .. n, j # i PROVE Frees(S)[j] \in Message \ {Free(s)}
    <3>1. f[j] # s /\ f[j] \in SeqId
      BY <1>5, <2>1, <2>2, Zenon
    <3>2. Free(f[j]) # Free(s)
      BY <3>1, FreeTyped
    <3> QED
      BY <1>6, <1>7, <3>2, Zenon
  <2> QED
    BY <1>7, <2>1, <2>2, Zenon DEF Only
<1> QED
  BY <1>7, <1>8, <1>9, Zenon

(* AbortedFreed: however a batch ends - a stage that fails, an answer that *)
(* is not the expected one, a connection that breaks, a worker that dies - *)
(* no worker that is still connected keeps a cache of one of its sequences *)
(* once it has served what was sent to it (free_cache_best_effort and      *)
(* abort_all_sequences).  For every number of stages and sequences and     *)
(* every number of refusals, errors, losses and replaced pipelines.        *)
THEOREM AbortedFreedCorrect ==
  ASSUME PipelineAssumption
  PROVE  Spec => []AbortedFreed
<1>0. Given
  BY GivenHolds, Zenon
<1>1. Init => TInv
  BY <1>0, TInvInit, Zenon
<1>2. Init => AInv
  BY Zenon DEF Init, AInv
<1>3. TInv /\ AInv /\ [Next]_vars => TInv' /\ AInv'
  BY <1>0, TInvNext, AInvNext, Zenon
<1>4. TInv /\ AInv => AbortedFreed
  <2> SUFFICES ASSUME TInv, AInv, NEW w \in Stage \ dead, Settled(w), linked[w],
                      NEW s \in handles[w], fate[s] \in {"failed", "aborted"}
               PROVE  FALSE
    BY Zenon DEF AbortedFreed
  <2>1. s \in SeqId
    BY Zenon DEF TInv
  <2>2. Gone(w, s)
    BY <2>1, Zenon DEF AInv
  <2> QED
    BY <2>2 DEF Gone, Settled, FreedLast
<1> QED
  BY <1>1, <1>2, <1>3, <1>4, PTL DEF Spec

(* AnswersOwn: a call takes answers to its own request only, although the  *)
(* answers carry nothing that tells them apart, and between two calls      *)
(* nothing but heartbeat acks is on the way back: for every number of      *)
(* stages, sequences, calls, heartbeats and failing passes, as long as no  *)
(* worker refuses an allocation, no connection is lost and no pipeline is  *)
(* replaced (recv_skipping_heartbeat_acks).                                *)
THEOREM AnswersOwnCorrect ==
  ASSUME PipelineAssumption, Reliable
  PROVE  Spec => []AnswersOwn
<1>0. Given
  BY GivenHolds, Zenon
<1>1. Init => TInv /\ FInv
  BY <1>0, TInvInit, FInvInit, Zenon
<1>2. TInv /\ FInv /\ [Next]_vars => TInv' /\ FInv'
  BY <1>0, TInvNext, FInvNext, Zenon
<1>3. TInv /\ FInv => AnswersOwn
  BY <1>0, AnswersFollow, Zenon
<1> QED
  BY <1>1, <1>2, <1>3, PTL DEF Spec

(* CachesAgree: under the same conditions the coordinator's allocated_seqs *)
(* are between calls the sequences the loop runs, and a worker that has    *)
(* served everything sent to it holds the caches of exactly those.         *)
THEOREM CachesAgreeCorrect ==
  ASSUME PipelineAssumption, Reliable
  PROVE  Spec => []CachesAgree
<1>0. Given
  BY GivenHolds, Zenon
<1>1. Init => TInv /\ FInv
  BY <1>0, TInvInit, FInvInit, Zenon
<1>2. TInv /\ FInv /\ [Next]_vars => TInv' /\ FInv'
  BY <1>0, TInvNext, FInvNext, Zenon
<1>3. TInv /\ FInv => CachesAgree
  BY <1>0, CachesFollow, Zenon
<1> QED
  BY <1>1, <1>2, <1>3, PTL DEF Spec
=============================================================================
