--------------------------- MODULE HeartbeatProofs ---------------------------
(***************************************************************************)
(* Failure detection without traffic between the rounds and with acks that *)
(* arrive within the interval, for any set of workers and any max_missed:  *)
(* who answers is never declared dead.                                     *)
(***************************************************************************)
EXTENDS Heartbeat, SequenceTheorems, TLAPS

Msg == [type : {"HeartbeatAck"}, nonce : Nat, free : Nat] \cup {LeaveIntent}
Entries ==
  [status : WorkerStatus, layers : {None} \cup {{v} : v \in Worker}, free : Nat, conn : {1}]

RegistryOK == workers \in [Worker -> Entries]

CountersOK ==
  /\ pending \in Nat \cup {NoNonce}
  /\ missed \in [Worker -> Nat] /\ silent \in [Worker -> Nat]

QueuesOK ==
  /\ down \in [Worker -> Seq(Nat)] /\ up \in [Worker -> Seq(Msg)]
  /\ alive \in [Worker -> BOOLEAN] /\ acked \in [Worker -> BOOLEAN]

NoAck(q) == \A i \in 1 .. Len(q) : q[i] = LeaveIntent

(* The ack of the pending heartbeat is the next message, or the worker is  *)
(* leaving.                                                                *)
OneAck(q, n) ==
  /\ q # <<>>
  /\ \/ Head(q) = LeaveIntent
     \/ Head(q).type = "HeartbeatAck" /\ Head(q).nonce = n /\ NoAck(Tail(q))

(* A heartbeat is on its way to a worker, or was answered, or the worker   *)
(* is down.                                                                *)
Delivery(w) ==
  /\ acked[w] => pending # NoNonce /\ OneAck(up[w], pending)
  /\ ~acked[w] => NoAck(up[w])
  /\ IF pending # NoNonce /\ alive[w] /\ ~acked[w] THEN down[w] = <<pending>> ELSE down[w] = <<>>

Judged(w) == silent[w] <= missed[w] /\ missed[w] <= silent[w] + 1 /\ missed[w] < MaxMissed

IInv ==
  /\ RegistryOK /\ CountersOK /\ QueuesOK
  /\ \A w \in Ready : Delivery(w) /\ Judged(w)
  /\ DeadWasSilent

(***************************************************************************)
(* Queues.                                                                 *)
(***************************************************************************)
LEMMA LeaveIsMsg == LeaveIntent \in Msg /\ LeaveIntent.type = "LeaveIntent"
BY DEF Msg, LeaveIntent

LEMMA AckIsMsg ==
  ASSUME NEW n \in Nat, NEW f \in Nat
  PROVE  Ack(n, f) \in Msg /\ Ack(n, f).type = "HeartbeatAck" /\ Ack(n, f).nonce = n
BY DEF Msg, Ack

LEMMA MsgType ==
  ASSUME NEW m \in Msg
  PROVE  \/ m = LeaveIntent /\ m.type = "LeaveIntent"
         \/ m.type = "HeartbeatAck" /\ m.nonce \in Nat /\ m.free \in Nat
BY DEF Msg, LeaveIntent

LEMMA LeaveAppended ==
  ASSUME NEW q \in Seq(Msg), NEW n
  PROVE  /\ Append(q, LeaveIntent) \in Seq(Msg)
         /\ NoAck(q) => NoAck(Append(q, LeaveIntent))
         /\ OneAck(q, n) => OneAck(Append(q, LeaveIntent), n)
<1>1. Append(q, LeaveIntent) \in Seq(Msg)
  BY LeaveIsMsg
<1>2. NoAck(q) => NoAck(Append(q, LeaveIntent))
  BY DEF NoAck
<1>3. ASSUME OneAck(q, n) PROVE OneAck(Append(q, LeaveIntent), n)
  <2>1. q # <<>> /\ Append(q, LeaveIntent) # <<>> /\ Head(Append(q, LeaveIntent)) = Head(q)
    BY <1>3 DEF OneAck
  <2>2. Tail(Append(q, LeaveIntent)) = Append(Tail(q), LeaveIntent)
    BY <2>1
  <2>3. NoAck(Tail(q)) => NoAck(Append(Tail(q), LeaveIntent))
    BY <2>1 DEF NoAck
  <2> QED BY <1>3, <2>1, <2>2, <2>3, Zenon DEF OneAck
<1> QED BY <1>1, <1>2, <1>3

LEMMA AckAppended ==
  ASSUME NEW q \in Seq(Msg), NEW n \in Nat, NEW f \in Nat, NoAck(q)
  PROVE  Append(q, Ack(n, f)) \in Seq(Msg) /\ OneAck(Append(q, Ack(n, f)), n)
<1>1. Append(q, Ack(n, f)) \in Seq(Msg) /\ Append(q, Ack(n, f)) # <<>>
  <2>1. Ack(n, f) \in Msg
    BY AckIsMsg
  <2> QED BY <2>1, AppendProperties
<1>2. CASE q = <<>>
  <2>1. Append(q, Ack(n, f)) = <<Ack(n, f)>>
    BY <1>2
  <2>2. Head(<<Ack(n, f)>>) = Ack(n, f) /\ Tail(<<Ack(n, f)>>) = <<>>
    OBVIOUS
  <2>3. NoAck(<<>>)
    BY DEF NoAck
  <2> QED BY <1>1, <2>1, <2>2, <2>3, AckIsMsg, SMTT(60) DEF OneAck
<1>3. CASE q # <<>>
  <2>1. Head(Append(q, Ack(n, f))) = q[1] /\ q[1] = LeaveIntent
    BY <1>3 DEF NoAck
  <2> QED BY <1>1, <2>1 DEF OneAck
<1> QED BY <1>1, <1>2, <1>3

LEMMA HeadRead ==
  ASSUME NEW q \in Seq(Msg), q # <<>>
  PROVE  Head(q) \in Msg /\ Tail(q) \in Seq(Msg) /\ (NoAck(q) => Head(q) = LeaveIntent)
<1>1. Head(q) \in Msg /\ Tail(q) \in Seq(Msg) /\ Head(q) = q[1] /\ Len(q) >= 1
  OBVIOUS
<1> QED BY <1>1 DEF NoAck

(***************************************************************************)
(* Initial states and steps of one worker.                                 *)
(***************************************************************************)
LEMMA IInvInit == Init => IInv
<1> SUFFICES ASSUME Init PROVE IInv
  OBVIOUS
<1>2. RegistryOK
  <2>1. \A w \in Worker : [status |-> "Ready", layers |-> {w}, free |-> 0, conn |-> 1] \in Entries
    BY DEF Entries, WorkerStatus
  <2> QED BY <2>1 DEF Init, RegistryOK
<1>3. CountersOK
  BY DEF Init, CountersOK
<1>4. QueuesOK
  <2>1. <<>> \in Seq(Nat) /\ <<>> \in Seq(Msg)
    OBVIOUS
  <2> QED BY <2>1 DEF Init, QueuesOK
<1>5. ASSUME NEW w \in Ready PROVE Delivery(w) /\ Judged(w)
  <2>1. w \in Worker
    BY DEF Init, Ready, ReaderHandles
  <2>2. NoAck(<<>>)
    BY DEF NoAck
  <2>3. Delivery(w)
    BY <2>1, <2>2 DEF Init, Delivery
  <2>4. Judged(w)
    BY <2>1, HeartbeatAssumption DEF Init, Judged
  <2> QED BY <2>3, <2>4
<1>6. DeadWasSilent
  BY DEF Init, DeadWasSilent
<1> QED BY <1>2, <1>3, <1>4, <1>5, <1>6, SMTT(60) DEF IInv

(* A step of w that leaves the registry, the counters and others alone.    *)
LEMMA WorkerStep ==
  ASSUME IInv, NEW w \in Worker, UNCHANGED <<workers, pending, missed, silent>>, QueuesOK',
         \A v \in Worker \ {w} : /\ down'[v] = down[v] /\ up'[v] = up[v]
                                 /\ alive'[v] = alive[v] /\ acked'[v] = acked[v],
         w \in Ready => Delivery(w)'
  PROVE  IInv'
<1>1. RegistryOK' /\ CountersOK' /\ DeadWasSilent' /\ Ready' = Ready
  BY DEF IInv, RegistryOK, CountersOK, DeadWasSilent, Ready
<1>2. ASSUME NEW v \in Ready PROVE Delivery(v)' /\ Judged(v)'
  <2>1. v \in Worker
    BY DEF IInv, RegistryOK, Ready, ReaderHandles
  <2>2. Judged(v)'
    BY DEF IInv, Judged
  <2>3. CASE v = w
    BY <2>2, <2>3
  <2>4. CASE v # w
    <3>1. v \in Worker \ {w}
      BY <2>1, <2>4
    <3>2. Delivery(v)
      BY DEF IInv
    <3>3. /\ down'[v] = down[v] /\ up'[v] = up[v] /\ alive'[v] = alive[v]
          /\ acked'[v] = acked[v] /\ pending' = pending
      BY <3>1
    <3> QED BY <2>2, <3>2, <3>3 DEF Delivery
  <2> QED BY <2>3, <2>4
<1> QED BY <1>1, <1>2 DEF IInv

LEMMA RouterAckStep ==
  ASSUME IInv, NEW w \in Worker, RouterAck(w) PROVE IInv'
<1> PICK f \in FreeBlocks : up' = [up EXCEPT ![w] = Append(@, Ack(Head(down[w]), f))]
  BY Zenon DEF RouterAck
<1>0. f \in Nat /\ down[w] \in Seq(Nat) /\ down[w] # <<>> /\ up[w] \in Seq(Msg)
  BY HeartbeatAssumption DEF RouterAck, IInv, QueuesOK
<1>1. Head(down[w]) \in Nat /\ Tail(down[w]) \in Seq(Nat)
  BY <1>0
<1>2. QueuesOK'
  <2>1. Append(up[w], Ack(Head(down[w]), f)) \in Seq(Msg)
    BY <1>0, <1>1, AckIsMsg
  <2>2. up' \in [Worker -> Seq(Msg)]
    BY <2>1 DEF IInv, QueuesOK
  <2>3. down' \in [Worker -> Seq(Nat)] /\ alive' \in [Worker -> BOOLEAN]
    BY <1>1 DEF RouterAck, IInv, QueuesOK
  <2>4. acked' \in [Worker -> BOOLEAN]
    BY DEF RouterAck, IInv, QueuesOK
  <2> QED BY <2>2, <2>3, <2>4, SMTT(60) DEF QueuesOK
<1>3. ASSUME w \in Ready PROVE Delivery(w)'
  <2>1. Delivery(w) /\ pending \in Nat \cup {NoNonce}
    BY <1>3 DEF IInv, CountersOK
  <2>2. pending # NoNonce /\ alive[w] /\ ~acked[w] /\ down[w] = <<pending>>
    BY <1>0, <2>1 DEF Delivery
  <2>3. Head(down[w]) = pending /\ Tail(down[w]) = <<>> /\ pending \in Nat
    BY <2>1, <2>2
  <2>4. down'[w] = <<>> /\ acked'[w] = TRUE /\ pending' = pending
    BY <2>3 DEF RouterAck, IInv, QueuesOK
  <2>5. up'[w] = Append(up[w], Ack(pending, f))
    BY <2>3 DEF IInv, QueuesOK
  <2>6. OneAck(up'[w], pending)
    BY <1>0, <2>1, <2>2, <2>3, <2>5, AckAppended, SMTT(60) DEF Delivery
  <2> QED BY <2>2, <2>4, <2>6, SMTT(60) DEF Delivery
<1> QED BY <1>2, <1>3, WorkerStep, Zenon DEF RouterAck, IInv, QueuesOK

LEMMA CrashStep ==
  ASSUME IInv, NEW w \in Worker, Crash(w) PROVE IInv'
<1>1. QueuesOK'
  BY DEF Crash, IInv, QueuesOK
<1>2. ASSUME w \in Ready PROVE Delivery(w)'
  <2>1. Delivery(w)
    BY <1>2 DEF IInv
  <2>2. /\ down'[w] = <<>> /\ alive'[w] = FALSE /\ up'[w] = up[w] /\ acked'[w] = acked[w]
        /\ pending' = pending
    BY DEF Crash, IInv, QueuesOK
  <2> QED BY <2>1, <2>2 DEF Delivery
<1> QED BY <1>1, <1>2, WorkerStep, Zenon DEF Crash, IInv, QueuesOK

LEMMA LeaveStep ==
  ASSUME IInv, NEW w \in Worker, Leave(w) PROVE IInv'
<1>0. up[w] \in Seq(Msg) /\ up'[w] = Append(up[w], LeaveIntent)
  BY DEF Leave, IInv, QueuesOK
<1>1. QueuesOK'
  <2>1. up' \in [Worker -> Seq(Msg)]
    BY <1>0, LeaveAppended, ZenonT(60) DEF Leave, IInv, QueuesOK
  <2> QED BY <2>1 DEF Leave, IInv, QueuesOK
<1>2. ASSUME w \in Ready PROVE Delivery(w)'
  <2>1. Delivery(w)
    BY <1>2 DEF IInv
  <2>2. UNCHANGED <<down, alive, acked, pending>>
    BY DEF Leave
  <2> QED BY <1>0, <2>1, <2>2, LeaveAppended DEF Delivery
<1> QED BY <1>1, <1>2, WorkerStep, Zenon DEF Leave, IInv, QueuesOK

(***************************************************************************)
(* The registry after a round.                                             *)
(***************************************************************************)
LEMMA SetStatusIs ==
  ASSUME NEW reg \in [Worker -> Entries], NEW S, NEW st \in WorkerStatus
  PROVE  /\ SetStatus(reg, S, st) \in [Worker -> Entries]
         /\ \A w \in Worker :
              /\ SetStatus(reg, S, st)[w].status = IF w \in S THEN st ELSE reg[w].status
              /\ SetStatus(reg, S, st)[w].layers = reg[w].layers
<1>1. ASSUME NEW e \in Entries
      PROVE  /\ [e EXCEPT !.status = st] \in Entries
             /\ [e EXCEPT !.status = st].status = st /\ [e EXCEPT !.status = st].layers = e.layers
  BY DEF Entries
<1>2. SetStatus(reg, S, st) =
        [v \in Worker |-> IF v \in S THEN [reg[v] EXCEPT !.status = st] ELSE reg[v]]
  BY DEF SetStatus
<1> QED BY <1>1, <1>2

LEMMA RecordedIs ==
  ASSUME RegistryOK, QueuesOK
  PROVE  /\ RecordHeartbeats(workers, Acks) \in [Worker -> Entries]
         /\ \A w \in Worker :
              /\ RecordHeartbeats(workers, Acks)[w].status = workers[w].status
              /\ RecordHeartbeats(workers, Acks)[w].layers = workers[w].layers
<1>1. ASSUME NEW e \in Entries, NEW f \in Nat
      PROVE  /\ [e EXCEPT !.free = f] \in Entries
             /\ [e EXCEPT !.free = f].status = e.status /\ [e EXCEPT !.free = f].layers = e.layers
  BY DEF Entries
<1>2. ASSUME NEW v \in DOMAIN Acks PROVE v \in Worker /\ Acks[v] \in Nat
  <2>1. v \in Worker /\ ValidAck(v) /\ Acks[v] = Head(up[v]).free
    BY <1>2 DEF Acks
  <2>2. up[v] \in Seq(Msg) /\ up[v] # <<>> /\ Head(up[v]).type = "HeartbeatAck"
    BY <2>1 DEF ValidAck, PolledAck, Polled, QueuesOK
  <2>3. Head(up[v]) \in Msg
    BY <2>2, HeadRead
  <2> QED BY <2>1, <2>2, <2>3, MsgType
<1>3. RecordHeartbeats(workers, Acks) =
        [v \in Worker |-> IF v \in DOMAIN Acks THEN [workers[v] EXCEPT !.free = Acks[v]]
                          ELSE workers[v]]
  BY DEF RecordHeartbeats, RegistryOK
<1> QED BY <1>1, <1>2, <1>3 DEF RegistryOK

LEMMA HeardIs ==
  ASSUME RegistryOK, QueuesOK
  PROVE  /\ AfterAcks \in [Worker -> Entries]
         /\ \A w \in Worker :
              /\ AfterAcks[w].status = IF w \in Leaving THEN "Draining" ELSE workers[w].status
              /\ AfterAcks[w].layers = workers[w].layers
<1> DEFINE R == RecordHeartbeats(workers, Acks)
           S == {w \in Leaving : Has(R, w, "Ready")}
<1>1. /\ R \in [Worker -> Entries]
      /\ \A w \in Worker : R[w].status = workers[w].status /\ R[w].layers = workers[w].layers
  BY RecordedIs
<1>2. S = Leaving
  <2>1. \A w \in Leaving : w \in Worker /\ workers[w].status = "Ready"
    BY DEF Leaving, Polled, Ready, ReaderHandles
  <2> QED BY <1>1, <2>1 DEF Has, Known
<1>3. AfterAcks = SetStatus(R, S, "Draining")
  BY DEF AfterAcks, MarkDraining
<1> HIDE DEF R, S
<1>4. "Draining" \in WorkerStatus
  BY DEF WorkerStatus
<1> QED BY <1>1, <1>2, <1>3, <1>4, SetStatusIs, SMTT(60)

(* Who is in the pipeline, and what its counter is.                        *)
LEMMA HeardReady ==
  ASSUME RegistryOK, QueuesOK
  PROVE  \A w \in Worker : w \in ReaderHandles(AfterAcks) <=> w \in Ready /\ w \notin Leaving
<1>1. /\ DOMAIN AfterAcks = Worker /\ DOMAIN workers = Worker
      /\ \A w \in Worker :
           /\ AfterAcks[w].status = IF w \in Leaving THEN "Draining" ELSE workers[w].status
           /\ AfterAcks[w].layers = workers[w].layers
  BY HeardIs DEF RegistryOK
<1> QED BY <1>1 DEF ReaderHandles, Ready

LEMMA JudgedIs ==
  ASSUME RegistryOK, QueuesOK, HeartbeatRound
  PROVE  /\ RegistryOK'
         /\ \A w \in Worker :
              LET out == w \in TimedOut(AfterAcks, Counted(AfterAcks))
              IN  /\ workers'[w].status = "Dead" => out \/ workers[w].status = "Dead"
                  /\ w \in Ready' => w \in Ready /\ w \notin Leaving /\ ~out
<1> DEFINE T == TimedOut(AfterAcks, Counted(AfterAcks))
<1>1. workers' = SetStatus(AfterAcks, T, "Dead")
  BY DEF HeartbeatRound, MarkDead
<1> HIDE DEF T
<1>2. "Dead" \in WorkerStatus /\ AfterAcks \in [Worker -> Entries]
  BY HeardIs DEF WorkerStatus
<1>3. /\ workers' \in [Worker -> Entries]
      /\ \A w \in Worker : /\ workers'[w].status = IF w \in T THEN "Dead" ELSE AfterAcks[w].status
                           /\ workers'[w].layers = AfterAcks[w].layers
  BY <1>1, <1>2, SetStatusIs, SMTT(60)
<1>4. ASSUME NEW w \in Worker
      PROVE  /\ workers'[w].status = "Dead" => w \in T \/ workers[w].status = "Dead"
             /\ w \in Ready' => w \in Ready /\ w \notin Leaving /\ w \notin T
  <2>1. AfterAcks[w].status = IF w \in Leaving THEN "Draining" ELSE workers[w].status
    BY HeardIs
  <2>2. w \in Ready' => w \in ReaderHandles(AfterAcks) /\ w \notin T
    BY <1>2, <1>3 DEF Ready, ReaderHandles
  <2> QED BY <1>3, <2>1, <2>2, HeardReady, SMTT(60)
<1> QED BY <1>3, <1>4 DEF RegistryOK, T

(***************************************************************************)
(* The rounds.                                                             *)
(***************************************************************************)
LEMMA SentIs ==
  ASSUME QueuesOK, NEW reg, SendHeartbeats(reg), Nonce \ InUse # {}
  PROVE  /\ pending' \in Nat /\ pending' # NoNonce
         /\ down' \in [Worker -> Seq(Nat)] /\ acked' \in [Worker -> BOOLEAN]
         /\ \A w \in Worker : acked'[w] = FALSE
         /\ \A w \in Worker : down'[w] = IF alive[w] /\ w \in ReaderHandles(reg)
                                        THEN Append(down[w], pending') ELSE down[w]
<1>1. pending' \in Nonce \ InUse
  BY DEF SendHeartbeats
<1>2. pending' \in Nat /\ pending' # NoNonce
  BY <1>1, HeartbeatAssumption DEF NoNonce
<1>3. \A w \in Worker : down[w] \in Seq(Nat) /\ Append(down[w], pending') \in Seq(Nat)
  BY <1>2 DEF QueuesOK
<1>4. down' = [w \in Worker |-> IF alive[w] /\ w \in ReaderHandles(reg)
                               THEN Append(down[w], pending') ELSE down[w]]
  BY DEF SendHeartbeats
<1>5. acked' = [w \in Worker |-> FALSE]
  BY DEF SendHeartbeats
<1> QED BY <1>2, <1>3, <1>4, <1>5, SMTT(60)

LEMMA FirstRoundStep ==
  ASSUME IInv, FirstRound PROVE IInv'
<1>0. /\ pending = NoNonce /\ SendHeartbeats(workers) /\ Nonce \ InUse # {} /\ Ready' = Ready
      /\ UNCHANGED <<workers, missed, up, alive, silent>> /\ QueuesOK
  BY DEF FirstRound, Ready, IInv
<1>1. RegistryOK' /\ DeadWasSilent'
  BY <1>0 DEF IInv, RegistryOK, DeadWasSilent
<1>2. CountersOK' /\ QueuesOK'
  BY <1>0, SentIs, Zenon DEF IInv, CountersOK, QueuesOK
<1>3. ASSUME NEW w \in Ready PROVE Delivery(w)' /\ Judged(w)'
  <2>1. w \in Worker /\ Delivery(w) /\ Judged(w)
    BY DEF IInv, RegistryOK, Ready, ReaderHandles
  <2>2. NoAck(up[w]) /\ down[w] = <<>>
    BY <1>0, <2>1 DEF Delivery
  <2>3. pending' # NoNonce /\ acked'[w] = FALSE
        /\ down'[w] = IF alive[w] THEN Append(down[w], pending') ELSE down[w]
    BY <1>0, <2>1, SentIs, ZenonT(60) DEF Ready
  <2>4. Append(<<>>, pending') = <<pending'>>
    OBVIOUS
  <2>5. Delivery(w)'
    BY <1>0, <2>2, <2>3, <2>4 DEF Delivery
  <2>6. Judged(w)'
    BY <1>0, <2>1 DEF Judged
  <2> QED BY <2>5, <2>6
<1> QED BY <1>0, <1>1, <1>2, <1>3, SMTT(60) DEF IInv

(* A worker that stays: its counter follows its silence.                   *)
LEMMA StayingIs ==
  ASSUME IInv, ~Late, HeartbeatRound, NEW w \in Ready, w \notin Leaving
  PROVE  /\ w \in Worker /\ down[w] = <<>> /\ NoAck(up'[w])
         /\ acked[w] => missed'[w] = 1 /\ silent'[w] = 0
         /\ ~acked[w] => missed'[w] = missed[w] + 1 /\ silent'[w] = silent[w] + 1
<1>0. w \in Worker /\ Delivery(w) /\ Judged(w) /\ QueuesOK /\ RegistryOK /\ CountersOK
  BY DEF IInv, RegistryOK, Ready, ReaderHandles
<1>1. pending # NoNonce /\ (alive[w] => down[w] = <<>>)
  BY DEF HeartbeatRound, IntervalElapsed
<1>2. down[w] = <<>>
  BY <1>0, <1>1 DEF Delivery
<1>3. w \in ReaderHandles(AfterAcks)
  BY <1>0, HeardReady
<1>4. missed'[w] = (IF ValidAck(w) THEN 0 ELSE missed[w]) + 1
  BY <1>0, <1>3 DEF HeartbeatRound, Counted
<1>5. silent'[w] = IF acked[w] THEN 0 ELSE Min({silent[w] + 1, MaxMissed})
  BY <1>0 DEF HeartbeatRound
<1>6. up'[w] = IF Polled(w) THEN Tail(up[w]) ELSE up[w]
  BY <1>0 DEF HeartbeatRound
<1>7. up[w] \in Seq(Msg) /\ (Polled(w) <=> up[w] # <<>>)
  BY <1>0 DEF QueuesOK, Polled
<1>8. up[w] # <<>> => Head(up[w]) # LeaveIntent /\ Head(up[w]) \in Msg
  BY <1>0, <1>7, HeadRead, LeaveIsMsg, SMTT(60) DEF Leaving
<1>9. CASE acked[w]
  <2>1. OneAck(up[w], pending)
    BY <1>0, <1>9 DEF Delivery
  <2>2. ValidAck(w) /\ NoAck(Tail(up[w])) /\ Polled(w)
    BY <1>7, <1>8, <2>1, SMTT(60) DEF OneAck, ValidAck, PolledAck
  <2> QED BY <1>0, <1>2, <1>4, <1>5, <1>6, <1>9, <2>2, SMTT(60)
<1>10. CASE ~acked[w]
  <2>1. NoAck(up[w])
    BY <1>0, <1>10 DEF Delivery
  <2>2. up[w] = <<>>
    BY <1>7, <1>8, <2>1, HeadRead, SMTT(60)
  <2>3. ~ValidAck(w) /\ ~Polled(w)
    BY <1>7, <2>2 DEF ValidAck, PolledAck
  <2>4. silent[w] \in Nat /\ missed[w] \in Nat /\ MaxMissed \in Nat /\ silent[w] + 1 <= MaxMissed
    BY <1>0, HeartbeatAssumption DEF CountersOK, Judged
  <2>5. Min({silent[w] + 1, MaxMissed}) = silent[w] + 1
    BY <2>4 DEF Min
  <2> QED BY <1>0, <1>2, <1>4, <1>5, <1>6, <1>10, <2>1, <2>3, <2>4, <2>5, SMTT(60)
<1> QED BY <1>9, <1>10

LEMMA HeartbeatRoundStep ==
  ASSUME IInv, ~Late, HeartbeatRound PROVE IInv'
<1> DEFINE T == TimedOut(AfterAcks, Counted(AfterAcks))
<1>0. RegistryOK /\ CountersOK /\ QueuesOK /\ DeadWasSilent /\ MaxMissed \in Nat
  BY HeartbeatAssumption DEF IInv
<1>1. /\ RegistryOK'
      /\ \A w \in Worker : /\ workers'[w].status = "Dead" => w \in T \/ workers[w].status = "Dead"
                           /\ w \in Ready' => w \in Ready /\ w \notin Leaving /\ w \notin T
  BY <1>0, JudgedIs
<1>2. \A w \in Worker : w \in T <=> w \in Ready /\ w \notin Leaving /\ missed'[w] >= MaxMissed
  <2>1. missed' = Counted(AfterAcks)
    BY DEF HeartbeatRound
  <2> QED BY <1>0, <2>1, HeardReady DEF TimedOut
<1> HIDE DEF T
<1>3. /\ pending' \in Nat /\ pending' # NoNonce
      /\ down' \in [Worker -> Seq(Nat)] /\ acked' \in [Worker -> BOOLEAN]
      /\ \A w \in Worker : acked'[w] = FALSE
      /\ \A w \in Worker : down'[w] = IF alive[w] /\ w \in Ready'
                                     THEN Append(down[w], pending') ELSE down[w]
  <2>1. SendHeartbeats(workers') /\ Nonce \ InUse # {} /\ Ready' = ReaderHandles(workers')
    BY DEF HeartbeatRound, Ready
  <2> QED BY <1>0, <2>1, SentIs, ZenonT(60)
<1>4. missed' \in [Worker -> Nat]
  <2>1. missed' = [w \in Worker |-> (IF ValidAck(w) THEN 0 ELSE missed[w])
                                    + (IF w \in ReaderHandles(AfterAcks) THEN 1 ELSE 0)]
    BY DEF HeartbeatRound, Counted
  <2> QED BY <1>0, <2>1 DEF CountersOK
<1>5. silent' \in [Worker -> Nat] /\ \A w \in Worker \ Ready : silent'[w] = silent[w]
  <2>1. silent' = [w \in Worker |-> IF w \notin Ready THEN silent[w]
                                    ELSE IF acked[w] THEN 0
                                    ELSE Min({silent[w] + 1, MaxMissed})]
    BY DEF HeartbeatRound
  <2>2. ASSUME NEW k \in Nat PROVE Min({k + 1, MaxMissed}) \in Nat
    <3>1. CASE k + 1 <= MaxMissed
      <4>1. Min({k + 1, MaxMissed}) = k + 1
        BY <1>0, <3>1 DEF Min
      <4> QED BY <4>1
    <3>2. CASE ~(k + 1 <= MaxMissed)
      <4>1. Min({k + 1, MaxMissed}) = MaxMissed
        BY <1>0, <3>2 DEF Min
      <4> QED BY <1>0, <4>1
    <3> QED BY <3>1, <3>2
  <2> QED BY <1>0, <2>1, <2>2 DEF CountersOK
<1>6. up' \in [Worker -> Seq(Msg)] /\ alive' = alive
  <2>1. up' = [w \in Worker |-> IF Polled(w) THEN Tail(up[w]) ELSE up[w]] /\ alive' = alive
    BY DEF HeartbeatRound
  <2>2. \A w \in Worker : up[w] \in Seq(Msg) /\ (Polled(w) => Tail(up[w]) \in Seq(Msg))
    BY <1>0, HeadRead DEF QueuesOK, Polled
  <2> QED BY <2>1, <2>2
<1>7. CountersOK' /\ QueuesOK'
  BY <1>0, <1>3, <1>4, <1>5, <1>6, SMTT(60) DEF CountersOK, QueuesOK
<1>8. ASSUME NEW w \in Worker, w \in Ready, w \notin Leaving
      PROVE  /\ silent[w] \in Nat /\ missed[w] \in Nat /\ silent[w] <= missed[w] /\ missed[w] <= silent[w] + 1
             /\ acked[w] => missed'[w] = 1 /\ silent'[w] = 0
             /\ ~acked[w] => missed'[w] = missed[w] + 1 /\ silent'[w] = silent[w] + 1
             /\ down[w] = <<>> /\ NoAck(up'[w])
  BY <1>0, <1>8, StayingIs DEF IInv, CountersOK, Judged
<1>9. DeadWasSilent'
  <2> SUFFICES ASSUME NEW w \in Worker, workers'[w].status = "Dead"
               PROVE  silent'[w] >= MaxMissed - 1
    BY DEF DeadWasSilent
  <2>1. CASE w \in T
    BY <1>0, <1>2, <1>8, <2>1, SMTT(60)
  <2>2. CASE w \notin T
    <3>1. workers[w].status = "Dead"
      BY <1>1, <2>2
    <3>2. w \notin Ready
      BY <3>1 DEF Ready, ReaderHandles
    <3> QED BY <1>0, <1>5, <3>1, <3>2, SMTT(60) DEF DeadWasSilent
  <2> QED BY <2>1, <2>2
<1>10. ASSUME NEW w \in Ready' PROVE Delivery(w)' /\ Judged(w)'
  <2>1. w \in Worker
    BY <1>1 DEF RegistryOK, Ready, ReaderHandles
  <2>2. w \in Ready /\ w \notin Leaving /\ w \notin T
    BY <1>1, <1>10, <2>1
  <2>3. Judged(w)'
    BY <1>0, <1>2, <1>4, <1>8, <2>1, <2>2, SMTT(60) DEF Judged
  <2>4. down'[w] = (IF alive[w] THEN Append(<<>>, pending') ELSE <<>>) /\ NoAck(up'[w])
    BY <1>3, <1>8, <1>10, <2>1, <2>2, ZenonT(60)
  <2>5. Append(<<>>, pending') = <<pending'>>
    OBVIOUS
  <2>6. Delivery(w)'
    BY <1>3, <1>6, <2>1, <2>4, <2>5 DEF Delivery
  <2> QED BY <2>3, <2>6
<1> QED BY <1>1, <1>7, <1>9, <1>10, SMTT(60) DEF IInv

LEMMA IInvNext ==
  ASSUME ~Traffic, ~Late, IInv, [Next]_vars PROVE IInv'
<1>1. CASE FirstRound
  BY <1>1, FirstRoundStep
<1>2. CASE HeartbeatRound
  BY <1>2, HeartbeatRoundStep
<1>3. ASSUME NEW w \in Worker, RouterAck(w) PROVE IInv'
  BY <1>3, RouterAckStep
<1>4. ASSUME NEW w \in Worker, Crash(w) PROVE IInv'
  BY <1>4, CrashStep, SMTT(60)
<1>5. ASSUME NEW w \in Worker, Leave(w) PROVE IInv'
  BY <1>5, LeaveStep
<1>6. ASSUME NEW w \in Worker, Exchange(w) PROVE IInv'
  BY <1>6 DEF Exchange
<1>7. CASE UNCHANGED vars
  BY <1>7 DEF vars, IInv, RegistryOK, CountersOK, QueuesOK, Ready, Delivery, Judged, DeadWasSilent
<1> QED BY <1>1, <1>2, <1>3, <1>4, <1>5, <1>6, <1>7, SMTT(60) DEF Next

LEMMA IInvAlways == ~Traffic /\ ~Late /\ Spec => []IInv
<1> SUFFICES ASSUME ~Traffic, ~Late PROVE Spec => []IInv
  OBVIOUS
<1>1. Init => IInv
  BY IInvInit
<1>2. IInv /\ [Next]_vars => IInv'
  BY IInvNext
<1> QED BY <1>1, <1>2, PTL DEF Spec

(***************************************************************************)
(* The bounds of the type invariant: nonces in use are nonces, and nobody  *)
(* is counted past the limit.                                              *)
(***************************************************************************)
Bounds ==
  /\ pending \in Nonce \cup {NoNonce}
  /\ missed \in [Worker -> 0 .. MaxMissed]
  /\ down \in [Worker -> Seq(Nonce)]

LEMMA SentNonce ==
  ASSUME Bounds, NEW reg, SendHeartbeats(reg), Nonce \ InUse # {}
  PROVE  pending' \in Nonce /\ down' \in [Worker -> Seq(Nonce)]
<1>1. pending' \in Nonce
  BY DEF SendHeartbeats
<1>2. \A w \in Worker : down[w] \in Seq(Nonce) /\ Append(down[w], pending') \in Seq(Nonce)
  BY <1>1 DEF Bounds
<1>3. down' = [w \in Worker |-> IF alive[w] /\ w \in ReaderHandles(reg)
                               THEN Append(down[w], pending') ELSE down[w]]
  BY DEF SendHeartbeats
<1> QED BY <1>1, <1>2, <1>3, SMTT(60)

LEMMA BoundsNext ==
  ASSUME ~Traffic, IInv, Bounds, [Next]_vars PROVE Bounds'
<1>0. MaxMissed \in Nat /\ (\A w \in Ready : missed[w] < MaxMissed)
  BY HeartbeatAssumption DEF IInv, Judged
<1>1. CASE FirstRound
  <2>1. SendHeartbeats(workers) /\ Nonce \ InUse # {} /\ missed' = missed
    BY <1>1 DEF FirstRound
  <2> QED BY <2>1, SentNonce, Zenon DEF Bounds
<1>2. CASE HeartbeatRound
  <2>1. SendHeartbeats(workers') /\ Nonce \ InUse # {}
    BY <1>2 DEF HeartbeatRound
  <2>2. missed' = [w \in Worker |-> (IF ValidAck(w) THEN 0 ELSE missed[w])
                                    + (IF w \in ReaderHandles(AfterAcks) THEN 1 ELSE 0)]
    BY <1>2 DEF HeartbeatRound, Counted
  <2>3. \A w \in Worker : w \in ReaderHandles(AfterAcks) => w \in Ready
    BY HeardReady DEF IInv
  <2>4. \A w \in Worker : missed[w] \in 0 .. MaxMissed
    BY DEF Bounds
  <2>5. missed' \in [Worker -> 0 .. MaxMissed]
    BY <1>0, <2>2, <2>3, <2>4
  <2> QED BY <2>1, <2>5, SentNonce, Zenon DEF Bounds
<1>3. ASSUME NEW w \in Worker, RouterAck(w) PROVE Bounds'
  <2>1. down[w] \in Seq(Nonce) /\ down[w] # <<>>
    BY <1>3 DEF RouterAck, Bounds
  <2>2. Tail(down[w]) \in Seq(Nonce)
    BY <2>1
  <2> QED BY <1>3, <2>2 DEF RouterAck, Bounds
<1>4. ASSUME NEW w \in Worker, Crash(w) PROVE Bounds'
  BY <1>4 DEF Crash, Bounds
<1>5. ASSUME NEW w \in Worker, Leave(w) PROVE Bounds'
  BY <1>5 DEF Leave, Bounds
<1>6. ASSUME NEW w \in Worker, Exchange(w) PROVE Bounds'
  BY <1>6 DEF Exchange
<1>7. CASE UNCHANGED vars
  BY <1>7 DEF vars, Bounds
<1> QED BY <1>1, <1>2, <1>3, <1>4, <1>5, <1>6, <1>7, SMTT(60) DEF Next

LEMMA BoundsAlways == ~Traffic /\ ~Late /\ Spec => []Bounds
<1> SUFFICES ASSUME ~Traffic, ~Late PROVE Spec => []Bounds
  OBVIOUS
<1>1. Init => Bounds
  BY HeartbeatAssumption DEF Init, Bounds
<1>2. IInv /\ Bounds /\ [Next]_vars => Bounds'
  BY BoundsNext
<1>3. Spec => []IInv
  BY IInvAlways
<1> QED BY <1>1, <1>2, <1>3, PTL DEF Spec

LEMMA TypeHolds ==
  ASSUME IInv, Bounds PROVE TypeOK
<1>1. \A w \in Worker : \A n \in Range(down[w]) : n \in Nonce
  BY DEF Bounds, Range
<1>2. workers \in [Worker -> [status : WorkerStatus, layers : {None} \cup {{v} : v \in Worker},
                              free : Nat, conn : {1}]]
  BY DEF IInv, RegistryOK, Entries
<1>3. alive \in [Worker -> BOOLEAN] /\ acked \in [Worker -> BOOLEAN] /\ silent \in [Worker -> Nat]
  BY Zenon DEF IInv, QueuesOK, CountersOK
<1> QED BY <1>1, <1>2, <1>3, Zenon DEF TypeOK, Bounds

(* On an idle loop with timely acks, a worker is declared dead only after  *)
(* it left max_missed - 1 heartbeats in a row unanswered                   *)
(* (HeartbeatTracker::process_ack, increment_missed, mark_timed_out), for  *)
(* any set of workers and whatever crashes or leaves in between.           *)
THEOREM DeadWasSilentCorrect == ~Traffic /\ ~Late /\ Spec => []DeadWasSilent
<1>1. IInv => DeadWasSilent
  BY SMTT(60) DEF IInv
<1> QED BY <1>1, IInvAlways, PTL

(* There too the counter of a worker in the pipeline is the number of      *)
(* heartbeats it left unanswered, or one more.                             *)
THEOREM CountMatchesSilenceCorrect == ~Traffic /\ ~Late /\ Spec => []CountMatchesSilence
<1>1. IInv => CountMatchesSilence
  BY DEF IInv, CountMatchesSilence, Judged
<1> QED BY <1>1, IInvAlways, PTL

(* Together, with the types: the judgement of HeartbeatTracker follows     *)
(* what the workers did.                                                   *)
THEOREM SilenceCountedCorrect == ~Traffic /\ ~Late /\ Spec => []SilenceCounted
<1>1. IInv /\ Bounds => TypeOK
  BY TypeHolds
<1>2. ~Traffic /\ ~Late /\ Spec => []TypeOK
  BY <1>1, IInvAlways, BoundsAlways, PTL
<1> QED BY <1>2, DeadWasSilentCorrect, CountMatchesSilenceCorrect, PTL DEF SilenceCounted
=============================================================================
