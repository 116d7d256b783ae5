------------------------------ MODULE Heartbeat ------------------------------
(***************************************************************************)
(* Failure detection: the distributed loop's heartbeat round over the      *)
(* HeartbeatTracker and the registry, one FIFO connection per worker, and  *)
(* the worker's router task, which answers a heartbeat as soon as it reads *)
(* it.  The loop reads a connection in two places: a round takes at most   *)
(* one message from it, and a request to the worker (Exchange) skips every *)
(* ack in front of the answer.  A nonce is any value not in flight.        *)
(* Rebalancing after a death is in Cluster.                                *)
(***************************************************************************)
EXTENDS PeerRegistry

CONSTANTS Worker,
          MaxMissed,  \* DistributedLoopConfig.heartbeat_max_missed
          Nonce,      \* bound: nonces that may be in flight at once
          FreeBlocks, \* values of free_blocks a worker may report
          Traffic,    \* requests are served between rounds
          Late,       \* an ack may take longer than the heartbeat interval
          MaxLeaves   \* bound: LeaveIntents sent

ASSUME HeartbeatAssumption ==
  /\ MaxMissed \in Nat \ {0}
  /\ Nonce \subseteq Nat /\ Nonce # {} /\ IsFiniteSet(Nonce)
  /\ FreeBlocks \subseteq Nat
  /\ Traffic \in BOOLEAN /\ Late \in BOOLEAN
  /\ MaxLeaves \in Nat

VARIABLES workers,   \* the PeerRegistry
          pending,   \* pending_nonce, NoNonce before the first round
          missed,    \* missed_counts
          down,      \* heartbeats on their way to each worker
          up,        \* messages of each worker the coordinator has not read
          alive,
          acked,     \* history: the worker has answered the pending heartbeat
          silent,    \* history: judged heartbeats in a row left unanswered, up to MaxMissed
          leaves

vars == <<workers, pending, missed, down, up, alive, acked, silent, leaves>>

NoNonce == -1
Ack(n, f) == [type |-> "HeartbeatAck", nonce |-> n, free |-> f]
LeaveIntent == [type |-> "LeaveIntent"]

Init ==
  /\ workers = [w \in Worker |-> [status |-> "Ready", layers |-> {w}, free |-> 0, conn |-> 1]]
  /\ pending = NoNonce
  /\ missed = [w \in Worker |-> 0]
  /\ down = [w \in Worker |-> <<>>]
  /\ up = [w \in Worker |-> <<>>]
  /\ alive = [w \in Worker |-> TRUE]
  /\ acked = [w \in Worker |-> FALSE]
  /\ silent = [w \in Worker |-> 0]
  /\ leaves = 0

Ready == ReaderHandles(workers)

Nonces(q) == {q[i].nonce : i \in {j \in DOMAIN q : q[j].type = "HeartbeatAck"}}
InUse == UNION {Range(down[w]) \cup Nonces(up[w]) : w \in Worker}
         \cup (IF pending = NoNonce THEN {} ELSE {pending})

-----------------------------------------------------------------------------
(* The worker's router.                                                    *)
RouterAck(w) ==
  /\ alive[w] /\ down[w] # <<>>
  /\ \E f \in FreeBlocks : up' = [up EXCEPT ![w] = Append(@, Ack(Head(down[w]), f))]
  /\ down' = [down EXCEPT ![w] = Tail(@)]
  /\ acked' = [acked EXCEPT ![w] = Head(down[w]) = pending]
  /\ UNCHANGED <<workers, pending, missed, alive, silent, leaves>>

\* The connection goes with the process; what it had sent can still be read.
Crash(w) ==
  /\ alive[w]
  /\ alive' = [alive EXCEPT ![w] = FALSE]
  /\ down' = [down EXCEPT ![w] = <<>>]
  /\ UNCHANGED <<workers, pending, missed, up, acked, silent, leaves>>

\* SIGTERM noticed by the serve loop.
Leave(w) ==
  /\ alive[w] /\ leaves < MaxLeaves
  /\ up' = [up EXCEPT ![w] = Append(@, LeaveIntent)]
  /\ leaves' = leaves + 1
  /\ UNCHANGED <<workers, pending, missed, down, alive, acked, silent>>

\* A request answered by w, between two rounds.  The router acks every
\* heartbeat in front of the request before the answer, and
\* recv_skipping_heartbeat_acks drops those acks.
Exchange(w) ==
  /\ Traffic /\ alive[w] /\ w \in Ready
  /\ LeaveIntent \notin Range(up[w])
  /\ down' = [down EXCEPT ![w] = <<>>]
  /\ up' = [up EXCEPT ![w] = <<>>]
  /\ acked' = [acked EXCEPT ![w] = @ \/ pending \in Range(down[w])]
  /\ UNCHANGED <<workers, pending, missed, alive, silent, leaves>>

-----------------------------------------------------------------------------
(* The tracker.                                                            *)

\* poll_worker_acks_concurrent: the first unread message of a ready worker.
Polled(w) == w \in Ready /\ up[w] # <<>>
PolledAck(w) == Polled(w) /\ Head(up[w]).type = "HeartbeatAck"

\* process_ack accepts it (a polled worker is known and not Dead).
ValidAck(w) == PolledAck(w) /\ Head(up[w]).nonce = pending

Leaving == {w \in Worker : Polled(w) /\ Head(up[w]).type = "LeaveIntent"}

Acks == [w \in {v \in Worker : ValidAck(v)} |-> Head(up[w]).free]

AfterAcks == MarkDraining(RecordHeartbeats(workers, Acks), Leaving)

\* variant: an ack does not reset the counter
CountedNoReset(reg) ==
  [w \in Worker |-> missed[w] + (IF w \in ReaderHandles(reg) THEN 1 ELSE 0)]
\* variant: only workers something was read from are counted
CountedPolled(reg) ==
  [w \in Worker |-> (IF ValidAck(w) THEN 0 ELSE missed[w])
                    + (IF Polled(w) /\ w \in ReaderHandles(reg) THEN 1 ELSE 0)]
\* process_ack resets the counter, then increment_missed counts every
\* worker that is still in the pipeline.
Counted(reg) ==
  [w \in Worker |-> (IF ValidAck(w) THEN 0 ELSE missed[w])
                    + (IF w \in ReaderHandles(reg) THEN 1 ELSE 0)]

\* variant: one more heartbeat may be missed
TimedOutLate(reg, count) == {w \in ReaderHandles(reg) : count[w] > MaxMissed}
TimedOut(reg, count) == {w \in ReaderHandles(reg) : count[w] >= MaxMissed}

SendHeartbeats(reg) ==
  LET n == CHOOSE m \in Nonce \ InUse : TRUE
  IN /\ pending' = n
     /\ down' = [w \in Worker |-> IF alive[w] /\ w \in ReaderHandles(reg)
                                  THEN Append(down[w], n) ELSE down[w]]
     /\ acked' = [w \in Worker |-> FALSE]

\* A timer of heartbeat_interval: acks arrive within it unless Late.
IntervalElapsed == Late \/ \A w \in Ready : alive[w] => down[w] = <<>>

FirstRound ==
  /\ pending = NoNonce /\ Nonce \ InUse # {}
  /\ SendHeartbeats(workers)
  /\ UNCHANGED <<workers, missed, up, alive, silent, leaves>>

HeartbeatRound ==
  /\ pending # NoNonce /\ IntervalElapsed /\ Nonce \ InUse # {}
  /\ LET heard == AfterAcks
         count == Counted(heard)
         judged == MarkDead(heard, TimedOut(heard, count))
     IN /\ workers' = judged
        /\ missed' = count
        /\ SendHeartbeats(workers')
        /\ silent' = [w \in Worker |-> IF w \notin Ready THEN silent[w]
                                       ELSE IF acked[w] THEN 0
                                       ELSE Min({silent[w] + 1, MaxMissed})]
  /\ up' = [w \in Worker |-> IF Polled(w) THEN Tail(up[w]) ELSE up[w]]
  /\ UNCHANGED <<alive, leaves>>

Next ==
  \/ FirstRound \/ HeartbeatRound
  \/ \E w \in Worker : RouterAck(w) \/ Crash(w) \/ Leave(w) \/ Exchange(w)

\* The loop wakes at the heartbeat deadline, also when idle.
Fairness == WF_vars(FirstRound) /\ WF_vars(HeartbeatRound)
            /\ \A w \in Worker : WF_vars(RouterAck(w))

Spec == Init /\ [][Next]_vars
FairSpec == Spec /\ Fairness

-----------------------------------------------------------------------------
TypeOK ==
  /\ workers \in [Worker -> [status : WorkerStatus, layers : {None} \cup {{v} : v \in Worker},
                             free : Nat, conn : {1}]]
  /\ pending \in Nonce \cup {NoNonce}
  /\ missed \in [Worker -> 0 .. MaxMissed]
  /\ \A w \in Worker : \A n \in Range(down[w]) : n \in Nonce
  /\ alive \in [Worker -> BOOLEAN] /\ acked \in [Worker -> BOOLEAN]
  /\ silent \in [Worker -> Nat]

\* A worker is declared dead only after it left MaxMissed - 1 heartbeats in
\* a row unanswered: a worker that answers in time never is (registry
\* status against the history of what the worker did).
DeadWasSilent ==
  \A w \in Worker : workers[w].status = "Dead" => silent[w] >= MaxMissed - 1

\* What the coordinator has counted is what happened: the counter of a ready
\* worker exceeds the heartbeats it failed to answer by at most the one that
\* increment_missed adds to a worker that did answer.
CountMatchesSilence ==
  \A w \in Ready : silent[w] <= missed[w] /\ missed[w] <= silent[w] + 1

\* The coordinator's judgement follows what the workers did: it counts the
\* heartbeats a worker left unanswered, and declares dead only silent ones.
SilenceCounted == TypeOK /\ DeadWasSilent /\ CountMatchesSilence

\* heartbeat.rs: "Workers that miss `max_missed` consecutive heartbeats are
\* marked as dead".
DeadMissedMax ==
  \A w \in Worker : workers[w].status = "Dead" => silent[w] >= MaxMissed

\* A worker that answered the heartbeat it is judged on is not declared
\* dead by that judgement.
AnsweringNotDead ==
  \A w \in Worker : workers[w].status = "Dead" => silent[w] > 0

\* A crashed worker leaves the pipeline, whatever was in flight: it is
\* declared dead, or was leaving already.
CrashDetected == \A w \in Worker : ~alive[w] ~> workers[w].status # "Ready"
=============================================================================
