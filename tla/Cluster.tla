------------------------------- MODULE Cluster -------------------------------
(***************************************************************************)
(* Membership: worker processes that start, crash, lose their connection,  *)
(* reconnect or leave, the task that accepts them (accept_and_setup_       *)
(* pipeline, then reconnection_listener) and the distributed loop, which   *)
(* both reschedule the layers over one registry behind one lock.           *)
(*                                                                         *)
(* A critical section that only sends is one step; the lock is visible     *)
(* where it is held across a receive.  An answer is recognised only by its *)
(* type.  The counting of missed heartbeats is in Heartbeat, what a batch  *)
(* does to the caches in DistributedPipeline, how layers are divided in    *)
(* LayerSchedule; here a batch is one request per stage and a schedule is  *)
(* an even split in any order (the workers come out of a hash map).        *)
(***************************************************************************)
EXTENDS PeerRegistry

CONSTANTS Worker,
          Expected,    \* min_workers
          MinFit,      \* the model fits on this many workers
          Layers,      \* num_layers
          Overlap,     \* the loop and the listener may react at the same time
          MaxStarts,   \* bound: worker processes started
          MaxCrashes,  \* bound: processes that crash
          MaxDrops,    \* bound: connections lost under a surviving process
          MaxLeaves,   \* bound: SIGTERMs
          MaxSeqs,     \* bound: requests
          Batches      \* batches a sequence takes

ClusterAssumption ==
  /\ IsFiniteSet(Worker)
  /\ Expected \in 1 .. Cardinality(Worker) /\ MinFit \in 1 .. Expected
  /\ Layers \in Nat /\ Layers >= Cardinality(Worker)
  /\ Overlap \in BOOLEAN
  /\ {MaxStarts, MaxCrashes, MaxDrops, MaxLeaves, MaxSeqs, Batches} \subseteq Nat

VARIABLES workers,   \* the PeerRegistry
          lock,      \* who holds it across a receive
          main,      \* the distributed loop: where it is and its locals
          lstn,      \* the accepting task, likewise
          pipe,      \* the loop's pipeline: its stages in order
          watch,     \* the pipeline last broadcast, and whether it was seen
          degraded,  \* pipeline_degraded
          active,    \* sequences the loop runs
          aborted,   \* history: a sequence was cut short
          proc,      \* worker processes
          have,      \* the layers a process has loaded
          wire,      \* the live connection of a process, 0 if it has none
          leave,     \* leave_requested
          backlog,   \* connections not yet accepted
          down, up,  \* what is unread on the registered connection
          used       \* how much of each bound is used

coordVars == <<workers, lock, main, lstn, pipe, watch, degraded, active, aborted>>
procVars == <<proc, have, wire, leave, backlog>>
vars == <<coordVars, procVars, down, up, used>>

Msg(type, layers) == [type |-> type, layers |-> layers]
Plain(type) == Msg(type, None)

\* A task at its resting point, and one that has a plan to carry out; `rest':
\* workers still to be heard, in order.
At(where) == [at |-> where, plan |-> <<>>, rest |-> <<>>, skip |-> {}, who |-> {},
              had |-> None, again |-> FALSE, handles |-> {}, back |-> "top"]

Init ==
  /\ workers = [w \in {} |-> Entry(0)]
  /\ lock = "free"
  /\ main = At("top") /\ lstn = At("accept")
  /\ pipe = <<>> /\ watch = [plan |-> <<>>, changed |-> FALSE]
  /\ degraded = FALSE /\ active = 0 /\ aborted = FALSE
  /\ proc = [w \in Worker |-> "off"] /\ have = [w \in Worker |-> None]
  /\ wire = [w \in Worker |-> 0] /\ leave = [w \in Worker |-> FALSE]
  /\ backlog = <<>>
  /\ down = [w \in Worker |-> <<>>] /\ up = [w \in Worker |-> <<>>]
  /\ used = [starts |-> 0, crashes |-> 0, drops |-> 0, leaves |-> 0, seqs |-> 0,
             conns |-> 0]

Spend(what, max) == used[what] < max /\ used' = [used EXCEPT ![what] = @ + 1]

\* The connection in the registry is the live one of the process.
Linked(w) == Known(workers, w) /\ wire[w] # 0 /\ workers[w].conn = wire[w]
Gone(w) == ~Linked(w) /\ up[w] = <<>>

\* What a set of workers is sent; a lost connection swallows it.
Sent(S, msg) == [w \in Worker |-> IF w \in S /\ Linked(w) THEN Append(down[w], msg[w])
                                  ELSE down[w]]

\* DistributedPipeline::new over a schedule: stages in order, layers split evenly.
Plans(S) == SetToSeqs(S)
LayersOf(plan, w) ==
  LET n == Len(plan)  i == CHOOSE j \in DOMAIN plan : plan[j] = w
  IN (((i - 1) * Layers) \div n) + 1 .. (i * Layers) \div n
Fits(S) == Cardinality(S) >= MinFit

-----------------------------------------------------------------------------
(* Worker processes.                                                       *)
Connect(w, kind) ==
  /\ wire' = [wire EXCEPT ![w] = used.conns + 1]
  /\ backlog' = Append(backlog, [w |-> w, kind |-> kind, conn |-> used.conns + 1,
                                 layers |-> have[w]])

\* Without Overlap a process comes (back) when everything before is dealt with.
Noticed ==
  Overlap \/ /\ main.at = "top" /\ ~watch.changed
             /\ lstn.at \in {"accept", "idle"}
             /\ \A w \in DOMAIN workers : workers[w].status = "Ready" => Linked(w)

Start(w) ==
  /\ proc[w] = "off" /\ lstn.at # "failed" /\ used.starts < MaxStarts /\ Noticed
  /\ used' = [used EXCEPT !.starts = @ + 1, !.conns = @ + 1]
  /\ proc' = [proc EXCEPT ![w] = "fresh"]
  /\ Connect(w, "Register")
  /\ UNCHANGED <<coordVars, have, leave, down, up>>

\* What a process leaves behind when its connection ends.
Ends(w, state) ==
  /\ proc' = [proc EXCEPT ![w] = state]
  /\ wire' = [wire EXCEPT ![w] = 0]
  /\ down' = [down EXCEPT ![w] = <<>>]

Crash(w) ==
  /\ proc[w] \notin {"off", "exited"}
  /\ Spend("crashes", MaxCrashes)
  /\ Ends(w, "off")
  /\ have' = [have EXCEPT ![w] = None] /\ leave' = [leave EXCEPT ![w] = FALSE]
  /\ UNCHANGED <<coordVars, backlog, up>>

\* The connection is lost; a process that had no assignment yet gives up.
Drop(w) ==
  /\ wire[w] # 0
  /\ Spend("drops", MaxDrops)
  /\ Ends(w, IF proc[w] = "fresh" THEN "off" ELSE "standby")
  /\ UNCHANGED <<coordVars, have, leave, backlog, up>>

\* Standby: ReRegister with the layers it has, while somebody listens.
Reconnect(w) ==
  /\ proc[w] = "standby" /\ lstn.at # "failed"
  /\ Noticed
  /\ proc' = [proc EXCEPT ![w] = "rejoin"]
  /\ used' = [used EXCEPT !.conns = @ + 1]
  /\ Connect(w, "ReRegister")
  /\ UNCHANGED <<coordVars, have, leave, down, up>>

Sigterm(w) ==
  /\ proc[w] = "serve" /\ ~leave[w]
  /\ Spend("leaves", MaxLeaves)
  /\ leave' = [leave EXCEPT ![w] = TRUE]
  /\ UNCHANGED <<coordVars, proc, have, wire, backlog, down, up>>

\* Router task: the first heartbeat, whatever is queued before it.
RouterAck(w) ==
  /\ proc[w] = "serve" /\ Linked(w)
  /\ \E i \in DOMAIN down[w] :
       /\ down[w][i].type = "Heartbeat"
       /\ \A j \in 1 .. (i - 1) : down[w][j].type # "Heartbeat"
       /\ down' = [down EXCEPT ![w] = RemoveAt(@, i)]
  /\ up' = [up EXCEPT ![w] = Append(@, Plain("HeartbeatAck"))]
  /\ UNCHANGED <<coordVars, procVars, used>>

\* The message a process that reads its connection itself gets next, or the
\* next one the router has handed to the serve loop.
Arrives(w) == SelectSeq(down[w], LAMBDA m : m.type # "Heartbeat" \/ proc[w] # "serve")

\* After serving a message the loop's top sends the LeaveIntent asked for.
Answers(w, msgs) ==
  /\ up' = [up EXCEPT ![w] = @ \o msgs \o (IF leave[w] THEN <<Plain("LeaveIntent")>> ELSE <<>>)]
  /\ leave' = [leave EXCEPT ![w] = FALSE]

\* Drops that message.
Consume(w) ==
  LET served(m) == m.type # "Heartbeat" \/ proc[w] # "serve"
  IN down' = [down EXCEPT ![w] = RemoveAt(@, SelectInSeq(@, served))]

\* Layers are loaded and the caches rebuilt before WorkerReady.
Loads(w, m) ==
  /\ have' = [have EXCEPT ![w] = m.layers]
  /\ proc' = [proc EXCEPT ![w] = "serve"]
  /\ Consume(w) /\ Answers(w, <<Plain("WorkerReady")>>)
  /\ UNCHANGED <<wire, backlog>>

\* A message nobody expects: the starting process fails, the reconnecting one
\* tries again, the serving one reports an error.
Unexpected(w) ==
  /\ IF proc[w] = "serve"
     THEN /\ Consume(w) /\ Answers(w, <<Plain("Error")>>)
          /\ UNCHANGED <<proc, wire>>
     ELSE /\ Ends(w, IF proc[w] = "fresh" THEN "off" ELSE "standby")
          /\ UNCHANGED <<up, leave>>
  /\ UNCHANGED <<have, backlog>>

Next_(w) == Head(Arrives(w))
Handles(w, states, types) ==
  /\ proc[w] \in states /\ Linked(w) /\ Arrives(w) # <<>> /\ Next_(w).type \in types
  /\ UNCHANGED <<coordVars, used>>

\* The first assignment of a process, or a new one.
HandleAssignment(w) ==
  /\ Handles(w, {"fresh"}, {"RegisterAck"}) \/ Handles(w, {"rejoin", "serve"}, {"Reconfigure"})
  /\ Loads(w, Next_(w))

\* RegisterAck to a reconnecting process: what it has loaded stays.
HandleUnchanged(w) ==
  /\ Handles(w, {"rejoin"}, {"RegisterAck"})
  /\ Loads(w, [Next_(w) EXCEPT !.layers = have[w]])

HandleShutdown(w) ==
  /\ Handles(w, {"rejoin", "serve"}, {"Shutdown"})
  /\ Ends(w, "exited")
  /\ UNCHANGED <<have, leave, backlog, up>>

HandleRequest(w) ==
  /\ Handles(w, {"serve"}, {"Request"})
  /\ Consume(w) /\ Answers(w, <<Plain("Result")>>)
  /\ UNCHANGED <<proc, have, wire, backlog>>

HandleOther(w) ==
  /\ \/ Handles(w, {"fresh"}, {"Reconfigure", "Shutdown", "Heartbeat", "Request"})
     \/ Handles(w, {"rejoin"}, {"Heartbeat", "Request"})
     \/ Handles(w, {"serve"}, {"RegisterAck"})
  /\ Unexpected(w)

-----------------------------------------------------------------------------
(* The accepting task.                                                     *)

\* The entry gets a new connection with nothing on it yet.
Fresh(c) ==
  /\ down' = [down EXCEPT ![c.w] = <<>>]
  /\ up' = [up EXCEPT ![c.w] = <<>>]
  /\ UNCHANGED <<proc, have, wire, leave>>

\* A connection the coordinator drops.
Closes(c) ==
  /\ IF wire[c.w] = c.conn
     THEN /\ proc' = [proc EXCEPT ![c.w] = IF @ = "fresh" THEN "off" ELSE "standby"]
          /\ wire' = [wire EXCEPT ![c.w] = 0]
     ELSE UNCHANGED <<proc, wire>>
  /\ UNCHANGED <<have, leave, down, up>>

\* assign for each stage that may still be assigned.
AssignAll(reg, S, plan) ==
  [w \in DOMAIN reg |-> IF w \in S /\ CanAssign(reg, w)
                        THEN Assign(reg, w, LayersOf(plan, w))[w] ELSE reg[w]]
Stages(plan) == ToSet(plan)
Prefix(plan, k) == {plan[i] : i \in 1 .. k}

\* Before there is a pipeline: only Register, and only from workers the table
\* does not hold alive.
AcceptFirst ==
  /\ lstn.at = "accept" /\ lock = "free" /\ backlog # <<>>
  /\ ActiveCount(workers) < Expected
  /\ backlog' = Tail(backlog)
  /\ LET c == Head(backlog)
     IN \/ /\ c.kind = "Register" /\ CanRegister(workers, c.w)
           /\ workers' = Register(workers, c.w, c.conn)
           /\ Fresh(c)
        \/ /\ c.kind # "Register" \/ ~CanRegister(workers, c.w) \/ wire[c.w] # c.conn
           /\ Closes(c) /\ UNCHANGED workers
  /\ UNCHANGED <<lock, main, lstn, pipe, watch, degraded, active, aborted, used>>

\* RegisterAck to every stage, the lock kept for the answers; a send that
\* fails ends the task, and nobody listens any more.
SetupSend ==
  /\ lstn.at = "accept" /\ lock = "free"
  /\ ActiveCount(workers) >= Expected
  /\ \E plan \in Plans(AllCapabilities(workers)) :
       LET ack(S) == down' = Sent(S, [w \in Worker |-> Msg("RegisterAck", LayersOf(plan, w))])
       IN \/ /\ Fits(Stages(plan))
             /\ workers' = AssignAll(workers, Stages(plan), plan)
             /\ ack(Stages(plan))
             /\ lstn' = [At("setup") EXCEPT !.plan = plan, !.rest = plan]
             /\ lock' = "lstn"
          \/ \E k \in DOMAIN plan :
               /\ Fits(Stages(plan)) /\ ~Linked(plan[k])
               /\ workers' = AssignAll(workers, Prefix(plan, k), plan)
               /\ ack(Prefix(plan, k - 1))
               /\ lstn' = At("failed") /\ UNCHANGED lock
          \/ /\ ~Fits(Stages(plan))
             /\ lstn' = At("failed")
             /\ UNCHANGED <<workers, down, lock>>
  /\ UNCHANGED <<main, pipe, watch, degraded, active, aborted, procVars, up, used>>

\* The next stage a task listens to: a message, whatever it is, or the end of
\* the connection.
Heard(task) ==
  LET w == Head(task.rest) IN IF up[w] = <<>> THEN Plain("Closed") ELSE Head(up[w])
Hears(task) ==
  /\ task.rest # <<>>
  /\ LET w == Head(task.rest)
     IN /\ up[w] # <<>> \/ Gone(w)
        /\ up' = [up EXCEPT ![w] = IF @ = <<>> THEN @ ELSE Tail(@)]
LastOf(task) == Len(task.rest) = 1

Broadcast(plan) == watch' = [plan |-> plan, changed |-> TRUE]

SetupHear ==
  /\ lstn.at = "setup" /\ Hears(lstn)
  /\ IF Heard(lstn).type # "WorkerReady"
     THEN lstn' = At("failed") /\ lock' = "free" /\ UNCHANGED watch
     ELSE IF LastOf(lstn)
     THEN lstn' = At("idle") /\ lock' = "free" /\ Broadcast(lstn.plan)
     ELSE lstn' = [lstn EXCEPT !.rest = Tail(@)] /\ UNCHANGED <<lock, watch>>
  /\ UNCHANGED <<workers, main, pipe, degraded, active, aborted, procVars, down, used>>

\* The listening socket is gone: connections that waited are reset.
Refused ==
  /\ lstn.at = "failed" /\ backlog # <<>>
  /\ backlog' = Tail(backlog) /\ Closes(Head(backlog))
  /\ UNCHANGED <<coordVars, used>>

\* reconnection_listener: a worker never seen is Pending, a known one is
\* taken for dead and registered again.
Accept ==
  /\ lstn.at = "idle" /\ lock = "free" /\ backlog # <<>>
  /\ Overlap \/ main.at = "top"
  /\ backlog' = Tail(backlog)
  /\ LET c == Head(backlog)
     IN \/ /\ ~Known(workers, c.w)
           /\ workers' = MarkPending(Register(workers, c.w, c.conn), c.w)
           /\ Fresh(c) /\ UNCHANGED lstn
        \/ /\ Known(workers, c.w)
           /\ workers' = Register(MarkDead(workers, {c.w}), c.w, c.conn)
           /\ lstn' = [At("sched") EXCEPT !.who = {c.w}, !.had = c.layers,
                                          !.again = c.kind = "ReRegister"]
           /\ Fresh(c)
        \/ /\ wire[c.w] # c.conn                    \* nothing could be read
           /\ Closes(c) /\ UNCHANGED <<workers, lstn>>
  /\ UNCHANGED <<lock, main, pipe, watch, degraded, active, aborted, used>>

Reschedule ==
  /\ lstn.at = "sched" /\ lock = "free"
  /\ LET S == AllCapabilities(workers)
     IN \/ Fits(S) /\ \E plan \in Plans(S) :
                         lstn' = [lstn EXCEPT !.at = "send", !.plan = plan, !.rest = plan]
        \/ ~Fits(S) /\ lstn' = At("idle")
  /\ UNCHANGED <<workers, lock, main, pipe, watch, degraded, active, aborted, procVars,
                 down, up, used>>

\* What each stage is told: RegisterAck to the worker that came back, unless
\* it survived with other layers, Reconfigure to all others.
Response(w) ==
  LET layers == LayersOf(lstn.plan, w)
  IN Msg(IF w \in lstn.who /\ (lstn.again => lstn.had = layers)
         THEN "RegisterAck" ELSE "Reconfigure", layers)

ListenerSend ==
  /\ lstn.at = "send" /\ lock = "free"
  /\ workers' = AssignAll(workers, Stages(lstn.plan), lstn.plan)
  /\ down' = Sent(Stages(lstn.plan), [w \in Worker |-> Response(w)])
  /\ \/ lstn' = [lstn EXCEPT !.at = "relock"]
     \/ (\E w \in Stages(lstn.plan) : ~Linked(w)) /\ lstn' = At("idle")
  /\ UNCHANGED <<lock, main, pipe, watch, degraded, active, aborted, procVars, up, used>>

ListenerLock ==
  /\ lstn.at = "relock" /\ lock = "free"
  /\ lock' = "lstn" /\ lstn' = [lstn EXCEPT !.at = "wait"]
  /\ UNCHANGED <<workers, main, pipe, watch, degraded, active, aborted, procVars, down, up,
                 used>>

\* variant: the new pipeline is not broadcast
ListenerHearSilent ==
  /\ lstn.at = "wait" /\ Hears(lstn)
  /\ IF LastOf(lstn)
     THEN lstn' = At("idle") /\ lock' = "free"
     ELSE lstn' = [lstn EXCEPT !.rest = Tail(@)] /\ UNCHANGED lock
  /\ UNCHANGED <<workers, main, pipe, watch, degraded, active, aborted, procVars, down, used>>
\* Anything else than WorkerReady is logged and taken for it.
ListenerHear ==
  /\ lstn.at = "wait" /\ Hears(lstn)
  /\ IF LastOf(lstn)
     THEN lstn' = At("idle") /\ lock' = "free" /\ Broadcast(lstn.plan)
     ELSE lstn' = [lstn EXCEPT !.rest = Tail(@)] /\ UNCHANGED <<lock, watch>>
  /\ UNCHANGED <<workers, main, pipe, degraded, active, aborted, procVars, down, used>>

-----------------------------------------------------------------------------
(* The distributed loop.                                                   *)
PickUp ==
  /\ main.at = "top" /\ watch.changed
  /\ pipe' = watch.plan /\ degraded' = FALSE
  /\ watch' = [watch EXCEPT !.changed = FALSE]
  /\ UNCHANGED <<workers, lock, main, lstn, active, aborted, procVars, down, up, used>>

Iterates ==
  /\ main.at = "top" /\ ~watch.changed
  /\ Overlap \/ lstn.at = "failed" \/ (lstn.at \in {"accept", "idle"} /\ backlog = <<>>)

\* Acks come within the heartbeat interval (Heartbeat has the other case).
Timely == \A w \in ReaderHandles(workers) :
            Linked(w) /\ proc[w] = "serve" => Plain("Heartbeat") \notin ToSet(down[w])

\* The interval has elapsed: the readers to poll.  A degraded loop without
\* sequences only wakes for a request, which it refuses.
Poll ==
  /\ Iterates /\ lock = "free" /\ Timely
  /\ IF degraded /\ active = 0 THEN Spend("seqs", MaxSeqs) ELSE UNCHANGED used
  /\ main' = [At("poll") EXCEPT
                !.handles = {[w |-> w, conn |-> workers[w].conn] : w \in ReaderHandles(workers)}]
  /\ UNCHANGED <<workers, lock, lstn, pipe, watch, degraded, active, aborted, procVars, down,
                 up>>

\* One message from each reader, without the lock; a reader the listener is
\* waiting on is not free.
PollRecv ==
  /\ main.at = "poll"
  /\ LET busy == IF lstn.at \in {"setup", "wait"} THEN {Head(lstn.rest)} ELSE {}
         read == {w \in DOMAIN workers \ busy :
                    [w |-> w, conn |-> workers[w].conn] \in main.handles /\ up[w] # <<>>}
     IN /\ up' = [w \in Worker |-> IF w \in read THEN Tail(up[w]) ELSE up[w]]
        /\ main' = [main EXCEPT !.at = "judge",
                      !.who = {w \in read : Head(up[w]).type = "LeaveIntent"}]
  /\ UNCHANGED <<workers, lock, lstn, pipe, watch, degraded, active, aborted, procVars, down,
                 used>>

Judged == MarkDraining(workers, main.who)
\* Missed for several rounds, so already polled in this one.
Silent == {w \in ReaderHandles(Judged) : Gone(w) /\ \E h \in main.handles : h.w = w}

JudgeAlive ==
  /\ main.at = "judge" /\ lock = "free"
  /\ workers' = Judged
  /\ main' = At("beat")
  /\ UNCHANGED <<lock, lstn, pipe, watch, degraded, active, aborted, procVars, down, up, used>>

\* Enough heartbeats missed: the sequences are aborted, then the rest of the
\* workers take over.
JudgeDead ==
  /\ main.at = "judge" /\ lock = "free" /\ Silent # {}
  /\ workers' = MarkDead(Judged, Silent)
  /\ active' = 0 /\ aborted' = (aborted \/ active > 0)
  /\ main' = [At("sched") EXCEPT !.skip = Silent, !.back = "beat"]
  /\ UNCHANGED <<lock, lstn, pipe, watch, degraded, procVars, down, up, used>>

\* forced_rebalance.
RebalanceSchedule ==
  /\ main.at = "sched" /\ lock = "free"
  /\ LET S == AllCapabilities(workers) \ main.skip
     IN \/ /\ S # {} /\ Fits(S)
           /\ \E plan \in Plans(S) :
                main' = [main EXCEPT !.at = "send", !.plan = plan, !.rest = plan]
           /\ UNCHANGED degraded
        \/ (S = {} \/ ~Fits(S)) /\ main' = At(main.back) /\ degraded' = TRUE
  /\ UNCHANGED <<workers, lock, lstn, pipe, watch, active, aborted, procVars, down, up, used>>

\* Reconfigure to every stage, a failing send marks it dead; a stage that
\* died in between ends the rebalance half way.
RebalanceSend ==
  /\ main.at = "send" /\ lock = "free"
  /\ LET plan == main.plan
         lost == {i \in DOMAIN plan : ~CanAssign(workers, plan[i])}
         told == IF lost = {} THEN Stages(plan) ELSE Prefix(plan, Min(lost) - 1)
     IN /\ \E failed \in SUBSET {w \in told : ~Linked(w)} :
             workers' = MarkDead(AssignAll(workers, told, plan), failed)
        /\ down' = Sent(told, [w \in Worker |-> Msg("Reconfigure", LayersOf(plan, w))])
        /\ IF lost = {} THEN main' = [main EXCEPT !.at = "relock"] /\ UNCHANGED degraded
           ELSE main' = At(main.back) /\ degraded' = TRUE
  /\ UNCHANGED <<lock, lstn, pipe, watch, active, aborted, procVars, up, used>>

RebalanceLock ==
  /\ main.at = "relock" /\ lock = "free"
  /\ lock' = "loop" /\ main' = [main EXCEPT !.at = "wait"]
  /\ UNCHANGED <<workers, lstn, pipe, watch, degraded, active, aborted, procVars, down, up,
                 used>>

\* variant: the loop goes on with the pipeline it had
RebalanceHearKeeps ==
  /\ main.at = "wait" /\ Hears(main)
  /\ IF LastOf(main)
     THEN lock' = "free" /\ main' = At(main.back)
     ELSE main' = [main EXCEPT !.rest = Tail(@)] /\ UNCHANGED lock
  /\ UNCHANGED <<workers, lstn, pipe, watch, degraded, active, aborted, procVars, down, used>>
RebalanceHear ==
  /\ main.at = "wait" /\ Hears(main)
  /\ IF LastOf(main)
     THEN pipe' = main.plan /\ lock' = "free" /\ main' = At(main.back)
     ELSE main' = [main EXCEPT !.rest = Tail(@)] /\ UNCHANGED <<pipe, lock>>
  /\ UNCHANGED <<workers, lstn, watch, degraded, active, aborted, procVars, down, used>>

\* send_heartbeats; an unread heartbeat is not doubled.
Beat ==
  /\ main.at = "beat" /\ lock = "free"
  /\ down' = Sent({w \in ReaderHandles(workers) : Plain("Heartbeat") \notin ToSet(down[w])},
                  [w \in Worker |-> Plain("Heartbeat")])
  /\ main' = At("members")
  /\ UNCHANGED <<workers, lock, lstn, pipe, watch, degraded, active, aborted, procVars, up,
                 used>>

\* An iteration between two heartbeats, while sequences run.
NoBeat ==
  /\ Iterates /\ active > 0
  /\ main' = At("members")
  /\ UNCHANGED <<workers, lock, lstn, pipe, watch, degraded, active, aborted, procVars, down,
                 up, used>>

\* Without sequences, those who asked to leave are shut down and those who
\* wait to join are scheduled.
Draining == {w \in DOMAIN workers : workers[w].status = "Draining"}
\* variant: those who leave are taken off the table and not told
MembersUntold ==
  /\ main.at = "members" /\ lock = "free"
  /\ IF active = 0 /\ ~degraded /\ Draining \cup PendingWorkers(workers) # {}
     THEN /\ workers' = MarkDead(workers, Draining)
          /\ main' = [At("sched") EXCEPT !.skip = Draining, !.back = "work"]
     ELSE main' = At("work") /\ UNCHANGED workers
  /\ UNCHANGED <<lock, lstn, pipe, watch, degraded, active, aborted, procVars, down, up, used>>
Members ==
  /\ main.at = "members" /\ lock = "free"
  /\ IF active = 0 /\ ~degraded /\ Draining \cup PendingWorkers(workers) # {}
     THEN /\ down' = Sent(Draining, [w \in Worker |-> Plain("Shutdown")])
          /\ workers' = MarkDead(workers, Draining)
          /\ main' = [At("sched") EXCEPT !.skip = Draining, !.back = "work"]
     ELSE main' = At("work") /\ UNCHANGED <<down, workers>>
  /\ UNCHANGED <<lock, lstn, pipe, watch, degraded, active, aborted, procVars, up, used>>

NoWork ==
  /\ main.at = "work" /\ (degraded \/ active = 0)
  /\ main' = At("top")
  /\ UNCHANGED <<workers, lock, lstn, pipe, watch, degraded, active, aborted, procVars, down,
                 up, used>>

\* Admission, or the next batch of a running sequence.
Batch ==
  /\ main.at = "work" /\ lock = "free" /\ ~degraded /\ pipe # <<>>
  /\ IF active = 0 THEN Spend("seqs", MaxSeqs) /\ active' = Batches
     ELSE UNCHANGED <<used, active>>
  /\ main' = [At("batch") EXCEPT !.rest = pipe]
  /\ lock' = "loop"
  /\ down' = Sent({pipe[1]}, [w \in Worker |-> Plain("Request")])
  /\ UNCHANGED <<workers, lstn, pipe, watch, degraded, aborted, procVars, up>>

\* Acks are skipped; anything but the result fails the batch.
BatchHear ==
  /\ main.at = "batch" /\ Hears(main)
  /\ LET heard == Heard(main).type
         done == lock' = "free" /\ main' = At("top") /\ UNCHANGED down
     IN CASE heard = "HeartbeatAck" ->
               UNCHANGED <<main, lock, down, active, aborted>>
          [] heard = "Result" /\ ~LastOf(main) ->
               /\ main' = [main EXCEPT !.rest = Tail(@)]
               /\ down' = Sent({main.rest[2]}, [w \in Worker |-> Plain("Request")])
               /\ UNCHANGED <<lock, active, aborted>>
          [] heard = "Result" /\ LastOf(main) ->
               done /\ active' = active - 1 /\ UNCHANGED aborted
          [] OTHER -> done /\ active' = 0 /\ aborted' = TRUE
  /\ UNCHANGED <<workers, lstn, pipe, watch, degraded, procVars, used>>

\* A degraded loop without sequences waits for a pipeline or a request.
Waits == main.at = "top" /\ degraded /\ active = 0 /\ UNCHANGED vars

-----------------------------------------------------------------------------
WorkerStep(w) ==
  \/ RouterAck(w) \/ HandleAssignment(w) \/ HandleUnchanged(w) \/ HandleShutdown(w)
  \/ HandleRequest(w) \/ HandleOther(w)
ListenerStep ==
  \/ AcceptFirst \/ SetupSend \/ SetupHear \/ Refused
  \/ Accept \/ Reschedule \/ ListenerSend \/ ListenerLock \/ ListenerHear
LoopStep ==
  \/ PickUp \/ Poll \/ PollRecv \/ JudgeAlive \/ JudgeDead
  \/ RebalanceSchedule \/ RebalanceSend \/ RebalanceLock \/ RebalanceHear
  \/ Beat \/ NoBeat \/ Members \/ NoWork \/ Batch \/ BatchHear

Next ==
  \/ LoopStep \/ ListenerStep \/ Waits
  \/ \E w \in Worker : \/ WorkerStep(w) \/ Reconnect(w)
                       \/ Start(w) \/ Crash(w) \/ Drop(w) \/ Sigterm(w)

\* The tasks run; the heartbeat interval elapses again and again, max_missed
\* rounds without an ack come to an end, a standby worker's timer fires.
\* Processes need not start, crash, lose a connection or be told to leave.
Fairness ==
  /\ WF_vars(LoopStep) /\ SF_vars(Poll) /\ SF_vars(JudgeDead)
  /\ WF_vars(ListenerStep)
  /\ \A w \in Worker : WF_vars(WorkerStep(w)) /\ SF_vars(Reconnect(w))

Spec == Init /\ [][Next]_vars
FairSpec == Spec /\ Fairness

-----------------------------------------------------------------------------
Resting ==
  /\ main.at = "top" /\ lock = "free" /\ ~watch.changed /\ lstn.at = "idle"
  /\ \A w \in DOMAIN workers : workers[w].status = "Ready" => Linked(w)


\* Crash recovery (FT-5): a worker that stays away does not stay in a
\* pipeline that serves requests.
CrashLeavesPipeline ==
  \A w \in Worker : []<>(proc[w] # "off" \/ degraded \/ w \notin Stages(pipe) \/ lstn.at = "failed")

\* reconnection_listener: "Workers that previously died can reconnect by
\* opening a new TCP connection and sending Register. This task processes the
\* registration and triggers pipeline reconfiguration."
Rejoins ==
  \A w \in Worker : proc[w] = "rejoin" ~> (w \in Stages(pipe) /\ proc[w] = "serve") \/ proc[w] = "off"

\* A worker whose LeaveIntent was heard is sent home once the sequences that
\* run are done, if nobody dies meanwhile.
DrainingLeaves == \A w \in Worker : Has(workers, w, "Draining") ~> proc[w] = "exited"

\* accept_and_setup_pipeline: a per-connection failure must not "leave the
\* coordinator unable to accept any future worker."
KeepsAccepting == lstn.at # "failed"

\* "New workers are held in Pending state until the distributed loop
\* incorporates them via graceful rebalance."
PendingJoins ==
  \A w \in Worker : Has(workers, w, "Pending") ~> (w \in Stages(pipe) /\ proc[w] = "serve")

\* WorkerStatus::Draining: "no new work should be scheduled to it".
DrainingStays ==
  [][\A w \in DOMAIN workers :
       workers[w].status = "Draining" => workers'[w].status \in {"Draining", "Dead"}]_vars

\* FT-6: a worker told to leave is let go.
LeaveServed == \A w \in Worker : leave[w] ~> ~leave[w]

\* FT-6: "Active request completes successfully": nobody crashes, so no
\* sequence is cut short.
NoneAborted == ~aborted

\* forced_rebalance, of a worker that could not be told: "Mark worker as dead
\* -- it can't participate."
DeadTakesNoPart ==
  Resting /\ ~degraded => \A w \in Stages(pipe) : ~Has(workers, w, "Dead")

\* forced_rebalance: "Wait for WorkerReady from all reconfigured workers."
ReadyBeforeUse ==
  [][main.at = "wait" /\ main'.at # "wait" =>
       \A w \in Stages(main.plan) : Linked(w) => have[w] = LayersOf(main.plan, w)]_vars
=============================================================================
