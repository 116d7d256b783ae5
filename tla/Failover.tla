------------------------------ MODULE Failover ------------------------------
(***************************************************************************)
(* A worker without its coordinator: the seed nodes it asks at start-up    *)
(* and while it reconnects, the manifest and the term it keeps for them,   *)
(* its election, and what it does as the promoted coordinator              *)
(* (promote_to_coordinator, reconstruct_state).                            *)
(*                                                                         *)
(* An address is a host: every coordinator listens on the same port.  The  *)
(* coordinator process appears only by its listener, its life and what it  *)
(* answers to ReRegister; Cluster models it.  Timers may fire at any time. *)
(* A message of the peer protocol that comes back too late is one that     *)
(* does not come back.                                                     *)
(***************************************************************************)
EXTENDS Naturals, FiniteSets, Sequences, SequencesExt

CONSTANTS Worker,
          Local,       \* workers on the coordinator's host
          Moved,       \* other addresses a manifest may give for it
          Seeded,      \* workers started with --seed and no --coordinator
          Layers,      \* num_layers
          Announces,   \* somebody sends ClusterManifest and Victory
          MaxVersion,  \* bound: versions of the manifest
          MaxTerm,     \* bound: terms
          MaxOutages,  \* bound: times the coordinator goes down
          MaxCrashes   \* bound: workers that crash

Home == "home"      \* the coordinator's host
Coord == "coordinator"
Gone == "gone"      \* a connection the other side closed
NoLink == "none"

ASSUME FailoverAssumption ==
  /\ IsFiniteSet(Worker) /\ Seeded \subseteq Worker
  /\ Local \subseteq Worker /\ Moved \subseteq Worker
  /\ Worker \cap {Home, Coord, Gone, NoLink} = {}
  /\ Layers \in Nat \ {0} /\ Announces \in BOOLEAN
  /\ {MaxVersion, MaxTerm, MaxOutages, MaxCrashes} \subseteq Nat

VARIABLES up,        \* the coordinator process runs
          stage,     \* where a worker process is
          link,      \* the other end of its connection
          addr,      \* coordinator_addr
          manifest,  \* cluster_manifest
          term,      \* current_term
          agent,     \* the term of the election agent
          started,   \* election_started
          layers,    \* the layers a worker has loaded
          acks,      \* workers with an unread RegisterAck
          peers,     \* the registry of a promoted worker, in order of arrival
          plan,      \* the assignments of a promoted worker
          used       \* how much of each bound is used

vars == <<up, stage, link, addr, manifest, term, agent, started, layers, acks,
          peers, plan, used>>
kept == <<manifest, term, agent, layers, used>>

NoManifest == [version |-> 0, term |-> 0, at |-> NoLink]
Manifests == [version : 1 .. MaxVersion, term : 1 .. MaxTerm, at : {Home} \cup Moved]

\* What schedule() may return: every layer has one owner.  How it divides
\* them is in LayerSchedule.
Plans(nodes) ==
  {p \in [nodes -> SUBSET (0 .. Layers - 1)] :
     /\ UNION {p[n] : n \in nodes} = 0 .. Layers - 1
     /\ \A a, b \in nodes : a # b => p[a] \cap p[b] = {}}

At(w) == IF w \in Local THEN Home ELSE w
Leading(w) == stage[w] \in {"collecting", "confirming"}
Listens(w) == stage[w] \notin {"seeking", "exited"}
Leaders(h) == {w \in Worker : At(w) = h /\ Leading(w)}
Reachable(h) == (h = Home /\ up) \/ Leaders(h) # {}
Behind(h) == IF h = Home /\ up THEN Coord ELSE CHOOSE w \in Leaders(h) : TRUE

Init ==
  /\ up = TRUE
  /\ stage = [w \in Worker |-> IF w \in Seeded THEN "seeking" ELSE "serving"]
  /\ link = [w \in Worker |-> IF w \in Seeded THEN NoLink ELSE Coord]
  /\ addr = [w \in Worker |-> Home]
  /\ manifest = [w \in Worker |-> NoManifest]
  /\ term = [w \in Worker |-> 0]
  /\ agent = [w \in Worker |-> 0]
  /\ started = [w \in Worker |-> FALSE]
  /\ layers \in Plans(Worker)
  /\ acks = {}
  /\ peers = [w \in Worker |-> <<>>]
  /\ plan = [w \in Worker |-> <<>>]
  /\ used = [outages |-> 0, crashes |-> 0]

Closed(end) == [w \in Worker |-> IF link[w] = end THEN Gone ELSE link[w]]

(***************************************************************************)
(* The coordinator process.                                                *)
(***************************************************************************)
CoordinatorStops ==
  /\ up /\ used.outages < MaxOutages
  /\ up' = FALSE
  /\ link' = Closed(Coord)
  /\ used' = [used EXCEPT !.outages = @ + 1]
  /\ UNCHANGED <<stage, addr, manifest, term, agent, started, layers, acks, peers, plan>>

\* Its port is free: no promoted worker holds it.
CoordinatorStarts ==
  /\ ~up /\ Leaders(Home) = {}
  /\ up' = TRUE
  /\ UNCHANGED <<stage, link, addr, manifest, term, agent, started, layers, acks,
                 peers, plan, used>>

(***************************************************************************)
(* Seeds.  A peer listener answers WhoIsCoordinator from the manifest.     *)
(***************************************************************************)
Answers(s) == Listens(s) /\ manifest[s] # NoManifest

\* discover_coordinator, then connect, Register and RegisterAck.  A promoted
\* worker wants ReRegister and closes the connection, which ends the process.
Discover(w) ==
  /\ stage[w] = "seeking"
  /\ \E s \in Worker \ {w} :
       /\ Answers(s)
       /\ LET h == manifest[s].at
              joins == Reachable(h) /\ Behind(h) = Coord
          IN /\ addr' = [addr EXCEPT ![w] = h]
             /\ stage' = [stage EXCEPT ![w] = IF joins THEN "serving" ELSE "exited"]
             /\ link' = [link EXCEPT ![w] = IF joins THEN Coord ELSE NoLink]
  /\ UNCHANGED <<up, kept, started, acks, peers, plan>>

(***************************************************************************)
(* The serve loop.                                                         *)
(***************************************************************************)
HearManifestNoTerm(w, m) ==
  /\ manifest[w].version < m.version
  /\ manifest' = [manifest EXCEPT ![w] = m]
  /\ UNCHANGED term

\* A manifest that is not newer is dropped.
HearManifest(w, m) ==
  /\ manifest[w].version < m.version
  /\ manifest' = [manifest EXCEPT ![w] = m]
  /\ term' = [term EXCEPT ![w] = IF m.term > @ THEN m.term ELSE @]

Hear(w) ==
  /\ Announces /\ stage[w] = "serving" /\ link[w] = Coord
  /\ \E m \in Manifests : HearManifest(w, m)
  /\ UNCHANGED <<up, stage, link, addr, agent, started, layers, acks, peers, plan, used>>

HearVictoryAny(w) ==
  \E t \in 1 .. MaxTerm :
    /\ term' = [term EXCEPT ![w] = t]
    /\ agent' = [agent EXCEPT ![w] = t]

\* The agent takes over a term that is not behind its own.
HearVictory(w) ==
  \E t \in 1 .. MaxTerm :
    /\ t > term[w]
    /\ term' = [term EXCEPT ![w] = t]
    /\ agent' = [agent EXCEPT ![w] = IF t >= @ THEN t ELSE @]

Victory(w) ==
  /\ Announces /\ stage[w] = "serving" /\ link[w] = Coord
  /\ HearVictory(w)
  /\ UNCHANGED <<up, stage, link, addr, manifest, started, layers, acks, peers, plan, used>>

\* The router saw the connection close; from a wait for the answer to
\* ReRegister the outage goes on, from serving it is a new one.
Lost(w) ==
  /\ link[w] = Gone /\ stage[w] \in {"serving", "asking"}
  /\ stage' = [stage EXCEPT ![w] = "standby"]
  /\ link' = [link EXCEPT ![w] = NoLink]
  /\ started' = [started EXCEPT ![w] = @ /\ stage[w] = "asking"]
  /\ acks' = acks \ {w}
  /\ UNCHANGED <<up, addr, kept, peers, plan>>

(***************************************************************************)
(* The reconnect loop.                                                     *)
(***************************************************************************)
\* Start an election and win it at once (no peer is asked), then bind.
Elect(w) ==
  /\ stage[w] = "standby" /\ ~started[w] /\ manifest[w] # NoManifest /\ agent[w] < MaxTerm
  /\ agent' = [agent EXCEPT ![w] = @ + 1]
  /\ started' = [started EXCEPT ![w] = TRUE]
  /\ stage' = [stage EXCEPT ![w] = IF Reachable(At(w)) THEN @ ELSE "collecting"]
  /\ UNCHANGED <<up, link, addr, manifest, term, layers, acks, peers, plan, used>>


\* Connect and send ReRegister.
Dial(w) ==
  /\ stage[w] = "standby" /\ Reachable(addr[w])
  /\ stage' = [stage EXCEPT ![w] = "asking"]
  /\ link' = [link EXCEPT ![w] = Behind(addr[w])]
  /\ UNCHANGED <<up, addr, kept, started, acks, peers, plan>>

\* Nobody there: ask the seeds.  The first one that knows an address ends
\* the search.
DialFails(w) ==
  /\ stage[w] = "standby" /\ ~Reachable(addr[w])
  /\ \E s \in Worker \ {w} :
       /\ Answers(s)
       /\ addr' = [addr EXCEPT ![w] = manifest[s].at]
  /\ UNCHANGED <<up, stage, link, kept, started, acks, peers, plan>>

\* The coordinator's answer: unchanged, other layers, or Shutdown.
CoordAnswers(w) ==
  /\ stage[w] = "asking" /\ link[w] = Coord
  /\ \/ /\ stage' = [stage EXCEPT ![w] = "serving"]
        /\ UNCHANGED <<link, layers>>
     \/ /\ stage' = [stage EXCEPT ![w] = "serving"]
        /\ \E other \in SUBSET (0 .. Layers - 1) : layers' = [layers EXCEPT ![w] = other]
        /\ UNCHANGED link
     \/ /\ stage' = [stage EXCEPT ![w] = "exited"]
        /\ link' = [link EXCEPT ![w] = NoLink]
        /\ UNCHANGED layers
  /\ UNCHANGED <<up, addr, manifest, term, agent, started, acks, peers, plan, used>>

\* RegisterAck means that the assignment is unchanged: the layers in it are
\* not read, WorkerReady is sent.
HandleAck(w) ==
  /\ stage[w] = "asking" /\ w \in acks
  /\ stage' = [stage EXCEPT ![w] = "serving"]
  /\ acks' = acks \ {w}
  /\ UNCHANGED <<up, link, addr, kept, started, peers, plan>>

(***************************************************************************)
(* The promoted worker.  Every node of the manifest but itself is expected *)
(* to come back.                                                           *)
(***************************************************************************)
Wanted(l) == Cardinality(Worker) - 1

Accept(l) ==
  /\ stage[l] = "collecting" /\ Len(peers[l]) < Wanted(l)
  /\ \E w \in Worker : /\ stage[w] = "asking" /\ link[w] = l
                       /\ w \notin Range(peers[l])
                       /\ peers' = [peers EXCEPT ![l] = Append(@, w)]
  /\ UNCHANGED <<up, stage, link, addr, kept, started, acks, plan>>

\* Everybody is there, or the deadline passed: schedule() and RegisterAck to
\* every peer in the schedule.
AllThere(l) == Len(peers[l]) >= Wanted(l)
Deadline(l) == TRUE

Schedule(l) ==
  /\ stage[l] = "collecting" /\ (AllThere(l) \/ Deadline(l))
  /\ \E p \in Plans(Range(peers[l]) \cup {l}) : plan' = [plan EXCEPT ![l] = p]
  /\ acks' = acks \cup {w \in Range(peers[l]) : link[w] = l}
  /\ stage' = [stage EXCEPT ![l] = "confirming"]
  /\ UNCHANGED <<up, link, addr, kept, started, peers>>

\* WorkerReady from every peer, or an error.
Confirmed(l) == \A w \in Range(peers[l]) : link[w] = l => stage[w] = "serving"

\* The pipeline is built and dropped with the registry and the listener: its
\* connections close, the loop goes on as a worker without a coordinator.
Conclude(l) ==
  /\ stage[l] = "confirming" /\ Confirmed(l)
  /\ stage' = [stage EXCEPT ![l] = "standby"]
  /\ link' = Closed(l)
  /\ peers' = [peers EXCEPT ![l] = <<>>]
  /\ plan' = [plan EXCEPT ![l] = <<>>]
  /\ UNCHANGED <<up, addr, kept, started, acks>>

\* A worker process ends without a word.
Crash(w) ==
  /\ stage[w] # "exited" /\ used.crashes < MaxCrashes
  /\ stage' = [stage EXCEPT ![w] = "exited"]
  /\ link' = [Closed(w) EXCEPT ![w] = NoLink]
  /\ peers' = [peers EXCEPT ![w] = <<>>]
  /\ plan' = [plan EXCEPT ![w] = <<>>]
  /\ acks' = acks \ {w}
  /\ used' = [used EXCEPT !.crashes = @ + 1]
  /\ UNCHANGED <<up, addr, manifest, term, agent, started, layers>>

Leads(l) == Accept(l) \/ Schedule(l) \/ Conclude(l)
Reconnects(w) == Lost(w) \/ Dial(w) \/ DialFails(w) \/ HandleAck(w)

Next ==
  \/ CoordinatorStops \/ CoordinatorStarts
  \/ \E w \in Worker : \/ Discover(w) \/ Hear(w) \/ Victory(w) \/ Elect(w) \/ CoordAnswers(w)
                       \/ Reconnects(w) \/ Leads(w) \/ Crash(w)

(***************************************************************************)
(* A process goes on while it can: its loops have no exit but the ones     *)
(* above, the deadlines (15 s without a coordinator, that of              *)
(* reconstruct_state) pass, and the coordinator answers a ReRegister.      *)
(***************************************************************************)
Fairness ==
  \A w \in Worker : /\ WF_vars(Discover(w))
                    /\ WF_vars(Lost(w)) /\ WF_vars(Dial(w)) /\ WF_vars(HandleAck(w))
                    /\ WF_vars(DialFails(w))
                    /\ WF_vars(Elect(w)) /\ WF_vars(CoordAnswers(w))
                    /\ WF_vars(Schedule(w)) /\ WF_vars(Conclude(w))

Spec == Init /\ [][Next]_vars /\ Fairness

(***************************************************************************)
(* Properties.                                                             *)
(***************************************************************************)
\* The ClusterManifest and Victory handlers keep the worker's term at least as
\* high as the term of the manifest it hands to those who ask, across every
\* order in which the two kinds of message arrive.
TermCoversManifest == \A w \in Worker : term[w] >= manifest[w].term

\* Neither a late Victory nor a late manifest, nor an outage, takes a worker
\* back to an older term or manifest, nor its election agent to an older term.
NeverBack ==
  [][\A w \in Worker : /\ term'[w] >= term[w] /\ agent'[w] >= agent[w]
                       /\ manifest'[w].version >= manifest[w].version]_vars

\* reconstruct_state ends: whichever peers come back, crash or stay away, a
\* promoted worker does not wait for ever for a registration or a WorkerReady.
PromotionEnds == \A w \in Worker : Leading(w) ~> ~Leading(w)

\* Once the coordinator is back for good, every worker that lives comes back to
\* it, whatever elections and promotions happened while it was away.
ReturnsToCoordinator ==
  <>[]up => \A w \in Worker \ Seeded : <>[](stage[w] \in {"serving", "exited"})

\* A worker started with --seed, next to workers that serve the coordinator,
\* learns the coordinator's address from them and joins.
SeededJoin ==
  (\A w \in Worker \ Seeded : [](stage[w] = "serving"))
    => \A w \in Seeded : stage[w] = "seeking" ~> stage[w] = "serving"

\* A peer that a promoted coordinator has heard WorkerReady from has loaded the
\* layers it was assigned in the RegisterAck.
ReadyMeansLoaded ==
  \A l, w \in Worker :
    stage[l] = "confirming" /\ w \in Range(peers[l]) /\ link[w] = l /\ stage[w] = "serving"
      => layers[w] = plan[l][w]

\* When the coordinator stays away, a worker that has a manifest takes its
\* place: in the end a promoted worker goes on as the coordinator.
AnyWorkerTakesOver ==
  <>[](~up /\ \A w \in Worker : manifest[w] # NoManifest /\ stage[w] # "exited")
    => <>(\E w \in Worker : []Leading(w))
=============================================================================
