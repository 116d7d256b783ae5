------------------------------ MODULE Election ------------------------------
(***************************************************************************)
(* Leader election: one ElectionAgent per coordinator-capable node.  The   *)
(* transport between agents is not in the repository yet (the worker calls *)
(* start_election and on_election_timeout back to back), so it is external *)
(* here: an ElectionAction is carried out as its documentation says, with  *)
(* ElectionStart and Victory sent to every peer and a challenge to the     *)
(* candidate, each carrying the sender's term.  Messages are delivered in  *)
(* any order, at any later time or never; with Synchronous a window closes *)
(* only after the ElectionStart, the replies to it and the ElectionStarts  *)
(* sent to the candidate so far have been delivered.                       *)
(***************************************************************************)
EXTENDS Integers, FiniteSets

CONSTANTS N,            \* nodes are 1 .. N, in the order of their node_id
          Priorities,   \* values of --election-priority; lower outranks
          MaxTerm,      \* bound: highest term an election may start
          MaxRestarts,  \* bound: restarts of a node's process
          Synchronous   \* election_window exceeds every message delay

ASSUME ElectionAssumption ==
  /\ N \in Nat \ {0}
  /\ Priorities \subseteq Nat
  /\ MaxTerm \in Nat /\ MaxRestarts \in Nat
  /\ Synchronous \in BOOLEAN

VARIABLES priority,   \* ElectionConfig.priority
          term,       \* TermTracker.current
          state,
          accepted,   \* last AcceptLeader: who and for which term
          msgs,       \* messages in flight
          won,        \* <<node, term>> of every DeclareVictory so far
          restarts

vars == <<priority, term, state, accepted, msgs, won, restarts>>

Nodes == 1 .. N
NoLeader == [leader |-> 0, term |-> 0]

Message(type, from, to, t) == [type |-> type, from |-> from, to |-> to, term |-> t]
ToPeers(type, n, t) == {Message(type, n, m, t) : m \in Nodes \ {n}}

Init ==
  /\ priority \in [Nodes -> Priorities]
  /\ term = [n \in Nodes |-> 0]
  /\ state = [n \in Nodes |-> "Follower"]
  /\ accepted = [n \in Nodes |-> NoLeader]
  /\ msgs = {}
  /\ won = {}
  /\ restarts = 0

-----------------------------------------------------------------------------
(* TermTracker.                                                            *)
IsNewer(n, t) == t > term[n]
IsAcceptable(n, t) == t >= term[n]
UpdateIfNewer(n, t) == term' = [term EXCEPT ![n] = IF t > @ THEN t ELSE @]

OutranksByNumber(n, m) == \/ priority[n] > priority[m]   \* variant: higher number
                          \/ priority[n] = priority[m] /\ n < m

Outranks(n, m) == \/ priority[n] < priority[m]
                  \/ priority[n] = priority[m] /\ n < m

StartElectionOldTerm(n) ==   \* variant: sends the value fetch_add returns
  /\ term[n] < MaxTerm
  /\ term' = [term EXCEPT ![n] = @ + 1]
  /\ state' = [state EXCEPT ![n] = "Candidate"]
  /\ msgs' = msgs \cup ToPeers("ElectionStart", n, term[n])
  /\ UNCHANGED <<priority, accepted, won, restarts>>

(* start_election: a node that lost its coordinator, in whatever state.    *)
StartElection(n) ==
  /\ term[n] < MaxTerm
  /\ term' = [term EXCEPT ![n] = @ + 1]
  /\ state' = [state EXCEPT ![n] = "Candidate"]
  /\ msgs' = msgs \cup ToPeers("ElectionStart", n, term[n] + 1)
  /\ UNCHANGED <<priority, accepted, won, restarts>>

(* A message whose term is stale is dropped without a reply.               *)
IgnoreStale(m) ==
  /\ ~IsAcceptable(m.to, m.term)
  /\ msgs' = msgs \ {m}
  /\ UNCHANGED <<priority, term, state, accepted, won, restarts>>

OnElectionStart(m) ==
  LET n == m.to
  IN  /\ m.type = "ElectionStart" /\ IsAcceptable(n, m.term)
      /\ UpdateIfNewer(n, m.term)
      /\ \/ /\ Outranks(n, m.from)
            /\ msgs' = (msgs \ {m}) \cup {Message("ElectionChallenge", n, m.from, term'[n])}
            /\ UNCHANGED state
         \/ /\ ~Outranks(n, m.from)
            /\ msgs' = msgs \ {m}
            /\ state' = [state EXCEPT ![n] = IF @ = "Candidate" THEN "Follower" ELSE @]
      /\ UNCHANGED <<priority, accepted, won, restarts>>

OnElectionChallenge(m) ==
  /\ m.type = "ElectionChallenge" /\ IsAcceptable(m.to, m.term)
  /\ UpdateIfNewer(m.to, m.term)
  /\ state' = [state EXCEPT ![m.to] = IF @ = "Candidate" THEN "Follower" ELSE @]
  /\ msgs' = msgs \ {m}
  /\ UNCHANGED <<priority, accepted, won, restarts>>

OnVictoryUnchecked(m) ==   \* variant: without the stale-term return
  /\ m.type = "Victory"
  /\ UpdateIfNewer(m.to, m.term)
  /\ state' = [state EXCEPT ![m.to] = "Follower"]
  /\ accepted' = [accepted EXCEPT ![m.to] = [leader |-> m.from, term |-> m.term]]
  /\ msgs' = msgs \ {m}
  /\ UNCHANGED <<priority, won, restarts>>

OnVictory(m) ==
  /\ m.type = "Victory" /\ IsAcceptable(m.to, m.term)
  /\ UpdateIfNewer(m.to, m.term)
  /\ state' = [state EXCEPT ![m.to] = "Follower"]
  /\ accepted' = [accepted EXCEPT ![m.to] = [leader |-> m.from, term |-> m.term]]
  /\ msgs' = msgs \ {m}
  /\ UNCHANGED <<priority, won, restarts>>

(* The window of n's candidacy is open while n may still hear of a rival.  *)
Undecided(n) == \E m \in msgs : m.type # "Victory" /\ n \in {m.from, m.to}

OnElectionTimeoutUnchecked(n) ==   \* variant: also after standing down
  /\ state[n] # "Leader" /\ term[n] > 0
  /\ Synchronous => ~Undecided(n)
  /\ state' = [state EXCEPT ![n] = "Leader"]
  /\ won' = won \cup {<<n, term[n]>>}
  /\ msgs' = msgs \cup ToPeers("Victory", n, term[n])
  /\ UNCHANGED <<priority, term, accepted, restarts>>

OnElectionTimeout(n) ==
  /\ state[n] = "Candidate"
  /\ Synchronous => ~Undecided(n)
  /\ state' = [state EXCEPT ![n] = "Leader"]
  /\ won' = won \cup {<<n, term[n]>>}
  /\ msgs' = msgs \cup ToPeers("Victory", n, term[n])
  /\ UNCHANGED <<priority, term, accepted, restarts>>

(* The process starts anew: ElectionAgent::new(config, 0), no connections. *)
Restart(n) ==
  /\ restarts < MaxRestarts
  /\ restarts' = restarts + 1
  /\ term' = [term EXCEPT ![n] = 0]
  /\ state' = [state EXCEPT ![n] = "Follower"]
  /\ accepted' = [accepted EXCEPT ![n] = NoLeader]
  /\ msgs' = {m \in msgs : m.to # n}
  /\ UNCHANGED <<priority, won>>

Next ==
  \/ \E n \in Nodes : StartElection(n) \/ OnElectionTimeout(n) \/ Restart(n)
  \/ \E m \in msgs : \/ IgnoreStale(m) \/ OnElectionStart(m)
                     \/ OnElectionChallenge(m) \/ OnVictory(m)

Spec == Init /\ [][Next]_vars

-----------------------------------------------------------------------------
(* Fields of the agents and of the messages have their types.              *)
TypeOK ==
  /\ priority \in [Nodes -> Priorities]
  /\ term \in [Nodes -> 0 .. MaxTerm]
  /\ state \in [Nodes -> {"Follower", "Candidate", "Leader"}]
  /\ accepted \in [Nodes -> [leader : 0 .. N, term : 0 .. MaxTerm]]
  /\ msgs \subseteq [type : {"ElectionStart", "ElectionChallenge", "Victory"},
                     from : Nodes, to : Nodes, term : 1 .. MaxTerm]
  /\ won \subseteq Nodes \X (1 .. MaxTerm)
  /\ restarts \in 0 .. MaxRestarts

(***************************************************************************)
(* "Two simultaneous elections at the same term resolve to the same        *)
(* winner": no two nodes ever declare victory for one term.                *)
(***************************************************************************)
OneWinnerPerTerm ==
  \A v, w \in won : v[2] = w[2] => v[1] = w[1]

(* "the highest-priority node wins": whoever declares victory, no node     *)
(* has a lower priority number.                                            *)
BestWins == \A w \in won, n \in Nodes : priority[w[1]] <= priority[n]

Advances(n) ==
  accepted'[n] \notin {accepted[n], NoLeader} =>
    /\ accepted'[n].term >= accepted[n].term
    /\ <<accepted'[n].leader, accepted'[n].term>> \in won

(***************************************************************************)
(* A node never goes back to a leader of an older term than the one it     *)
(* accepted last, however late and in whatever order Victory messages      *)
(* arrive, and never accepts a leader that did not win that term.          *)
(***************************************************************************)
LeadersAdvance == [][\A n \in Nodes : Advances(n)]_vars

(***************************************************************************)
(* Once no message is in flight, every node other than the last winner has *)
(* accepted that winner or knows of a later election: nobody keeps         *)
(* following a superseded leader unknowingly.                              *)
(***************************************************************************)
QuietAgreement ==
  (msgs = {} /\ won # {}) =>
    LET last == CHOOSE w \in won : \A v \in won : v[2] <= w[2]
    IN  \A n \in Nodes : \/ n = last[1]
                         \/ accepted[n] = [leader |-> last[1], term |-> last[2]]
                         \/ term[n] > last[2]
=============================================================================
