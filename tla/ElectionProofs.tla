--------------------------- MODULE ElectionProofs ---------------------------
(***************************************************************************)
(* Proofs about Election, for every number of nodes, every assignment of   *)
(* priorities, every bound and with or without synchrony.                  *)
(***************************************************************************)
EXTENDS Election, TLAPS

(* A candidate has counted its own election.                               *)
CandidateTerm == \A n \in Nodes : state[n] = "Candidate" => term[n] > 0

(* A Victory in flight was declared.                                       *)
VictoriesWon == \A m \in msgs : m.type = "Victory" => <<m.from, m.term>> \in won

(* The term tracker is at least the accepted leader's term.                *)
AcceptedOld == \A n \in Nodes : accepted[n].term <= term[n]

IInv == TypeOK /\ CandidateTerm /\ VictoriesWon /\ AcceptedOld

LEMMA IInvInit == Init => IInv
  BY ElectionAssumption
     DEF Init, IInv, TypeOK, CandidateTerm, VictoriesWon, AcceptedOld, NoLeader, Nodes

(* Raising a tracker keeps its type and never lowers it.                   *)
LEMMA TermRaised ==
  ASSUME TypeOK, NEW n \in Nodes, NEW t \in 1 .. MaxTerm, UpdateIfNewer(n, t)
  PROVE  /\ term' \in [Nodes -> 0 .. MaxTerm]
         /\ \A k \in Nodes : term'[k] >= term[k]
         /\ term'[n] >= t /\ term'[n] \in 1 .. MaxTerm
<1>1. term \in [Nodes -> 0 .. MaxTerm] /\ MaxTerm \in Nat
  BY ElectionAssumption DEF TypeOK
<1>2. term' = [term EXCEPT ![n] = IF t > term[n] THEN t ELSE term[n]]
  BY DEF UpdateIfNewer
<1>3. term[n] \in 0 .. MaxTerm
  BY <1>1
<1>4. (IF t > term[n] THEN t ELSE term[n]) \in 1 .. MaxTerm
  BY <1>1, <1>3
<1>5. \A k \in Nodes : term'[k] = IF k = n THEN (IF t > term[n] THEN t ELSE term[n]) ELSE term[k]
  BY <1>1, <1>2
<1>6. term' \in [Nodes -> 0 .. MaxTerm]
  BY <1>1, <1>2, <1>4
<1> QED BY <1>1, <1>3, <1>4, <1>5, <1>6

LEMMA IInvStart ==
  ASSUME IInv, NEW n \in Nodes, StartElection(n)
  PROVE  IInv'
<1>1. /\ term' \in [Nodes -> 0 .. MaxTerm]
      /\ \A k \in Nodes : term'[k] >= term[k]
      /\ term'[n] > 0 /\ term[n] + 1 \in 1 .. MaxTerm
  BY ElectionAssumption DEF StartElection, IInv, TypeOK
<1>2. TypeOK'
  BY <1>1 DEF StartElection, IInv, TypeOK, ToPeers, Message
<1>3. CandidateTerm'
  BY <1>1 DEF StartElection, IInv, TypeOK, CandidateTerm
<1>4. VictoriesWon'
  BY DEF StartElection, IInv, VictoriesWon, ToPeers, Message
<1>5. AcceptedOld'
  BY <1>1 DEF StartElection, IInv, TypeOK, AcceptedOld
<1> QED BY <1>2, <1>3, <1>4, <1>5 DEF IInv

LEMMA IInvTimeout ==
  ASSUME IInv, NEW n \in Nodes, OnElectionTimeout(n)
  PROVE  IInv'
<1>1. term[n] \in 1 .. MaxTerm
  BY ElectionAssumption DEF OnElectionTimeout, IInv, TypeOK, CandidateTerm
<1>2. TypeOK'
  BY <1>1 DEF OnElectionTimeout, IInv, TypeOK, ToPeers, Message
<1>3. CandidateTerm'
  BY DEF OnElectionTimeout, IInv, TypeOK, CandidateTerm
<1>4. VictoriesWon'
  BY DEF OnElectionTimeout, IInv, VictoriesWon, ToPeers, Message
<1>5. AcceptedOld'
  BY DEF OnElectionTimeout, IInv, AcceptedOld
<1> QED BY <1>2, <1>3, <1>4, <1>5 DEF IInv

LEMMA IInvRestart ==
  ASSUME IInv, NEW n \in Nodes, Restart(n)
  PROVE  IInv'
<1>1. TypeOK'
  <2>1. NoLeader \in [leader : 0 .. N, term : 0 .. MaxTerm] /\ 0 \in 0 .. MaxTerm
    BY ElectionAssumption DEF NoLeader
  <2>2. restarts' \in 0 .. MaxRestarts
    BY ElectionAssumption DEF Restart, IInv, TypeOK
  <2> QED BY <2>1, <2>2 DEF Restart, IInv, TypeOK
<1>2. CandidateTerm'
  BY DEF Restart, IInv, TypeOK, CandidateTerm
<1>3. VictoriesWon'
  BY DEF Restart, IInv, VictoriesWon
<1>4. AcceptedOld'
  BY DEF Restart, IInv, TypeOK, AcceptedOld, NoLeader
<1> QED BY <1>1, <1>2, <1>3, <1>4 DEF IInv

(* The four handlers of a message.                                         *)
LEMMA IInvMessage ==
  ASSUME IInv, NEW m \in msgs,
         IgnoreStale(m) \/ OnElectionStart(m) \/ OnElectionChallenge(m) \/ OnVictory(m)
  PROVE  IInv'
<1>0. m.from \in Nodes /\ m.to \in Nodes /\ m.term \in 1 .. MaxTerm
  BY DEF IInv, TypeOK
<1>1. CASE IgnoreStale(m)
  BY <1>1 DEF IgnoreStale, IInv, TypeOK, CandidateTerm, VictoriesWon, AcceptedOld
<1> DEFINE Raised == /\ term' \in [Nodes -> 0 .. MaxTerm]
                     /\ \A k \in Nodes : term'[k] >= term[k]
                     /\ term'[m.to] >= m.term /\ term'[m.to] \in 1 .. MaxTerm
<1>2. UpdateIfNewer(m.to, m.term) => Raised
  BY <1>0, TermRaised DEF IInv
<1>6. \A k \in Nodes : term[k] \in Int /\ accepted[k].term \in Int
  BY DEF IInv, TypeOK
<1>7. /\ accepted \in [Nodes -> [leader : 0 .. N, term : 0 .. MaxTerm]]
      /\ state \in [Nodes -> {"Follower", "Candidate", "Leader"}]
  BY DEF IInv, TypeOK
<1>8. Raised => \A k \in Nodes : term'[k] \in Int
  OBVIOUS
<1>3. CASE OnElectionStart(m)
  <2>1. Raised  BY <1>2, <1>3 DEF OnElectionStart
  <2>2. TypeOK'
    BY <1>0, <1>3, <2>1 DEF OnElectionStart, IInv, TypeOK, Message
  <2>3. CandidateTerm'
    BY <1>3, <2>1 DEF OnElectionStart, IInv, TypeOK, CandidateTerm
  <2>4. VictoriesWon'
    BY <1>3 DEF OnElectionStart, IInv, VictoriesWon, Message
  <2>5. AcceptedOld'
    BY <1>3, <2>1 DEF OnElectionStart, IInv, TypeOK, AcceptedOld
  <2> QED BY <2>2, <2>3, <2>4, <2>5 DEF IInv
<1>4. CASE OnElectionChallenge(m)
  <2>1. Raised  BY <1>2, <1>4 DEF OnElectionChallenge
  <2>2. TypeOK'
    <3>1. state' \in [Nodes -> {"Follower", "Candidate", "Leader"}]
      BY <1>0, <1>4, <1>7 DEF OnElectionChallenge
    <3> QED BY <1>4, <2>1, <3>1 DEF OnElectionChallenge, IInv, TypeOK
  <2>3. CandidateTerm'
    BY <1>4, <1>6, <1>7, <1>8, <2>1 DEF OnElectionChallenge, IInv, CandidateTerm
  <2>4. VictoriesWon'
    BY <1>4 DEF OnElectionChallenge, IInv, VictoriesWon
  <2>5. AcceptedOld'
    BY <1>4, <1>6, <1>8, <2>1 DEF OnElectionChallenge, IInv, AcceptedOld
  <2> QED BY <2>2, <2>3, <2>4, <2>5 DEF IInv
<1>5. CASE OnVictory(m)
  <2>1. Raised  BY <1>2, <1>5 DEF OnVictory
  <2>2. TypeOK'
    <3>1. state' \in [Nodes -> {"Follower", "Candidate", "Leader"}]
      BY <1>0, <1>5, <1>7 DEF OnVictory
    <3>2. [leader |-> m.from, term |-> m.term] \in [leader : 0 .. N, term : 0 .. MaxTerm]
      BY <1>0, ElectionAssumption DEF Nodes
    <3>3. accepted' \in [Nodes -> [leader : 0 .. N, term : 0 .. MaxTerm]]
      BY <1>5, <1>7, <3>2, Zenon DEF OnVictory
    <3> QED BY <1>5, <2>1, <3>1, <3>3 DEF OnVictory, IInv, TypeOK
  <2>3. CandidateTerm'
    BY <1>5, <1>6, <1>7, <1>8, <2>1 DEF OnVictory, IInv, CandidateTerm
  <2>4. VictoriesWon'
    BY <1>5 DEF OnVictory, IInv, VictoriesWon
  <2>5. AcceptedOld'
    <3>1. \A k \in Nodes : accepted'[k] =
            IF k = m.to THEN [leader |-> m.from, term |-> m.term] ELSE accepted[k]
      BY <1>5, <1>7 DEF OnVictory
    <3> QED BY <1>0, <1>6, <1>8, <2>1, <3>1 DEF IInv, AcceptedOld
  <2> QED BY <2>2, <2>3, <2>4, <2>5 DEF IInv
<1> QED BY <1>1, <1>3, <1>4, <1>5

LEMMA IInvNext == IInv /\ [Next]_vars => IInv'
<1> SUFFICES ASSUME IInv, [Next]_vars PROVE IInv'
  OBVIOUS
<1>1. CASE UNCHANGED vars
  BY <1>1 DEF vars, IInv, TypeOK, CandidateTerm, VictoriesWon, AcceptedOld
<1>2. CASE Next
  BY <1>2, IInvStart, IInvTimeout, IInvRestart, IInvMessage DEF Next
<1> QED BY <1>1, <1>2

(* Agents and messages keep their types in every reachable state: no       *)
(* message and no victory ever carries term 0.                             *)
THEOREM TypeCorrect == Spec => []TypeOK
<1>1. IInv => TypeOK
  BY DEF IInv
<1> QED BY <1>1, IInvInit, IInvNext, PTL DEF Spec

(* Only on_victory and a restart change the accepted leader.               *)
LEMMA StepAdvances ==
  ASSUME IInv, Next, NEW n \in Nodes
  PROVE  Advances(n)
<1>1. CASE \E k \in Nodes : StartElection(k) \/ OnElectionTimeout(k)
  BY <1>1 DEF Advances, StartElection, OnElectionTimeout
<1>2. ASSUME NEW k \in Nodes, Restart(k) PROVE Advances(n)
  BY <1>2 DEF Advances, Restart, IInv, TypeOK
<1>3. CASE \E m \in msgs : IgnoreStale(m) \/ OnElectionStart(m) \/ OnElectionChallenge(m)
  BY <1>3 DEF Advances, IgnoreStale, OnElectionStart, OnElectionChallenge
<1>4. ASSUME NEW m \in msgs, OnVictory(m) PROVE Advances(n)
  <2>1. m.from \in Nodes /\ m.to \in Nodes /\ m.term \in 1 .. MaxTerm
    BY DEF IInv, TypeOK
  <2>2. m.term >= accepted[m.to].term
    BY <1>4, <2>1, ElectionAssumption
       DEF OnVictory, IsAcceptable, IInv, TypeOK, AcceptedOld
  <2>3. <<m.from, m.term>> \in won
    BY <1>4 DEF OnVictory, IInv, VictoriesWon
  <2> QED BY <1>4, <2>1, <2>2, <2>3, SMTT(60) DEF Advances, OnVictory, IInv, TypeOK
<1> QED BY <1>1, <1>2, <1>3, <1>4 DEF Next

(* Whatever is delayed, reordered or lost, and whoever restarts, a node    *)
(* moves from one accepted leader only to a winner of the same or a later  *)
(* term (on_victory's is_acceptable check).                                *)
THEOREM LeadersAdvanceCorrect == Spec => LeadersAdvance
<1>1. IInv /\ [Next]_vars => [\A n \in Nodes : Advances(n)]_vars
  BY StepAdvances
<1> QED BY <1>1, IInvInit, IInvNext, PTL DEF Spec, LeadersAdvance
=============================================================================
