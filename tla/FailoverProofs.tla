--------------------------- MODULE FailoverProofs ---------------------------
(***************************************************************************)
(* The term and the manifest a worker hands to those who ask only go       *)
(* forward, for any number of workers, versions, terms and outages.        *)
(***************************************************************************)
EXTENDS Failover, TLAPS

TermsOK ==
  /\ manifest \in [Worker -> [version : Nat, term : Nat, at : {NoLink, Home} \cup Moved]]
  /\ term \in [Worker -> Nat]
  /\ agent \in [Worker -> Nat]

IInv == TermsOK /\ TermCoversManifest

Forward ==
  \A w \in Worker : /\ term'[w] >= term[w] /\ agent'[w] >= agent[w]
                    /\ manifest'[w].version >= manifest[w].version

LEMMA IInvInit == Init => IInv
<1> SUFFICES ASSUME Init PROVE IInv
  OBVIOUS
<1>1. NoManifest \in [version : Nat, term : Nat, at : {NoLink, Home} \cup Moved]
  BY DEF NoManifest
<1>2. TermsOK
  BY <1>1 DEF Init, TermsOK
<1>3. TermCoversManifest
  BY DEF Init, TermCoversManifest, NoManifest
<1> QED BY <1>2, <1>3 DEF IInv

LEMMA NothingHeard ==
  ASSUME IInv, UNCHANGED <<manifest, term, agent>>
  PROVE  IInv' /\ Forward
BY DEF IInv, TermsOK, TermCoversManifest, Forward

(* ClusterManifest: the term is raised with the manifest.                  *)
LEMMA ManifestHeard ==
  ASSUME IInv, NEW w \in Worker, Hear(w)
  PROVE  IInv' /\ Forward
<1> PICK m \in Manifests : HearManifest(w, m)
  BY DEF Hear
<1>1. m.version \in Nat /\ m.term \in Nat
      /\ m \in [version : Nat, term : Nat, at : {NoLink, Home} \cup Moved]
  BY FailoverAssumption DEF Manifests
<1>2. \A v \in Worker : manifest'[v] = IF v = w THEN m ELSE manifest[v]
  BY DEF HearManifest, IInv, TermsOK
<1>3. \A v \in Worker : term'[v] = IF v = w /\ m.term > term[v] THEN m.term ELSE term[v]
  BY DEF HearManifest, IInv, TermsOK
<1>4. agent' = agent
  BY DEF Hear
<1>5. TermsOK'
  <2>1. manifest' \in [Worker -> [version : Nat, term : Nat, at : {NoLink, Home} \cup Moved]]
    BY <1>1 DEF HearManifest, IInv, TermsOK
  <2>2. term' \in [Worker -> Nat]
    BY <1>1 DEF HearManifest, IInv, TermsOK
  <2> QED BY <1>4, <2>1, <2>2 DEF IInv, TermsOK
<1>6. TermCoversManifest'
  BY <1>1, <1>2, <1>3 DEF IInv, TermsOK, TermCoversManifest
<1>7. Forward
  BY <1>1, <1>2, <1>3, <1>4 DEF IInv, TermsOK, Forward, HearManifest
<1> QED BY <1>5, <1>6, <1>7 DEF IInv

(* Victory: only a later term is taken over, by the agent too.             *)
LEMMA VictoryHeard ==
  ASSUME IInv, NEW w \in Worker, Victory(w)
  PROVE  IInv' /\ Forward
<1> PICK t \in 1 .. MaxTerm :
      /\ t > term[w]
      /\ term' = [term EXCEPT ![w] = t]
      /\ agent' = [agent EXCEPT ![w] = IF t >= @ THEN t ELSE @]
  BY DEF Victory, HearVictory
<1>1. t \in Nat /\ manifest' = manifest
  BY FailoverAssumption DEF Victory
<1> QED BY <1>1 DEF IInv, TermsOK, TermCoversManifest, Forward

LEMMA Elected ==
  ASSUME IInv, NEW w \in Worker, Elect(w)
  PROVE  IInv' /\ Forward
<1>1. agent' = [agent EXCEPT ![w] = @ + 1] /\ UNCHANGED <<manifest, term>>
  BY DEF Elect
<1> QED BY <1>1 DEF IInv, TermsOK, TermCoversManifest, Forward

LEMMA StepForward == IInv /\ Next => IInv' /\ Forward
<1> SUFFICES ASSUME IInv, Next PROVE IInv' /\ Forward
  OBVIOUS
<1>1. CASE CoordinatorStops \/ CoordinatorStarts
  BY <1>1, NothingHeard DEF CoordinatorStops, CoordinatorStarts
<1>2. ASSUME NEW w \in Worker, Hear(w) \/ Victory(w) \/ Elect(w)
      PROVE  IInv' /\ Forward
  BY <1>2, ManifestHeard, VictoryHeard, Elected
<1>3. ASSUME NEW w \in Worker, Discover(w) \/ CoordAnswers(w) \/ Crash(w)
      PROVE  IInv' /\ Forward
  BY <1>3, NothingHeard DEF Discover, CoordAnswers, Crash, kept
<1>4. ASSUME NEW w \in Worker, Reconnects(w)
      PROVE  IInv' /\ Forward
  BY <1>4, NothingHeard DEF Reconnects, Lost, Dial, DialFails, HandleAck, kept
<1>5. ASSUME NEW w \in Worker, Leads(w)
      PROVE  IInv' /\ Forward
  BY <1>5, NothingHeard DEF Leads, Accept, Schedule, Conclude, kept
<1> QED BY <1>1, <1>2, <1>3, <1>4, <1>5 DEF Next

LEMMA IInvNext == IInv /\ [Next]_vars => IInv'
<1>1. IInv /\ UNCHANGED vars => IInv'
  BY NothingHeard DEF vars
<1> QED BY <1>1, StepForward

(* The term of a worker is never behind the manifest it answers with, in   *)
(* whatever order ClusterManifest, Victory, outages and elections come.    *)
THEOREM TermCoversManifestCorrect == Spec => []TermCoversManifest
<1>1. IInv => TermCoversManifest
  BY DEF IInv
<1> QED BY <1>1, IInvInit, IInvNext, PTL DEF Spec

(* No handler takes the term, the manifest or the agent of a worker back.  *)
THEOREM NeverBackCorrect == Spec => NeverBack
<1>1. IInv /\ [Next]_vars
        => [\A w \in Worker : /\ term'[w] >= term[w] /\ agent'[w] >= agent[w]
                              /\ manifest'[w].version >= manifest[w].version]_vars
  BY StepForward DEF Forward
<1> QED BY <1>1, IInvInit, IInvNext, PTL DEF Spec, NeverBack
=============================================================================
