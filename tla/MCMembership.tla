---------------------------- MODULE MCMembership ----------------------------
(*****************************************************************************)
(* Who takes part in the cluster on small instances: the coordinator and its *)
(* workers while processes start, crash, lose their connection or leave, and *)
(* what workers do when the coordinator is away. They share no state here,   *)
(* so each is checked on its own: `part' names the one that runs in a        *)
(* behaviour, the variables of the others are Off, and the workers of the    *)
(* failover go on serving.                                                   *)
(*****************************************************************************)
EXTENDS Failover

VARIABLES part,   \* which of them runs
          o_up, o_stage, o_link, o_addr, o_manifest, o_term, o_agent, o_started, o_layers,
          o_acks, o_peers, o_plan, o_used,
          workers, lock, main, lstn, pipe, watch, degraded, active, aborted, proc, have,
          wire, leave, backlog, down, c_up, c_used

\* Which first state of the failover stands still while another part runs.
FirstPlan == layers = CHOOSE p \in Plans(Worker) : TRUE

ClusterWorkers == {"w1", "w2"}

FO == INSTANCE Failover WITH
  Worker <- {"w1", "w2"}, Local <- {"w1"}, Moved <- {}, Seeded <- {}, Layers <- 2,
  Announces <- TRUE, MaxVersion <- 1, MaxTerm <- 1, MaxOutages <- 2, MaxCrashes <- 1,
  up <- o_up, stage <- o_stage, link <- o_link, addr <- o_addr, manifest <- o_manifest,
  term <- o_term, agent <- o_agent, started <- o_started, layers <- o_layers,
  acks <- o_acks, peers <- o_peers, plan <- o_plan, used <- o_used
ASSUME FO!FailoverAssumption

CC == INSTANCE Cluster WITH
  Worker <- ClusterWorkers, MinFit <- 1, Layers <- 2, Overlap <- FALSE, MaxSeqs <- 1,
  Batches <- 2, Expected <- 2, MaxStarts <- 3, MaxCrashes <- 1, MaxDrops <- 0,
  MaxLeaves <- 0, up <- c_up, used <- c_used
ASSUME CC!ClusterAssumption

CD == INSTANCE Cluster WITH
  Worker <- ClusterWorkers, MinFit <- 1, Layers <- 2, Overlap <- FALSE, MaxSeqs <- 1,
  Batches <- 2, Expected <- 2, MaxStarts <- 2, MaxCrashes <- 0, MaxDrops <- 1,
  MaxLeaves <- 0, up <- c_up, used <- c_used
ASSUME CD!ClusterAssumption

CJ == INSTANCE Cluster WITH
  Worker <- ClusterWorkers, MinFit <- 1, Layers <- 2, Overlap <- FALSE, MaxSeqs <- 1,
  Batches <- 2, Expected <- 1, MaxStarts <- 2, MaxCrashes <- 0, MaxDrops <- 0,
  MaxLeaves <- 1, up <- c_up, used <- c_used
ASSUME CJ!ClusterAssumption

CL == INSTANCE Cluster WITH
  Worker <- ClusterWorkers, MinFit <- 1, Layers <- 2, Overlap <- FALSE, MaxSeqs <- 1,
  Batches <- 2, Expected <- 2, MaxStarts <- 2, MaxCrashes <- 0, MaxDrops <- 0,
  MaxLeaves <- 1, up <- c_up, used <- c_used
ASSUME CL!ClusterAssumption

Off == "off"
outagesVars == <<o_up, o_stage, o_link, o_addr, o_manifest, o_term, o_agent, o_started,
                 o_layers, o_acks, o_peers, o_plan, o_used>>
OutagesOff ==
  /\ o_up = Off /\ o_stage = Off /\ o_link = Off /\ o_addr = Off /\ o_manifest = Off
  /\ o_term = Off /\ o_agent = Off /\ o_started = Off /\ o_layers = Off /\ o_acks = Off
  /\ o_peers = Off /\ o_plan = Off /\ o_used = Off
clusterVars == <<workers, lock, main, lstn, pipe, watch, degraded, active, aborted, proc,
                 have, wire, leave, backlog, down, c_up, c_used>>
ClusterOff ==
  /\ workers = Off /\ lock = Off /\ main = Off /\ lstn = Off /\ pipe = Off /\ watch = Off
  /\ degraded = Off /\ active = Off /\ aborted = Off /\ proc = Off /\ have = Off
  /\ wire = Off /\ leave = Off /\ backlog = Off /\ down = Off /\ c_up = Off /\ c_used = Off

mcVars == <<part, vars, outagesVars, clusterVars>>

MCInit ==
  /\ Init
  /\ \/ part = "failover" /\ OutagesOff /\ ClusterOff
     \/ part = "outages" /\ FirstPlan /\ FO!Init /\ ClusterOff
     \/ part = "crash" /\ FirstPlan /\ CC!Init /\ OutagesOff
     \/ part = "drop" /\ FirstPlan /\ CD!Init /\ OutagesOff
     \/ part = "join" /\ FirstPlan /\ CJ!Init /\ OutagesOff
     \/ part = "leave" /\ FirstPlan /\ CL!Init /\ OutagesOff

MCNext ==
  \/ part = "failover" /\ Next /\ UNCHANGED <<part, outagesVars, clusterVars>>
  \/ part = "outages" /\ FO!Next
     /\ UNCHANGED <<part, vars, clusterVars>>
  \/ part = "crash" /\ CC!Next
     /\ UNCHANGED <<part, vars, outagesVars>>
  \/ part = "drop" /\ CD!Next
     /\ UNCHANGED <<part, vars, outagesVars>>
  \/ part = "join" /\ CJ!Next
     /\ UNCHANGED <<part, vars, outagesVars>>
  \/ part = "leave" /\ CL!Next
     /\ UNCHANGED <<part, vars, outagesVars>>
  \/ part \in {"failover", "outages"} /\ UNCHANGED mcVars

(***************************************************************************)
(* The fairness of the modules, for the part that runs.  In a behaviour    *)
(* only one of the disjuncts of a formula is ever enabled.                 *)
(***************************************************************************)
FailoverFair ==
  \A w \in {"w1", "w2"} :
    /\ WF_outagesVars(part = "outages" /\ FO!Discover(w))
    /\ WF_outagesVars(part = "outages" /\ FO!Lost(w)) /\ WF_outagesVars(part = "outages" /\ FO!Dial(w))
    /\ WF_outagesVars(part = "outages" /\ FO!HandleAck(w))
    /\ WF_outagesVars(part = "outages" /\ FO!DialFails(w))
    /\ WF_outagesVars(part = "outages" /\ FO!Elect(w))
    /\ WF_outagesVars(part = "outages" /\ FO!CoordAnswers(w))
    /\ WF_outagesVars(part = "outages" /\ FO!Schedule(w))
    /\ WF_outagesVars(part = "outages" /\ FO!Conclude(w))

ClusterFair ==
  /\ WF_clusterVars(\/ part = "crash" /\ CC!LoopStep
                    \/ part = "drop" /\ CD!LoopStep
                    \/ part = "join" /\ CJ!LoopStep
                    \/ part = "leave" /\ CL!LoopStep)
  /\ SF_clusterVars(\/ part = "crash" /\ CC!Poll
                    \/ part = "drop" /\ CD!Poll
                    \/ part = "join" /\ CJ!Poll
                    \/ part = "leave" /\ CL!Poll)
  /\ SF_clusterVars(\/ part = "crash" /\ CC!JudgeDead
                    \/ part = "drop" /\ CD!JudgeDead
                    \/ part = "join" /\ CJ!JudgeDead
                    \/ part = "leave" /\ CL!JudgeDead)
  /\ WF_clusterVars(\/ part = "crash" /\ CC!ListenerStep
                    \/ part = "drop" /\ CD!ListenerStep
                    \/ part = "join" /\ CJ!ListenerStep
                    \/ part = "leave" /\ CL!ListenerStep)
  /\ \A w \in ClusterWorkers :
       /\ WF_clusterVars(\/ part = "crash" /\ CC!WorkerStep(w)
                         \/ part = "drop" /\ CD!WorkerStep(w)
                         \/ part = "join" /\ CJ!WorkerStep(w)
                         \/ part = "leave" /\ CL!WorkerStep(w))
       /\ SF_clusterVars(\/ part = "crash" /\ CC!Reconnect(w)
                         \/ part = "drop" /\ CD!Reconnect(w)
                         \/ part = "join" /\ CJ!Reconnect(w)
                         \/ part = "leave" /\ CL!Reconnect(w))

MCSpec == MCInit /\ [][MCNext]_mcVars /\ FailoverFair /\ ClusterFair

-----------------------------------------------------------------------------

(***************************************************************************)
(* What is owed to a worker and when it is settled, by part.               *)
(***************************************************************************)
\* forced_rebalance: a worker that crashed does not stay in a pipeline that serves
\* requests, unless the task that accepts workers has ended.
\* reconnection_listener: a worker that lost its connection and is back is served
\* by a pipeline again, or has ended.
\* begin_graceful_drain: a worker whose LeaveIntent was heard is sent home once
\* the sequences that run are done, if nobody dies meanwhile.
\* reconstruct_state: whichever peers come back, crash or stay away, a promoted
\* worker does not wait for ever for a registration or a WorkerReady.
Owed(w) == \/ part = "crash" /\ proc[w] = "off" /\ w \in CC!Stages(pipe)
           \/ part = "drop" /\ proc[w] = "rejoin"
           \/ part = "leave" /\ CL!Has(workers, w, "Draining")
           \/ part = "outages" /\ FO!Leading(w)
Settled(w) == \/ part = "crash" /\ (proc[w] # "off" \/ degraded \/ lstn.at = "failed")
              \/ part = "crash" /\ w \notin CC!Stages(pipe)
              \/ part = "drop" /\ w \in CD!Stages(pipe) /\ proc[w] = "serve"
              \/ part = "drop" /\ proc[w] = "off"
              \/ part = "leave" /\ proc[w] = "exited"
              \/ part = "outages" /\ ~FO!Leading(w)


=============================================================================
