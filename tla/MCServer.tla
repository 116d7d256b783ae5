------------------------------ MODULE MCServer ------------------------------
(*****************************************************************************)
(* What answers clients and what stands beside it, on small instances: the   *)
(* routes of both servers, the dashboard, sampling, the table of sequences   *)
(* and the framed stream. They share no state, so each is checked on its     *)
(* own: `part' names the one that runs in a behaviour, the variables of the  *)
(* others are Off, and the routes without batching stay in a first state.    *)
(*****************************************************************************)
EXTENDS GenerationRoutes

VARIABLES part,   \* which of them runs
          b_req, at, sched, generated, events, b_taken, answer, b_active, log, loop,
          clock, pending, completed, window, shown, d_log, scan,
          logits, params, random, token,
          seqs, nextId,
          begun, sending, wire, got, delivered, last, cancels, corrupted

\* Which first state of the routes stands still while another part runs.
FirstRequests ==
  \A c \in Clients :
    req[c] = CHOOSE r \in [kind : Kinds, prompt : PromptLens, max : MaxTokens] : TRUE

B == INSTANCE BatchedRoutes WITH
  Clients <- {"c1", "c2"}, Kinds <- {"stream", "whole"}, MaxTokens <- {2}, Faults <- TRUE,
  Leaving <- TRUE, req <- b_req, taken <- b_taken, active <- b_active
ASSUME B!BatchedRoutesAssumption

DL == INSTANCE Dashboard WITH
  Threads <- {"t1", "t2"}, MaxRecords <- 3, MaxPerPage <- 2, Asked <- {0, 1, 2, 5},
  WindowLen <- 1, TokenCounts <- {1}, MaxCompleted <- 5, MaxClock <- 0, log <- d_log
ASSUME DL!DashboardAssumption

DW == INSTANCE Dashboard WITH
  Threads <- {"t1"}, MaxRecords <- 1, MaxPerPage <- 1, Asked <- {}, WindowLen <- 2,
  TokenCounts <- {1, 2}, MaxCompleted <- 4, MaxClock <- 4, log <- d_log
ASSUME DW!DashboardAssumption

S == INSTANCE Sampling WITH
  Base <- 2, Underflow <- 3, MaxVocab <- 4, MaxLogit <- 3, Parts <- 5
ASSUME S!SamplingAssumption

SD == INSTANCE Sampling WITH
  Base <- 2, Underflow <- 3, MaxVocab <- 3, MaxLogit <- 2, Parts <- 16
ASSUME SD!SamplingAssumption

T == INSTANCE SequenceState WITH
  MaxIds <- 3, MaxTokens <- 2

W == INSTANCE FramedStream WITH
  Words <- {1, 2}, Types <- {1}, MaxLen <- 2, MaxPayload <- 1, MaxSends <- 2,
  MaxCancels <- 1, MaxCorrupt <- 1, LenMod <- 8
ASSUME W!StreamAssumption

WW == INSTANCE FramedStream WITH
  Words <- {1, 2}, Types <- {1}, MaxLen <- 2, MaxPayload <- 1, MaxSends <- 2,
  MaxCancels <- 1, MaxCorrupt <- 1, LenMod <- 2
ASSUME WW!StreamAssumption

Off == "off"
batchedVars == <<b_req, at, sched, generated, events, b_taken, answer, b_active, log, loop>>
BatchedOff ==
  /\ b_req = Off /\ at = Off /\ sched = Off /\ generated = Off /\ events = Off
  /\ b_taken = Off /\ answer = Off /\ b_active = Off /\ log = Off /\ loop = Off
dashboardVars == <<clock, pending, completed, window, shown, d_log, scan>>
DashboardOff ==
  /\ clock = Off /\ pending = Off /\ completed = Off /\ window = Off /\ shown = Off
  /\ d_log = Off /\ scan = Off
samplingVars == <<logits, params, random, token>>
SamplingOff ==
  /\ logits = Off /\ params = Off /\ random = Off /\ token = Off
tableVars == <<seqs, nextId>>
TableOff ==
  /\ seqs = Off /\ nextId = Off
streamVars == <<begun, sending, wire, got, delivered, last, cancels, corrupted>>
StreamOff ==
  /\ begun = Off /\ sending = Off /\ wire = Off /\ got = Off /\ delivered = Off
  /\ last = Off /\ cancels = Off /\ corrupted = Off

mcVars == <<part, vars, batchedVars, dashboardVars, samplingVars, tableVars, streamVars>>

MCInit ==
  /\ Init
  /\ \/ part = "routes" /\ BatchedOff /\ DashboardOff /\ SamplingOff /\ TableOff /\ StreamOff
     \/ part = "batched" /\ FirstRequests /\ B!Init /\ DashboardOff /\ SamplingOff /\ TableOff /\ StreamOff
     \/ part = "log" /\ FirstRequests /\ DL!Init /\ BatchedOff /\ SamplingOff /\ TableOff /\ StreamOff
     \/ part = "window" /\ FirstRequests /\ DW!Init /\ BatchedOff /\ SamplingOff /\ TableOff /\ StreamOff
     \/ part = "sampling" /\ FirstRequests /\ S!Init /\ BatchedOff /\ DashboardOff /\ TableOff /\ StreamOff
     \/ part = "draw" /\ FirstRequests /\ SD!Init /\ BatchedOff /\ DashboardOff /\ TableOff /\ StreamOff
     \/ part = "table" /\ FirstRequests /\ T!ManagerInit /\ BatchedOff /\ DashboardOff /\ SamplingOff /\ StreamOff
     \/ part = "stream" /\ FirstRequests /\ W!Init /\ BatchedOff /\ DashboardOff /\ SamplingOff /\ TableOff
     \/ part = "stream wraps" /\ FirstRequests /\ WW!Init /\ BatchedOff /\ DashboardOff /\ SamplingOff /\ TableOff

MCNext ==
  \/ part = "routes" /\ Next /\ UNCHANGED <<part, batchedVars, dashboardVars, samplingVars, tableVars, streamVars>>
  \/ part = "batched" /\ B!Next
     /\ UNCHANGED <<part, vars, dashboardVars, samplingVars, tableVars, streamVars>>
  \/ part = "log" /\ DL!Next
     /\ UNCHANGED <<part, vars, batchedVars, samplingVars, tableVars, streamVars>>
  \/ part = "window" /\ DW!Next
     /\ UNCHANGED <<part, vars, batchedVars, samplingVars, tableVars, streamVars>>
  \/ part = "sampling" /\ S!Next
     /\ UNCHANGED <<part, vars, batchedVars, dashboardVars, tableVars, streamVars>>
  \/ part = "draw" /\ SD!Next
     /\ UNCHANGED <<part, vars, batchedVars, dashboardVars, tableVars, streamVars>>
  \/ part = "table" /\ T!ManagerNext
     /\ UNCHANGED <<part, vars, batchedVars, dashboardVars, samplingVars, streamVars>>
  \/ part = "stream" /\ W!Next
     /\ UNCHANGED <<part, vars, batchedVars, dashboardVars, samplingVars, tableVars>>
  \/ part = "stream wraps" /\ WW!Next
     /\ UNCHANGED <<part, vars, batchedVars, dashboardVars, samplingVars, tableVars>>

MCSpec == MCInit /\ [][MCNext]_mcVars

-----------------------------------------------------------------------------
\* No request is counted off twice: the counter covers every request that is
\* being served, whatever other streams were dropped (batched_routes.rs).
CounterCovers == part = "batched" => B!CounterCovers

\* The counter and the log together never exceed the requests that were started:
\* no request is shown as active and as completed.
LoggedIsInactive == part = "batched" => B!LoggedIsInactive

\* While the loop lives an answer carries the reason the scheduler gave first,
\* and every sampled token but a stop token was read before it.
AnswersWhole == part = "batched" => B!AnswersWhole

\* A reader that pages through the log to an empty page has seen every record
\* that was there when it began and still is, whatever was pushed and evicted
\* meanwhile (RequestLog).
ScanMissesNothing == part = "log" => DL!ScanMissesNothing

\* A snapshot counts the tokens of exactly the completions inside the window,
\* although the window is only pruned from its front and only by snapshots.
WindowExact == [][part = "window" => DW!WindowStep]_mcVars

\* A sampled token is among the top_k, a greedy one has no larger logit.
InTopK == part = "sampling" => S!InTopK

\* A sampled token is in the nucleus: the tokens with a larger logit do not
\* reach more than top_p of the weight of the tokens top_k leaves.
InNucleus == part = "sampling" => S!InNucleus

\* A token whose probability underflows to zero is not sampled.
NeverImpossible == part = "sampling" => S!NeverImpossible

\* The draw is fair to one part in Parts: each token of the nucleus is drawn by
\* its share of the random numbers.
FairDraw == part = "draw" => SD!FairDraw

\* The position of a sequence in the coordinator's table is its prompt and what
\* was generated, whatever order of calls: a refused call has no effect.
PositionCounts == part = "table" => T!PositionCounts

\* An id is given to one sequence only, and a sequence only moves Prefilling,
\* Decoding, Complete or from either of the first two to Error.
LifeCycle == [][part = "table" => T!LifeStep]_mcVars

\* Whatever is dropped or changed on the way, every frame recv returns is one
\* that was sent, none twice or out of order, also when a length wraps.
NothingForged == /\ part = "stream" => W!NothingForged
                 /\ part = "stream wraps" => WW!NothingForged

\* decode_frame_from_bytes gives, on the words that followed, what recv gave.
SameValidation == part = "stream" => W!SameValidation

(***************************************************************************)
(* What the run checks.                                                    *)
(***************************************************************************)
\* What the dashboard shows: no request counted off twice, or active and logged
\* at once; no record missed by a reader of the log; no completion outside the
\* window counted and none inside it forgotten.
DashboardExact == [](CounterCovers /\ LoggedIsInactive /\ ScanMissesNothing) /\ WindowExact

\* A sampled token is one top_k and top_p leave, possible, and drawn by its share.
SamplesFairly == InTopK /\ InNucleus /\ NeverImpossible /\ FairDraw


\* What the framed connection returns was sent, and both decoders agree.
FramesGenuine == NothingForged /\ SameValidation
=============================================================================
