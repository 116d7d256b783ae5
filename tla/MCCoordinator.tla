--------------------------- MODULE MCCoordinator ----------------------------
(*****************************************************************************)
(* How a coordinator is chosen and what it decides, on small instances: the  *)
(* election, the layers each worker is given, the loop that batches over the *)
(* pipeline and the generation of single requests. They share no state here, *)
(* so each is checked on its own: `part' names the one that runs in a        *)
(* behaviour, the variables of the others are Off, and the agents of the     *)
(* first election stay followers.                                            *)
(*****************************************************************************)
EXTENDS Election, TLC

VARIABLES part,   \* which of them runs
          e_priority, e_term, e_state, e_accepted, e_msgs, e_won, e_restarts,
          cmds, chan, pending, active, batch, at, degraded, changed, stat, rows, sent, gone,
          closed, faults,
          seqs, nextId, h, lock, allocated, down, up, g_rows, fails, ooms, g_gone,
          input, nodes, counts, pc

CONSTANT LoopClients   \* clients of the distributed loop

\* Which first state of the agents stands still while another part runs.
FirstPriorities == \A n \in Nodes : priority[n] = CHOOSE p \in Priorities : TRUE

\* Priority and node_id together rank the nodes in one line, so that two choices
\* of priorities differ in the names of the nodes only; these have ties and both
\* orders.
Ranked == e_priority \in {<<0, 0, 0, 0>>, <<0, 1, 0, 1>>, <<1, 1, 0, 0>>, <<1, 0, 1, 1>>}

E == INSTANCE Election WITH
  N <- 4, Priorities <- {0, 1}, MaxTerm <- 1, MaxRestarts <- 0, Synchronous <- TRUE,
  priority <- e_priority, term <- e_term, state <- e_state, accepted <- e_accepted,
  msgs <- e_msgs, won <- e_won, restarts <- e_restarts
ASSUME E!ElectionAssumption

L == INSTANCE DistributedLoop WITH
  Client <- LoopClients, MaxBatchSize <- 2, MaxBatchTokens <- 2, MaxPrefillTokens <- 2,
  Reserve <- 1, Blocks <- 6, MaxPrompt <- 3, MaxGen <- 2, MaxFaults <- 1, MaxGone <- 0
ASSUME L!LoopAssumption

G == INSTANCE DistributedGenerate WITH
  MaxIds <- 0, MaxTokens <- 0, Client <- {"c1", "c2"}, Stages <- 2, MaxPrompt <- 2,
  MaxGen <- 2, MaxFails <- 1, MaxOoms <- 0, MaxGone <- 0, rows <- g_rows, gone <- g_gone
ASSUME G!GenerateAssumption

S == INSTANCE LayerSchedule WITH
  Hidden <- 1, KvDim <- 1, Intermediate <- 1, Vocab <- 5, MaxSeqLen <- 1, MaxNodes <- 3,
  Ms <- {0, 1, 3}, Mem <- {33, 55, 88}, LayerCounts <- {3, 5}, Hops <- {0, 2},
  Modes <- {"Auto", "EqualSplit"}
ASSUME S!ScheduleAssumption

SM == INSTANCE LayerSchedule WITH
  Hidden <- 1, KvDim <- 1, Intermediate <- 1, Vocab <- 5, MaxSeqLen <- 1, MaxNodes <- 2,
  Ms <- {1}, Mem <- {33, 88}, LayerCounts <- {2, 3}, Hops <- {2}, Modes <- {"Manual"}
ASSUME SM!ScheduleAssumption

Off == "off"
termVars == <<e_priority, e_term, e_state, e_accepted, e_msgs, e_won, e_restarts>>
TermOff ==
  /\ e_priority = Off /\ e_term = Off /\ e_state = Off /\ e_accepted = Off /\ e_msgs = Off
  /\ e_won = Off /\ e_restarts = Off
loopVars == <<cmds, chan, pending, active, batch, at, degraded, changed, stat, rows, sent,
              gone, closed, faults>>
LoopOff ==
  /\ cmds = Off /\ chan = Off /\ pending = Off /\ active = Off /\ batch = Off /\ at = Off
  /\ degraded = Off /\ changed = Off /\ stat = Off /\ rows = Off /\ sent = Off /\ gone = Off
  /\ closed = Off /\ faults = Off
generateVars == <<seqs, nextId, h, lock, allocated, down, up, g_rows, fails, ooms, g_gone>>
GenerateOff ==
  /\ seqs = Off /\ nextId = Off /\ h = Off /\ lock = Off /\ allocated = Off /\ down = Off
  /\ up = Off /\ g_rows = Off /\ fails = Off /\ ooms = Off /\ g_gone = Off
scheduleVars == <<input, nodes, counts, pc>>
ScheduleOff ==
  /\ input = Off /\ nodes = Off /\ counts = Off /\ pc = Off

mcVars == <<part, vars, termVars, loopVars, generateVars, scheduleVars>>

MCInit ==
  /\ Init
  /\ \/ part = "election" /\ TermOff /\ LoopOff /\ GenerateOff /\ ScheduleOff
     \/ part = "one term" /\ FirstPriorities /\ E!Init /\ Ranked /\ LoopOff /\ GenerateOff /\ ScheduleOff
     \/ part = "loop" /\ FirstPriorities /\ L!Init /\ TermOff /\ GenerateOff /\ ScheduleOff
     \/ part = "generate" /\ FirstPriorities /\ G!Init /\ TermOff /\ LoopOff /\ ScheduleOff
     \/ part = "schedule" /\ FirstPriorities /\ S!Init /\ TermOff /\ LoopOff /\ GenerateOff
     \/ part = "manual" /\ FirstPriorities /\ SM!Init /\ TermOff /\ LoopOff /\ GenerateOff

MCNext ==
  \/ part = "election" /\ Next /\ UNCHANGED <<part, termVars, loopVars, generateVars, scheduleVars>>
  \/ part = "one term" /\ E!Next
     /\ UNCHANGED <<part, vars, loopVars, generateVars, scheduleVars>>
  \/ part = "loop" /\ L!Next
     /\ UNCHANGED <<part, vars, termVars, generateVars, scheduleVars>>
  \/ part = "generate" /\ G!Next
     /\ UNCHANGED <<part, vars, termVars, loopVars, scheduleVars>>
  \/ part = "schedule" /\ S!Next
     /\ UNCHANGED <<part, vars, termVars, loopVars, generateVars>>
  \/ part = "manual" /\ SM!Next
     /\ UNCHANGED <<part, vars, termVars, loopVars, generateVars>>
  \/ part \in {"election", "one term"} /\ UNCHANGED mcVars

MCSpec == MCInit /\ [][MCNext]_mcVars

-----------------------------------------------------------------------------
\* The clients of the distributed loop are interchangeable; the other parts have
\* their own.
LoopSymmetry == Permutations(LoopClients)

\* "Two simultaneous elections at the same term resolve to the same winner": in
\* elections for one term, with a window longer than message delays, no two
\* nodes declare victory (on_election_timeout).
OneWinner == part = "one term" => E!OneWinnerPerTerm

\* "the highest-priority node wins": no node has a lower priority number than
\* the one that declares victory.
BestNodeWins == part = "one term" => E!BestWins

\* Once no message is in flight, every node other than the winner has accepted
\* it or knows of a later election.
AgreedWhenQuiet == part = "one term" => E!QuietAgreement

\* Every slice of a batch starts at the row the workers have room for next:
\* chunks and decodes follow each other without gap or overlap
\* (current_pos, remaining_prefill and the workers' caches agree).
BatchesFollowRows == part = "loop" => L!PositionsFollowRows

\* A batch stays within max_batch_size sequences and max_batch_tokens tokens.
BatchBounded == part = "loop" => L!BatchBounded

\* Between iterations the workers hold caches for the active sequences only, and
\* a degraded loop has none.
DegradedHoldsNone == part = "loop" => L!DegradedHoldsNone

\* A client sees at most max_tokens tokens, all before its end, and an end only
\* once, save that an Error in sampling is followed by a Finished.
StreamsEnd == part = "loop" => L!StreamsEnd

\* Calls of concurrent requests never take each other's answers: the lock is
\* held from the send to the answer, and frees are not answered.
AnswersOwn == part = "generate" => G!AnswersOwn

\* A pass handed to a worker starts at the row the worker will append it to, at
\* every stage, after everything sent before (distributed_generate).
PassesFollowRows == part = "generate" => G!PositionsFollowRows

\* "Always free cache on all workers": once a request is over and the workers
\* have read everything, they hold nothing of it, nor does the pipeline or the
\* table of sequences.
AlwaysFreed == part = "generate" => G!AlwaysFreed

\* A schedule gives every layer of the model to exactly one node and no node
\* more than its memory holds in the place it ends up in.
ScheduleCovers == /\ part = "schedule" => S!ScheduleCovers
                  /\ part = "manual" => SM!ScheduleCovers

\* EqualSplit is even.
EqualIsEven == part = "schedule" => S!EqualIsEven

\* Redistribution ends, since every step brings the layers given out nearer to
\* those of the model: it never adds and removes in turn.
Nearer == [][part = "schedule" => S!NearerStep]_mcVars

(***************************************************************************)
(* What the run checks.                                                    *)
(***************************************************************************)
\* In elections for one term with timely messages, the best node and no other
\* wins, and everyone knows once it is quiet.
OneTermElects == OneWinner /\ BestNodeWins /\ AgreedWhenQuiet

\* Batches keep within their limits and continue every sequence where the
\* workers' caches end.
BatchesRight == BatchesFollowRows /\ BatchBounded


\* Requests that generate at the same time do not meet: each takes its own
\* answers, continues at its own rows and leaves nothing behind.
GeneratesAlone == AnswersOwn /\ PassesFollowRows /\ AlwaysFreed

\* Schedules cover the model within every node's memory, an equal split is even,
\* and redistribution makes progress with every step.
ScheduleSound == [](ScheduleCovers /\ EqualIsEven) /\ Nearer
=============================================================================
