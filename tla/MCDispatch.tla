----------------------------- MODULE MCDispatch -----------------------------
(*****************************************************************************)
(* What is asked for is answered, on small instances: failure detection, the *)
(* calls of the pipeline, the node behind a socket, the framed connection,   *)
(* the two loops that serve requests, distributed generation and the two     *)
(* kinds of routes.  They share no state here, so each is checked on its     *)
(* own: `part' names the one that runs in a behaviour and the variables of   *)
(* the others are Off.                                                       *)
(*****************************************************************************)
EXTENDS Heartbeat

VARIABLES part,   \* which of them runs
          fate, allocated, call, p_down, inbox, p_up, handles, linked, dead, used,
          link, backlog, lock, calls, pc, toServer, toClient, i_handles, server, got,
          begun, sending, wire, f_got, delivered, last, cancels, corrupted,
          cmds, chan, l_pending, active, batch, at, degraded, changed, stat, rows, sent,
          gone, closed, faults,
          seqs, nextId, h, g_lock, g_allocated, g_down, g_up, g_rows, fails, ooms, g_gone,
          num_free, owned, len, next_id, prompt_len, max_tokens, s_chan, s_alive, snapshots,
          s_closed, events, prefill_queue, s_active, free_blocks, prefills, decodes,
          total_tokens, prefill_tokens, i, completed, poisoned, s_pc, rope,
          req, handler, gen, r_lock, held, cancel, sampled, taken, result, seen, r_active,
          after,
          b_req, b_at, sched, generated, b_events, b_taken, answer, b_active, log, loop

Askers == {"a1", "a2"}

PC == INSTANCE DistributedPipeline WITH
  SeqId <- {"s1", "s2"}, Stages <- 2, MaxCalls <- 5, MaxBeats <- 1, MaxOom <- 0,
  MaxErrors <- 1, MaxLosses <- 0, MaxReplaced <- 0, down <- p_down, up <- p_up
ASSUME PC!PipelineAssumption

PF == INSTANCE DistributedPipeline WITH
  SeqId <- {"s1", "s2"}, Stages <- 2, MaxCalls <- 3, MaxBeats <- 0, MaxOom <- 1,
  MaxErrors <- 1, MaxLosses <- 1, MaxReplaced <- 1, down <- p_down, up <- p_up
ASSUME PF!PipelineAssumption

IC == INSTANCE IpcNode WITH
  Clients <- Askers, Threads <- {"t1", "t2"}, SeqIds <- {"s1", "s2"}, CacheRoom <- 1,
  MaxCalls <- 2, handles <- i_handles
ASSUME IC!IpcAssumption

FS == INSTANCE FramedStream WITH
  Words <- {1, 2}, Types <- {1}, MaxLen <- 1, MaxPayload <- 1, LenMod <- 8, MaxSends <- 3,
  MaxCancels <- 0, MaxCorrupt <- 0, got <- f_got
ASSUME FS!StreamAssumption

DL == INSTANCE DistributedLoop WITH
  Client <- Askers, MaxBatchSize <- 1, MaxBatchTokens <- 3, MaxPrefillTokens <- 2,
  Reserve <- 1, Blocks <- 4, MaxPrompt <- 2, MaxGen <- 1, MaxFaults <- 1, MaxGone <- 1,
  pending <- l_pending
ASSUME DL!LoopAssumption

DG == INSTANCE DistributedGenerate WITH
  MaxIds <- 0, MaxTokens <- 0, Client <- Askers, Stages <- 1, MaxPrompt <- 1, MaxGen <- 2,
  MaxFails <- 1, MaxOoms <- 1, MaxGone <- 1, lock <- g_lock, allocated <- g_allocated,
  down <- g_down, up <- g_up, rows <- g_rows, gone <- g_gone
ASSUME DG!GenerateAssumption

SL == INSTANCE SchedulerLoop WITH
  Requests <- Askers, PromptLens <- {0, 3}, TokenLimits <- {2}, NumBlocks <- 1,
  BlockSize <- 3, MaxAppend <- 3, MaxBatchSize <- 2, MaxBatchTokens <- 3,
  MaxPrefillTokens <- 2, ReservedBlocks <- 0, MaxSnapshots <- 0, chan <- s_chan,
  alive <- s_alive, closed <- s_closed, active <- s_active, pc <- s_pc

GR == INSTANCE GenerationRoutes WITH
  Clients <- Askers, Kinds <- {"stream", "whole"}, PromptLens <- {1}, MaxTokens <- {2},
  MaxSeqLen <- 3, Faults <- TRUE, Leaving <- TRUE, lock <- r_lock, active <- r_active

BR == INSTANCE BatchedRoutes WITH
  Clients <- Askers, Kinds <- {"stream", "whole"}, MaxTokens <- {1}, Faults <- TRUE,
  Leaving <- FALSE, req <- b_req, at <- b_at, events <- b_events, taken <- b_taken,
  active <- b_active
ASSUME BR!BatchedRoutesAssumption

Off == "off"
pipeVars == <<fate, allocated, call, p_down, inbox, p_up, handles, linked, dead, used>>
PipeOff ==
  /\ fate = Off /\ allocated = Off /\ call = Off /\ p_down = Off /\ inbox = Off
  /\ p_up = Off /\ handles = Off /\ linked = Off /\ dead = Off /\ used = Off
ipcVars == <<link, backlog, lock, calls, pc, toServer, toClient, i_handles, server, got>>
IpcOff ==
  /\ link = Off /\ backlog = Off /\ lock = Off /\ calls = Off /\ pc = Off /\ toServer = Off
  /\ toClient = Off /\ i_handles = Off /\ server = Off /\ got = Off
streamVars == <<begun, sending, wire, f_got, delivered, last, cancels, corrupted>>
StreamOff ==
  /\ begun = Off /\ sending = Off /\ wire = Off /\ f_got = Off /\ delivered = Off
  /\ last = Off /\ cancels = Off /\ corrupted = Off
loopVars == <<cmds, chan, l_pending, active, batch, at, degraded, changed, stat, rows, sent,
              gone, closed, faults>>
LoopOff ==
  /\ cmds = Off /\ chan = Off /\ l_pending = Off /\ active = Off /\ batch = Off /\ at = Off
  /\ degraded = Off /\ changed = Off /\ stat = Off /\ rows = Off /\ sent = Off /\ gone = Off
  /\ closed = Off /\ faults = Off
genVars == <<seqs, nextId, h, g_lock, g_allocated, g_down, g_up, g_rows, fails, ooms, g_gone>>
GenOff ==
  /\ seqs = Off /\ nextId = Off /\ h = Off /\ g_lock = Off /\ g_allocated = Off
  /\ g_down = Off /\ g_up = Off /\ g_rows = Off /\ fails = Off /\ ooms = Off /\ g_gone = Off
schedVars == <<num_free, owned, len, next_id, prompt_len, max_tokens, s_chan, s_alive,
               snapshots, s_closed, events, prefill_queue, s_active, free_blocks, prefills,
               decodes, total_tokens, prefill_tokens, i, completed, poisoned, s_pc, rope>>
SchedOff ==
  /\ num_free = Off /\ owned = Off /\ len = Off /\ next_id = Off /\ prompt_len = Off
  /\ max_tokens = Off /\ s_chan = Off /\ s_alive = Off /\ snapshots = Off /\ s_closed = Off
  /\ events = Off /\ prefill_queue = Off /\ s_active = Off /\ free_blocks = Off
  /\ prefills = Off /\ decodes = Off /\ total_tokens = Off /\ prefill_tokens = Off
  /\ i = Off /\ completed = Off /\ poisoned = Off /\ s_pc = Off /\ rope = Off
routesVars == <<req, handler, gen, r_lock, held, cancel, sampled, taken, result, seen,
                r_active, after>>
RoutesOff ==
  /\ req = Off /\ handler = Off /\ gen = Off /\ r_lock = Off /\ held = Off /\ cancel = Off
  /\ sampled = Off /\ taken = Off /\ result = Off /\ seen = Off /\ r_active = Off
  /\ after = Off
batchedVars == <<b_req, b_at, sched, generated, b_events, b_taken, answer, b_active, log,
                 loop>>
BatchedOff ==
  /\ b_req = Off /\ b_at = Off /\ sched = Off /\ generated = Off /\ b_events = Off
  /\ b_taken = Off /\ answer = Off /\ b_active = Off /\ log = Off /\ loop = Off

mcVars == <<part, vars, pipeVars, ipcVars, streamVars, loopVars, genVars, schedVars, routesVars, batchedVars>>

MCInit ==
  /\ Init
  /\ \/ part = "heartbeat" /\ PipeOff /\ IpcOff /\ StreamOff /\ LoopOff /\ GenOff /\ SchedOff /\ RoutesOff /\ BatchedOff
     \/ part = "calls" /\ PC!Init /\ IpcOff /\ StreamOff /\ LoopOff /\ GenOff /\ SchedOff /\ RoutesOff /\ BatchedOff
     \/ part = "faults" /\ PF!Init /\ IpcOff /\ StreamOff /\ LoopOff /\ GenOff /\ SchedOff /\ RoutesOff /\ BatchedOff
     \/ part = "ipc" /\ IC!Init /\ PipeOff /\ StreamOff /\ LoopOff /\ GenOff /\ SchedOff /\ RoutesOff /\ BatchedOff
     \/ part = "stream" /\ FS!Init /\ PipeOff /\ IpcOff /\ LoopOff /\ GenOff /\ SchedOff /\ RoutesOff /\ BatchedOff
     \/ part = "loop" /\ DL!Init /\ PipeOff /\ IpcOff /\ StreamOff /\ GenOff /\ SchedOff /\ RoutesOff /\ BatchedOff
     \/ part = "generate" /\ DG!Init /\ PipeOff /\ IpcOff /\ StreamOff /\ LoopOff /\ SchedOff /\ RoutesOff /\ BatchedOff
     \/ part = "scheduler" /\ SL!Init /\ PipeOff /\ IpcOff /\ StreamOff /\ LoopOff /\ GenOff /\ RoutesOff /\ BatchedOff
     \/ part = "routes" /\ GR!Init /\ PipeOff /\ IpcOff /\ StreamOff /\ LoopOff /\ GenOff /\ SchedOff /\ BatchedOff
     \/ part = "batched" /\ BR!Init /\ PipeOff /\ IpcOff /\ StreamOff /\ LoopOff /\ GenOff /\ SchedOff /\ RoutesOff

MCNext ==
  \/ part = "heartbeat" /\ Next /\ UNCHANGED <<part, pipeVars, ipcVars, streamVars, loopVars, genVars, schedVars, routesVars, batchedVars>>
  \/ part = "calls" /\ PC!Next
     /\ UNCHANGED <<part, vars, ipcVars, streamVars, loopVars, genVars, schedVars, routesVars, batchedVars>>
  \/ part = "faults" /\ PF!Next
     /\ UNCHANGED <<part, vars, ipcVars, streamVars, loopVars, genVars, schedVars, routesVars, batchedVars>>
  \/ part = "ipc" /\ IC!Next
     /\ UNCHANGED <<part, vars, pipeVars, streamVars, loopVars, genVars, schedVars, routesVars, batchedVars>>
  \/ part = "stream" /\ FS!Next
     /\ UNCHANGED <<part, vars, pipeVars, ipcVars, loopVars, genVars, schedVars, routesVars, batchedVars>>
  \/ part = "loop" /\ DL!Next
     /\ UNCHANGED <<part, vars, pipeVars, ipcVars, streamVars, genVars, schedVars, routesVars, batchedVars>>
  \/ part = "generate" /\ DG!Next
     /\ UNCHANGED <<part, vars, pipeVars, ipcVars, streamVars, loopVars, schedVars, routesVars, batchedVars>>
  \/ part = "scheduler" /\ SL!Next
     /\ UNCHANGED <<part, vars, pipeVars, ipcVars, streamVars, loopVars, genVars, routesVars, batchedVars>>
  \/ part = "routes" /\ GR!Next
     /\ UNCHANGED <<part, vars, pipeVars, ipcVars, streamVars, loopVars, genVars, schedVars, batchedVars>>
  \/ part = "batched" /\ BR!Next
     /\ UNCHANGED <<part, vars, pipeVars, ipcVars, streamVars, loopVars, genVars, schedVars, routesVars>>
  \/ part \in {"ipc", "stream", "routes", "batched"} /\ UNCHANGED mcVars

(***************************************************************************)
(* The fairness of the modules, for the part that runs.                    *)
(***************************************************************************)
HeartbeatFair ==
  /\ WF_vars(part = "heartbeat" /\ FirstRound) /\ WF_vars(part = "heartbeat" /\ HeartbeatRound)
  /\ \A w \in Worker : WF_vars(part = "heartbeat" /\ RouterAck(w))
PipelineFair ==
  /\ WF_pipeVars(\/ part = "calls" /\ PC!CallStep
                 \/ part = "faults" /\ PF!CallStep)
  /\ \A w \in 1 .. 2 : WF_pipeVars(\/ part = "calls" /\ PC!WorkerStep(w)
                                   \/ part = "faults" /\ PF!WorkerStep(w))
IpcFair ==
  /\ WF_ipcVars(part = "ipc" /\ IC!Accept) /\ WF_ipcVars(part = "ipc" /\ IC!NextConnection)
  /\ \A c \in Askers :
       /\ WF_ipcVars(part = "ipc" /\ IC!Disconnect(c))
       /\ WF_ipcVars(part = "ipc" /\ (IC!Answer(c) \/ IC!Stops(c)))
       /\ \A t \in {"t1", "t2"} : /\ WF_ipcVars(part = "ipc" /\ IC!Read(c, t))
                                  /\ WF_ipcVars(part = "ipc" /\ IC!Return(c, t))
                                  /\ WF_ipcVars(part = "ipc" /\ IC!ReadFails(c, t))
StreamFair ==
  WF_streamVars(part = "stream" /\ FS!WriteAll) /\ WF_streamVars(part = "stream" /\ FS!Recv)
LoopsFair ==
  /\ WF_loopVars(part = "loop" /\ DL!LoopStep) /\ WF_loopVars(part = "loop" /\ DL!Bridge)
  /\ SF_loopVars(part = "loop" /\ DL!Heartbeat /\ stat' = DL!Free)
  /\ WF_schedVars(part = "scheduler" /\ (SL!Loop \/ SL!ForwardFails \/ SL!ForwardPanics))
RequestsFair ==
  /\ WF_genVars(part = "generate" /\ DG!Serve(1))
  /\ \A c \in Askers : /\ SF_genVars(part = "generate" /\ DG!Step(c))
                       /\ WF_routesVars(part = "routes" /\ GR!Generation(c))
                       /\ WF_routesVars(part = "routes" /\ GR!Handler(c))
                       /\ WF_batchedVars(part = "batched" /\ BR!Handler(c))
                       /\ WF_batchedVars(part = "batched" /\ BR!Serve(c))

MCSpec == /\ MCInit /\ [][MCNext]_mcVars
          /\ HeartbeatFair /\ PipelineFair /\ IpcFair /\ StreamFair /\ LoopsFair /\ RequestsFair

-----------------------------------------------------------------------------
\* A call of the pipeline only ever takes answers to its own request, although
\* answers carry nothing that would tell them apart (recv_skipping_heartbeat_acks).
AnswersOwn == part = "calls" => PC!AnswersOwn

\* Between calls every worker holds caches of exactly the sequences the loop
\* runs and the pipeline knows (allocated_seqs against the worker's handles).
CachesAgree == part = "calls" => PC!CachesAgree

\* However a batch ends, no surviving worker keeps a cache of it: one that
\* failed was freed by free_cache_best_effort, one of a pipeline that lost a
\* worker by abort_all_sequences.
AbortedFreed == part = "faults" => PF!AbortedFreed

\* The response a thread takes from the shared connection is the one to its own
\* call: seq_id in the response is not compared.
TakesItsOwn == part = "ipc" => IC!TakesItsOwn



(***************************************************************************)
(* Requests, and how each ends.  Askers are interchangeable in the modules *)
(* that have them, so one of them stands for all.                          *)
(***************************************************************************)
Asker == "a1"

Asked ==
  \/ part = "calls" /\ PC!Calling
  \/ part = "faults" /\ PF!Calling
  \/ part = "ipc" /\ IC!Waiting(Asker, "t1")
  \/ part = "stream" /\ FS!Undelivered
  \/ part = "loop" /\ DL!Asked(Asker)
  \/ part = "generate" /\ DG!Asked(Asker)
  \/ part = "scheduler" /\ Asker \in SL!Sent
  \/ part = "routes" /\ handler[Asker] # "none"
  \/ part = "batched"
Answered ==
  \/ part = "calls" /\ ~PC!Calling
  \/ part = "faults" /\ ~PF!Calling
  \/ part = "ipc" /\ ~IC!Waiting(Asker, "t1")
  \/ part = "stream" /\ ~FS!Undelivered
  \/ part = "loop" /\ DL!Answered(Asker)
  \/ part = "generate" /\ DG!Answered(Asker)
  \/ part = "scheduler" /\ SL!Served(Asker)
  \/ part = "routes" /\ GR!Ended(Asker)
  \/ part = "batched" /\ BR!Ended(Asker)


Ending(w) == \/ part = "heartbeat" /\ ~alive[w]
             \/ part = "scheduler" /\ ~s_alive
Noticed(w) == \/ part = "heartbeat" /\ workers[w].status # "Ready"
              \/ part = "scheduler" /\ SL!LoopEnded

\* Ends are noticed: a worker that died does not stay Ready (heartbeat_round), and
\* once the last handle is dropped the scheduler loop returns, unless a panic
\* poisoned it or it has only work it never runs.
EndsAreNoticed == \A w \in Worker : Ending(w) ~> Noticed(w)
=============================================================================
