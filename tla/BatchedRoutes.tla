--------------------------- MODULE BatchedRoutes ---------------------------
(***************************************************************************)
(* The HTTP handlers of the batched server.  A handler submits its request *)
(* to the scheduler loop, counts it as active and reads the events that    *)
(* the loop sends: tokens, then Finished or Error, or the end of the       *)
(* channel when the loop is gone.  The metrics and the request log of the  *)
(* dashboard are told of the end, one lock after the other.  A client may  *)
(* leave: its stream is dropped where it waits or before it is polled, its *)
(* handler where it waits.                                                 *)
(***************************************************************************)
EXTENDS Integers, Sequences, FiniteSets

CONSTANTS Clients,     \* each makes one request
          Kinds,       \* a subset of {"stream", "whole"}
          MaxTokens,   \* set to choose max_tokens from
          Faults,      \* passes and samples fail, the loop's task panics
          Leaving      \* clients may leave

BatchedRoutesAssumption ==
  /\ Kinds \subseteq {"stream", "whole"} /\ MaxTokens \subseteq Nat \ {0}
  /\ {Faults, Leaving} \subseteq BOOLEAN

VARIABLES req,        \* client -> kind, max_tokens
          at,         \* client -> where its handler or stream is
          sched,      \* client -> where its request is in the loop
          generated,  \* client -> generated_tokens.len()
          events,     \* client -> all the events sent to it
          taken,      \* client -> how many of them its handler has read
          answer,     \* client -> finish reason and number of tokens it was told
          active,     \* active_requests
          log,        \* request_log, newest first: client and status
          loop        \* "up", or "down" once the loop's task has panicked

vars == <<req, at, sched, generated, events, taken, answer, active, log, loop>>
httpVars == <<req, at, taken, answer, active, log>>
loopVars == <<sched, generated, events, loop>>

NoAnswer == [reason |-> "none", usage |-> 0]

Init ==
  /\ req \in [Clients -> [kind : Kinds, max : MaxTokens]]
  /\ at = [c \in Clients |-> "none"] /\ sched = [c \in Clients |-> "none"]
  /\ generated = [c \in Clients |-> 0] /\ events = [c \in Clients |-> <<>>]
  /\ taken = [c \in Clients |-> 0] /\ answer = [c \in Clients |-> NoAnswer]
  /\ active = 0 /\ log = <<>> /\ loop = "up"

Tokens(c) == Cardinality({i \in 1..Len(events[c]) : events[c][i] = "token"})
Read(c) == Cardinality({i \in 1..taken[c] : events[c][i] = "token"})

(***************************************************************************)
(* Handlers.                                                               *)
(***************************************************************************)
\* submit, then request_started.  A stream is built and returned; the handler
\* of a whole answer goes on to read.
Submit(c) ==
  /\ at[c] = "none" /\ loop = "up"
  /\ sched' = [sched EXCEPT ![c] = "queued"]
  /\ active' = active + 1
  /\ at' = [at EXCEPT ![c] = IF req[c].kind = "stream" THEN "response" ELSE "reading"]
  /\ UNCHANGED <<req, generated, events, taken, answer, log, loop>>

\* The loop has dropped its end of the command channel: 500, and no metrics.
SubmitRefused(c) ==
  /\ at[c] = "none" /\ loop = "down"
  /\ at' = [at EXCEPT ![c] = "refused"]
  /\ UNCHANGED <<req, taken, answer, active, log, loopVars>>

\* The first poll of a stream makes its MetricsGuard.
Poll(c) ==
  /\ at[c] = "response"
  /\ at' = [at EXCEPT ![c] = "reading"]
  /\ UNCHANGED <<req, taken, answer, active, log, loopVars>>

ReadToken(c) ==
  /\ at[c] = "reading" /\ taken[c] < Len(events[c]) /\ events[c][taken[c] + 1] = "token"
  /\ taken' = [taken EXCEPT ![c] = @ + 1]
  /\ UNCHANGED <<req, at, answer, active, log, loopVars>>

\* completion_tokens: a stream repeats the number the scheduler sends, a whole
\* answer counts the tokens it has collected.
Usage(c, event) == IF req[c].kind = "stream" /\ event # "error" THEN generated[c] ELSE Read(c)

\* Finished or Error: the last thing the handler reads.
ReadEnd(c) ==
  /\ at[c] = "reading" /\ taken[c] < Len(events[c]) /\ events[c][taken[c] + 1] # "token"
  /\ taken' = [taken EXCEPT ![c] = @ + 1]
  /\ LET event == events[c][taken[c] + 1]
     IN  answer' = [answer EXCEPT ![c] = [reason |-> event, usage |-> Usage(c, event)]]
  /\ at' = [at EXCEPT ![c] = "told"]
  /\ UNCHANGED <<req, active, log, loopVars>>

ClosedWhenEmpty(c) == TRUE


\* recv returns None: everything is read and the sender is dropped, with its
\* sequence or with the whole loop.
Closed(c) == loop = "down" \/ sched[c] = "over"

\* The channel ends without Finished: the reason stays "length".
ReadClosed(c) ==
  /\ at[c] = "reading" /\ taken[c] = Len(events[c]) /\ Closed(c)
  /\ answer' = [answer EXCEPT ![c] = [reason |-> "length", usage |-> Read(c)]]
  /\ at' = [at EXCEPT ![c] = "told"]
  /\ UNCHANGED <<req, taken, active, log, loopVars>>

Status(c) == IF answer[c].reason = "error" THEN "error" ELSE "completed"

\* record_completion: active_requests falls, not below zero.
Finished == IF active > 0 THEN active - 1 ELSE 0

PushedFirst(c) ==
  /\ at[c] = "told"
  /\ log' = <<[client |-> c, status |-> Status(c)]>> \o log
  /\ at' = [at EXCEPT ![c] = "recorded"]
  /\ UNCHANGED <<req, taken, answer, active, loopVars>>

\* The metrics are told under their lock.
Record(c) ==
  /\ at[c] = "told"
  /\ active' = Finished
  /\ at' = [at EXCEPT ![c] = "recorded"]
  /\ UNCHANGED <<req, taken, answer, log, loopVars>>

\* The log is told under its lock, and the guard of a stream is disarmed.
PushLog(c) ==
  /\ at[c] = "recorded"
  /\ log' = <<[client |-> c, status |-> Status(c)]>> \o log
  /\ at' = [at EXCEPT ![c] = "done"]
  /\ UNCHANGED <<req, taken, answer, active, loopVars>>

LeaveArmed(c) ==
  /\ Leaving /\ req[c].kind = "stream" /\ at[c] \in {"reading", "told", "done"}
  /\ active' = Finished /\ at' = [at EXCEPT ![c] = "dropped"]
  /\ UNCHANGED <<req, taken, answer, log, loopVars>>

\* A stream is dropped at an await or a yield: its guard counts it off.
LeaveStream(c) ==
  /\ Leaving /\ req[c].kind = "stream" /\ at[c] \in {"reading", "told"}
  /\ active' = Finished /\ at' = [at EXCEPT ![c] = "dropped"]
  /\ UNCHANGED <<req, taken, answer, log, loopVars>>

\* A stream that was never polled has no guard yet.
LeaveResponse(c) ==
  /\ Leaving /\ at[c] = "response"
  /\ at' = [at EXCEPT ![c] = "dropped"]
  /\ UNCHANGED <<req, taken, answer, active, log, loopVars>>

\* The handler of a whole answer is dropped where it waits for an event.
LeaveHandler(c) ==
  /\ Leaving /\ req[c].kind = "whole" /\ at[c] = "reading"
  /\ at' = [at EXCEPT ![c] = "dropped"]
  /\ UNCHANGED <<req, taken, answer, active, log, loopVars>>

(***************************************************************************)
(* The scheduler loop, as each request sees it.                            *)
(***************************************************************************)
Send(c, e) == events' = [events EXCEPT ![c] = Append(@, e)]

\* schedule admits the request, or refuses it with an Error.
Admit(c) ==
  /\ loop = "up" /\ sched[c] = "queued"
  /\ sched' = [sched EXCEPT ![c] = "active"]
  /\ UNCHANGED <<generated, events, loop, httpVars>>

RefuseAdmission(c) ==
  /\ Faults /\ loop = "up" /\ sched[c] = "queued"
  /\ Send(c, "error") /\ sched' = [sched EXCEPT ![c] = "over"]
  /\ UNCHANGED <<generated, loop, httpVars>>

\* A token is sampled; a stop token counts but is not sent.
Sample(c, stop) ==
  /\ loop = "up" /\ sched[c] = "active"
  /\ generated' = [generated EXCEPT ![c] = @ + 1]
  /\ IF stop THEN UNCHANGED events ELSE Send(c, "token")
  /\ sched' = [sched EXCEPT ![c] = IF stop THEN "stopped" ELSE "sampled"]
  /\ UNCHANGED <<loop, httpVars>>

\* Sampling fails: an Error, and max_tokens becomes 0 for the cleanup.
SampleFails(c) ==
  /\ Faults /\ loop = "up" /\ sched[c] = "active"
  /\ Send(c, "error") /\ sched' = [sched EXCEPT ![c] = "failed"]
  /\ UNCHANGED <<generated, loop, httpVars>>

ForwardFails(c) ==
  /\ Faults /\ loop = "up" /\ sched[c] = "active"
  /\ Send(c, "error") /\ sched' = [sched EXCEPT ![c] = "over"]
  /\ UNCHANGED <<generated, loop, httpVars>>

\* What cleanup_completed decides: length before stop, "none" to go on.
EndReason(c) ==
  IF sched[c] = "failed" \/ generated[c] >= req[c].max THEN "length"
  ELSE IF sched[c] = "stopped" THEN "stop" ELSE "none"

\* cleanup_completed: finished sequences are told and removed, those whose
\* client left are removed.
Cleanup(c) ==
  /\ loop = "up" /\ sched[c] \in {"sampled", "stopped", "failed"}
  /\ \/ /\ EndReason(c) # "none"
        /\ Send(c, EndReason(c)) /\ sched' = [sched EXCEPT ![c] = "over"]
     \/ /\ EndReason(c) = "none"
        /\ sched' = [sched EXCEPT ![c] = IF at[c] = "dropped" THEN "over" ELSE "active"]
        /\ UNCHANGED events
  /\ UNCHANGED <<generated, loop, httpVars>>

\* A panic under the mutex of the cache poisons it: the loop's next lock panics
\* and all senders are dropped.
LoopDies ==
  /\ Faults /\ loop = "up" /\ loop' = "down"
  /\ UNCHANGED <<sched, generated, events, httpVars>>

Handler(c) ==
  Submit(c) \/ SubmitRefused(c) \/ Poll(c) \/ ReadToken(c) \/ ReadEnd(c) \/ ReadClosed(c)
    \/ Record(c) \/ PushLog(c)
Departs(c) == LeaveStream(c) \/ LeaveResponse(c) \/ LeaveHandler(c)
Serve(c) ==
  \/ Admit(c) \/ RefuseAdmission(c) \/ (\E stop \in BOOLEAN : Sample(c, stop))
  \/ SampleFails(c) \/ ForwardFails(c) \/ Cleanup(c)

Next == (\E c \in Clients : Handler(c) \/ Departs(c) \/ Serve(c)) \/ LoopDies

Spec == Init /\ [][Next]_vars

\* Handlers and streams run when they can; the loop serves every request again
\* and again.  Nobody has to leave and nothing has to fail.
FairSpec == Spec /\ \A c \in Clients : WF_vars(Handler(c)) /\ WF_vars(Serve(c))

(***************************************************************************)
(* Properties.                                                             *)
(***************************************************************************)
Serving == {c \in Clients : at[c] \in {"response", "reading", "told"}}
Started == {c \in Clients : at[c] \notin {"none", "refused"}}

\* No request is counted off twice: the counter covers every request that is
\* being served, whatever other streams were dropped at their last moment.
CounterCovers == active >= Cardinality(Serving)

\* The dashboard never shows a request as active and in its log: the counter
\* and the log together never exceed the requests that were started.
LoggedIsInactive == active + Len(log) <= Cardinality(Started)

\* While the loop lives an answer carries the reason the scheduler gave first,
\* and every sampled token but a stop token was read before it.
AnswersWhole ==
  \A c \in Clients : loop = "up" /\ at[c] \in {"told", "recorded", "done"} =>
    /\ taken[c] > 0 /\ answer[c].reason = events[c][taken[c]]
    /\ Read(c) = Tokens(c) /\ generated[c] - Read(c) \in {0, 1}
    /\ (answer[c].reason = "length" => generated[c] = req[c].max)

Ended(c) == at[c] \in {"refused", "done", "dropped"}

\* Every request that is made comes to an end, with a dead loop too.
RequestsEnd == \A c \in Clients : <>Ended(c)

\* Once no request is being served none is active.  The counter's doc comment:
\* incremented on start, decremented on finish.
CountedOff == (\A c \in Clients : at[c] \in {"none", "refused", "done", "dropped"}) => active = 0

\* The number of tokens a finished stream reports is the number it sent, as the
\* handlers' tests have it.
UsageCounts ==
  \A c \in Clients : answer[c].reason \in {"stop", "length"} => answer[c].usage = Read(c)
=============================================================================
