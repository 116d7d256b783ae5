-------------------------- MODULE GenerationRoutes --------------------------
(***************************************************************************)
(* The server without batching: every request generates on its own, under  *)
(* the mutex of the cache.  A streaming request generates on a blocking    *)
(* thread and its HTTP stream reads a token channel and then a result      *)
(* channel; other requests generate inside the handler.  A client may      *)
(* leave: its stream is dropped at an await or a yield, or before it is    *)
(* first polled, and guards inside the stream cancel the generation and    *)
(* correct the counter of active requests.                                 *)
(***************************************************************************)
EXTENDS Integers, Sequences, FiniteSets

CONSTANTS Clients,      \* each makes one request
          Kinds,        \* a subset of {"stream", "whole"}
          PromptLens, MaxTokens,  \* sets to choose prompt_len and max_tokens from
          MaxSeqLen,
          Faults,       \* passes fail or panic
          Leaving       \* clients may leave

ASSUME RoutesAssumption ==
  /\ IsFiniteSet(Clients) /\ Clients \cap {"none", "poisoned"} = {}
  /\ Kinds \subseteq {"stream", "whole"}
  /\ PromptLens \subseteq Nat /\ MaxTokens \subseteq Nat \ {0}
  /\ MaxSeqLen \in Nat \ {0} /\ {Faults, Leaving} \subseteq BOOLEAN

VARIABLES req,       \* client -> kind, prompt length, max_tokens
          handler,   \* client -> where its handler or stream is
          gen,       \* client -> where its generation is
          lock,      \* who holds the mutex of the cache, "none" or "poisoned"
          held,      \* clients whose generation has a cache handle
          cancel,    \* clients whose flag is set
          sampled,   \* client -> tokens sent to the channel
          taken,     \* client -> tokens the handler has taken from it
          result,    \* client -> what is in the result channel
          seen,      \* client -> the last event its client got
          active,    \* active_requests
          after      \* client -> passes begun since it left, up to 2

vars == <<req, handler, gen, lock, held, cancel, sampled, taken, result, seen, active, after>>
genVars == <<gen, lock, held, sampled, result>>
httpVars == <<req, handler, cancel, taken, seen, active>>

Init ==
  /\ req \in [Clients -> [kind : Kinds, prompt : PromptLens, max : MaxTokens]]
  /\ handler = [c \in Clients |-> "none"] /\ gen = [c \in Clients |-> "none"]
  /\ lock = "none" /\ held = {} /\ cancel = {}
  /\ sampled = [c \in Clients |-> 0] /\ taken = [c \in Clients |-> 0]
  /\ result = [c \in Clients |-> "none"] /\ seen = [c \in Clients |-> "none"]
  /\ active = 0 /\ after = [c \in Clients |-> 0]

Left(c) == handler[c] \in {"dropped", "unpolled drop", "absent", "collects absent", "lost"}

(***************************************************************************)
(* Handlers.                                                               *)
(***************************************************************************)
\* A valid request: the counter goes up, a stream and its generation exist, or
\* the handler begins to generate itself.
Start(c) ==
  /\ handler[c] = "none"
  /\ active' = active + 1
  /\ handler' = [handler EXCEPT ![c] = IF req[c].kind = "stream" THEN "response" ELSE "generating"]
  /\ gen' = [gen EXCEPT ![c] = "waiting"]
  /\ UNCHANGED <<req, lock, held, cancel, sampled, taken, result, seen, after>>

\* record_completion: active_requests falls but not below zero.
Finished == IF active > 0 THEN active - 1 ELSE 0

\* The first poll makes the guards.
Poll(c) ==
  /\ handler[c] = "response"
  /\ handler' = [handler EXCEPT ![c] = "streaming"]
  /\ UNCHANGED <<req, cancel, taken, seen, active, after, genVars>>

ClosedWhenEmpty(c) == gen[c] # "waiting"

\* The channel is closed when the generation's thread has ended.
Closed(c) == gen[c] \in {"done", "panicked"}

StreamToken(c) ==
  /\ handler[c] = "streaming" /\ taken[c] < sampled[c]
  /\ taken' = [taken EXCEPT ![c] = @ + 1] /\ seen' = [seen EXCEPT ![c] = "token"]
  /\ UNCHANGED <<req, handler, cancel, active, after, genVars>>

\* The last chunk: what the generation said, or an error.
Reason(c) == IF result[c] \in {"stop", "length"} THEN result[c] ELSE "error"

StreamFinal(c) ==
  /\ handler[c] = "streaming" /\ taken[c] = sampled[c] /\ Closed(c)
  /\ seen' = [seen EXCEPT ![c] = Reason(c)]
  /\ handler' = [handler EXCEPT ![c] = "final"]
  /\ UNCHANGED <<req, cancel, taken, active, after, genVars>>

StreamDoneArmed(c) ==
  /\ handler[c] = "final"
  /\ active' = IF active > 1 THEN active - 2 ELSE 0
  /\ handler' = [handler EXCEPT ![c] = "done"]
  /\ UNCHANGED <<req, cancel, taken, seen, after, genVars>>

\* Metrics, the guard disarmed, and [DONE]: no await in between.
StreamDone(c) ==
  /\ handler[c] = "final"
  /\ active' = Finished
  /\ handler' = [handler EXCEPT ![c] = "done"]
  /\ UNCHANGED <<req, cancel, taken, seen, after, genVars>>

\* The client leaves during the stream: both guards run.
DropStream(c) ==
  /\ Leaving /\ handler[c] \in {"streaming", "final"}
  /\ cancel' = cancel \cup {c} /\ active' = Finished
  /\ handler' = [handler EXCEPT ![c] = "dropped"]
  /\ UNCHANGED <<req, taken, seen, after, genVars>>

\* It leaves before the stream is polled: there are no guards yet.
DropResponse(c) ==
  /\ Leaving /\ handler[c] = "response"
  /\ handler' = [handler EXCEPT ![c] = "unpolled drop"]
  /\ UNCHANGED <<req, cancel, taken, seen, active, after, genVars>>

\* It leaves while the handler generates: nothing notices, there is no await.
LeaveHandler(c) ==
  /\ Leaving /\ handler[c] = "generating"
  /\ handler' = [handler EXCEPT ![c] = "absent"]
  /\ UNCHANGED <<req, cancel, taken, seen, active, after, genVars>>

\* The handler collects its tokens and answers.
Collect(c) ==
  /\ handler[c] \in {"generating", "absent"} /\ gen[c] = "done"
  /\ handler' = [handler EXCEPT ![c] = IF @ = "absent" THEN "collects absent" ELSE "collecting"]
  /\ UNCHANGED <<req, cancel, taken, seen, active, after, genVars>>

Answer(c) ==
  /\ handler[c] \in {"collecting", "collects absent"}
  /\ taken' = [taken EXCEPT ![c] = sampled[c]]
  /\ seen' = [seen EXCEPT ![c] = IF handler[c] = "collecting" THEN Reason(c) ELSE @]
  /\ active' = Finished
  /\ handler' = [handler EXCEPT ![c] = IF @ = "collecting" THEN "done" ELSE "dropped"]
  /\ UNCHANGED <<req, cancel, after, genVars>>

\* recv().await gives way although tokens are there (the scheduler's budget), and
\* the connection of a client that left is torn down.
DropCollecting(c) ==
  /\ handler[c] = "collects absent" /\ result[c] # "error"
  /\ handler' = [handler EXCEPT ![c] = "lost"]
  /\ UNCHANGED <<req, cancel, taken, seen, active, after, genVars>>

\* A panic ends the handler it happens in.
HandlerPanics(c) ==
  /\ handler[c] \in {"generating", "absent"} /\ gen[c] = "panicked"
  /\ handler' = [handler EXCEPT ![c] = "lost"]
  /\ UNCHANGED <<req, cancel, taken, seen, active, after, genVars>>

(***************************************************************************)
(* generate_with_cancel, under the mutex.                                  *)
(***************************************************************************)
LockHealthy(c) ==
  /\ gen[c] = "waiting" /\ lock = "none"
  /\ lock' = c /\ gen' = [gen EXCEPT ![c] = "start"]
  /\ UNCHANGED <<held, sampled, result, after, httpVars>>

Lock(c) ==
  /\ gen[c] = "waiting" /\ lock \in {"none", "poisoned"}
  /\ IF lock = "none" THEN lock' = c /\ gen' = [gen EXCEPT ![c] = "start"]
                      ELSE gen' = [gen EXCEPT ![c] = "panicked"] /\ UNCHANGED lock
  /\ UNCHANGED <<held, sampled, result, after, httpVars>>

EndKeepsOnError(c, r) ==
  /\ held' = IF r = "error" THEN held ELSE held \ {c}
  /\ result' = [result EXCEPT ![c] = r]
  /\ lock' = "none" /\ gen' = [gen EXCEPT ![c] = "done"]

\* The thread ends: the handle is freed, the result sent, the mutex released.
End(c, r) ==
  /\ held' = held \ {c} /\ result' = [result EXCEPT ![c] = r]
  /\ lock' = "none" /\ gen' = [gen EXCEPT ![c] = "done"]

Rejected(c) == req[c].prompt = 0 \/ req[c].prompt > MaxSeqLen

Begin(c) ==
  /\ gen[c] = "start"
  /\ \/ /\ Rejected(c) \/ Faults   \* or cache.alloc() fails
        /\ result' = [result EXCEPT ![c] = "error"]
        /\ lock' = "none" /\ gen' = [gen EXCEPT ![c] = "done"] /\ UNCHANGED held
     \/ /\ ~Rejected(c)
        /\ held' = held \cup {c} /\ gen' = [gen EXCEPT ![c] = "prefill"]
        /\ UNCHANGED <<result, lock>>
  /\ UNCHANGED <<sampled, after, httpVars>>

Panics(c) ==
  /\ Faults /\ lock' = "poisoned" /\ gen' = [gen EXCEPT ![c] = "panicked"]
  /\ UNCHANGED <<held, sampled, result>>

CountPass(c) ==
  after' = [after EXCEPT ![c] = IF Left(c) /\ @ < 2 THEN @ + 1 ELSE @]

Sent(c, next) ==
  /\ sampled' = [sampled EXCEPT ![c] = @ + 1] /\ gen' = [gen EXCEPT ![c] = next]
  /\ UNCHANGED <<lock, held, result>>

Prefill(c) ==
  /\ gen[c] = "prefill"
  /\ CountPass(c)
  /\ \/ Sent(c, "loop")
     \/ End(c, "stop") /\ UNCHANGED sampled       \* a stop token at once
     \/ Faults /\ End(c, "error") /\ UNCHANGED sampled
     \/ Panics(c)
  /\ UNCHANGED httpVars

\* for _ in 1..max_tokens, with the flag looked at before each pass.
MoreByOne(c) == sampled[c] <= req[c].max
More(c) == sampled[c] < req[c].max

CheckedNever(c) ==
  /\ gen[c] = "loop"
  /\ IF More(c) THEN gen' = [gen EXCEPT ![c] = "pass"] /\ UNCHANGED <<lock, held, result>>
                ELSE End(c, "length")
  /\ UNCHANGED <<sampled, after, httpVars>>

Check(c) ==
  /\ gen[c] = "loop"
  /\ IF ~More(c) THEN End(c, "length")
     ELSE IF c \in cancel THEN End(c, "stop")
     ELSE gen' = [gen EXCEPT ![c] = "pass"] /\ UNCHANGED <<lock, held, result>>
  /\ UNCHANGED <<sampled, after, httpVars>>

\* The position of the pass is prompt + sampled - 1; the engine refuses one
\* behind the last.
Pass(c) ==
  /\ gen[c] = "pass"
  /\ CountPass(c)
  /\ IF req[c].prompt + sampled[c] - 1 >= MaxSeqLen
       THEN End(c, "error") /\ UNCHANGED sampled
       ELSE \/ Sent(c, "loop")
            \/ End(c, "stop") /\ UNCHANGED sampled
            \/ Faults /\ End(c, "error") /\ UNCHANGED sampled
            \/ Panics(c)
  /\ UNCHANGED httpVars

Generation(c) == Lock(c) \/ Begin(c) \/ Prefill(c) \/ Check(c) \/ Pass(c)
Handler(c) ==
  \/ Poll(c) \/ StreamToken(c) \/ StreamFinal(c) \/ StreamDone(c)
  \/ Collect(c) \/ Answer(c) \/ HandlerPanics(c)
Departs(c) == DropStream(c) \/ DropResponse(c) \/ LeaveHandler(c) \/ DropCollecting(c)

Next == \E c \in Clients : Start(c) \/ Generation(c) \/ Handler(c) \/ Departs(c)

Spec == Init /\ [][Next]_vars

\* Threads and tasks run; the mutex is not promised to be fair, but each client
\* asks once.
FairSpec == Spec /\ \A c \in Clients : WF_vars(Generation(c)) /\ WF_vars(Handler(c))

(***************************************************************************)
(* Properties.                                                             *)
(***************************************************************************)
InFlight ==
  {c \in Clients : handler[c] \in {"response", "streaming", "final", "generating", "absent",
                                   "collecting", "collects absent"}}
Uncounted == {c \in Clients : handler[c] \in {"unpolled drop", "lost"}}

\* Guards and handlers never take a request off the counter twice, whenever the
\* client leaves: what it shows is the requests in flight and those whose handler
\* or unpolled stream vanished.
CounterNeverTwice == active = Cardinality(InFlight) + Cardinality(Uncounted)

\* The handle of a request is back when the mutex is free: the next request finds
\* the whole pool, after errors and cancellations too.
PoolWholeWhenFree == lock = "none" => held = {}

\* A stream that was read to its end, and a whole answer, gave the client all
\* tokens and the reason the generation stopped for.
EndsHonestly ==
  \A c \in Clients : handler[c] = "done" =>
    /\ taken[c] = sampled[c] /\ seen[c] \in {"stop", "length", "error"}
    /\ gen[c] = "done" => seen[c] = result[c]
    /\ gen[c] = "panicked" => seen[c] = "error"

\* finish_reason "length" means all the tokens asked for, never one more.
LengthMeansAll ==
  \A c \in Clients : /\ sampled[c] <= req[c].max
                     /\ result[c] = "length" => sampled[c] = req[c].max

\* What a client is told at the end is true: all tokens, the reason they ended
\* with, and "length" only at max_tokens.
AnswersHonest == EndsHonestly /\ LengthMeansAll

\* A generation whose stream was dropped begins at most one more pass.
CancelStops == \A c \in cancel : after[c] <= 1

Ended(c) == Closed(c) /\ c \notin InFlight

\* Every request comes to an end, although one at a time has the cache, a panic
\* may poison its mutex and clients leave at any moment.
RequestsEnd == \A c \in Clients : handler[c] # "none" ~> Ended(c)

\* "Ensures active_requests is decremented even if the stream is dropped."
StreamsCountedOff ==
  active = Cardinality(InFlight) + Cardinality({c \in Clients : handler[c] = "lost"})

\* "cooperative cancellation on client disconnect": a generation does not go on
\* for a client that left.
DisconnectCancels == \A c \in Clients : Left(c) => after[c] <= 1
=============================================================================
