------------------------- MODULE DistributedGenerate -------------------------
(***************************************************************************)
(* The coordinator without --batched: completions_handler and distributed_ *)
(* generate, one task per request, over a shared pipeline.  A call of the  *)
(* pipeline keeps the registry locked, sends to a stage and waits for its  *)
(* answer; a task is dropped where it waits when its client goes away.     *)
(***************************************************************************)
EXTENDS SequenceState, Sequences, SequencesExt

CONSTANTS Client,
          Stages,      \* number of pipeline stages
          MaxPrompt,   \* bound: prompt tokens
          MaxGen,      \* bound: max_tokens
          MaxFails,    \* bound: failing passes and samples
          MaxOoms,     \* bound: workers out of memory
          MaxGone      \* bound: clients that go away

GenerateAssumption ==
  /\ IsFiniteSet(Client) /\ Stages \in Nat \ {0}
  /\ {MaxPrompt, MaxGen} \subseteq Nat \ {0} /\ {MaxFails, MaxOoms, MaxGone} \subseteq Nat

VARIABLES h,           \* the task of each request and its locals
          lock,        \* who holds the registry
          allocated,   \* allocated_seqs of the pipeline
          down, up,    \* what is unread on the connection of each stage
          rows,        \* rows a worker holds, by sequence
          fails, ooms, gone

vars == <<managerVars, h, lock, allocated, down, up, rows, fails, ooms, gone>>
Stage == 1 .. Stages
NoOne == "nobody"

Init ==
  /\ ManagerInit
  /\ h = [c \in Client |-> [at |-> "none", id |-> 0, prompt |-> 0, max |-> 0, gen |-> 0,
                            stage |-> 1, stray |-> FALSE]]
  /\ lock = NoOne /\ allocated = {}
  /\ down = [s \in Stage |-> <<>>] /\ up = [s \in Stage |-> <<>>]
  /\ rows = [s \in Stage |-> <<>>]
  /\ fails = 0 /\ ooms = 0 /\ gone = {}

Fail == fails < MaxFails /\ fails' = fails + 1
Msg(type, id, n, pos) == [type |-> type, id |-> id, n |-> n, pos |-> pos]
Tell(S, m) == down' = [s \in Stage |-> IF s \in S THEN Append(down[s], m) ELSE down[s]]

-----------------------------------------------------------------------------
(* The handler.                                                            *)
Request(c) ==
  /\ h[c].at = "none"
  /\ \E p \in 1 .. MaxPrompt, t \in 1 .. MaxGen :
       /\ Create(p, t)
       /\ h' = [h EXCEPT ![c] = [@ EXCEPT !.at = "alloc", !.id = nextId, !.prompt = p, !.max = t]]
  /\ UNCHANGED <<lock, allocated, down, up, rows, fails, ooms, gone>>

Locks(c, from, to) ==
  /\ h[c].at = from /\ lock = NoOne /\ lock' = c
  /\ h' = [h EXCEPT ![c].at = to, ![c].stage = 1]

\* alloc_cache: all stages are asked at once.
Alloc(c) ==
  /\ Locks(c, "alloc", "allocating")
  /\ Tell(Stage, Msg("Alloc", h[c].id, 0, 0))
  /\ UNCHANGED <<managerVars, allocated, up, rows, fails, ooms, gone>>

\* The next message of the stage this task waits for; `stray': it was the
\* answer to somebody else's call.
Answer(c) == Head(up[h[c].stage])
Takes(c) ==
  /\ up[h[c].stage] # <<>>
  /\ up' = [up EXCEPT ![h[c].stage] = Tail(@)]
Stray(c) == h[c].stray \/ Answer(c).id # h[c].id

\* The acks are collected; at the first refusal the stages that agreed are
\* told to free.
AllocAnswer(c) ==
  /\ h[c].at = "allocating" /\ Takes(c)
  /\ IF Answer(c).type # "AllocAck"
     THEN /\ h' = [h EXCEPT ![c].at = "free", ![c].stray = Stray(c)]
          /\ lock' = NoOne /\ Tell(1 .. (h[c].stage - 1), Msg("Free", h[c].id, 0, 0))
          /\ UNCHANGED allocated
     ELSE IF h[c].stage = Stages
     THEN /\ h' = [h EXCEPT ![c].at = "forward", ![c].stray = Stray(c)]
          /\ lock' = NoOne /\ allocated' = allocated \cup {h[c].id} /\ UNCHANGED down
     ELSE /\ h' = [h EXCEPT ![c].stage = @ + 1, ![c].stray = Stray(c)]
          /\ UNCHANGED <<lock, allocated, down>>
  /\ UNCHANGED <<managerVars, rows, fails, ooms, gone>>

\* variant: the position of a decode counts the token it is about to make
PassAhead(c) ==
  IF h[c].gen = 0 THEN Msg("Forward", h[c].id, h[c].prompt, 0)
  ELSE Msg("Forward", h[c].id, 1, h[c].prompt + h[c].gen)
\* The tokens of a pass and the position of the first: the prompt, or the
\* token sampled last.
Pass(c) ==
  IF h[c].gen = 0 THEN Msg("Forward", h[c].id, h[c].prompt, 0)
  ELSE Msg("Forward", h[c].id, 1, h[c].prompt + h[c].gen - 1)

\* variant: the registry is not kept locked for the answer
ForwardUnlocked(c) ==
  /\ h[c].at = "forward"
  /\ h' = [h EXCEPT ![c].at = "forwarding", ![c].stage = 1]
  /\ Tell({1}, Pass(c))
  /\ UNCHANGED <<managerVars, lock, allocated, up, rows, fails, ooms, gone>>
Forward(c) ==
  /\ Locks(c, "forward", "forwarding")
  /\ Tell({1}, Pass(c))
  /\ UNCHANGED <<managerVars, allocated, up, rows, fails, ooms, gone>>

\* Each stage in turn; after the last a token is sampled, unless sampling
\* fails.
ForwardAnswer(c) ==
  /\ h[c].at = "forwarding" /\ Takes(c)
  /\ IF Answer(c).type = "Result" /\ h[c].stage < Stages
     THEN /\ h' = [h EXCEPT ![c].stage = @ + 1, ![c].stray = Stray(c)]
          /\ Tell({h[c].stage + 1}, Pass(c))
          /\ UNCHANGED <<lock, fails>>
     ELSE /\ lock' = NoOne /\ UNCHANGED down
          /\ IF Answer(c).type # "Result"
             THEN h' = [h EXCEPT ![c].at = "free", ![c].stray = Stray(c)] /\ UNCHANGED fails
             ELSE \/ /\ h' = [h EXCEPT ![c].gen = @ + 1, ![c].stray = Stray(c),
                                       ![c].at = IF h[c].gen + 1 < h[c].max THEN "forward" ELSE "freeOk"]
                     /\ UNCHANGED fails
                  \/ h' = [h EXCEPT ![c].at = "freeOk", ![c].stray = Stray(c)]   \* a stop token
                     /\ UNCHANGED fails
                  \/ Fail /\ h' = [h EXCEPT ![c].at = "free", ![c].stray = Stray(c)]
  /\ UNCHANGED <<managerVars, allocated, rows, ooms, gone>>

\* variant: only a generation that succeeded frees its caches
FreeOnSuccess(c) ==
  /\ h[c].at \in {"free", "freeOk"} /\ lock = NoOne
  /\ IF h[c].id \in allocated /\ h[c].at = "freeOk"
     THEN allocated' = allocated \ {h[c].id} /\ Tell(Stage, Msg("Free", h[c].id, 0, 0))
     ELSE UNCHANGED <<allocated, down>>
  /\ h' = [h EXCEPT ![c].at = IF @ = "free" THEN "failed" ELSE "ok"]
  /\ UNCHANGED <<managerVars, lock, up, rows, fails, ooms, gone>>
\* free_cache: nobody waits for an answer.
Free(c) ==
  /\ h[c].at \in {"free", "freeOk"} /\ lock = NoOne
  /\ IF h[c].id \in allocated
     THEN allocated' = allocated \ {h[c].id} /\ Tell(Stage, Msg("Free", h[c].id, 0, 0))
     ELSE UNCHANGED <<allocated, down>>
  /\ h' = [h EXCEPT ![c].at = IF @ = "free" THEN "failed" ELSE "ok"]
  /\ UNCHANGED <<managerVars, lock, up, rows, fails, ooms, gone>>

\* complete, which is refused to a sequence that is not Decoding, or
\* mark_error; the entry is removed in any case.
Finish(c) ==
  /\ h[c].at \in {"ok", "failed"}
  /\ RemoveSequence(h[c].id)
  /\ h' = [h EXCEPT ![c].at = "answered"]
  /\ UNCHANGED <<lock, allocated, down, up, rows, fails, ooms, gone>>

\* variant: the lock is not given back
DroppedLocked(c) ==
  /\ h[c].at \notin {"none", "answered", "dropped"} /\ Cardinality(gone) < MaxGone
  /\ gone' = gone \cup {c}
  /\ h' = [h EXCEPT ![c].at = "dropped"]
  /\ UNCHANGED <<managerVars, lock, allocated, down, up, rows, fails, ooms>>
\* The client goes away: the task is dropped where it waits, its lock with it.
Dropped(c) ==
  /\ h[c].at \notin {"none", "answered", "dropped"} /\ Cardinality(gone) < MaxGone
  /\ gone' = gone \cup {c}
  /\ h' = [h EXCEPT ![c].at = "dropped"]
  /\ lock' = IF lock = c THEN NoOne ELSE lock
  /\ UNCHANGED <<managerVars, allocated, down, up, rows, fails, ooms>>

-----------------------------------------------------------------------------
(* A worker: one message after the other.                                  *)
Serve(s) ==
  /\ down[s] # <<>>
  /\ down' = [down EXCEPT ![s] = Tail(@)]
  /\ LET m == Head(down[s])
         reply(type) == up' = [up EXCEPT ![s] = Append(@, Msg(type, m.id, 0, 0))]
         has == m.id \in DOMAIN rows[s]
     IN \/ /\ m.type = "Alloc"
           /\ rows' = [rows EXCEPT ![s] = (m.id :> 0) @@ @] /\ reply("AllocAck")
           /\ UNCHANGED <<fails, ooms>>
        \/ /\ m.type = "Alloc" /\ ooms < MaxOoms /\ ooms' = ooms + 1
           /\ reply("Error") /\ UNCHANGED <<rows, fails>>
        \/ /\ m.type = "Forward" /\ has
           /\ rows' = [rows EXCEPT ![s][m.id] = @ + m.n] /\ reply("Result")
           /\ UNCHANGED <<fails, ooms>>
        \/ m.type = "Forward" /\ has /\ Fail /\ reply("Error") /\ UNCHANGED <<rows, ooms>>
        \/ m.type \in {"Forward", "Free"} /\ ~has /\ reply("Error") /\ UNCHANGED <<rows, fails, ooms>>
        \/ /\ m.type = "Free" /\ has
           /\ rows' = [rows EXCEPT ![s] = [k \in DOMAIN @ \ {m.id} |-> @[k]]]
           /\ UNCHANGED <<up, fails, ooms>>
  /\ UNCHANGED <<managerVars, h, lock, allocated, gone>>

Step(c) ==
  \/ Alloc(c) \/ AllocAnswer(c) \/ Forward(c) \/ ForwardAnswer(c) \/ Free(c) \/ Finish(c)
\* Nothing is on the way to a worker.
Quiet == (\A s \in Stage : down[s] = <<>>) /\ UNCHANGED vars
Next ==
  \/ \E c \in Client : Request(c) \/ Step(c) \/ Dropped(c)
  \/ \E s \in Stage : Serve(s)
  \/ Quiet

\* Tasks and workers run; the lock is a fair queue.
Spec == Init /\ [][Next]_vars
FairSpec ==
  /\ Spec /\ \A c \in Client : SF_vars(Step(c))
  /\ \A s \in Stage : WF_vars(Serve(s))

-----------------------------------------------------------------------------
\* Calls of concurrent requests never take each other's answers: the lock is
\* held from the send to the answer, and frees are not answered.
AnswersOwn == \A c \in Client : ~h[c].stray

\* A pass handed to a worker starts at the row the worker will append it to,
\* at every stage, after everything sent before.
PositionsFollowRows ==
  \A s \in Stage : down[s] # <<>> /\ Head(down[s]).type = "Forward" =>
    LET m == Head(down[s]) IN m.id \in DOMAIN rows[s] => rows[s][m.id] = m.pos

\* distributed_generate: "Always free cache on all workers".  Once a request
\* is over and the workers have read everything, they hold nothing of it, nor
\* does the pipeline or the table of sequences.
AlwaysFreed ==
  \A c \in Client : h[c].at \in {"answered", "dropped"} =>
    /\ h[c].id \notin allocated \cup DOMAIN seqs
    /\ \A s \in Stage : down[s] = <<>> => h[c].id \notin DOMAIN rows[s]

Asked(c) == h[c].at # "none"
Answered(c) == h[c].at \in {"answered", "dropped"}

\* Every request is answered.
EventuallyAnswered == \A c \in Client : Asked(c) ~> Answered(c)

\* state.rs: "Tracks the lifecycle of every active inference sequence across
\* the distributed pipeline: status, position, generated tokens".
StatusTracked ==
  \A c \in Client : h[c].at \in {"forward", "forwarding"} /\ h[c].gen > 0 =>
    seqs[h[c].id].status = "Decoding"
=============================================================================
