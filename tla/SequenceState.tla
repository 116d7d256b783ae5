---------------------------- MODULE SequenceState ----------------------------
(***************************************************************************)
(* SequenceStateManager (state.rs): the table of sequences by id, and what *)
(* its operations do to it.  An operation that the status does not allow   *)
(* returns an error and leaves the table alone.                            *)
(***************************************************************************)
EXTENDS Integers, FiniteSets, TLC

VARIABLES seqs,    \* sequences, by seq_id
          nextId   \* next_id

managerVars == <<seqs, nextId>>

SequenceStatus == {"Prefilling", "Decoding", "Complete", "Error"}
Created(prompt, max) ==
  [status |-> "Prefilling", pos |-> prompt, prompt |-> prompt, max |-> max, generated |-> 0]

ManagerInit == seqs = <<>> /\ nextId = 1

Is(id, statuses) == id \in DOMAIN seqs /\ seqs[id].status \in statuses

Create(prompt, max) ==
  /\ seqs' = seqs @@ (nextId :> Created(prompt, max))
  /\ nextId' = nextId + 1

SetStatus(id, from, to) ==
  /\ seqs' = IF Is(id, from) THEN [seqs EXCEPT ![id].status = to] ELSE seqs
  /\ UNCHANGED nextId
BeginDecoding(id) == SetStatus(id, {"Prefilling"}, "Decoding")
Complete(id) == SetStatus(id, {"Decoding"}, "Complete")
MarkError(id) == SetStatus(id, {"Prefilling", "Decoding"}, "Error")

\* variant: the position is advanced whatever the status
RecordTokenAlways(id) ==
  /\ seqs' = IF Is(id, {"Decoding"})
             THEN [seqs EXCEPT ![id].generated = @ + 1, ![id].pos = @ + 1]
             ELSE [seqs EXCEPT ![id].pos = @ + 1]
  /\ UNCHANGED nextId
RecordToken(id) ==
  /\ seqs' = IF Is(id, {"Decoding"})
             THEN [seqs EXCEPT ![id].generated = @ + 1, ![id].pos = @ + 1] ELSE seqs
  /\ UNCHANGED nextId

RemoveSequence(id) == seqs' = [k \in DOMAIN seqs \ {id} |-> seqs[k]] /\ UNCHANGED nextId

IsAtLimit(id) == seqs[id].generated >= seqs[id].max
ActiveSequences == {id \in DOMAIN seqs : Is(id, {"Prefilling", "Decoding"})}

-----------------------------------------------------------------------------
\* A caller of any operation on any sequence.
CONSTANTS MaxIds, MaxTokens   \* bounds: sequences created, tokens recorded

ManagerNext ==
  \/ nextId <= MaxIds /\ \E p, t \in 1 .. MaxTokens : Create(p, t)
  \/ \E id \in DOMAIN seqs :
       \/ BeginDecoding(id) \/ Complete(id) \/ MarkError(id) \/ RemoveSequence(id)
       \/ seqs[id].generated < MaxTokens /\ RecordToken(id)

ManagerSpec == ManagerInit /\ [][ManagerNext]_managerVars

\* The position of a sequence is its prompt and what was generated, whatever
\* order of calls: a refused call has no effect.
PositionCounts == \A id \in DOMAIN seqs : seqs[id].pos = seqs[id].prompt + seqs[id].generated

\* An id is given to one sequence only: the table never takes up one that was
\* given out before, and a sequence only moves Prefilling, Decoding, Complete
\* or from either of the first two to Error.
LifeStep ==
  /\ \A id \in DOMAIN seqs' \ DOMAIN seqs : id = nextId /\ nextId' > id
  /\ nextId' >= nextId
  /\ \A id \in DOMAIN seqs' \cap DOMAIN seqs :
       LET a == seqs[id].status  b == seqs'[id].status
       IN \/ a = b
          \/ <<a, b>> \in {<<"Prefilling", "Decoding">>, <<"Decoding", "Complete">>,
                           <<"Prefilling", "Error">>, <<"Decoding", "Error">>}
LifeCycle == [][LifeStep]_managerVars
=============================================================================
