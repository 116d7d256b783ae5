----------------------------- MODULE Dashboard -----------------------------
(***************************************************************************)
(* The data the dashboard serves about requests: the bounded request log   *)
(* and the window of the throughput metric, each behind its own mutex.     *)
(* Requests complete on any thread while one reader pages through the log  *)
(* and another asks for snapshots.  Time is a clock of whole units.        *)
(***************************************************************************)
EXTENDS Integers, Sequences, SequencesExt

CONSTANTS Threads,        \* threads on which requests complete
          MaxRecords,     \* MAX_RECORDS
          MaxPerPage,     \* the 100 that per_page is clamped to
          Asked,          \* the page sizes a reader may ask for
          WindowLen,      \* window_secs
          TokenCounts,    \* set to choose completion_tokens from
          MaxCompleted, MaxClock   \* bounds

DashboardAssumption ==
  /\ {MaxRecords, MaxPerPage, WindowLen} \subseteq Nat \ {0}
  /\ Asked \subseteq Nat /\ TokenCounts \subseteq Nat /\ {MaxCompleted, MaxClock} \subseteq Nat

VARIABLES clock,
          pending,    \* thread -> the record between its two calls, 0 when none
          completed,  \* all completions so far: time and tokens, for the properties
          window,     \* token_window, oldest first: time and tokens
          shown,      \* the last snapshot: its time and the sum it took
          log,        \* request_log, newest first: numbers of records
          scan        \* the reader: page size, next page, records owed, records seen

vars == <<clock, pending, completed, window, shown, log, scan>>

NoScan == [size |-> 0, page |-> 0, owed |-> {}, seen |-> {}]

Init ==
  /\ clock = 0 /\ pending = [t \in Threads |-> 0] /\ completed = <<>>
  /\ window = <<>> /\ shown = [time |-> 0, sum |-> 0]
  /\ log = <<>> /\ scan = NoScan

SumOf(w) == FoldLeft(LAMBDA sum, entry : sum + entry.tokens, 0, w)

\* record_completion: the entry takes its time under the lock.
RecordCompletion(t) ==
  /\ pending[t] = 0 /\ Len(completed) < MaxCompleted
  /\ \E n \in TokenCounts :
       /\ window' = Append(window, [time |-> clock, tokens |-> n])
       /\ completed' = Append(completed, [time |-> clock, tokens |-> n])
  /\ pending' = [pending EXCEPT ![t] = Len(completed')]
  /\ UNCHANGED <<clock, shown, log, scan>>

PushedBack(record) == Append(IF Len(log) >= MaxRecords THEN Tail(log) ELSE log, record)

\* RequestLog::push: the oldest record makes room, the new one goes to the front.
Pushed(record) ==
  <<record>> \o (IF Len(log) >= MaxRecords THEN SubSeq(log, 1, Len(log) - 1) ELSE log)

Push(t) ==
  /\ pending[t] # 0
  /\ log' = Pushed(pending[t]) /\ pending' = [pending EXCEPT ![t] = 0]
  /\ UNCHANGED <<clock, completed, window, shown, scan>>

Tick == clock < MaxClock /\ clock' = clock + 1
        /\ UNCHANGED <<pending, completed, window, shown, log, scan>>

PruneOne(w) == IF w # <<>> /\ Head(w).time < clock - WindowLen THEN Tail(w) ELSE w

\* The front of the window is dropped while it is older than the cutoff.
RECURSIVE Prune(_)
Prune(w) == IF w # <<>> /\ Head(w).time < clock - WindowLen THEN Prune(Tail(w)) ELSE w

Snapshot ==
  /\ window' = Prune(window)
  /\ shown' = [time |-> clock, sum |-> SumOf(window')]
  /\ UNCHANGED <<clock, pending, completed, log, scan>>

PerPage(n) == IF n < 1 THEN 1 ELSE IF n > MaxPerPage THEN MaxPerPage ELSE n

\* RequestLog::page: page and per_page are clamped, then skip and take.
Page(page, n) ==
  LET first == IF page < 1 THEN 1 ELSE page
      start == (first - 1) * PerPage(n)
      end   == start + PerPage(n)
  IN  SubSeq(log, start + 1, IF end < Len(log) THEN end ELSE Len(log))

\* A reader asks for page 0 or 1 with some page size: it is owed what the log
\* holds now.
ScanBegin ==
  /\ scan.page = 0
  /\ \E n \in Asked, first \in {0, 1} :
       scan' = [size |-> n, page |-> 2, owed |-> ToSet(log), seen |-> ToSet(Page(first, n))]
  /\ UNCHANGED <<clock, pending, completed, window, shown, log>>

\* ... then for the next page, up to one that is empty.
ScanNext ==
  /\ scan.page > 1
  /\ LET page == Page(scan.page, scan.size)
     IN  scan' = IF page = <<>> THEN [scan EXCEPT !.page = 1]
                 ELSE [scan EXCEPT !.page = @ + 1, !.seen = @ \cup ToSet(page)]
  /\ UNCHANGED <<clock, pending, completed, window, shown, log>>

Next ==
  \/ \E t \in Threads : RecordCompletion(t) \/ Push(t)
  \/ Tick \/ Snapshot \/ ScanBegin \/ ScanNext

Spec == Init /\ [][Next]_vars

\* A reader that pages through the log to an empty page has seen every record
\* that was there when it began and is still there, whatever was pushed and
\* evicted meanwhile, and with page sizes outside the clamp too.
ScanMissesNothing == scan.page = 1 => scan.owed \cap ToSet(log) \subseteq scan.seen

\* A snapshot counts the tokens of exactly the completions inside the window,
\* although the window is only pruned from its front and only by snapshots.
WindowStep ==
  shown' # shown =>
    shown'.sum = SumOf(SelectSeq(completed, LAMBDA e : e.time >= clock - WindowLen))
WindowExact == [][WindowStep]_vars
=============================================================================
