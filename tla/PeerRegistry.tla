---------------------------- MODULE PeerRegistry ----------------------------
(***************************************************************************)
(* The coordinator's table of workers, as operators on its value: a        *)
(* function from the node ids it knows to entries.  `conn' tells one       *)
(* connection of a worker from the next (register replaces the writer and  *)
(* the reader); `layers' is the assignment, None until assign.  Modules    *)
(* that hold a registry keep its value in a variable.                      *)
(***************************************************************************)
EXTENDS Integers, FiniteSets, FiniteSetsExt, Sequences, SequencesExt

None == {}
WorkerStatus == {"Connected", "Ready", "Draining", "Pending", "Dead"}

Entry(conn) == [status |-> "Connected", layers |-> None, free |-> 0, conn |-> conn]

Known(reg, w) == w \in DOMAIN reg
Has(reg, w, status) == Known(reg, w) /\ reg[w].status = status

\* register: an entry that is not Dead is never replaced.
CanRegister(reg, w) == Known(reg, w) => reg[w].status = "Dead"
Register(reg, w, conn) ==
  [v \in DOMAIN reg \cup {w} |-> IF v = w THEN Entry(conn) ELSE reg[v]]

CanAssign(reg, w) == Known(reg, w) /\ reg[w].status # "Dead"
Assign(reg, w, layers) ==
  [reg EXCEPT ![w].layers = layers, ![w].status = "Ready"]

SetStatus(reg, S, status) ==
  [v \in DOMAIN reg |-> IF v \in S THEN [reg[v] EXCEPT !.status = status] ELSE reg[v]]

MarkDead(reg, S) == SetStatus(reg, S, "Dead")
MarkPending(reg, w) == SetStatus(reg, {w}, "Pending")
MarkDraining(reg, S) == SetStatus(reg, {w \in S : Has(reg, w, "Ready")}, "Draining")

\* `acks': the workers heard from, with the free blocks each reported.
RecordHeartbeats(reg, acks) ==
  [v \in DOMAIN reg |-> IF v \in DOMAIN acks THEN [reg[v] EXCEPT !.free = acks[v]]
                        ELSE reg[v]]

PendingWorkers(reg) == {w \in DOMAIN reg : reg[w].status = "Pending"}
AllCapabilities(reg) == {w \in DOMAIN reg : reg[w].status # "Dead"}
ActiveCount(reg) == Cardinality(AllCapabilities(reg))
ReaderHandles(reg) == {w \in DOMAIN reg : reg[w].status = "Ready" /\ reg[w].layers # None}

\* The bottleneck worker; 0 when no worker is ready.
MinFreeBlocks(reg) ==
  LET ready == ReaderHandles(reg)
  IN IF ready = {} THEN 0 ELSE Min({reg[w].free : w \in ready})
=============================================================================
