---------------------------- MODULE LayerSchedule ----------------------------
(***************************************************************************)
(* The layer scheduler (scheduler.rs): Auto with pruning, balancing and    *)
(* redistribution, EqualSplit and Manual, each loop iteration a step, and  *)
(* the check of DistributedPipeline::new on the result.                    *)
(*                                                                         *)
(* Times are whole numbers.  A layer count speed/total*num_layers is the   *)
(* nearest integer; an exact half may go either way in f32.                *)
(***************************************************************************)
EXTENDS Integers, Sequences, FiniteSets, SequencesExt, FiniteSetsExt

CONSTANTS MaxNodes,      \* bound: candidates
          Ms,            \* decode_ms_per_layer of a node, 0: implausible
          Mem,           \* gpu_memory_available of a node
          LayerCounts,   \* num_layers
          Hidden, KvDim, Intermediate, Vocab,   \* ModelConfig
          MaxSeqLen,
          Hops,          \* hop_latency_ms
          Modes

ScheduleAssumption ==
  /\ {MaxNodes, Hidden, KvDim, Intermediate, Vocab} \subseteq Nat \ {0} /\ MaxSeqLen \in Nat
  /\ Ms \subseteq Nat /\ Mem \subseteq Nat /\ LayerCounts \subseteq Nat \ {0} /\ Hops \subseteq Nat
  /\ Modes \subseteq {"Auto", "EqualSplit", "Manual"}

VARIABLES input,     \* mode, layers, hop, the nodes and manual assignments
          nodes,     \* candidates, in order
          counts,    \* layer_counts
          pc

vars == <<input, nodes, counts, pc>>

-----------------------------------------------------------------------------
(* Memory, in bytes of FP16 values.                                        *)
WeightMemoryPerLayer ==
  (2 * Hidden * Hidden + 2 * Hidden * KvDim + 3 * Hidden * Intermediate) * 2 + Hidden * 2 * 2
CacheMemoryPerLayer == MaxSeqLen * KvDim * 2 * 2
PerLayer == WeightMemoryPerLayer + CacheMemoryPerLayer
HeadOverhead == Vocab * Hidden * 2
TailOverhead == Hidden * 2 + Vocab * Hidden * 2

RoleOverhead(i, n) ==
  (IF i = 1 THEN HeadOverhead ELSE 0) + (IF i = n THEN TailOverhead ELSE 0)
Usable(ns, i) == Max({0, ns[i].mem - RoleOverhead(i, Len(ns))})
MaxLayers(ns, i) == Usable(ns, i) \div PerLayer

SumOf(s) == FoldLeft(LAMBDA a, b : a + b, 0, s)
\* model_fits: over the sum of memory, not of whole layers.
ModelFits(ns, layers) ==
  SumOf([i \in DOMAIN ns |-> Usable(ns, i)]) >= layers * PerLayer
Capacity(ns) == SumOf([i \in DOMAIN ns |-> MaxLayers(ns, i)])

(* Balance by speed.                                                       *)
SpeedUnit(ns) == FoldLeft(LAMBDA a, nd : a * nd.ms, 1, ns)
Speed(ns, i) == SpeedUnit(ns) \div ns[i].ms
TotalSpeed(ns) == SumOf([i \in DOMAIN ns |-> Speed(ns, i)])
\* speed / total * num_layers, rounded with halves up, and whether it is a half.
Ideal(ns, i, layers) ==
  LET a == Speed(ns, i) * layers  b == TotalSpeed(ns) IN (2 * a + b) \div (2 * b)
IsHalf(ns, i, layers) ==
  LET a == Speed(ns, i) * layers  b == TotalSpeed(ns) IN (2 * a + b) % (2 * b) = 0

\* Layers per node, clamped to its memory: one choice per way halves are rounded.
Balanced(ns, layers) ==
  {[i \in DOMAIN ns |-> Min({Ideal(ns, i, layers) - (IF i \in down THEN 1 ELSE 0), MaxLayers(ns, i)})] :
     down \in SUBSET {i \in DOMAIN ns : IsHalf(ns, i, layers)}}

\* estimate_pipeline_latency.
Latency(ns, layers, hop) ==
  {Max({c[i] * ns[i].ms : i \in DOMAIN ns}) + (Len(ns) - 1) * hop : c \in Balanced(ns, layers)}

-----------------------------------------------------------------------------
Ranges(n, layers) == {r \in [1 .. n -> (0 .. layers) \X (0 .. layers)] : \A i \in 1 .. n : r[i][1] <= r[i][2]}

Init ==
  /\ \E mode \in Modes, layers \in LayerCounts, hop \in Hops, n \in 1 .. MaxNodes :
       \E ns \in [1 .. n -> [ms : Ms, mem : Mem]] :
         \E man \in IF mode = "Manual" THEN Ranges(n, layers) ELSE {<<>>} :
           /\ input = [mode |-> mode, layers |-> layers, hop |-> hop, nodes |-> ns, manual |-> man]
           /\ nodes = ns
  /\ counts = <<>> /\ pc = "start"

Goto(to) == pc' = to /\ UNCHANGED <<input, nodes, counts>>

Plausible == \A i \in DOMAIN nodes : nodes[i].ms > 0
Start ==
  /\ pc = "start"
  /\ Goto(IF ~Plausible THEN "failed" ELSE
          CASE input.mode = "Auto" -> "prune" [] input.mode = "EqualSplit" -> "equal"
            [] input.mode = "Manual" -> "manual")

\* The slowest node, the last of several.
Slowest == Max({i \in DOMAIN nodes : \A j \in DOMAIN nodes : nodes[j].ms <= nodes[i].ms})
Without == RemoveAt(nodes, Slowest)

\* One iteration of step 0.
Prune ==
  /\ pc = "prune"
  /\ \/ /\ Len(nodes) <= 1 \/ ~ModelFits(Without, input.layers)
        /\ Goto("balance")
     \/ /\ Len(nodes) > 1 /\ ModelFits(Without, input.layers)
        /\ \E with \in Latency(nodes, input.layers, input.hop),
              without \in Latency(Without, input.layers, input.hop) :
             IF without < with
             THEN nodes' = Without /\ UNCHANGED <<input, counts, pc>>
             ELSE Goto("balance")

Balance ==
  /\ pc = "balance"
  /\ counts' \in Balanced(nodes, input.layers)
  /\ pc' = "adjust" /\ UNCHANGED <<input, nodes>>

Total == SumOf(counts)

\* variant: memory is not looked at again
AddLayerAnywhere ==
  /\ pc = "adjust" /\ Total < input.layers
  /\ LET i == Min({j \in DOMAIN nodes : \A k \in DOMAIN nodes : nodes[j].ms <= nodes[k].ms})
     IN counts' = [counts EXCEPT ![i] = @ + 1] /\ UNCHANGED <<input, nodes, pc>>
\* variant: two layers at a time
AddLayerPair ==
  /\ pc = "adjust" /\ Total < input.layers
  /\ LET room == {i \in DOMAIN nodes : counts[i] < MaxLayers(nodes, i)}
         best == {i \in room : \A j \in room : nodes[i].ms <= nodes[j].ms}
     IN IF room = {} THEN Goto("failed")
        ELSE counts' = [counts EXCEPT ![Min(best)] = @ + 2] /\ UNCHANGED <<input, nodes, pc>>
\* To the fastest node with room, the first of several.
AddLayer ==
  /\ pc = "adjust" /\ Total < input.layers
  /\ LET room == {i \in DOMAIN nodes : counts[i] < MaxLayers(nodes, i)}
         best == {i \in room : \A j \in room : nodes[i].ms <= nodes[j].ms}
     IN IF room = {} THEN Goto("failed")
        ELSE counts' = [counts EXCEPT ![Min(best)] = @ + 1] /\ UNCHANGED <<input, nodes, pc>>

\* From the slowest node that has one, the first of several.
RemoveLayer ==
  /\ pc = "adjust" /\ Total > input.layers
  /\ LET some == {i \in DOMAIN nodes : counts[i] > 0}
         worst == {i \in some : \A j \in some : nodes[i].ms >= nodes[j].ms}
     IN counts' = [counts EXCEPT ![Min(worst)] = @ - 1] /\ UNCHANGED <<input, nodes, pc>>

Adjusted == pc = "adjust" /\ Total = input.layers /\ Goto("done")

\* The remainder goes to the nodes with most memory, in order of equals.
MoreMemory(i, j) == nodes[i].mem > nodes[j].mem \/ (nodes[i].mem = nodes[j].mem /\ i < j)
Rank(i) == Cardinality({j \in DOMAIN nodes : MoreMemory(j, i)})
\* variant: the whole remainder goes to one node
EqualCountsFirst ==
  LET n == Len(nodes)
  IN [i \in DOMAIN nodes |-> input.layers \div n + (IF Rank(i) = 0 THEN input.layers % n ELSE 0)]
EqualCounts ==
  LET n == Len(nodes)
  IN [i \in DOMAIN nodes |-> input.layers \div n + (IF Rank(i) < input.layers % n THEN 1 ELSE 0)]
WithinMemory == \A i \in DOMAIN nodes : counts'[i] <= MaxLayers(nodes, i)

EqualSplit ==
  /\ pc = "equal"
  /\ counts' = EqualCounts
  /\ pc' = IF WithinMemory THEN "done" ELSE "failed"
  /\ UNCHANGED <<input, nodes>>

\* variant: overlaps are not looked for
ManualCoversOnce(man, layers) == UNION {man[i][1] .. (man[i][2] - 1) : i \in DOMAIN man} = 0 .. (layers - 1)
\* Every layer in exactly one range.
ManualCovers(man, layers) ==
  /\ UNION {man[i][1] .. (man[i][2] - 1) : i \in DOMAIN man} = 0 .. (layers - 1)
  /\ \A i, j \in DOMAIN man : i # j =>
       (man[i][1] .. (man[i][2] - 1)) \cap (man[j][1] .. (man[j][2] - 1)) = {}

\* The nodes come in the order of the assignments; only the lengths are kept.
Manual ==
  /\ pc = "manual"
  /\ counts' = [i \in DOMAIN nodes |-> input.manual[i][2] - input.manual[i][1]]
  /\ pc' = IF ManualCovers(input.manual, input.layers) /\ WithinMemory THEN "done" ELSE "failed"
  /\ UNCHANGED <<input, nodes>>

Returned == pc \in {"done", "failed"} /\ UNCHANGED vars

Next ==
  \/ Start \/ Prune \/ Balance \/ AddLayer \/ RemoveLayer \/ Adjusted \/ EqualSplit \/ Manual
  \/ Returned
Spec == Init /\ [][Next]_vars

\* build_result: consecutive ranges.
Start_(i) == SumOf(SubSeq(counts, 1, i - 1))
Assignment(i) == <<Start_(i), Start_(i) + counts[i]>>

\* DistributedPipeline::new.
AcceptedBy ==
  /\ \A i \in DOMAIN counts : Assignment(i)[2] > Assignment(i)[1]
  /\ Assignment(1)[1] = 0
  /\ \A i \in DOMAIN counts \ {1} : Assignment(i)[1] = Assignment(i - 1)[2]

-----------------------------------------------------------------------------
\* A schedule gives every layer of the model to exactly one node and no node
\* more than its memory holds in the place it ends up in.
ScheduleCovers ==
  pc = "done" =>
    /\ Len(counts) = Len(nodes)
    /\ \A l \in 0 .. (input.layers - 1) :
         Cardinality({i \in DOMAIN counts : Assignment(i)[1] <= l /\ l < Assignment(i)[2]}) = 1
    /\ \A i \in DOMAIN counts : counts[i] >= 0 /\ counts[i] <= MaxLayers(nodes, i)
    /\ Total = input.layers

\* Redistribution ends, since every step brings the layers given out nearer to
\* those of the model: it never adds and removes in turn.
Missing(cs) == Max({input.layers - SumOf(cs), SumOf(cs) - input.layers})
NearerStep == pc = "adjust" /\ pc' = "adjust" => Missing(counts') < Missing(counts)
Nearer == [][NearerStep]_vars

\* EqualSplit is even.
EqualIsEven ==
  pc = "done" /\ input.mode = "EqualSplit" =>
    \A i, j \in DOMAIN counts : counts[i] - counts[j] <= 1

\* The phase 3 document on pruning: "If no (model doesn't fit without it):
\* INCLUDE anyway."  A model the candidates can hold is scheduled.
NeededNodeKept ==
  pc = "failed" /\ input.mode = "Auto" /\ Plausible => Capacity(input.nodes) < input.layers

\* scheduler_tests asserts that no node of a schedule has an "empty range".
ScheduleAccepted == pc = "done" => AcceptedBy

\* The phase 3 document on manual mode: "Apply as-is."
ManualAsIs ==
  pc = "done" /\ input.mode = "Manual" =>
    \A i \in DOMAIN counts : counts[i] > 0 => Assignment(i) = input.manual[i]
=============================================================================
