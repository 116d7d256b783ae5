------------------------------ MODULE Sampling ------------------------------
(***************************************************************************)
(* Sampler::sample: greedy, or temperature, top-k, softmax, top-p and the  *)
(* inverse of the cumulative distribution.  Logits are small integers and  *)
(* Base stands for e^(1/temperature): the probabilities of the softmax are *)
(* powers of Base below that of the largest logit, zero where the          *)
(* exponential underflows, and are compared over their common denominator. *)
(***************************************************************************)
EXTENDS Integers, Sequences, SequencesExt, FiniteSets, FiniteSetsExt, TLC

CONSTANTS MaxVocab, MaxLogit,  \* bounds: length of the logits, their values
          Base, Underflow,     \* e^(x / temperature) is 0 from x = -Underflow on
          Parts                \* top_p and the random number are n / Parts

SamplingAssumption ==
  {MaxVocab, MaxLogit, Base, Underflow, Parts} \subseteq Nat \ {0}

VARIABLES logits,   \* token -> logit, from token 1
          params,   \* greedy (temperature 0), top_k, top_p
          random,   \* the number drawn
          token     \* the result: a token, 0 before it, -1 for an Error

vars == <<logits, params, random, token>>

Init ==
  /\ logits \in UNION {[1..n -> 0..MaxLogit] : n \in 0..MaxVocab}
  /\ params \in [greedy : BOOLEAN, topK : 0..MaxVocab, topP : 0..Parts]
  /\ random \in 0..(Parts - 1)
  /\ token = 0

Largest(S) == CHOOSE x \in S : \A y \in S : y <= x

\* max_by keeps the last of equal elements.
Greedy == Largest({i \in DOMAIN logits : \A j \in DOMAIN logits : logits[j] <= logits[i]})

\* A top_k that cuts something.
Cuts == params.topK > 0 /\ params.topK < Len(logits)

IndicesUnsorted ==
  IF Cuts THEN [i \in 1..params.topK |-> i] ELSE [i \in 1..Len(logits) |-> i]

\* Top-k: a stable sort by falling logit, cut at top_k.  Otherwise in order.
Indices ==
  LET Before(a, b) == logits[a] > logits[b] \/ (logits[a] = logits[b] /\ a < b)
      all == [i \in 1..Len(logits) |-> i]
  IN  IF Cuts THEN SubSeq(SortSeq(all, Before), 1, params.topK) ELSE all

\* Softmax over what is left, over a common denominator.
Probs ==
  LET max == Largest({logits[i] : i \in ToSet(Indices)})
      Exp(x) == IF x <= 0 - Underflow THEN 0 ELSE Base ^ (Underflow + x)
  IN  [i \in 1..Len(Indices) |-> Exp(logits[Indices[i]] - max)]

Total(probs, order) == FoldLeft(LAMBDA sum, i : sum + probs[i], 0, order)

Positions(probs) == [i \in 1..Len(probs) |-> i]

SortedRising(probs) ==
  LET Before(a, b) == probs[a] < probs[b] \/ (probs[a] = probs[b] /\ a < b)
  IN  SortSeq(Positions(probs), Before)

\* The positions by falling probability, stable.
Sorted(probs) ==
  LET Before(a, b) == probs[a] > probs[b] \/ (probs[a] = probs[b] /\ a < b)
  IN  SortSeq(Positions(probs), Before)

CutoffLate(probs, order) ==
  LET under == {i \in 1..Len(order) :
                  Total(probs, SubSeq(order, 1, i)) * Parts <= params.topP * Total(probs, order)}
  IN  IF params.topP < Parts /\ Cardinality(under) + 2 <= Len(order) THEN Cardinality(under) + 2
      ELSE Len(order)

\* Top-p: up to the first position where the sum exceeds top_p.
Cutoff(probs, order) ==
  LET over == {i \in 1..Len(order) :
                 Total(probs, SubSeq(order, 1, i)) * Parts > params.topP * Total(probs, order)}
  IN  IF params.topP < Parts /\ over # {} THEN CHOOSE i \in over : \A j \in over : i <= j
      ELSE Len(order)

Filtered(probs) == SubSeq(Sorted(probs), 1, Cutoff(probs, Sorted(probs)))

DrawUnscaled(probs, filtered, r) ==
  LET reached == {i \in 1..Len(filtered) :
                    Total(probs, SubSeq(filtered, 1, i)) * Parts >= r * Total(probs, Positions(probs))}
  IN  IF reached # {} THEN CHOOSE i \in reached : \A j \in reached : i <= j ELSE Len(filtered)

\* The first position whose sum reaches the random number times the whole, the
\* last one if none does.
Draw(probs, filtered, r) ==
  LET reached == {i \in 1..Len(filtered) :
                    Total(probs, SubSeq(filtered, 1, i)) * Parts >= r * Total(probs, filtered)}
  IN  IF reached # {} THEN CHOOSE i \in reached : \A j \in reached : i <= j ELSE Len(filtered)

Sampled(r) == LET f == Filtered(Probs) IN Indices[f[Draw(Probs, f, r)]]

IsGreedy == params.greedy \/ params.topK = 1

Sample ==
  /\ token = 0
  /\ token' = IF logits = <<>> THEN -1 ELSE IF IsGreedy THEN Greedy ELSE Sampled(random)
  /\ UNCHANGED <<logits, params, random>>

Next == Sample

Spec == Init /\ [][Next]_vars

(***************************************************************************)
(* The reference: sets of tokens instead of sorted positions.              *)
(***************************************************************************)
Above(t) == {i \in DOMAIN logits : logits[i] > logits[t]}

Weight(t) ==
  LET x == logits[t] - Largest({logits[i] : i \in DOMAIN logits})
  IN  IF x <= 0 - Underflow THEN 0 ELSE Base ^ (Underflow + x)

WeightOf(S) == FoldSet(LAMBDA t, sum : sum + Weight(t), 0, S)

\* A sampled token is among the top_k: fewer than top_k tokens have a larger
\* logit.  A greedy one has no larger logit.
InTopK ==
  token > 0 =>
    /\ IsGreedy => Above(token) = {}
    /\ params.topK > 0 => Cardinality(Above(token)) < params.topK

\* A sampled token is in the nucleus: the tokens with a larger logit do not
\* reach more than top_p of the weight of the tokens top_k leaves.
InNucleus ==
  token > 0 /\ ~IsGreedy /\ params.topP < Parts =>
    WeightOf(Above(token)) * Parts <= params.topP * WeightOf(ToSet(Indices))

\* A token whose probability underflows to zero is not sampled.
NeverImpossible == token > 0 => Weight(token) > 0

\* The draw is fair to one part in Parts: each token of the nucleus is drawn by
\* its share of the random numbers.
FairDraw ==
  token > 0 /\ ~IsGreedy =>
    LET f == Filtered(Probs)
        whole == Total(Probs, f)
        hits == Cardinality({r \in 0..(Parts - 1) : Sampled(r) = token})
        share == Weight(token) * Parts
    IN  (hits - 1) * whole <= share /\ share <= (hits + 1) * whole
=============================================================================
