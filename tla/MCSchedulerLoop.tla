-------------------------- MODULE MCSchedulerLoop --------------------------
(* SchedulerLoop for safety checking: requests are interchangeable.        *)
EXTENDS SchedulerLoop, TLC

RequestSymmetry == Permutations(Requests)
=============================================================================
