----------------------------- MODULE MCRunStore -----------------------------
(* One run of two jobs, the first of which has a step; two workers. *)
EXTENDS RunStore, TLC

CONSTANTS r1, j1, j2, s1, w1, w2

MCRuns    == {r1}
MCJobs    == {j1, j2}
MCSteps   == {s1}
MCWorkers == {w1, w2}
MCRunOf   == j1 :> r1 @@ j2 :> r1
MCJobOf   == s1 :> j1
AttemptBound == j1 :> 1 @@ j2 :> 0
Symmetry  == Permutations(MCWorkers)
=============================================================================
