------------------------- MODULE MCExecutionManager -------------------------
(* One run of two jobs: j1 with two steps, then j2 with one step, which needs  *)
(* j1; each configuration gives the jobs the features it is about.  Or two     *)
(* runs of one deployment job each, the first with a step, on one worker whose *)
(* process may restart (MCTwoRuns.cfg).                                        *)
EXTENDS ExecutionManager

CONSTANTS r1, r2, j1, j2, s1, s2, s3, w1, w2

MCRuns    == {r1}
MCJobs    == {j1, j2}
MCSteps   == {s1, s2, s3}
MCWorkers == {w1, w2}
MCRunOf   == j1 :> r1 @@ j2 :> r1
MCJobOf   == s1 :> j1 @@ s2 :> j1 @@ s3 :> j2
MCJobSeq  == r1 :> <<j1, j2>>
MCStepSeq == j1 :> <<s1, s2>> @@ j2 :> <<s3>>
MCNeeds   == j1 :> {} @@ j2 :> {j1}
AttemptBound == [j \in MCJobs |-> 5]

NoManual  == j1 :> "no" @@ j2 :> "no"
Blocking2 == j1 :> "no" @@ j2 :> "blocking"
Optional1 == j1 :> "optional" @@ j2 :> "no"
Mixed     == j1 :> "optional" @@ j2 :> "blocking"
NoRetry   == j1 :> 0 @@ j2 :> 0
Retry1    == j1 :> 1 @@ j2 :> 0

JustS1 == {s1}
JustS2 == {s2}
Job1   == {j1}
Job2   == {j2}
Both   == {j1, j2}

TwoRuns      == {r1, r2}
OneWorker    == {w1}
RunOfEach    == j1 :> r1 @@ j2 :> r2
StepOfFirst  == s1 :> j1
OneJobEach   == r1 :> <<j1>> @@ r2 :> <<j2>>
OneStep      == j1 :> <<s1>> @@ j2 :> <<>>
NoNeeds      == j1 :> {} @@ j2 :> {}
FourAttempts == [j \in MCJobs |-> 4]
=============================================================================
