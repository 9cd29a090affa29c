----------------------------- MODULE MCService -----------------------------
(***************************************************************************)
(* The small sets from which the configurations choose: two actors of each *)
(* kind for safety (MCService.cfg), fewer with longer histories for        *)
(* liveness (MCServiceLive.cfg).                                           *)
(***************************************************************************)
EXTENDS Service, TLC

CONSTANTS w1, w2, r1, j1, j2, rp, rc, rd, wa, wb, wt, s1, s2, main, dev, build, every,
          d1, d2, q1, q2, q3, k1, k2

OneWorker  == {w1}
TwoWorkers == {w1, w2}

OneJob == {j1}
TwoJobs == {j1, j2}
Policy(protected, approvals, timer, mainOnly, cancel) ==
    [protected |-> protected, approvals |-> approvals, timer |-> timer,
     mainOnly |-> mainOnly, cancelInProgress |-> cancel]
Approved == Policy(TRUE, 1, 0, FALSE, TRUE)
Timed    == Policy(TRUE, 0, 1, FALSE, TRUE)
MainOnly == Policy(TRUE, 0, 1, TRUE, FALSE)
ApprovedOnly == {Approved}
Tightened == {Timed, MainOnly}

TwoRuns == 1..2

Family == {rp, rc, rd}
Nested == (rp :> <<rc>>) @@ (rc :> <<rd>>) @@ (rd :> <<>>)
Wide   == (rp :> <<rc, rd>>) @@ (rc :> <<>>) @@ (rd :> <<>>)
Both   == {rc, rd}
OnlyC  == {rc}

Cycle   == {wa, wb}
CycleOn == (wa :> {wa, wb}) @@ (wb :> {wa})
Fan     == {wa, wb, wt}
FanOn   == (wa :> {wt}) @@ (wb :> {wt}) @@ (wt :> {})
OnlyA   == {wa}
FirstTwo == {wa, wb}
OnlyT   == {wt}
Empty   == {}

TwoSchedules == {s1, s2}
EachMinute   == (s1 :> 1) @@ (s2 :> 2)
Deactivate   == {"deactivate"}

Order       == <<build, every>>
OneBranch   == {main}
TwoBranches == {main, dev}
Short       == 1..3
BothPaths   == {"src", "doc"}
Files(src, doc) == [p \in BothPaths |-> IF p = "src" THEN src ELSE doc]
UndoneTree  == <<Files(0, 0), Files(1, 0), Files(0, 1)>>
PathsOf     == (build :> {"src"}) @@ (every :> {})
OnlyEvery   == {every}

TwoDeliveries == {d1, d2}
FirstDelivery == {d1}
ThreeRequests == {q1, q2, q3}
TwoRequests   == {q1, q2}

OneSource  == {s1}
OneKey     == {k1}
TwoKeys    == {k1, k2}

LeaseClients == {w1, w2, r1}

Alike == Permutations({w1, w2}) \cup Permutations({wa, wb}) \cup Permutations({q1, q2})
=============================================================================
