--------------------------- MODULE MCWorkPipeline ---------------------------
(***************************************************************************)
(* Instances of WorkPipeline, with its history.                            *)
(***************************************************************************)
EXTENDS WorkPipelineHistory, TLC

CONSTANTS e1, s1, s2, j1, j2, j3, r1, r2, w1, w2

OneSelfPatch   == {s1}
Family         == {e1, s1, s2}
TwoSelfPatches == {s1, s2}
TwoJobs    == {j1, j2}
OneThread  == {r1}
TwoThreads == {r1, r2}
OneWorker  == {w1}
TwoWorkers == {w1, w2}

AllFaults == FaultKind
NoFaults  == {}

AcceptOnly == {"accepted"}

Sym == Permutations(TwoJobs) \cup Permutations(TwoThreads)
          \cup Permutations(TwoWorkers)
=============================================================================
