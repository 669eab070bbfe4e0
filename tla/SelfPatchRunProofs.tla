------------------------- MODULE SelfPatchRunProofs -------------------------
(***************************************************************************)
(* Proofs about SelfPatchRun: for every set of files, whatever the session *)
(* and the tests do to them, whichever git command fails and wherever the  *)
(* worker dies, what waits for an approval is a good patch of what was     *)
(* tested, and a run directory with a summary is complete.  And about      *)
(* Watchdog, under which it executes its commands: for every timeout, poll *)
(* and scan interval, the silence of a running process is bounded, and it  *)
(* is only stopped as stalled when it was silent, provided scans are no    *)
(* rarer than the idle timeout.                                            *)
(***************************************************************************)
EXTENDS SelfPatchRun, Watchdog, TLAPS

-----------------------------------------------------------------------------
(* The inductive invariant: what each step of the run has left behind.     *)

BeforeResult == {"prepare", "codex", "test", "diff_check", "diff", "changed"}
AfterTests   == {"diff_check", "diff"}
Ended        == {"raised", "dead"}

\* The files in the run directory, by the step that comes next.
Outputs == {"codex_output", "test_output", "diff_check_output", "proposal.patch"}
Written ==
    [prepare    |-> {},
     codex      |-> {},
     test       |-> {"codex_output"},
     diff_check |-> {"codex_output", "test_output"},
     diff       |-> {"codex_output", "test_output", "diff_check_output"},
     changed    |-> Outputs,
     contract   |-> Outputs,
     evidence   |-> Outputs \cup {"contract.json"},
     markdown   |-> Outputs \cup {"contract.json", "evidence.json"},
     summary    |-> Outputs \cup {"contract.json", "evidence.json", "summary.md"},
     done       |-> Required]

ArtifactsAreInOrder ==
    /\ pc \notin Ended => artifacts = Written[pc]
    /\ pc \in Ended => "summary.json" \notin artifacts

\* The result is about the patch and the return codes, which do not change later.
ResultIsOfPatch ==
    /\ pc \in BeforeResult => status = "none"
    /\ status # "none" => status = ResultStatus

\* Of tracked files that the tests leave alone, what differs from the base commit
\* is what the tests saw, until the patch is made of it.
Same(files) == files \ TestWrites = (testedOn \cap Tracked) \ TestWrites

PatchIsOfTested ==
    /\ pc \in AfterTests => Same(edited)
    /\ pc \notin BeforeResult \cup Ended => Same(patch)
    /\ pc = "changed" => Same(patch)
    /\ status # "none" => Same(patch)

RunInv ==
    /\ TypeOK
    /\ ArtifactsAreInOrder
    /\ ResultIsOfPatch
    /\ PatchIsOfTested

-----------------------------------------------------------------------------
\* A run begins with it.
LEMMA InitRun == Init => RunInv
<1> SUFFICES ASSUME Init PROVE RunInv
  OBVIOUS
<1>1. TypeOK
  BY DEF Init, TypeOK, ReturnCode
<1>2. ArtifactsAreInOrder
  BY DEF Init, ArtifactsAreInOrder, Written, Ended
<1>3. ResultIsOfPatch
  BY DEF Init, ResultIsOfPatch
<1>4. PatchIsOfTested
  BY DEF Init, PatchIsOfTested, AfterTests, BeforeResult, Ended
<1> QED
  BY <1>1, <1>2, <1>3, <1>4 DEF RunInv

\* The types are kept by every step.
LEMMA NextType == TypeOK /\ [Next]_vars => TypeOK'
<1> SUFFICES ASSUME TypeOK, [Next]_vars PROVE TypeOK'
  OBVIOUS
<1> USE DEF TypeOK
<1>1. CASE Prepare
  BY <1>1 DEF Prepare
<1>2. ASSUME NEW e \in SUBSET Tracked, NEW a \in SUBSET New, NEW rc \in ReturnCode,
             Codex(e, a, rc)
      PROVE  TypeOK'
  BY <1>2 DEF Codex, Write, Required
<1>3. ASSUME NEW rc \in ReturnCode, NEW w \in SUBSET TestWrites, Test(rc, w)
      PROVE  TypeOK'
  BY <1>3, RunAssumption DEF Test, Write, Required
<1>4. ASSUME NEW u \in BOOLEAN, DiffCheck(u)
      PROVE  TypeOK'
  <2>1. untidy' \in BOOLEAN
    BY <1>4, Zenon DEF DiffCheck
  <2> QED
    BY <1>4, <2>1 DEF DiffCheck, Write, Required
<1>5. CASE Diff
  BY <1>5 DEF Diff, Write, Required
<1>6. CASE Changed
  BY <1>6 DEF Changed, ResultStatus, Status
<1>7. CASE WriteResult
  BY <1>7 DEF WriteResult, WriteOne, Write, Required
<1>8. CASE Raise \/ Crash
  BY <1>8 DEF Raise, Crash
<1>9. CASE UNCHANGED vars
  BY <1>9 DEF vars
<1> QED
  BY <1>1, <1>2, <1>3, <1>4, <1>5, <1>6, <1>7, <1>8, <1>9 DEF Next, Step

\* Artifacts are written one by one, the summary last.
LEMMA NextArtifacts ==
  TypeOK /\ ArtifactsAreInOrder /\ [Next]_vars => ArtifactsAreInOrder'
<1> SUFFICES ASSUME TypeOK, ArtifactsAreInOrder, [Next]_vars
             PROVE  ArtifactsAreInOrder'
  OBVIOUS
<1> USE DEF ArtifactsAreInOrder, Written, Outputs, Ended, Write
<1>1. CASE Prepare
  BY <1>1 DEF Prepare
<1>2. ASSUME NEW e \in SUBSET Tracked, NEW a \in SUBSET New, NEW rc \in ReturnCode,
             Codex(e, a, rc)
      PROVE  ArtifactsAreInOrder'
  BY <1>2 DEF Codex
<1>3. ASSUME NEW rc \in ReturnCode, NEW w \in SUBSET TestWrites, Test(rc, w)
      PROVE  ArtifactsAreInOrder'
  BY <1>3 DEF Test
<1>4. ASSUME NEW u \in BOOLEAN, DiffCheck(u)
      PROVE  ArtifactsAreInOrder'
  BY <1>4 DEF DiffCheck
<1>5. CASE Diff
  BY <1>5 DEF Diff
<1>6. CASE Changed
  BY <1>6 DEF Changed
<1>7. CASE WriteResult
  BY <1>7 DEF WriteResult, WriteOne, Required
<1>8. CASE Raise \/ Crash
  BY <1>8 DEF Raise, Crash, TypeOK
<1>9. CASE UNCHANGED vars
  BY <1>9 DEF vars
<1> QED
  BY <1>1, <1>2, <1>3, <1>4, <1>5, <1>6, <1>7, <1>8, <1>9 DEF Next, Step

\* Nothing that the result was computed from changes after it.
LEMMA NextResult == TypeOK /\ ResultIsOfPatch /\ [Next]_vars => ResultIsOfPatch'
<1> SUFFICES ASSUME TypeOK, ResultIsOfPatch, [Next]_vars PROVE ResultIsOfPatch'
  OBVIOUS
<1> USE DEF ResultIsOfPatch, BeforeResult
<1>1. CASE Prepare
  BY <1>1 DEF Prepare
<1>2. ASSUME NEW e \in SUBSET Tracked, NEW a \in SUBSET New, NEW rc \in ReturnCode,
             Codex(e, a, rc)
      PROVE  ResultIsOfPatch'
  BY <1>2 DEF Codex
<1>3. ASSUME NEW rc \in ReturnCode, NEW w \in SUBSET TestWrites, Test(rc, w)
      PROVE  ResultIsOfPatch'
  BY <1>3 DEF Test
<1>4. ASSUME NEW u \in BOOLEAN, DiffCheck(u)
      PROVE  ResultIsOfPatch'
  BY <1>4 DEF DiffCheck
<1>5. CASE Diff
  BY <1>5 DEF Diff
<1>6. CASE Changed
  BY <1>6 DEF Changed, ResultStatus
<1>7. CASE WriteResult
  BY <1>7 DEF WriteResult, WriteOne, ResultStatus
<1>8. CASE Raise \/ Crash
  BY <1>8 DEF Raise, Crash, ResultStatus
<1>9. CASE UNCHANGED vars
  BY <1>9 DEF vars, ResultStatus
<1> QED
  BY <1>1, <1>2, <1>3, <1>4, <1>5, <1>6, <1>7, <1>8, <1>9 DEF Next, Step

\* The tests only touch the files they may, and the patch is made right after.
LEMMA NextTested ==
  TypeOK /\ ResultIsOfPatch /\ PatchIsOfTested /\ [Next]_vars => PatchIsOfTested'
<1> SUFFICES ASSUME TypeOK, ResultIsOfPatch, PatchIsOfTested, [Next]_vars
             PROVE  PatchIsOfTested'
  OBVIOUS
<1> USE DEF ResultIsOfPatch, PatchIsOfTested, BeforeResult, AfterTests, Ended
<1>1. CASE Prepare
  BY <1>1 DEF Prepare
<1>2. ASSUME NEW e \in SUBSET Tracked, NEW a \in SUBSET New, NEW rc \in ReturnCode,
             Codex(e, a, rc)
      PROVE  PatchIsOfTested'
  BY <1>2 DEF Codex
<1>3. ASSUME NEW rc \in ReturnCode, NEW w \in SUBSET TestWrites, Test(rc, w)
      PROVE  PatchIsOfTested'
  <2>1. Same(edited)'
    BY <1>3, RunAssumption DEF Test, Same, TypeOK
  <2> QED
    BY <1>3, <2>1 DEF Test
<1>4. ASSUME NEW u \in BOOLEAN, DiffCheck(u)
      PROVE  PatchIsOfTested'
  BY <1>4 DEF DiffCheck, Same
<1>5. CASE Diff
  BY <1>5 DEF Diff, Same
<1>6. CASE Changed
  BY <1>6 DEF Changed, Same
<1>7. CASE WriteResult
  BY <1>7 DEF WriteResult, WriteOne, Same
<1>8. CASE Raise \/ Crash
  BY <1>8 DEF Raise, Crash, Same
<1>9. CASE UNCHANGED vars
  BY <1>9 DEF vars, Same
<1> QED
  BY <1>1, <1>2, <1>3, <1>4, <1>5, <1>6, <1>7, <1>8, <1>9 DEF Next, Step

\* So the invariant always holds.
THEOREM RunAlways == Spec => []RunInv
<1>1. RunInv /\ [Next]_vars => RunInv'
  BY NextType, NextArtifacts, NextResult, NextTested DEF RunInv
<1> QED
  BY <1>1, InitRun, PTL DEF Spec

-----------------------------------------------------------------------------
\* What waits for an approval is a tidy patch that passed the tests, and the
\* analysis of a failure agrees with what the worker does about it.
THEOREM GoodPatchesWait == Spec => []OnlyGoodPatchesWait
<1>1. RunInv => OnlyGoodPatchesWait
  <2> SUFFICES ASSUME RunInv, status # "none"
               PROVE  /\ WorkStatusAfter = "waiting_approval" <=>
                           patch # {} /\ ~untidy /\ testCode = 0
                      /\ Retryable <=> WorkStatusAfter = "reviewing"
                      /\ PrimaryFailure = "codex_timeout_or_stall" => patch = {}
                      /\ PrimaryFailure = "test_timeout_or_stall" =>
                           patch # {} /\ ~untidy
                      /\ PrimaryFailure = "none" <=>
                           WorkStatusAfter = "waiting_approval"
    BY DEF OnlyGoodPatchesWait
  <2>1. status = ResultStatus
    BY DEF RunInv, ResultIsOfPatch
  <2> QED
    BY <2>1
       DEF ResultStatus, WorkStatusAfter, Retryable, PrimaryFailure, Stopped
<1> QED
  BY <1>1, RunAlways, PTL

\* The patch that is ready is what was tested, of the files git tracks and the
\* tests leave alone.
THEOREM PatchWasTested == Spec => []PatchHasTestedFiles
<1>1. RunInv => PatchHasTestedFiles
  BY DEF RunInv, PatchIsOfTested, Same, PatchHasTestedFiles
<1> QED
  BY <1>1, RunAlways, PTL

\* A run directory with a summary is complete, wherever the worker died.
THEOREM WellFormedAlways == Spec => []RunIsWellFormed
<1>1. RunInv => RunIsWellFormed
  <2> SUFFICES ASSUME RunInv, "summary.json" \in artifacts
               PROVE  artifacts = Required
    BY DEF RunInv, RunIsWellFormed, SummaryIsLast
  <2>1. pc = "done"
    BY DEF RunInv, TypeOK, ArtifactsAreInOrder, Written, Outputs, Ended
  <2> QED
    BY <2>1 DEF RunInv, ArtifactsAreInOrder, Written, Ended
<1> QED
  BY <1>1, RunAlways, PTL

-----------------------------------------------------------------------------
(* The watchdog.  Its inductive invariant: the loop always wakes within    *)
(* Idle + Poll of the last activity, and activity itself is at most as     *)
(* much ahead of the progress it stands for, because a scan that extends   *)
(* it found a change made after the previous activity.                     *)

WakeIsNear ==
    /\ loop \in {"feed", "watch"} => now <= wake
    /\ loop \in {"feed", "watch"} /\ Idle > 0 => wake <= activity + Idle + Poll

ActivityIsNear == Idle > 0 => activity <= progress + Idle + Poll

ChangeIsProgress ==
    /\ changed => progress >= activity
    /\ ~changed => progress <= activity

ScanIsActivity == loop \in {"feed", "watch"} => lastScan <= activity

TimeoutIsNear ==
    loop \in {"feed", "watch"} /\ Timeout > 0 => wake <= Timeout + Poll

Near ==
    /\ WatchdogTypeOK
    /\ WakeIsNear
    /\ TimeoutIsNear
    /\ ActivityIsNear
    /\ ChangeIsProgress
    /\ ScanIsActivity

\* What the assumption says of each constant.
LEMMA Constants ==
    /\ Timeout \in Nat /\ Idle \in Nat /\ Prompt \in Nat
    /\ Scan \in Nat \ {0} /\ Poll \in Nat \ {0} /\ Grace \in Nat \ {0}
    /\ PipeSize \in Nat \ {0}
  BY WatchdogAssumption

\* The loop begins with it.
THEOREM InitNear == WatchdogInit => Near
<1> SUFFICES ASSUME WatchdogInit PROVE Near
  OBVIOUS
<1>1. ~changed /\ changed \in BOOLEAN
  BY Zenon DEF WatchdogInit
<1>2. WatchdogTypeOK
  BY <1>1, Constants DEF WatchdogInit, WatchdogTypeOK, Code
<1>3. WakeIsNear /\ TimeoutIsNear /\ ActivityIsNear /\ ScanIsActivity
  BY Constants
     DEF WatchdogInit, WakeIsNear, TimeoutIsNear, ActivityIsNear, ScanIsActivity
<1>4. ChangeIsProgress
  BY <1>1 DEF WatchdogInit, ChangeIsProgress
<1> QED
  BY <1>2, <1>3, <1>4 DEF Near

\* Every step keeps the invariant.
THEOREM NextNear == Near /\ [WatchdogNext]_watchdogVars => Near'
<1> SUFFICES ASSUME Near, [WatchdogNext]_watchdogVars PROVE Near'
  OBVIOUS
<1> USE Constants
    DEF Near, WatchdogTypeOK, WakeIsNear, TimeoutIsNear, ActivityIsNear,
        ChangeIsProgress, ScanIsActivity, Code
<1>1. CASE Feed
  BY <1>1 DEF Feed
<1>2. CASE Finish
  BY <1>2 DEF Finish, Due
<1>3. CASE StopAtTimeout
  BY <1>3 DEF StopAtTimeout, Due, Stop
<1>4. CASE Extend
  <2>1. ~changed' /\ (changed' \in BOOLEAN) /\ changed
    BY <1>4, Zenon DEF Extend
  <2> QED
    BY <1>4, <2>1 DEF Extend, Due
<1>5. CASE StopStalled
  BY <1>5 DEF StopStalled, Due, Stop
<1>6. CASE Sleep
  BY <1>6 DEF Sleep, Due, Silent, TimedOut
<1>7. CASE Terminated
  BY <1>7 DEF Terminated
<1>8. CASE Killed
  BY <1>8 DEF Killed
<1>9. CASE ReadPrompt
  BY <1>9 DEF ReadPrompt
<1>10. CASE Output
  BY <1>10 DEF Output
<1>11. CASE Touch
  BY <1>11 DEF Touch
<1>12. CASE Exit
  BY <1>12 DEF Exit
<1>13. CASE Tick
  BY <1>13 DEF Tick
<1>14. CASE UNCHANGED watchdogVars
  BY <1>14 DEF watchdogVars
<1> QED
  BY <1>1, <1>2, <1>3, <1>4, <1>5, <1>6, <1>7, <1>8, <1>9, <1>10, <1>11,
     <1>12, <1>13, <1>14 DEF WatchdogNext, Command, Process

\* So it always holds.
THEOREM NearAlways == WatchdogSpec => []Near
  BY InitNear, NextNear, PTL DEF WatchdogSpec

-----------------------------------------------------------------------------
\* The types are kept.
THEOREM TypeAlways == WatchdogSpec => []WatchdogTypeOK
<1>1. Near => WatchdogTypeOK
  BY DEF Near
<1> QED
  BY <1>1, NearAlways, PTL

\* A process that hangs is noticed within two rounds of Idle and a poll each.
THEOREM StallAlwaysNoticed == WatchdogSpec => []StallIsNoticed
<1>1. Near => StallIsNoticed
  BY Constants
     DEF Near, WatchdogTypeOK, WakeIsNear, ActivityIsNear, StallIsNoticed
<1> QED
  BY <1>1, NearAlways, PTL

\* A process that runs is stopped within a poll of the timeout.
THEOREM TimeoutAlwaysHolds == WatchdogSpec => []TimeoutHolds
<1>1. Near => TimeoutHolds
  BY Constants DEF Near, WatchdogTypeOK, WakeIsNear, TimeoutIsNear, TimeoutHolds
<1> QED
  BY <1>1, NearAlways, PTL

\* With scans at least as frequent as the idle timeout, stopping a process as
\* stalled means what the message says.
THEOREM StalledIsSilent ==
  ASSUME Scan <= Idle
  PROVE  WatchdogSpec => StalledMeansSilent
<1>1. Near /\ [WatchdogNext]_watchdogVars =>
        [code = "none" /\ code' = "stalled" => now - progress >= Idle]_watchdogVars
  <2> SUFFICES ASSUME Near, WatchdogNext, code = "none", code' = "stalled"
               PROVE  now - progress >= Idle
    BY DEF watchdogVars
  <2>1. code' # code
    OBVIOUS
  <2>2. StopStalled
    BY <2>1 DEF WatchdogNext, Command, Process, Feed, Finish, StopAtTimeout, Extend,
                Sleep, Terminated, Killed, ReadPrompt, Output, Touch, Exit,
                Tick, Stop
  <2>3. ~changed /\ now - activity >= Idle
    BY <2>2, Constants
       DEF StopStalled, Due, Silent, ScanIsDue, Near, WatchdogTypeOK, ScanIsActivity
  <2> QED
    BY <2>3, Constants DEF Near, WatchdogTypeOK, ChangeIsProgress
<1> QED
  BY <1>1, NearAlways, PTL DEF WatchdogSpec, StalledMeansSilent
=============================================================================
