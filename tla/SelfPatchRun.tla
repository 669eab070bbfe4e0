---------------------------- MODULE SelfPatchRun ----------------------------
(***************************************************************************)
(* One run of the self-patch worker (CodexSelfPatchWorker.run in           *)
(* harness/self_patch.py): an isolated workspace is prepared, the codex    *)
(* session edits it, the tests run in it, git diff makes the patch of it,  *)
(* and the status of the result decides what becomes of the work item.     *)
(*                                                                         *)
(* A command either returns a code of its own or is stopped by the         *)
(* watchdog (module Watchdog).  Of the workspace the model keeps which     *)
(* files differ from the base commit and which are new to git; the session *)
(* neither stages nor commits.                                             *)
(***************************************************************************)
EXTENDS Integers

CONSTANTS
    Tracked,     \* files of the base commit
    New,         \* files that a session may add
    TestWrites,  \* tracked files that the tests may change
    MayRaise,    \* whether git may fail, or a command not start
    MayCrash     \* whether the worker process may die

ASSUME RunAssumption ==
    /\ Tracked \cap New = {}
    /\ TestWrites \subseteq Tracked
    /\ {MayRaise, MayCrash} \subseteq BOOLEAN

VARIABLES
    pc,         \* where run is
    edited,     \* tracked files that differ from the base commit
    added,      \* files git does not track
    codexCode,  \* return codes: 0, 1 for any failure, 124, 125
    testCode,
    untidy,     \* git diff --check complains
    testedOn,   \* what differed from the base commit when the tests began
    patch,      \* the files in proposal.patch
    status,     \* the status of the result
    artifacts   \* the files written to run_dir

vars == <<pc, edited, added, codexCode, testCode, untidy, testedOn, patch,
          status, artifacts>>

-----------------------------------------------------------------------------
ReturnCode == {0, 1, 124, 125}

Status == {"codex_failed_no_patch", "no_patch", "diff_check_failed",
           "patch_ready", "test_failed"}

\* required_artifacts of contract.json
Required == {"proposal.patch", "summary.json", "evidence.json", "summary.md",
             "contract.json", "codex_output", "test_output",
             "diff_check_output"}

TypeOK ==
    /\ pc \in {"prepare", "codex", "test", "diff_check", "diff", "changed",
               "contract", "evidence", "markdown", "summary", "done",
               "raised", "dead"}
    /\ edited \subseteq Tracked /\ added \subseteq New
    /\ codexCode \in ReturnCode /\ testCode \in ReturnCode
    /\ untidy \in BOOLEAN
    /\ testedOn \subseteq Tracked \cup New /\ patch \subseteq Tracked \cup New
    /\ status \in Status \cup {"none"}
    /\ artifacts \subseteq Required

Init ==
    /\ pc = "prepare"
    /\ edited = {} /\ added = {}
    /\ codexCode = 0 /\ testCode = 0 /\ untidy = FALSE
    /\ testedOn = {} /\ patch = {}
    /\ status = "none"
    /\ artifacts = {}

Write(file) == artifacts' = artifacts \cup {file}

-----------------------------------------------------------------------------
\* _prepare_workspace: what an earlier run of the job left is removed first; a
\* worktree of HEAD, or a copy that is committed as its own base.
Prepare ==
    /\ pc = "prepare"
    /\ pc' = "codex"
    /\ artifacts' = {}
    /\ UNCHANGED <<edited, added, codexCode, testCode, untidy, testedOn, patch,
                   status>>

\* The session may edit and add whatever it likes, and fail all the same.
Codex(e, a, rc) ==
    /\ pc = "codex"
    /\ edited' = e
    /\ added' = a
    /\ codexCode' = rc
    /\ Write("codex_output")
    /\ pc' = "test"
    /\ UNCHANGED <<testCode, untidy, testedOn, patch, status>>

\* Mutant: the tests run in the project root.
TestInProjectRoot(rc, w) ==
    /\ pc = "test"
    /\ testedOn' = {}
    /\ testCode' = rc
    /\ Write("test_output")
    /\ pc' = "diff_check"
    /\ UNCHANGED <<edited, added, codexCode, untidy, patch, status>>

\* The tests run whatever the session returned.
Test(rc, w) ==
    /\ pc = "test"
    /\ testedOn' = edited \cup added
    /\ edited' = edited \cup w
    /\ testCode' = rc
    /\ Write("test_output")
    /\ pc' = "diff_check"
    /\ UNCHANGED <<added, codexCode, untidy, patch, status>>

\* git diff --check looks at the files that git tracks.
DiffCheck(u) ==
    /\ pc = "diff_check"
    /\ u => edited # {}
    /\ untidy' = u
    /\ Write("diff_check_output")
    /\ pc' = "diff"
    /\ UNCHANGED <<edited, added, codexCode, testCode, testedOn, patch, status>>

\* git diff --no-ext-diff --binary, likewise.
Diff ==
    /\ pc = "diff"
    /\ patch' = edited
    /\ Write("proposal.patch")
    /\ pc' = "changed"
    /\ UNCHANGED <<edited, added, codexCode, testCode, untidy, testedOn, status>>

-----------------------------------------------------------------------------
\* Mutant: the outcome of the tests is asked first.
ResultStatusTestsFirst ==
    CASE patch = {} /\ codexCode # 0 -> "codex_failed_no_patch"
      [] patch = {} /\ codexCode = 0 -> "no_patch"
      [] patch # {} /\ testCode = 0 -> "patch_ready"
      [] patch # {} /\ testCode # 0 /\ untidy -> "diff_check_failed"
      [] OTHER -> "test_failed"

\* _result_status
ResultStatus ==
    CASE patch = {} /\ codexCode # 0 -> "codex_failed_no_patch"
      [] patch = {} /\ codexCode = 0 -> "no_patch"
      [] patch # {} /\ untidy -> "diff_check_failed"
      [] patch # {} /\ ~untidy /\ testCode = 0 -> "patch_ready"
      [] OTHER -> "test_failed"

Stopped(rc) == rc \in {124, 125}

\* _primary_failure
PrimaryFailure ==
    CASE status = "patch_ready" -> "none"
      [] status = "codex_failed_no_patch" /\ Stopped(codexCode) ->
            "codex_timeout_or_stall"
      [] status = "test_failed" /\ Stopped(testCode) -> "test_timeout_or_stall"
      [] OTHER -> status

\* Mutant: a run without a patch is worth a retry.
RetryableWithoutPatch == status # "patch_ready"

\* "retryable" in the failure analysis
Retryable ==
    status \in {"test_failed", "diff_check_failed", "codex_failed_no_patch"}

\* What the worker makes of the result (worker.py).
WorkStatusAfter ==
    CASE status = "patch_ready" -> "waiting_approval"
      [] status \in {"test_failed", "diff_check_failed",
                     "codex_failed_no_patch"} -> "reviewing"
      [] OTHER -> "blocked"

\* _changed_files, then the status and the analysis of the result.
Changed ==
    /\ pc = "changed"
    /\ status' = ResultStatus
    /\ pc' = "contract"
    /\ UNCHANGED <<edited, added, codexCode, testCode, untidy, testedOn, patch,
                   artifacts>>

WriteOne(from, file, to) ==
    /\ pc = from
    /\ Write(file)
    /\ pc' = to
    /\ UNCHANGED <<edited, added, codexCode, testCode, untidy, testedOn, patch,
                   status>>

WriteResult ==
    \/ WriteOne("contract", "contract.json", "evidence")
    \/ WriteOne("evidence", "evidence.json", "markdown")
    \/ WriteOne("markdown", "summary.md", "summary")
    \/ WriteOne("summary", "summary.json", "done")

\* The worktree cannot be made, git diff fails, or a command cannot be started
\* (Popen raises).
Raise ==
    /\ MayRaise
    /\ pc \in {"prepare", "codex", "test", "diff_check", "diff", "changed"}
    /\ pc' = "raised"
    /\ UNCHANGED <<edited, added, codexCode, testCode, untidy, testedOn, patch,
                   status, artifacts>>

Crash ==
    /\ MayCrash
    /\ pc \notin {"done", "raised", "dead"}
    /\ pc' = "dead"
    /\ UNCHANGED <<edited, added, codexCode, testCode, untidy, testedOn, patch,
                   status, artifacts>>

-----------------------------------------------------------------------------
Step ==
    \/ Prepare \/ Diff \/ Changed \/ WriteResult
    \/ \E e \in SUBSET Tracked, a \in SUBSET New, rc \in ReturnCode :
         Codex(e, a, rc)
    \/ \E rc \in ReturnCode, w \in SUBSET TestWrites : Test(rc, w)
    \/ \E u \in BOOLEAN : DiffCheck(u)

Next == Step \/ Raise \/ Crash

Spec == Init /\ [][Next]_vars

-----------------------------------------------------------------------------
(* Properties.                                                             *)

\* Of the files that git tracks and the tests leave alone, a patch that is ready
\* has exactly the changes that the tests passed on.
PatchHasTestedFiles ==
    status = "patch_ready" =>
        patch \ TestWrites = (testedOn \cap Tracked) \ TestWrites

\* What waits for an approval has a patch that is tidy and passed the tests, even
\* if the session itself was stopped, and nothing else does; the analysis calls a
\* result retryable exactly when the worker sends the item back to review, and it
\* names the command that the watchdog stopped only when that is what failed.
OnlyGoodPatchesWait ==
    status # "none" =>
      /\ WorkStatusAfter = "waiting_approval" <=>
           patch # {} /\ ~untidy /\ testCode = 0
      /\ Retryable <=> WorkStatusAfter = "reviewing"
      /\ PrimaryFailure = "codex_timeout_or_stall" => patch = {}
      /\ PrimaryFailure = "test_timeout_or_stall" => patch # {} /\ ~untidy
      /\ PrimaryFailure = "none" <=> WorkStatusAfter = "waiting_approval"

\* A run directory with a summary is complete, wherever the worker died.
SummaryIsLast == "summary.json" \in artifacts => artifacts = Required

\* The run and the directory it leaves are well formed at every step.
RunIsWellFormed == TypeOK /\ SummaryIsLast
=============================================================================
