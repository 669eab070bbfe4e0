----------------------------- MODULE Activation -----------------------------
(***************************************************************************)
(* The activation pipeline (harness/activation.py): it takes the patch of  *)
(* a work item that waits for approval, applies it to the live repository, *)
(* runs the tests and a smoke run there, commits, asks the service to      *)
(* reload and closes the work item, its parent and its proposal.           *)
(*                                                                         *)
(* The live repository is a set of patches three times: in the working     *)
(* tree, in git's index and in HEAD.  An activation is a sequence of git   *)
(* commands and ledger transactions, one action each; activations run on   *)
(* API threads or as CLI processes, so several may be under way, and users *)
(* change statuses in the meantime.                                        *)
(*                                                                         *)
(* Left out: what a patch contains (the preflight and the smoke run may    *)
(* have either outcome, the tests fail on what a constant says), what is   *)
(* archived and the text of the events.                                    *)
(***************************************************************************)
EXTENDS Naturals, FiniteSets, WorkStates

CONSTANTS
    Work,       \* self-patch items
    Proposed,   \* those linked to a capability proposal
    Promoted,   \* those with an external_work parent
    Broken,     \* those with whose patch in the tree the tests fail
    Activator,  \* API threads and CLI processes that activate
    User,       \* API threads that change statuses
    UserWork,   \* the items they do that to
    UserGoals,  \* the work statuses they ask for
    RequireCleanGit, CommitAfterApply, HasReload,   \* the configuration
    Faults,     \* the faults that may happen, see FaultKind
    MaxFaults,  \* a bound on them (bounds the model)
    None        \* no work item

\* Commands that fail, those whose failure comes after HEAD has moved, exceptions
\* that no handler catches, before and after the commit, and the end of a process.
FaultKind == {"command_fails", "fails_after_commit", "raises",
              "test_timeout", "raises_after_commit", "crash"}

ASSUME ActivationAssumption ==
    /\ Proposed \subseteq Work /\ Promoted \subseteq Work \ Proposed
    /\ Broken \subseteq Work
    /\ UserWork \subseteq Work /\ UserGoals \subseteq WorkStatus
    /\ {RequireCleanGit, CommitAfterApply, HasReload} \subseteq BOOLEAN
    /\ Faults \subseteq FaultKind
    /\ MaxFaults \in Nat
    /\ None \notin Work

VARIABLES
    status,    \* work_items.status
    parent,    \* the status of the parent of a promoted item
    proposal,  \* capability_proposals.status of the linked proposal
    tree,      \* patches in the working tree
    index,     \* patches in git's index
    head,      \* patches in HEAD
    tested,    \* the contents of the tree the tests passed on
    verified,  \* items whose verification passed
    act,       \* what each activator is doing
    user,      \* the status change each user thread is about to write
    faults     \* the kinds of faults so far

repo == <<tree, index, head>>
ledger == <<status, parent, proposal>>
vars == <<ledger, repo, tested, verified, act, user, faults>>

-----------------------------------------------------------------------------
PC == {"idle", "patch", "clean", "apply", "test", "rollback", "verify", "add",
       "commit", "reset", "reload", "archive", "record", "parent",
       "parent_write", "proposal", "proposal_write", "fail"}

ActivatorState == [pc : PC, work : Work \cup {None}]
UserState == [work : Work \cup {None}, goal : WorkStatus \cup {"none"}]

Idle == [pc |-> "idle", work |-> None]
NoChange == [work |-> None, goal |-> "none"]

TypeOK ==
    /\ status \in [Work -> WorkStatus]
    /\ parent \in [Promoted -> WorkStatus]
    /\ proposal \in [Proposed -> ProposalStatus]
    /\ tree \subseteq Work /\ index \subseteq Work /\ head \subseteq Work
    /\ tested \subseteq SUBSET Work
    /\ verified \subseteq Work
    /\ act \in [Activator -> ActivatorState]
    /\ user \in [User -> UserState]
    /\ faults \subseteq FaultKind

\* Where the worker and the approval of the proposal have left the items.
Init ==
    /\ status = [w \in Work |-> "waiting_approval"]
    /\ parent \in [Promoted -> {"planned", "blocked"}]
    /\ proposal = [w \in Proposed |-> "approved_for_dev"]
    /\ tree = {} /\ index = {} /\ head = {}
    /\ tested = {{}}
    /\ verified = {}
    /\ act = [a \in Activator |-> Idle]
    /\ user = [u \in User |-> NoChange]
    /\ faults = {}

Fault(kind) ==
    /\ kind \in Faults
    /\ Cardinality(faults) < MaxFaults
    /\ faults' = faults \cup {kind}

At(a, pc) == act[a].pc = pc
Goto(a, pc) == act' = [act EXCEPT ![a].pc = pc]
Return(a) == act' = [act EXCEPT ![a] = Idle]

-----------------------------------------------------------------------------
(* activate_work_item                                                      *)

\* The status is read.
Start(a, w) ==
    /\ At(a, "idle")
    /\ status[w] = "waiting_approval"
    /\ act' = [act EXCEPT ![a] = [pc |-> "patch", work |-> w]]
    /\ UNCHANGED <<ledger, repo, tested, verified, user, faults>>

\* The patch of the latest patch_ready result is looked up and its paths are
\* checked (preflight).
UsePatch(a) ==
    /\ At(a, "patch")
    /\ Goto(a, "clean") \/ Goto(a, "fail")
    /\ UNCHANGED <<ledger, repo, tested, verified, user, faults>>

\* An exception that no handler of activate_work_item catches: there is no
\* patch_ready result or its patch is gone, git rev-parse or git status fails, the
\* tests or the reload take too long, the smoke run raises, or, after the commit,
\* git rev-parse or the writing of the archive fails.
Raise(a) ==
    /\ \/ At(a, "patch") /\ Fault("raises")
       \/ At(a, "clean") /\ Fault("raises")
       \/ At(a, "test") /\ Fault("test_timeout")
       \/ At(a, "verify") /\ act[a].work \in Proposed /\ Fault("raises")
       \/ At(a, "reload") /\ HasReload /\ Fault("raises_after_commit")
       \/ At(a, "archive") /\ Fault("raises_after_commit")
    /\ Return(a)
    /\ UNCHANGED <<ledger, repo, tested, verified, user>>

\* git status --porcelain
Dirty == tree # index \/ index # head

CleanGit(a) ==
    /\ At(a, "clean")
    /\ Goto(a, IF RequireCleanGit /\ Dirty THEN "fail" ELSE "apply")
    /\ UNCHANGED <<ledger, repo, tested, verified, user, faults>>

\* git apply --check and git apply: all of the patch or nothing.  A patch that
\* is in the tree does not apply again; one may also conflict with the tree, and
\* a command that takes too long is killed before or after it has applied it.
Apply(a) ==
    LET w == act[a].work IN
    /\ At(a, "apply")
    /\ \/ /\ w \notin tree
          /\ tree' = tree \cup {w}
          /\ Goto(a, "test")
          /\ UNCHANGED faults
       \/ /\ w \in tree
          /\ Goto(a, "fail")
          /\ UNCHANGED <<tree, faults>>
       \/ /\ Fault("command_fails")
          /\ Goto(a, "fail")
          /\ UNCHANGED tree
       \/ /\ Fault("command_fails")
          /\ Goto(a, "fail")
          /\ tree' \in {tree, tree \cup {w}}
    /\ UNCHANGED <<ledger, index, head, tested, verified, user>>

\* Mutant: the return code of the tests is not looked at.
TestUnchecked(a) ==
    /\ At(a, "test")
    /\ tested' = IF tree \cap Broken = {} THEN tested \cup {tree} ELSE tested
    /\ Goto(a, "verify")
    /\ UNCHANGED <<ledger, repo, verified, user, faults>>

\* The test command, on whatever the tree holds.
Test(a) ==
    /\ At(a, "test")
    /\ \/ /\ tree \cap Broken = {}
          /\ tested' = tested \cup {tree}
          /\ Goto(a, "verify")
       \/ /\ tree \cap Broken # {}
          /\ Goto(a, "rollback")
          /\ UNCHANGED tested
    /\ UNCHANGED <<ledger, repo, verified, user, faults>>

\* git apply -R; its return code is recorded and not looked at, but if it takes
\* too long the exception comes before _fail_activation.
Rollback(a) ==
    LET reverted == tree \ {act[a].work} IN
    /\ At(a, "rollback")
    /\ \/ tree' = reverted /\ Goto(a, "fail") /\ UNCHANGED faults
       \/ Fault("command_fails") /\ Goto(a, "fail") /\ UNCHANGED tree
       \/ Fault("raises") /\ Return(a) /\ tree' \in {tree, reverted}
    /\ UNCHANGED <<ledger, index, head, tested, verified, user>>

AfterVerify == IF CommitAfterApply THEN "add" ELSE "reload"

\* Mutant: the outcome of the verification is not looked at.
VerifyUnchecked(a) ==
    LET w == act[a].work IN
    /\ At(a, "verify")
    /\ \/ verified' = verified \cup {w}
       \/ w \in Proposed /\ UNCHANGED verified
    /\ Goto(a, AfterVerify)
    /\ UNCHANGED <<ledger, repo, tested, user, faults>>

\* _verify_activation: the new action of a proposal is checked and tried out; an
\* item without a proposal passes unseen.
Verify(a) ==
    LET w == act[a].work IN
    /\ At(a, "verify")
    /\ \/ verified' = verified \cup {w} /\ Goto(a, AfterVerify)
       \/ w \in Proposed /\ Goto(a, "rollback") /\ UNCHANGED verified
    /\ UNCHANGED <<ledger, repo, tested, user, faults>>

\* git add -A stages the whole tree.
Add(a) ==
    /\ At(a, "add")
    /\ \/ index' = tree /\ Goto(a, "commit") /\ UNCHANGED faults
       \/ Fault("command_fails") /\ Goto(a, "rollback") /\ index' \in {index, tree}
    /\ UNCHANGED <<ledger, tree, head, tested, verified, user>>

\* Mutant: the return code of git commit is not looked at.
CommitUnchecked(a) ==
    /\ At(a, "commit")
    /\ \/ head' = index /\ UNCHANGED faults
       \/ Fault("command_fails") /\ UNCHANGED head
    /\ Goto(a, "reload")
    /\ UNCHANGED <<ledger, tree, index, tested, verified, user>>

\* git commit fails when nothing is staged, or when a hook refuses.  One that takes
\* too long is killed before or after it has committed, and nothing is reset.
Commit(a) ==
    /\ At(a, "commit")
    /\ \/ /\ index # head
          /\ head' = index
          /\ Goto(a, "reload")
          /\ UNCHANGED faults
       \/ /\ index = head \/ "command_fails" \in Faults
          /\ IF index = head THEN UNCHANGED faults ELSE Fault("command_fails")
          /\ Goto(a, "reset")
          /\ UNCHANGED head
       \/ /\ Fault("fails_after_commit")
          /\ Goto(a, "rollback")
          /\ head' \in {head, index}
    /\ UNCHANGED <<ledger, tree, index, tested, verified, user>>

\* git reset --mixed HEAD, after which the exception leads to the rollback.
Reset(a) ==
    /\ At(a, "reset")
    /\ \/ index' = head /\ UNCHANGED faults
       \/ Fault("command_fails") /\ UNCHANGED index
    /\ Goto(a, "rollback")
    /\ UNCHANGED <<ledger, tree, head, tested, verified, user>>

\* The reload command, if one is configured; the commit stays if it fails.
Reload(a) ==
    /\ At(a, "reload")
    /\ \/ Goto(a, "archive") /\ UNCHANGED faults
       \/ HasReload /\ Fault("fails_after_commit") /\ Goto(a, "fail")
    /\ UNCHANGED <<ledger, repo, tested, verified, user>>

\* git rev-parse and the files of the archive, which the repository ignores.
Archive(a) ==
    /\ At(a, "archive")
    /\ Goto(a, "record")
    /\ UNCHANGED <<ledger, repo, tested, verified, user, faults>>

AfterRecord(w) ==
    IF w \in Promoted THEN "parent" ELSE IF w \in Proposed THEN "proposal" ELSE "idle"

Leave(a, pc) == IF pc = "idle" THEN Return(a) ELSE Goto(a, pc)

\* Mutant: the events are written and the status is forgotten.
RecordEventsOnly(a) ==
    /\ At(a, "record")
    /\ Leave(a, AfterRecord(act[a].work))
    /\ UNCHANGED <<ledger, repo, tested, verified, user, faults>>

\* The events open a transaction, so the check and the update of the item are
\* atomic; an item that may not be completed any more only gets an event.
Record(a) ==
    LET w == act[a].work IN
    /\ At(a, "record")
    /\ status' = IF "completed" \in WorkNext(status[w])
                 THEN [status EXCEPT ![w] = "completed"] ELSE status
    /\ Leave(a, AfterRecord(w))
    /\ UNCHANGED <<parent, proposal, repo, tested, verified, user, faults>>

\* _complete_parent_work_if_possible: the parent is read and checked, ...
CompleteParent(a) ==
    /\ At(a, "parent")
    /\ IF "completed" \in WorkNext(parent[act[a].work])
       THEN Goto(a, "parent_write") ELSE Return(a)
    /\ UNCHANGED <<ledger, repo, tested, verified, user, faults>>

\* ... and then written.
WriteParent(a) ==
    /\ At(a, "parent_write")
    /\ parent' = [parent EXCEPT ![act[a].work] = "completed"]
    /\ Return(a)
    /\ UNCHANGED <<status, proposal, repo, tested, verified, user, faults>>

\* transition_capability_proposal(..., "active"), likewise.
CheckProposal(a) ==
    /\ At(a, "proposal")
    /\ IF "active" \in ProposalNext(proposal[act[a].work])
       THEN Goto(a, "proposal_write") ELSE Return(a)
    /\ UNCHANGED <<ledger, repo, tested, verified, user, faults>>

WriteProposal(a) ==
    /\ At(a, "proposal_write")
    /\ proposal' = [proposal EXCEPT ![act[a].work] = "active"]
    /\ Return(a)
    /\ UNCHANGED <<status, parent, repo, tested, verified, user, faults>>

\* Mutant: the name of the event is written as the status.
FailAsEvent(a) ==
    /\ At(a, "fail")
    /\ status' = [status EXCEPT ![act[a].work] = "activation_failed"]
    /\ Return(a)
    /\ UNCHANGED <<parent, proposal, repo, tested, verified, user, faults>>

\* Mutant: the failure is recorded as an event only.
FailSilently(a) ==
    /\ At(a, "fail")
    /\ Return(a)
    /\ UNCHANGED <<ledger, repo, tested, verified, user, faults>>

\* _fail_activation, in one transaction as in Record.
Fail(a) ==
    LET w == act[a].work IN
    /\ At(a, "fail")
    /\ status' = IF "reviewing" \in WorkNext(status[w])
                 THEN [status EXCEPT ![w] = "reviewing"] ELSE status
    /\ Return(a)
    /\ UNCHANGED <<parent, proposal, repo, tested, verified, user, faults>>

\* The process dies between two steps, or a ledger transaction raises.
Crash(a) ==
    /\ ~At(a, "idle")
    /\ Fault("crash")
    /\ Return(a)
    /\ UNCHANGED <<ledger, repo, tested, verified, user>>

-----------------------------------------------------------------------------
(* POST /work-items/{work_id}/status, in the meantime                      *)

UserCheck(u, w, goal) ==
    /\ user[u] = NoChange
    /\ goal \in WorkNext(status[w])
    /\ user' = [user EXCEPT ![u] = [work |-> w, goal |-> goal]]
    /\ UNCHANGED <<ledger, repo, tested, verified, act, faults>>

UserWrite(u) ==
    /\ user[u] # NoChange
    /\ status' = [status EXCEPT ![user[u].work] = user[u].goal]
    /\ user' = [user EXCEPT ![u] = NoChange]
    /\ UNCHANGED <<parent, proposal, repo, tested, verified, act, faults>>

-----------------------------------------------------------------------------
Step(a) ==
    \/ UsePatch(a) \/ CleanGit(a) \/ Apply(a)  \/ Test(a)   \/ Rollback(a)
    \/ Verify(a)   \/ Add(a)      \/ Commit(a) \/ Reset(a)  \/ Reload(a)
    \/ Archive(a)  \/ Record(a)
    \/ CompleteParent(a) \/ WriteParent(a) \/ CheckProposal(a)
    \/ WriteProposal(a)  \/ Fail(a)

Next ==
    \/ \E a \in Activator :
         Step(a) \/ Raise(a) \/ Crash(a) \/ \E w \in Work : Start(a, w)
    \/ \E u \in User :
         UserWrite(u) \/ \E w \in UserWork, goal \in UserGoals : UserCheck(u, w, goal)

Spec == Init /\ [][Next]_vars

\* An activation that has begun is carried on; nobody has to start one.
FairSpec == Spec /\ \A a \in Activator : WF_vars(Step(a))

-----------------------------------------------------------------------------
(* Properties.                                                             *)

AtRest == \A a \in Activator : At(a, "idle")

InHandOf(w) == {a \in Activator : act[a].work = w}

\* What HEAD holds is, as a whole, something the tests passed on.
LiveWasTested == head \in tested

\* "A proposal is not made active before its tests pass": an active proposal was
\* verified and is part of a HEAD, whatever else went on and whatever crashed.
ActiveIsLive ==
    \A w \in Proposed : proposal[w] = "active" =>
        w \in verified /\ w \in head

\* No user says completed here, so a completed item is one whose patch is live.
CompletedIsLive == \A w \in Work : status[w] = "completed" => w \in head

\* The ledger never claims more than the repository holds.
LedgerIsTrue == TypeOK /\ ActiveIsLive /\ CompletedIsLive

\* "If the tests fail the patch is taken back": when no activation is under way
\* the tree is what HEAD says, so that the next one is not refused.
CleanAtRest == AtRest => tree = head /\ index = head

\* A patch that is live and in nobody's hands has its item completed.
LiveIsCompleted ==
    \A w \in head : InHandOf(w) = {} => status[w] = "completed"
=============================================================================
