------------------------ MODULE CapabilityProposals ------------------------
(***************************************************************************)
(* Capability gaps and proposals (harness/capability_service.py): a        *)
(* request for an ability the catalog lacks is recorded as a gap and, when *)
(* no proposal for it is open, becomes a proposal with a work item of its  *)
(* own; a user then approves, defers or rejects the proposal, which drags  *)
(* the work item along and hands it to the queue.  Users may also move or  *)
(* queue the work item itself, whatever its proposal says.                 *)
(*                                                                         *)
(* The handlers run on API threads.  A step is one SELECT or one committed *)
(* transaction of the ledger; the steps of the enqueue call are those of   *)
(* WorkPipeline and are one step here.                                     *)
(*                                                                         *)
(* One id names the gap, the work item and the proposal that one request   *)
(* creates.  Left out: what workers and activations do to them afterwards, *)
(* and the text of the proposals.                                          *)
(***************************************************************************)
EXTENDS Naturals, FiniteSets, WorkStates

CONSTANTS
    Id,         \* names of gaps, work items and proposals
    Ability,    \* pairs of action_id and target
    Known,      \* abilities whose action the catalog has
    Thread,     \* API threads
    UserGoals,  \* what callers of /work-items/{id}/status ask for
    Faults, MaxFaults,  \* the faults that may happen and how many (a bound)
    None        \* no id, no ability

FaultKind == {"crash", "empty_name", "queue_down"}

ASSUME ProposalAssumption ==
    /\ Known \subseteq Ability
    /\ UserGoals \subseteq WorkStatus
    /\ Faults \subseteq FaultKind
    /\ MaxFaults \in Nat
    /\ None \notin Id \cup Ability

VARIABLES
    gap,       \* capability_gaps.status, "absent" before the row exists
    proposal,  \* capability_proposals.status, likewise
    work,      \* work_items.status, likewise
    ability,   \* the proposal's action_id and target
    deduped,   \* pairs of a gap and the open proposal it was bound to
    jobs,      \* work items that were given a queued job
    th,        \* what each API thread is doing
    faults     \* faults so far

tables == <<gap, proposal, work, ability, deduped, jobs>>
vars == <<tables, th, faults>>

-----------------------------------------------------------------------------
IntentKind == {"gap", "ambiguous", "forbidden"}
GapStatus == {"detected", "needs_clarification", "unsafe"}

\* What approve-dev, reject and defer ask of the proposal.
Verdict == {"approved_for_dev", "rejected", "deferred"}

PC == {"idle", "find", "create_work", "create_proposal", "write_proposal",
       "check_work", "write_work", "enqueue", "retry"}

ThreadState == [pc : PC, id : Id \cup {None}, ability : Ability \cup {None},
                verdict : Verdict \cup {"none"},
                goal : WorkStatus \cup {"none"}]

Idle == [pc |-> "idle", id |-> None, ability |-> None, verdict |-> "none",
         goal |-> "none"]

TypeOK ==
    /\ gap \in [Id -> GapStatus \cup {"absent"}]
    /\ proposal \in [Id -> ProposalStatus \cup {"absent"}]
    /\ work \in [Id -> WorkStatus \cup {"absent"}]
    /\ ability \in [Id -> Ability \cup {None}]
    /\ deduped \subseteq Id \X Id
    /\ jobs \subseteq Id
    /\ th \in [Thread -> ThreadState]
    /\ faults \in 0..MaxFaults

Init ==
    /\ gap = [i \in Id |-> "absent"]
    /\ proposal = [i \in Id |-> "absent"]
    /\ work = [i \in Id |-> "absent"]
    /\ ability = [i \in Id |-> None]
    /\ deduped = {} /\ jobs = {}
    /\ th = [t \in Thread |-> Idle]
    /\ faults = 0

Fault(kind) ==
    /\ kind \in Faults
    /\ faults < MaxFaults
    /\ faults' = faults + 1

At(t, pc) == th[t].pc = pc
Goto(t, pc) == th' = [th EXCEPT ![t].pc = pc]
Return(t) == th' = [th EXCEPT ![t] = Idle]

-----------------------------------------------------------------------------
(* create_from_intent                                                      *)

\* Mutant: the kind of the intent is written as the status.
GapStatusAsKind(kind) == kind

GapStatusOf(kind) ==
    CASE kind = "forbidden" -> "unsafe"
      [] kind = "ambiguous" -> "needs_clarification"
      [] kind = "gap"       -> "detected"

\* Mutant: an ambiguous request gets a proposal too.
MakesProposalUnlessForbidden(kind, a) == kind # "forbidden" /\ a \notin Known

MakesProposal(kind, a) == kind = "gap" /\ a \notin Known

\* The gap is recorded whatever comes of it.
RecordGap(t, i, kind, a) ==
    /\ At(t, "idle")
    /\ gap[i] = "absent"
    /\ gap' = [gap EXCEPT ![i] = GapStatusOf(kind)]
    /\ IF MakesProposal(kind, a)
       THEN th' = [th EXCEPT ![t] = [Idle EXCEPT !.pc = "find", !.id = i,
                                                 !.ability = a]]
       ELSE UNCHANGED th
    /\ UNCHANGED <<proposal, work, ability, deduped, jobs, faults>>

\* Mutant: a deferred proposal is not seen as open.
OpenStatusNotDeferred == {"proposed", "approved_for_dev"}

OpenStatus == {"proposed", "approved_for_dev", "deferred"}

Open(a) == {i \in Id : ability[i] = a /\ proposal[i] \in OpenStatus}

\* Mutant: the duplicate is noted and the request goes on.
FindDuplicateGoesOn(t) ==
    /\ At(t, "find")
    /\ deduped' = deduped \cup {<<th[t].id, i>> : i \in Open(th[t].ability)}
    /\ Goto(t, "create_work")
    /\ UNCHANGED <<gap, proposal, work, ability, jobs, faults>>

\* _find_duplicate: a gap with an open proposal is bound to it.
FindDuplicate(t) ==
    /\ At(t, "find")
    /\ \/ \E i \in Open(th[t].ability) :
            /\ deduped' = deduped \cup {<<th[t].id, i>>}
            /\ Return(t)
       \/ /\ Open(th[t].ability) = {}
          /\ Goto(t, "create_work")
          /\ UNCHANGED deduped
    /\ UNCHANGED <<gap, proposal, work, ability, jobs, faults>>

CreateWork(t) ==
    /\ At(t, "create_work")
    /\ work' = [work EXCEPT ![th[t].id] = "proposed"]
    /\ Goto(t, "create_proposal")
    /\ UNCHANGED <<gap, proposal, ability, deduped, jobs, faults>>

\* create_capability_proposal raises for an empty capability_name or purpose,
\* which the language contract lets through.
CreateProposal(t) ==
    LET i == th[t].id IN
    /\ At(t, "create_proposal")
    /\ \/ /\ proposal' = [proposal EXCEPT ![i] = "proposed"]
          /\ ability' = [ability EXCEPT ![i] = th[t].ability]
          /\ UNCHANGED faults
       \/ /\ Fault("empty_name")
          /\ UNCHANGED <<proposal, ability>>
    /\ Return(t)
    /\ UNCHANGED <<gap, work, deduped, jobs>>

-----------------------------------------------------------------------------
(* transition: approve-dev, reject and defer                               *)

\* Mutant: the table is not asked.
CheckNothing(t, i, v) ==
    /\ At(t, "idle")
    /\ proposal[i] # "absent"
    /\ th' = [th EXCEPT ![t] = [Idle EXCEPT !.pc = "write_proposal", !.id = i,
                                            !.verdict = v]]
    /\ UNCHANGED <<tables, faults>>

\* transition_capability_proposal reads the proposal and asks the table, ...
CheckProposal(t, i, v) ==
    /\ At(t, "idle")
    /\ v \in ProposalNext(proposal[i])
    /\ th' = [th EXCEPT ![t] = [Idle EXCEPT !.pc = "write_proposal", !.id = i,
                                            !.verdict = v]]
    /\ UNCHANGED <<tables, faults>>

\* ... and then writes.
WriteProposal(t) ==
    /\ At(t, "write_proposal")
    /\ proposal' = [proposal EXCEPT ![th[t].id] = th[t].verdict]
    /\ Goto(t, "check_work")
    /\ UNCHANGED <<gap, work, ability, deduped, jobs, faults>>

WorkGoal(v) == IF v = "approved_for_dev" THEN "accepted" ELSE v

\* transition_work_item, likewise; a refusal leaves an event that the closing
\* connection rolls back.
CheckWork(t) ==
    LET goal == WorkGoal(th[t].verdict) IN
    /\ At(t, "check_work")
    /\ IF goal \in WorkNext(work[th[t].id])
       THEN th' = [th EXCEPT ![t].pc = "write_work", ![t].goal = goal]
       ELSE Return(t)
    /\ UNCHANGED <<tables, faults>>

\* Mutant: every change of a status enqueues.
WriteWorkEnqueues(t) ==
    /\ At(t, "write_work")
    /\ work' = [work EXCEPT ![th[t].id] = th[t].goal]
    /\ Goto(t, "enqueue")
    /\ UNCHANGED <<gap, proposal, ability, deduped, jobs, faults>>

\* An item that was accepted, by a verdict or directly, is enqueued.
WriteWork(t) ==
    /\ At(t, "write_work")
    /\ work' = [work EXCEPT ![th[t].id] = th[t].goal]
    /\ IF th[t].goal = "accepted" THEN Goto(t, "enqueue") ELSE Return(t)
    /\ UNCHANGED <<gap, proposal, ability, deduped, jobs, faults>>

\* WorkItemService.enqueue; without the queue the job is enqueue_failed.
Enqueue(t) ==
    /\ At(t, "enqueue")
    /\ \/ jobs' = jobs \cup {th[t].id} /\ UNCHANGED faults
       \/ Fault("queue_down") /\ UNCHANGED jobs
    /\ Return(t)
    /\ UNCHANGED <<gap, proposal, work, ability, deduped>>

-----------------------------------------------------------------------------
(* What callers ask of a work item itself; its proposal is not looked at.  *)

\* POST /work-items/{id}/status: the same steps, without a verdict.
CheckStatus(t, i, goal) ==
    /\ At(t, "idle")
    /\ goal \in WorkNext(work[i])
    /\ th' = [th EXCEPT ![t] = [Idle EXCEPT !.pc = "write_work", !.id = i,
                                            !.goal = goal]]
    /\ UNCHANGED <<tables, faults>>

\* POST /work-items/{id}/enqueue asks for no status at all.
AskEnqueue(t, i) ==
    /\ At(t, "idle")
    /\ work[i] # "absent"
    /\ th' = [th EXCEPT ![t] = [Idle EXCEPT !.pc = "enqueue", !.id = i]]
    /\ UNCHANGED <<tables, faults>>

\* POST /work-items/{id}/retry checks the status, ...
AskRetry(t, i) ==
    /\ At(t, "idle")
    /\ work[i] \in {"reviewing", "blocked", "failed"}
    /\ th' = [th EXCEPT ![t] = [Idle EXCEPT !.pc = "retry", !.id = i]]
    /\ UNCHANGED <<tables, faults>>

\* ... and creates a job and moves the item, which goes back if the queue is down.
\* A live job ends the request, and the move is refused if the item has left these
\* statuses meanwhile.
Retry(t) ==
    LET i == th[t].id IN
    /\ At(t, "retry")
    /\ \/ /\ "running" \in WorkNext(work[i])
          /\ jobs' = jobs \cup {i}
          /\ work' = [work EXCEPT ![i] = "running"]
          /\ UNCHANGED faults
       \/ /\ "running" \notin WorkNext(work[i]) \/ i \in jobs
          /\ UNCHANGED <<jobs, work, faults>>
       \/ /\ Fault("queue_down")
          /\ UNCHANGED <<jobs, work>>
    /\ Return(t)
    /\ UNCHANGED <<gap, proposal, ability, deduped>>

-----------------------------------------------------------------------------
\* The API process dies between two steps of a request.
Crash ==
    /\ \E t \in Thread : ~At(t, "idle")
    /\ Fault("crash")
    /\ th' = [t \in Thread |-> Idle]
    /\ UNCHANGED tables

-----------------------------------------------------------------------------
Begin(t) ==
    \E i \in Id :
      \/ \E kind \in IntentKind, a \in Ability : RecordGap(t, i, kind, a)
      \/ \E v \in Verdict : CheckProposal(t, i, v)
      \/ \E goal \in UserGoals : CheckStatus(t, i, goal)
      \/ AskEnqueue(t, i) \/ AskRetry(t, i)

Step(t) ==
    \/ FindDuplicate(t) \/ CreateWork(t) \/ CreateProposal(t)
    \/ WriteProposal(t) \/ CheckWork(t) \/ WriteWork(t) \/ Enqueue(t)
    \/ Retry(t)

Next == Crash \/ \E t \in Thread : Begin(t) \/ Step(t)

Spec == Init /\ [][Next]_vars

-----------------------------------------------------------------------------
(* Properties.                                                             *)

\* Nothing is proposed for development that was not asked for, was forbidden or
\* unclear, or exists already; and a proposal always has the work item that its
\* approval will move, however the request ended.
ProposalIsBacked ==
    \A i \in Id : proposal[i] # "absent" =>
        /\ gap[i] = "detected"
        /\ ability[i] \in Ability \ Known
        /\ work[i] # "absent"

\* A gap is bound to a proposal of an earlier request and gets none itself.
DuplicateHasNoProposal ==
    \A d \in deduped : proposal[d[1]] = "absent" /\ proposal[d[2]] # "absent"

\* The rows that requests leave behind belong together, whatever cut them short.
RowsBelongTogether == TypeOK /\ ProposalIsBacked /\ DuplicateHasNoProposal
=============================================================================
