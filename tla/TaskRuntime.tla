---------------------------- MODULE TaskRuntime ----------------------------
(***************************************************************************)
(* The task runtime: the API handlers that create, dry-run, run, approve   *)
(* and reject tasks (harness/service.py) over the tasks, task_events,      *)
(* action_decisions, execution_results, approvals and traces tables        *)
(* (harness/memory.py) and the transition table (harness/state_machine.py).*)
(*                                                                         *)
(* Every request runs on a thread of its own.  One action is one committed *)
(* transaction, one SELECT, or the executor's run: transition_task reads   *)
(* the status and checks it against the table ("check"), and then writes   *)
(* unconditionally ("write").  An exception that leaves a handler ends the *)
(* request and leaves the tables as they are.                              *)
(*                                                                         *)
(* Left out: what an action computes, the text of events and traces, and   *)
(* the dry_run event, which is inserted but never committed.               *)
(***************************************************************************)
EXTENDS SafetyGate

CONSTANTS
    Task,        \* task ids
    Specs,       \* the task specifications that requests carry
    Thread,      \* API threads
    Ops,         \* for each thread, the operations its requests may ask for
    MaxRequests, \* requests served in all (bounds the model)
    MaxRestarts, \* restarts of the API process (bounds the model)
    None         \* no task, no action

ASSUME RuntimeAssumption ==
    /\ MaxRequests \in Nat
    /\ MaxRestarts \in Nat
    /\ None \notin Task

VARIABLES
    status,    \* tasks.status, "absent" before the row exists
    spec,      \* tasks.task_spec_json
    events,    \* task_events, in the order of their ids
    decided,   \* action_decisions: the chosen action and its decision
    started,   \* per task, how many times an executor was started
    ran,       \* per task, the actions that were started
    results,   \* execution_results: the success flags recorded
    approvals, \* approvals: the decisions recorded
    traced,    \* tasks with a failure trace
    thread,    \* what each API thread is doing
    requests,  \* requests so far
    restarts   \* restarts so far

tables == <<status, spec, events, decided, results, approvals, traced>>
vars == <<tables, started, ran, thread, requests, restarts>>

-----------------------------------------------------------------------------
TaskState == {"created", "validated", "waiting_approval", "ready", "running",
              "deciding", "executing", "evaluating", "completed", "failed",
              "cancelled"}

Terminal == {"completed", "failed", "cancelled"}

ALLOWED_TRANSITIONS(s) ==
    CASE s = "created"          -> {"validated", "failed", "cancelled"}
      [] s = "validated"        -> {"ready", "waiting_approval", "failed", "cancelled"}
      [] s = "waiting_approval" -> {"ready", "failed", "cancelled"}
      [] s = "ready"            -> {"running", "failed", "cancelled"}
      [] s = "running"          -> {"deciding", "executing", "failed", "cancelled"}
      [] s = "deciding"         -> {"executing", "failed", "cancelled"}
      [] s = "executing"        -> {"evaluating", "failed", "cancelled"}
      [] s = "evaluating"       -> {"completed", "failed", "deciding", "cancelled"}
      [] OTHER                  -> {}

Op == {"create", "dry_run", "run", "approve", "reject"}

PC == {"idle", "check", "write", "gate", "decide", "execute", "result",
       "complete", "trace", "fail", "read_status"}

\* goal: the status of the transition under way; act: the chosen action;
\* success: what the executor returned.
ThreadState == [pc : PC, op : Op \cup {"none"}, task : Task \cup {None},
                goal : TaskState \cup {"none"}, act : Action \cup {"none"},
                success : BOOLEAN]

NoRequest == [pc |-> "idle", op |-> "none", task |-> None, goal |-> "none",
              act |-> "none", success |-> FALSE]

NoSpec == [allowed |-> <<>>, blocked |-> {}, target |-> "local", risk |-> "low",
           requires_approval |-> FALSE, mode |-> "dry_run_or_readonly"]

Event == TaskState \cup {"approval_approved", "approval_rejected"}

TypeOK ==
    /\ status \in [Task -> TaskState \cup {"absent"}]
    /\ spec \in [Task -> TaskSpec]
    /\ events \in [Task -> Seq(Event)]
    /\ decided \in [Task -> SUBSET ((Action \cup {"none"}) \X Decision)]
    /\ started \in [Task -> Nat]
    /\ ran \in [Task -> SUBSET Action]
    /\ results \in [Task -> SUBSET BOOLEAN]
    /\ approvals \in [Task -> SUBSET {"approved", "rejected"}]
    /\ traced \subseteq Task
    /\ thread \in [Thread -> ThreadState]
    /\ requests \in 0..MaxRequests
    /\ restarts \in 0..MaxRestarts

Init ==
    /\ status = [t \in Task |-> "absent"]
    /\ spec = [t \in Task |-> NoSpec]
    /\ events = [t \in Task |-> <<>>]
    /\ decided = [t \in Task |-> {}]
    /\ started = [t \in Task |-> 0]
    /\ ran = [t \in Task |-> {}]
    /\ results = [t \in Task |-> {}]
    /\ approvals = [t \in Task |-> {}]
    /\ traced = {}
    /\ thread = [h \in Thread |-> NoRequest]
    /\ requests = 0
    /\ restarts = 0

-----------------------------------------------------------------------------
(* HarnessMemory: one operator per committed transaction.                  *)

\* add_event, inside the caller's transaction.
AddEvent(t, e) == events' = [events EXCEPT ![t] = Append(@, e)]

\* Mutant: set_task_failed and set_task_completed leave out the event.
SetStatusSilently(t, s) ==
    /\ status' = [status EXCEPT ![t] = s]
    /\ IF s \in Terminal THEN UNCHANGED events ELSE AddEvent(t, s)

SetStatus(t, s) == status' = [status EXCEPT ![t] = s] /\ AddEvent(t, s)

Goto(h, pc) == thread' = [thread EXCEPT ![h].pc = pc]

Transition(h, goal) ==
    thread' = [thread EXCEPT ![h].pc = "check", ![h].goal = goal]

Return(h) == thread' = [thread EXCEPT ![h] = NoRequest]

Receive(h, op, t, pc, goal) ==
    /\ op \in Ops[h]
    /\ thread[h].pc = "idle"
    /\ requests < MaxRequests
    /\ requests' = requests + 1
    /\ thread' = [thread EXCEPT ![h] = [NoRequest EXCEPT !.pc = pc, !.op = op,
                                          !.task = t, !.goal = goal]]
    /\ UNCHANGED restarts

\* transition_task reads the status and raises unless the table allows goal.
Check(h) ==
    LET x == thread[h] IN
    /\ x.pc = "check"
    /\ IF x.goal \in ALLOWED_TRANSITIONS(status[x.task])
       THEN Goto(h, "write") ELSE Return(h)
    /\ UNCHANGED <<tables, started, ran, requests, restarts>>

\* Mutant: create_task leaves every task ready.
AfterWriteReady(h) ==
    LET x == thread[h] IN
    CASE x.goal = "validated"  -> Transition(h, "ready")
      [] x.goal = "running"    -> Transition(h, "deciding")
      [] x.goal = "deciding"   -> Goto(h, "decide")
      [] x.goal = "executing"  -> Goto(h, "execute")
      [] x.goal = "evaluating" -> Goto(h, IF x.success THEN "complete" ELSE "trace")
      [] OTHER                 -> Return(h)

\* Mutant: an unsuccessful result is recorded and the task left evaluating.
AfterWriteUnsettled(h) ==
    LET x == thread[h] IN
    CASE x.goal = "validated"  ->
           Transition(h, IF spec[x.task].requires_approval
                         THEN "waiting_approval" ELSE "ready")
      [] x.goal = "running"    -> Transition(h, "deciding")
      [] x.goal = "deciding"   -> Goto(h, "decide")
      [] x.goal = "executing"  -> Goto(h, "execute")
      [] x.goal = "evaluating" /\ x.success -> Goto(h, "complete")
      [] OTHER                 -> Return(h)

\* What the handler does after transition_task returned.
AfterWrite(h) ==
    LET x == thread[h] IN
    CASE x.goal = "validated"  ->
           Transition(h, IF spec[x.task].requires_approval
                         THEN "waiting_approval" ELSE "ready")
      [] x.goal = "running"    -> Transition(h, "deciding")
      [] x.goal = "deciding"   -> Goto(h, "decide")
      [] x.goal = "executing"  -> Goto(h, "execute")
      [] x.goal = "evaluating" -> Goto(h, IF x.success THEN "complete" ELSE "trace")
      [] OTHER                 -> Return(h)

\* The unconditional UPDATE, with its event, in one transaction.
Write(h) ==
    LET x == thread[h] IN
    /\ x.pc = "write"
    /\ SetStatus(x.task, x.goal)
    /\ AfterWrite(h)
    /\ UNCHANGED <<spec, decided, started, ran, results, approvals, traced,
                   requests, restarts>>

-----------------------------------------------------------------------------
(* POST /tasks                                                             *)

\* create_task up to the commit of the row; the transitions to validated and
\* to ready or waiting_approval follow as checks and writes of the same thread.
CreateTask(h, t, s) ==
    /\ AcceptsTaskSpec(s)
    /\ status[t] = "absent"
    /\ Receive(h, "create", t, "check", "validated")
    /\ SetStatus(t, "created")
    /\ spec' = [spec EXCEPT ![t] = s]
    /\ UNCHANGED <<decided, started, ran, results, approvals, traced>>

(* POST /tasks/{task_id}/dry-run                                           *)

DryRun(h, t) ==
    /\ status[t] # "absent"
    /\ Receive(h, "dry_run", t, "idle", "none")
    /\ LET c == DryRunChoice(spec[t]) IN
         decided' = [decided EXCEPT ![t] = @ \cup {<<c.action, c.decision>>}]
    /\ UNCHANGED <<status, spec, events, started, ran, results, approvals, traced>>

-----------------------------------------------------------------------------
(* POST /tasks/{task_id}/run                                               *)

\* The specification is loaded and the candidates are computed.
RunTask(h, t) ==
    /\ status[t] # "absent"
    /\ Receive(h, "run", t,
               IF CandidateActions(spec[t]) = {} THEN "trace" ELSE "gate", "none")
    /\ UNCHANGED <<tables, started, ran>>

\* Mutant: an interrupted run may be entered again.
GateOnUnfinished(h) ==
    LET x == thread[h] IN
    /\ x.pc = "gate"
    /\ IF status[x.task] \in {"ready", "validated"} THEN Transition(h, "running")
       ELSE IF status[x.task] = "executing" THEN Goto(h, "execute")
       ELSE Return(h)
    /\ UNCHANGED <<tables, started, ran, requests, restarts>>

\* A task that waits for approval, or is not runnable, is left alone.
Gate(h) ==
    LET x == thread[h] IN
    /\ x.pc = "gate"
    /\ IF status[x.task] \in {"ready", "validated"}
       THEN Transition(h, "running") ELSE Return(h)
    /\ UNCHANGED <<tables, started, ran, requests, restarts>>

\* The choice, and the commit of its action_decisions row.
Decide(h) ==
    LET x == thread[h]
        c == ChooseFirstAllowed(spec[x.task], CandidateActions(spec[x.task]))
    IN
    /\ x.pc = "decide"
    /\ decided' = [decided EXCEPT ![x.task] = @ \cup {<<c.action, c.decision>>}]
    /\ thread' = [thread EXCEPT
         ![h].act = c.action,
         ![h].pc = CASE c.decision = "deny"         -> "trace"
                     [] c.decision = "dry_run_only" -> "complete"
                     [] OTHER                       -> "check",
         ![h].goal = IF c.decision = "requires_approval"
                     THEN "waiting_approval" ELSE "executing"]
    /\ UNCHANGED <<status, spec, events, started, ran, results, approvals, traced,
                   requests, restarts>>

\* The executors turn every exception into an unsuccessful result.
Execute(h) ==
    LET x == thread[h] IN
    /\ x.pc = "execute"
    /\ started' = [started EXCEPT ![x.task] = @ + 1]
    /\ ran' = [ran EXCEPT ![x.task] = @ \cup {x.act}]
    /\ \E ok \in BOOLEAN :
         thread' = [thread EXCEPT ![h].success = ok, ![h].pc = "result"]
    /\ UNCHANGED <<tables, requests, restarts>>

\* Mutant: the status moves before the result is in the table.
RecordResultLate(h) ==
    /\ thread[h].pc = "result"
    /\ Transition(h, "evaluating")
    /\ UNCHANGED <<tables, started, ran, requests, restarts>>

RecordResult(h) ==
    LET x == thread[h] IN
    /\ x.pc = "result"
    /\ results' = [results EXCEPT ![x.task] = @ \cup {x.success}]
    /\ Transition(h, "evaluating")
    /\ UNCHANGED <<status, spec, events, decided, started, ran, approvals, traced,
                   requests, restarts>>

\* set_task_completed asks no table.
Complete(h) ==
    LET x == thread[h] IN
    /\ x.pc = "complete"
    /\ SetStatus(x.task, "completed")
    /\ Return(h)
    /\ UNCHANGED <<spec, decided, started, ran, results, approvals, traced,
                   requests, restarts>>

\* Mutant: the task fails without a trace.
NoTrace(h) ==
    /\ thread[h].pc = "trace"
    /\ Goto(h, "fail")
    /\ UNCHANGED <<tables, started, ran, requests, restarts>>

\* add_trace commits, then set_task_failed; it asks no table either.
AddTrace(h) ==
    LET x == thread[h] IN
    /\ x.pc = "trace"
    /\ traced' = traced \cup {x.task}
    /\ Goto(h, "fail")
    /\ UNCHANGED <<status, spec, events, decided, started, ran, results, approvals,
                   requests, restarts>>

Fail(h) ==
    LET x == thread[h] IN
    /\ x.pc = "fail"
    /\ SetStatus(x.task, "failed")
    /\ Return(h)
    /\ UNCHANGED <<spec, decided, started, ran, results, approvals, traced,
                   requests, restarts>>

-----------------------------------------------------------------------------
(* POST /tasks/{task_id}/approve and /reject                               *)

\* Mutant: the request's name is stored, not the decision's.
VerdictAsAsked(op) == op

Verdict(op) == IF op = "approve" THEN "approved" ELSE "rejected"

\* add_approval: the row and its event.
Answer(h, op, t) ==
    /\ op \in {"approve", "reject"}
    /\ status[t] # "absent"
    /\ Receive(h, op, t, "read_status", "none")
    /\ approvals' = [approvals EXCEPT ![t] = @ \cup {Verdict(op)}]
    /\ AddEvent(t, IF op = "approve" THEN "approval_approved" ELSE "approval_rejected")
    /\ UNCHANGED <<status, spec, decided, started, ran, results, traced>>

\* Only a waiting task moves.
ReadStatus(h) ==
    LET x == thread[h] IN
    /\ x.pc = "read_status"
    /\ IF status[x.task] = "waiting_approval"
       THEN Transition(h, IF x.op = "approve" THEN "ready" ELSE "failed")
       ELSE Return(h)
    /\ UNCHANGED <<tables, started, ran, requests, restarts>>

\* The API process stops and starts again: every request under way is gone.
Restart ==
    /\ restarts < MaxRestarts
    /\ restarts' = restarts + 1
    /\ \E h \in Thread : thread[h].pc # "idle"
    /\ thread' = [h \in Thread |-> NoRequest]
    /\ UNCHANGED <<tables, started, ran, requests>>

-----------------------------------------------------------------------------
Continue(h) ==
    \/ Check(h)
    \/ Write(h)
    \/ Gate(h)
    \/ Decide(h)
    \/ Execute(h)
    \/ RecordResult(h)
    \/ Complete(h)
    \/ AddTrace(h)
    \/ Fail(h)
    \/ ReadStatus(h)

Begin(h) ==
    \E t \in Task :
        \/ \E s \in Specs : CreateTask(h, t, s)
        \/ DryRun(h, t)
        \/ RunTask(h, t)
        \/ \E op \in {"approve", "reject"} : Answer(h, op, t)

Next == (\E h \in Thread : Begin(h) \/ Continue(h)) \/ Restart

Spec == Init /\ [][Next]_vars

\* A request that has been received is carried through; new ones need not come.
FairSpec == Spec /\ \A h \in Thread : WF_vars(Continue(h))

-----------------------------------------------------------------------------
(* Properties.                                                             *)

\* Whatever the requests and their order, an executor is only started on an
\* action that needs nobody's approval, and the decision that let it run is in
\* action_decisions before it starts, so a crash during the run leaves it; and a
\* task created with requires_approval gets past waiting_approval only after an
\* approval is in the table.
RunsAreAuthorised ==
    \A t \in Task :
        /\ \A a \in ran[t] :
             /\ Harmless(spec[t], a) /\ a \in Elements(spec[t].allowed)
             /\ <<a, "allow">> \in decided[t]
        /\ /\ spec[t].requires_approval
           /\ status[t] \in {"ready", "running", "deciding", "executing",
                              "evaluating", "completed"}
           => "approved" \in approvals[t]

\* A task is only completed on the ground of a successful result that is in
\* execution_results, or because it asked for a dry run; run, crash and races
\* of two runs included.
CompletedIsBacked ==
    \A t \in Task : status[t] = "completed" =>
        TRUE \in results[t] \/ (spec[t].mode = "dry_run" /\ started[t] = 0)

\* "On failure leave the stage and the reason": a failed task has a trace, or
\* somebody rejected it.
FailedIsExplained ==
    \A t \in Task :
        status[t] = "failed" => t \in traced \/ "rejected" \in approvals[t]

\* The entries of a task's log that tell a status.
StatusEvents(t) == {n \in DOMAIN events[t] : events[t][n] \in TaskState}

\* The event log tells the status: whatever thread wrote last, the last status
\* event of a task is the status in its row.
LogTellsStatus ==
    \A t \in Task :
        \/ StatusEvents(t) = {} /\ status[t] = "absent"
        \/ \E n \in StatusEvents(t) :
              status[t] = events[t][n] /\ \A m \in StatusEvents(t) : m =< n

\* What the tables of the database say of a task in its row, its log, its results
\* and its traces agrees, after every commit of every interleaving.
TablesAgree == TypeOK /\ CompletedIsBacked /\ FailedIsExplained /\ LogTellsStatus

\* A task's action is executed at most once: a second run finds the task not
\* runnable, and one cut short by a restart is not begun again.
ExecutedAtMostOnce == \A t \in Task : started[t] =< 1

\* A run that finds its action needs an approval leaves the task waiting for it.
RiskyGoesToApproval ==
    \A t \in Task :
        (\E a \in Action : <<a, "requires_approval">> \in decided[t])
            ~> status[t] = "waiting_approval"
=============================================================================
