---------------------------- MODULE WorkPipeline ----------------------------
(***************************************************************************)
(* The work pipeline: the HTTP API's handlers for work items               *)
(* (harness/work_service.py), the SQLite ledger they write                 *)
(* (harness/memory.py), the Redis streams that carry the jobs              *)
(* (harness/work_queue.py) and the workers that consume them               *)
(* (harness/worker.py).                                                    *)
(*                                                                         *)
(* The API answers each request on a thread of its own and the workers are *)
(* separate processes, so the unit of atomicity is one committed SQLite    *)
(* transaction, one SELECT, or one Redis command: every action below is    *)
(* one of those.  In particular transition_work_item reads the status,     *)
(* checks it against the table and then writes unconditionally, which is a *)
(* pair of actions here ("check", "write").                                *)
(*                                                                         *)
(* Left out: the text of events and notes, priorities, timestamps and      *)
(* heartbeats (none of which any decision reads), and SQLite errors.       *)
(***************************************************************************)
EXTENDS Naturals, Sequences, WorkStates

CONSTANTS
    Item,        \* work ids
    SelfPatch,   \* those of type self_patch; the others are external_work
    Job,         \* job ids
    Request,     \* API threads, each serving one request at a time
    Worker,      \* worker processes
    MaxAttempts, \* max_attempts given to a job
    UserGoals,   \* the statuses that callers of /work-items/{id}/status ask for
    Faults,      \* the kinds of fault that may happen, see FaultKind
    MaxFaults,   \* how many of them (bounds the model)
    None         \* no item, no job

FaultKind == {"xadd_fails", "xadd_reply_lost", "read_reply_lost",
              "ack_fails", "api_restart", "worker_crash"}

ASSUME PipelineAssumption ==
    /\ SelfPatch \subseteq Item
    /\ None \notin Item \cup Job
    /\ MaxAttempts \in Nat \ {0}
    /\ UserGoals \subseteq WorkStatus
    /\ Faults \subseteq FaultKind
    /\ MaxFaults \in Nat

VARIABLES
    status,    \* work_items.status, "absent" before the row exists
    parent,    \* work_items.parent_work_id
    jobStatus, \* work_jobs.status, "absent" before the row exists
    jobItem,   \* work_jobs.work_id
    attempts,  \* work_jobs.attempts
    result,    \* the status of the result a job's run produced
    recorded,  \* jobs with a job_completed event in the ledger
    stream,    \* per queue, the messages no worker has read yet
    pending,   \* messages delivered to a worker and not acknowledged
    acked,     \* messages acknowledged
    dead,      \* messages copied to the dead-letter stream
    req,       \* what each API thread is doing
    wk,        \* what each worker is doing
    faults     \* faults so far

ledger == <<status, parent, jobStatus, jobItem, attempts, result, recorded>>
redis  == <<stream, pending, acked, dead>>
vars   == <<ledger, redis, req, wk, faults>>

-----------------------------------------------------------------------------
JobStatus == {"created", "queued", "enqueue_failed", "running", "completed",
              "retry_wait", "dead_letter"}

\* What a self-patch run reports, as worker.py tells the cases apart; "raised"
\* stands for an exception, "ignored" for an item that is not runnable.
RunResult == {"patch_ready", "test_failed", "no_patch"}
Result    == RunResult \cup {"none", "raised", "ignored", "dispatched"}

Queue == {"self_patch", "external_work"}

QueueOf(i) == IF i \in SelfPatch THEN "self_patch" ELSE "external_work"

\* Mutant: a running job is not seen as active.
ActiveStatusNotRunning == {"created", "queued", "retry_wait"}

ActiveStatus == {"created", "queued", "running", "retry_wait"}

\* Mutant: WHERE work_id=? is missing.
ActiveJobsOfAnyItem(i) == {j \in Job : jobStatus[j] \in ActiveStatus}

ActiveJobs(i) == {j \in Job : jobItem[j] = i /\ jobStatus[j] \in ActiveStatus}

ReqPC == {"idle", "children", "child", "find", "create", "check", "write",
          "xadd", "mark_queued", "mark_failed"}

ReqOp == {"none", "status", "enqueue", "retry", "restore", "promote"}

ReqState == [pc : ReqPC, op : ReqOp, item : Item \cup {None},
             job : Job \cup {None}, saw : WorkStatus \cup {"none"},
             goal : WorkStatus \cup {"none"}]

NoRequest == [pc |-> "idle", op |-> "none", item |-> None, job |-> None,
              saw |-> "none", goal |-> "none"]

WorkerPC == {"idle", "start", "observe", "check", "write", "run", "record",
             "record_write", "complete", "ack", "fail", "fail_check",
             "fail_write", "bury", "ack_dead"}

WorkerState == [pc : WorkerPC, job : Job \cup {None}, next : Job \cup {None},
                goal : WorkStatus \cup {"none"}]

NoMessage == [pc |-> "idle", job |-> None, next |-> None, goal |-> "none"]

TypeOK ==
    /\ status \in [Item -> WorkStatus \cup {"absent"}]
    /\ parent \in [Item -> Item \cup {None}]
    /\ jobStatus \in [Job -> JobStatus \cup {"absent"}]
    /\ jobItem \in [Job -> Item \cup {None}]
    /\ attempts \in [Job -> Nat]
    /\ result \in [Job -> Result]
    /\ recorded \subseteq Job
    /\ stream \in [Queue -> Seq(Job)]
    /\ pending \subseteq Job
    /\ acked \subseteq Job
    /\ dead \subseteq Job
    /\ req \in [Request -> ReqState]
    /\ wk \in [Worker -> WorkerState]
    /\ faults \in Nat

Init ==
    /\ status = [i \in Item |-> "absent"]
    /\ parent = [i \in Item |-> None]
    /\ jobStatus = [j \in Job |-> "absent"]
    /\ jobItem = [j \in Job |-> None]
    /\ attempts = [j \in Job |-> 0]
    /\ result = [j \in Job |-> "none"]
    /\ recorded = {}
    /\ stream = [q \in Queue |-> <<>>]
    /\ pending = {} /\ acked = {} /\ dead = {}
    /\ req = [r \in Request |-> NoRequest]
    /\ wk = [w \in Worker |-> NoMessage]
    /\ faults = 0

Fault(kind) ==
    /\ kind \in Faults
    /\ faults < MaxFaults
    /\ faults' = faults + 1

-----------------------------------------------------------------------------
(***************************************************************************)
(* The API.  A request starts with the reads its handler does first; the   *)
(* requests a handler refuses there (an unknown item, a status that the    *)
(* table does not allow) change nothing and are not actions.               *)
(***************************************************************************)

\* A request moves from pc "from" to the record given.
Goto(r, pc) == req' = [req EXCEPT ![r].pc = pc]

Done(r) == req' = [req EXCEPT ![r] = NoRequest]

\* create_from_route and _create_proposal_work_item: a new proposed row.
CreateItem(i) ==
    /\ status[i] = "absent"
    /\ status' = [status EXCEPT ![i] = "proposed"]
    /\ UNCHANGED <<parent, jobStatus, jobItem, attempts, result, recorded,
                   redis, req, wk, faults>>

\* POST /work-items/{id}/status: transition_work_item reads and checks.
StatusRequest(r, i, g) ==
    /\ req[r].pc = "idle"
    /\ status[i] # "absent"
    /\ g \in WorkNext(status[i])
    /\ req' = [req EXCEPT ![r] = [NoRequest EXCEPT !.pc = "write",
                                  !.op = "status", !.item = i, !.goal = g]]
    /\ UNCHANGED <<ledger, redis, wk, faults>>

\* POST /work-items/{id}/enqueue: any status will do.
EnqueueRequest(r, i) ==
    /\ req[r].pc = "idle"
    /\ status[i] # "absent"
    /\ req' = [req EXCEPT ![r] = [NoRequest EXCEPT !.pc = "find",
                                  !.op = "enqueue", !.item = i]]
    /\ UNCHANGED <<ledger, redis, wk, faults>>

Retryable == {"reviewing", "blocked", "failed"}

\* POST /work-items/{id}/retry: only a self_patch that came back.
RetryRequest(r, i) ==
    /\ req[r].pc = "idle"
    /\ i \in SelfPatch
    /\ status[i] \in Retryable
    /\ req' = [req EXCEPT ![r] = [NoRequest EXCEPT !.pc = "find",
                                  !.op = "retry", !.item = i,
                                  !.saw = status[i], !.goal = "running"]]
    /\ UNCHANGED <<ledger, redis, wk, faults>>

\* POST /work-items/{id}/promote-self-patch: the parent's type and status.
PromoteRequest(r, i) ==
    /\ req[r].pc = "idle"
    /\ i \notin SelfPatch
    /\ status[i] \notin {"absent", "rejected", "cancelled", "completed",
                         "archived"}
    /\ req' = [req EXCEPT ![r] = [NoRequest EXCEPT !.pc = "children",
                                  !.op = "promote", !.item = i]]
    /\ UNCHANGED <<ledger, redis, wk, faults>>

\* Mutant: a child that waits for approval is not seen as live.
ReusableUnfinished(i) ==
    {c \in SelfPatch : /\ parent[c] = i
                       /\ status[c] \in {"accepted", "planned", "running"}}

ReusableChildren(i) ==
    {c \in SelfPatch : /\ parent[c] = i
                       /\ status[c] \notin {"absent", "rejected", "cancelled",
                                            "failed", "archived"}}

\* A promotion answers child_self_patch_exists when a live child exists.
FindChild(r) ==
    /\ req[r].pc = "children"
    /\ IF ReusableChildren(req[r].item) # {} THEN Done(r) ELSE Goto(r, "child")
    /\ UNCHANGED <<ledger, redis, wk, faults>>

\* Otherwise it creates an accepted child, which it then enqueues.
CreateChild(r) ==
    /\ req[r].pc = "child"
    /\ \E c \in SelfPatch :
        /\ status[c] = "absent"
        /\ status' = [status EXCEPT ![c] = "accepted"]
        /\ parent' = [parent EXCEPT ![c] = req[r].item]
        /\ req' = [req EXCEPT ![r].pc = "find", ![r].op = "enqueue",
                              ![r].item = c]
    /\ UNCHANGED <<jobStatus, jobItem, attempts, result, recorded, redis, wk,
                   faults>>

\* find_active_work_job: a live job ends the request (active_job_exists).
FindJob(r) ==
    /\ req[r].pc = "find"
    /\ IF ActiveJobs(req[r].item) # {} THEN Done(r) ELSE Goto(r, "create")
    /\ UNCHANGED <<ledger, redis, wk, faults>>

\* create_work_job with status "created"; a retry then moves the item.
CreateJob(r) ==
    /\ req[r].pc = "create"
    /\ \E j \in Job :
        /\ jobStatus[j] = "absent"
        /\ jobStatus' = [jobStatus EXCEPT ![j] = "created"]
        /\ jobItem' = [jobItem EXCEPT ![j] = req[r].item]
        /\ req' = [req EXCEPT ![r].job = j,
                              ![r].pc = IF req[r].op = "retry" THEN "check"
                                                               ELSE "xadd"]
    /\ UNCHANGED <<status, parent, attempts, result, recorded, redis, wk,
                   faults>>

\* transition_work_item inside retry and in its undo: the SELECT and the
\* check.  A refusal raises out of retry, and is swallowed by the undo.
CheckStatus(r) ==
    /\ req[r].pc = "check"
    /\ IF req[r].goal \in WorkNext(status[req[r].item])
          THEN Goto(r, "write")
          ELSE Done(r)
    /\ UNCHANGED <<ledger, redis, wk, faults>>

\* transition_work_item: the UPDATE, whatever the status is by now.
WriteStatus(r) ==
    /\ req[r].pc = "write"
    /\ status' = [status EXCEPT ![req[r].item] = req[r].goal]
    /\ CASE req[r].op = "retry" -> Goto(r, "xadd")
         [] req[r].op = "status" /\ req[r].goal = "accepted" ->
                req' = [req EXCEPT ![r].pc = "find", ![r].op = "enqueue"]
         [] OTHER -> Done(r)
    /\ UNCHANGED <<parent, jobStatus, jobItem, attempts, result, recorded,
                   redis, wk, faults>>

\* Mutant: the XADD is sent again after its reply arrived.
AddTwice(j) ==
    stream' = [stream EXCEPT ![QueueOf(jobItem[j])] = Append(Append(@, j), j)]

AddToStream(j) ==
    stream' = [stream EXCEPT ![QueueOf(jobItem[j])] = Append(@, j)]

\* work_queue.enqueue: XADD.
Xadd(r) ==
    /\ req[r].pc = "xadd"
    /\ AddToStream(req[r].job)
    /\ Goto(r, "mark_queued")
    /\ UNCHANGED <<ledger, pending, acked, dead, wk, faults>>

\* Redis is down or not configured: enqueue raises and nothing was added.
XaddFails(r) ==
    /\ req[r].pc = "xadd"
    /\ Fault("xadd_fails")
    /\ Goto(r, "mark_failed")
    /\ UNCHANGED <<ledger, redis, wk>>

\* The connection breaks after the server added the message: enqueue raises.
XaddReplyLost(r) ==
    /\ req[r].pc = "xadd"
    /\ Fault("xadd_reply_lost")
    /\ AddToStream(req[r].job)
    /\ Goto(r, "mark_failed")
    /\ UNCHANGED <<ledger, pending, acked, dead, wk>>

\* mark_work_job_queued: unconditional, after the message can be read.
MarkQueued(r) ==
    /\ req[r].pc = "mark_queued"
    /\ jobStatus' = [jobStatus EXCEPT ![req[r].job] = "queued"]
    /\ Done(r)
    /\ UNCHANGED <<status, parent, jobItem, attempts, result, recorded, redis,
                   wk, faults>>

\* mark_work_job_enqueue_failed; a retry then puts the item's status back.
MarkEnqueueFailed(r) ==
    /\ req[r].pc = "mark_failed"
    /\ jobStatus' = [jobStatus EXCEPT ![req[r].job] = "enqueue_failed"]
    /\ IF req[r].op = "retry"
          THEN req' = [req EXCEPT ![r].pc = "check", ![r].op = "restore",
                                  ![r].goal = req[r].saw]
          ELSE Done(r)
    /\ UNCHANGED <<status, parent, jobItem, attempts, result, recorded, redis,
                   wk, faults>>

\* The API process goes away with every request it was serving.
ApiRestart ==
    /\ \E r \in Request : req[r].pc # "idle"
    /\ Fault("api_restart")
    /\ req' = [r \in Request |-> NoRequest]
    /\ UNCHANGED <<ledger, redis, wk>>

-----------------------------------------------------------------------------
(***************************************************************************)
(* A worker.  It reads both streams with XREADGROUP ... ">" and COUNT 1,   *)
(* so one call hands it the oldest unread message of each stream that has  *)
(* one; it processes the self_patch message first.                         *)
(***************************************************************************)

Ready == {q \in Queue : stream[q] # <<>>}

Heads == {Head(stream[q]) : q \in Ready}

\* Mutant: XREAD, outside a consumer group, leaves the messages readable.
DeliverToAll ==
    /\ Ready # {}
    /\ pending' = pending \cup Heads
    /\ UNCHANGED stream

Deliver ==
    /\ Ready # {}
    /\ stream' = [q \in Queue |-> IF q \in Ready THEN Tail(stream[q])
                                                 ELSE stream[q]]
    /\ pending' = pending \cup Heads

Fetched ==
    [NoMessage EXCEPT
        !.pc = "start",
        !.job = IF "self_patch" \in Ready THEN Head(stream["self_patch"])
                                          ELSE Head(stream["external_work"]),
        !.next = IF Ready = Queue THEN Head(stream["external_work"])
                                  ELSE None]

\* WorkQueue.read by run_once.
ReadMessages(w) ==
    /\ wk[w].pc = "idle"
    /\ Deliver
    /\ wk' = [wk EXCEPT ![w] = Fetched]
    /\ UNCHANGED <<ledger, acked, dead, req, faults>>

\* The reply to XREADGROUP times out: read answers with an empty list.
ReadReplyLost(w) ==
    /\ wk[w].pc = "idle"
    /\ Fault("read_reply_lost")
    /\ Deliver
    /\ UNCHANGED <<ledger, acked, dead, req, wk>>

Step(w, pc) == wk' = [wk EXCEPT ![w].pc = pc]

\* The rest of the batch, if there is any.
NextMessage(w) ==
    wk' = [wk EXCEPT ![w] =
              IF wk[w].next = None
                 THEN NoMessage
                 ELSE [NoMessage EXCEPT !.pc = "start", !.job = wk[w].next]]

\* mark_work_job_running
MarkRunning(w) ==
    /\ wk[w].pc = "start"
    /\ jobStatus' = [jobStatus EXCEPT ![wk[w].job] = "running"]
    /\ attempts' = [attempts EXCEPT ![wk[w].job] = @ + 1]
    /\ Step(w, "observe")
    /\ UNCHANGED <<status, parent, jobItem, result, recorded, redis, req,
                   faults>>

ItemOf(w) == jobItem[wk[w].job]

StartsFrom(i) == IF i \in SelfPatch THEN {"accepted", "planned"}
                                    ELSE {"accepted"}

StartsAs(i) == IF i \in SelfPatch THEN "running" ELSE "planned"

RunsFrom(i) ==
    IF i \in SelfPatch THEN {"running"}
                       ELSE {"planned", "running", "blocked",
                             "waiting_approval"}

\* get_work_item and the decision of _mark_runnable_work_started.
Observe(w) ==
    LET i == ItemOf(w)
    IN  /\ wk[w].pc = "observe"
        /\ \/ /\ status[i] \in StartsFrom(i)
              /\ wk' = [wk EXCEPT ![w].pc = "check", ![w].goal = StartsAs(i)]
              /\ UNCHANGED result
           \/ /\ status[i] \in RunsFrom(i)
              /\ Step(w, "run")
              /\ UNCHANGED result
           \/ /\ status[i] \notin StartsFrom(i) \cup RunsFrom(i)
              /\ result' = [result EXCEPT ![wk[w].job] = "ignored"]
              /\ Step(w, "record")
        /\ UNCHANGED <<status, parent, jobStatus, jobItem, attempts, recorded,
                       redis, req, faults>>

\* transition_work_item reads again; a refusal goes to the except clause.
CheckStart(w) ==
    /\ wk[w].pc = "check"
    /\ IF wk[w].goal \in WorkNext(status[ItemOf(w)])
          THEN Step(w, "write")
          ELSE Step(w, "fail")
    /\ UNCHANGED <<ledger, redis, req, faults>>

WriteItem(w) == status' = [status EXCEPT ![ItemOf(w)] = wk[w].goal]

WriteStart(w) ==
    /\ wk[w].pc = "write"
    /\ WriteItem(w)
    /\ Step(w, "run")
    /\ UNCHANGED <<parent, jobStatus, jobItem, attempts, result, recorded,
                   redis, req, faults>>

\* _run_work: the self-patch runner, which may raise, or a dispatch note.
Run(w) ==
    /\ wk[w].pc = "run"
    /\ IF ItemOf(w) \in SelfPatch
          THEN \/ /\ \E x \in RunResult :
                        result' = [result EXCEPT ![wk[w].job] = x]
                  /\ Step(w, "record")
               \/ /\ result' = [result EXCEPT ![wk[w].job] = "raised"]
                  /\ Step(w, "fail")
          ELSE /\ result' = [result EXCEPT ![wk[w].job] = "dispatched"]
               /\ Step(w, "record")
    /\ UNCHANGED <<status, parent, jobStatus, jobItem, attempts, recorded,
                   redis, req, faults>>

\* Mutant: a patch whose tests fail is offered for approval.
StatusAfterAnyPatch(x) ==
    IF x \in {"patch_ready", "test_failed"} THEN "waiting_approval"
                                            ELSE "blocked"

StatusAfter(x) ==
    CASE x = "patch_ready" -> "waiting_approval"
      [] x = "test_failed" -> "reviewing"
      [] OTHER -> "blocked"

\* _record_work_result and the check of _transition_if_allowed.
RecordResult(w) ==
    LET goal == StatusAfter(result[wk[w].job])
    IN  /\ wk[w].pc = "record"
        /\ IF ItemOf(w) \in SelfPatch /\ goal \in WorkNext(status[ItemOf(w)])
              THEN wk' = [wk EXCEPT ![w].pc = "record_write", ![w].goal = goal]
              ELSE Step(w, "complete")
        /\ UNCHANGED <<ledger, redis, req, faults>>

\* Mutant: the message is acknowledged without mark_work_job_completed.
WriteResultAndAck(w) ==
    /\ wk[w].pc = "record_write"
    /\ WriteItem(w)
    /\ Step(w, "ack")
    /\ UNCHANGED <<parent, jobStatus, jobItem, attempts, result, recorded,
                   redis, req, faults>>

WriteResult(w) ==
    /\ wk[w].pc = "record_write"
    /\ WriteItem(w)
    /\ Step(w, "complete")
    /\ UNCHANGED <<parent, jobStatus, jobItem, attempts, result, recorded,
                   redis, req, faults>>

\* mark_work_job_completed
MarkCompleted(w) ==
    /\ wk[w].pc = "complete"
    /\ jobStatus' = [jobStatus EXCEPT ![wk[w].job] = "completed"]
    /\ recorded' = recorded \cup {wk[w].job}
    /\ Step(w, "ack")
    /\ UNCHANGED <<status, parent, jobItem, attempts, result, redis, req,
                   faults>>

XackOf(w) ==
    /\ pending' = pending \ {wk[w].job}
    /\ acked' = acked \cup {wk[w].job}

Ack(w) ==
    /\ wk[w].pc = "ack"
    /\ XackOf(w)
    /\ NextMessage(w)
    /\ UNCHANGED <<ledger, stream, dead, req, faults>>

\* XACK raises, with or without having been applied: the except clause runs
\* for a job that is complete.
AckFails(w) ==
    /\ wk[w].pc = "ack"
    /\ Fault("ack_fails")
    /\ XackOf(w) \/ UNCHANGED <<pending, acked>>
    /\ Step(w, "fail")
    /\ UNCHANGED <<ledger, stream, dead, req>>

\* mark_work_job_failed: a self_patch is not retryable.
MarkFailed(w) ==
    LET j    == wk[w].job
        self == ItemOf(w) \in SelfPatch
        next == IF ~self /\ attempts[j] < MaxAttempts THEN "retry_wait"
                                                      ELSE "dead_letter"
    IN  /\ wk[w].pc = "fail"
        /\ jobStatus' = [jobStatus EXCEPT ![j] = next]
        /\ CASE self -> Step(w, "fail_check")
             [] ~self /\ next = "dead_letter" -> Step(w, "bury")
             [] OTHER -> NextMessage(w)
        /\ UNCHANGED <<status, parent, jobItem, attempts, result, recorded,
                       redis, req, faults>>

\* A failed self_patch goes to reviewing if the table allows it.
CheckFailed(w) ==
    /\ wk[w].pc = "fail_check"
    /\ IF "reviewing" \in WorkNext(status[ItemOf(w)])
          THEN wk' = [wk EXCEPT ![w].pc = "fail_write",
                                ![w].goal = "reviewing"]
          ELSE Step(w, "bury")
    /\ UNCHANGED <<ledger, redis, req, faults>>

\* Mutant: the message of a failed run is left for a later attempt.
WriteFailedAndLeave(w) ==
    /\ wk[w].pc = "fail_write"
    /\ WriteItem(w)
    /\ NextMessage(w)
    /\ UNCHANGED <<parent, jobStatus, jobItem, attempts, result, recorded,
                   redis, req, faults>>

WriteFailed(w) ==
    /\ wk[w].pc = "fail_write"
    /\ WriteItem(w)
    /\ Step(w, "bury")
    /\ UNCHANGED <<parent, jobStatus, jobItem, attempts, result, recorded,
                   redis, req, faults>>

\* dead_letter and then ack.
Bury(w) ==
    /\ wk[w].pc = "bury"
    /\ dead' = dead \cup {wk[w].job}
    /\ Step(w, "ack_dead")
    /\ UNCHANGED <<ledger, stream, pending, acked, req, faults>>

AckDead(w) ==
    /\ wk[w].pc = "ack_dead"
    /\ XackOf(w)
    /\ NextMessage(w)
    /\ UNCHANGED <<ledger, stream, dead, req, faults>>

\* A worker process dies; the one started in its place has another worker id
\* and reads only new messages.
WorkerCrash(w) ==
    /\ wk[w].pc # "idle"
    /\ Fault("worker_crash")
    /\ wk' = [wk EXCEPT ![w] = NoMessage]
    /\ UNCHANGED <<ledger, redis, req>>

-----------------------------------------------------------------------------
RequestStart(r) ==
    \E i \in Item :
        \/ \E g \in UserGoals : StatusRequest(r, i, g)
        \/ EnqueueRequest(r, i)
        \/ RetryRequest(r, i)
        \/ PromoteRequest(r, i)

RequestStep(r) ==
    \/ FindChild(r)    \/ CreateChild(r) \/ FindJob(r) \/ CreateJob(r)
    \/ CheckStatus(r)  \/ WriteStatus(r) \/ Xadd(r)    \/ MarkQueued(r)
    \/ MarkEnqueueFailed(r)

WorkerStep(w) ==
    \/ ReadMessages(w) \/ MarkRunning(w)  \/ Observe(w)     \/ CheckStart(w)
    \/ WriteStart(w)   \/ Run(w)          \/ RecordResult(w)
    \/ WriteResult(w)  \/ MarkCompleted(w) \/ Ack(w)        \/ MarkFailed(w)
    \/ CheckFailed(w)  \/ WriteFailed(w)  \/ Bury(w)        \/ AckDead(w)

FaultStep ==
    \/ \E r \in Request : XaddFails(r) \/ XaddReplyLost(r)
    \/ ApiRestart
    \/ \E w \in Worker : ReadReplyLost(w) \/ AckFails(w) \/ WorkerCrash(w)

Next ==
    \/ \E i \in Item : CreateItem(i)
    \/ \E r \in Request : RequestStart(r) \/ RequestStep(r)
    \/ \E w \in Worker : WorkerStep(w)
    \/ FaultStep

Spec == Init /\ [][Next]_vars

\* An API thread finishes the request it serves and a running worker keeps
\* going; nobody has to ask for anything, and faults need not happen.
Fairness ==
    /\ \A r \in Request : WF_vars(RequestStep(r))
    /\ \A w \in Worker : WF_vars(WorkerStep(w))

FairSpec == Spec /\ Fairness

-----------------------------------------------------------------------------
(***************************************************************************)
(* What the pipeline must not do.                                          *)
(***************************************************************************)

\* A job's message is handed to a worker once, so the job is started at most
\* once: nothing ever reads the pending entries again, and attempts, which
\* mark_work_job_failed compares with max_attempts, never exceeds 1.
DeliveredOnce == \A j \in Job : attempts[j] <= 1

\* No message leaves Redis unaccounted for: one that is acknowledged has its
\* job_completed event committed in the ledger or a dead-letter copy.
AckedIsAccounted == acked \subseteq recorded \cup dead

\* A job the ledger calls running still has its message in the consumer
\* group's pending entries, whatever crashed: it can be found and recovered.
RunningIsPending == \A j \in Job : jobStatus[j] = "running" => j \in pending

\* Nobody is asked to approve a self_patch for which no run built a patch.
ApprovalHasPatch ==
    \A i \in SelfPatch : status[i] = "waiting_approval" =>
        \E j \in Job : jobItem[j] = i /\ result[j] = "patch_ready"

\* The active_job_exists check: a work item has one job at most that is still
\* to be done.
OneActiveJob ==
    \A j, k \in Job :
        (/\ jobItem[j] = jobItem[k]
         /\ {jobStatus[j], jobStatus[k]} \cap
               {"absent", "enqueue_failed", "completed", "dead_letter"} = {})
        => j = k

\* Two workers never run the self-patch runner for the same work item.
OneRunPerItem ==
    \A v, w \in Worker :
        (wk[v].pc = "run" /\ wk[w].pc = "run" /\ ItemOf(v) = ItemOf(w)) => v = w

\* The child_self_patch_exists check: a promoted item has one child at most
\* that was not given up.
OneLiveChild ==
    \A c, d \in SelfPatch :
        (/\ parent[c] = parent[d]
         /\ parent[c] # None
         /\ {status[c], status[d]} \cap
               {"rejected", "cancelled", "failed", "archived"} = {})
        => c = d

\* A self_patch message that a worker was handed is eventually acknowledged.
DeliveredIsAcked ==
    \A j \in Job : (j \in pending /\ jobItem[j] \in SelfPatch) ~> (j \in acked)

\* Where a job's message is, for the abstract specification.
Unread(j) == \E q \in Queue : \E n \in 1..Len(stream[q]) : stream[q][n] = j

PlaceOf ==
    [j \in Job |-> CASE Unread(j)                            -> "unread"
                     [] ~Unread(j) /\ j \in pending           -> "held"
                     [] ~Unread(j) /\ j \in acked \ pending   -> "settled"
                     [] OTHER                                -> "unsent"]

Delivery == INSTANCE JobDelivery WITH place <- PlaceOf, starts <- attempts

\* The pipeline implements at-most-once delivery of every job's message.
ImplementsDelivery == Delivery!Spec

\* A child made by a promotion gets a job, while there are job ids left.
PromotedGetsJob ==
    \A c \in SelfPatch :
        (parent[c] # None) ~> (\/ \E j \in Job : jobItem[j] = c
                              \/ \A j \in Job : jobStatus[j] # "absent")
=============================================================================
