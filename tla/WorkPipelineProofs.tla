------------------------- MODULE WorkPipelineProofs -------------------------
(***************************************************************************)
(* Proofs about WorkPipeline, for every set of items, jobs, requests and   *)
(* workers and every choice of faults, in five parts:                      *)
(*   - the types;                                                          *)
(*   - what becomes of a job's message: MessageInv and SettleInv of        *)
(*     WorkPipelineInv are preserved by every step, so a message is        *)
(*     started once and leaves Redis accounted for;                        *)
(*   - nobody is asked to approve a patch that does not exist, as long as  *)
(*     no caller of the status endpoint asks for waiting_approval;         *)
(*   - a work item has one job, as long as requests come one at a time;    *)
(*   - a promoted item has one child, as long as requests come one at a    *)
(*     time and ask for no status that gives an item up.                   *)
(***************************************************************************)
EXTENDS WorkPipelineHistory, TLAPS

-----------------------------------------------------------------------------
(***************************************************************************)
(* Types.                                                                  *)
(***************************************************************************)

\* The tables of work_states.py lead to statuses only.
LEMMA WorkNextType == \A s : WorkNext(s) \subseteq WorkStatus
  BY DEF WorkNext, WorkStatus

\* StatusAfter is a status the worker may ask for.
LEMMA StatusAfterType == \A x : StatusAfter(x) \in WorkStatus
  BY DEF StatusAfter, WorkStatus

\* The empty system is well typed.
LEMMA InitTypeInv == Init => TypeInv
<1> SUFFICES ASSUME Init PROVE TypeInv
  OBVIOUS
<1>1. NoRequest \in ReqState /\ RequestOK(NoRequest)
  BY DEF NoRequest, ReqState, RequestOK, Sending, ReqPC, ReqOp
<1>2. NoMessage \in WorkerState /\ WorkerOK(NoMessage)
  BY DEF NoMessage, WorkerState, WorkerOK, WorkerPC
<1>3. <<>> \in Seq(Job) /\ "none" \in Result
  BY DEF Result
<1>4. QED
  BY <1>1, <1>2, <1>3 DEF Init, TypeInv, TypeOK, ControlInv

\* Setting the state of one request to a good value keeps them all good.
LEMMA SetRequest ==
  ASSUME TypeInv, NEW r \in Request, NEW y \in ReqState, RequestOK(y),
         req' = [req EXCEPT ![r] = y]
  PROVE  /\ req' \in [Request -> ReqState]
         /\ \A s \in Request : RequestOK(req'[s])
  BY DEF TypeInv, TypeOK, ControlInv

\* The same for a worker.
LEMMA SetWorker ==
  ASSUME TypeInv, NEW w \in Worker, NEW y \in WorkerState, WorkerOK(y),
         wk' = [wk EXCEPT ![w] = y]
  PROVE  /\ wk' \in [Worker -> WorkerState]
         /\ \A v \in Worker : WorkerOK(wk'[v])
  BY DEF TypeInv, TypeOK, ControlInv

\* A request that moves on, with its fields good for the new position.
LEMMA GotoRequest ==
  ASSUME TypeInv, NEW r \in Request, NEW pc \in ReqPC, Goto(r, pc),
         RequestOK([req[r] EXCEPT !.pc = pc])
  PROVE  /\ req' \in [Request -> ReqState]
         /\ \A s \in Request : RequestOK(req'[s])
<1> DEFINE y == [req[r] EXCEPT !.pc = pc]
<1>1. y \in ReqState
  BY DEF TypeInv, TypeOK, ReqState
<1>2. req' = [req EXCEPT ![r] = y]
  BY DEF Goto
<1>3. QED
  BY <1>1, <1>2, SetRequest

\* A request that ends.
LEMMA DoneRequest ==
  ASSUME TypeInv, NEW r \in Request, Done(r)
  PROVE  /\ req' \in [Request -> ReqState]
         /\ \A s \in Request : RequestOK(req'[s])
<1>1. NoRequest \in ReqState /\ RequestOK(NoRequest)
  BY DEF NoRequest, ReqState, RequestOK, Sending, ReqPC, ReqOp
<1>2. QED
  BY <1>1, SetRequest DEF Done

\* What is known of a request in a well-typed state.
LEMMA RequestFacts ==
  ASSUME TypeInv, NEW r \in Request
  PROVE  req[r] \in ReqState /\ RequestOK(req[r])
  BY DEF TypeInv, TypeOK, ControlInv

\* A request that starts is well typed.
LEMMA RequestStartType ==
  ASSUME TypeInv, NEW r \in Request, RequestStart(r)
  PROVE  TypeInv'
<1>1. PICK i \in Item : \/ \E g \in UserGoals : StatusRequest(r, i, g)
                        \/ EnqueueRequest(r, i)
                        \/ RetryRequest(r, i)
                        \/ PromoteRequest(r, i)
  BY DEF RequestStart
<1>2. ASSUME NEW y \in ReqState, RequestOK(y), req' = [req EXCEPT ![r] = y],
             UNCHANGED <<ledger, redis, wk, faults>>
      PROVE  TypeInv'
  BY <1>2, SetRequest DEF TypeInv, TypeOK, ControlInv, ledger, redis
<1>3. ASSUME NEW g \in UserGoals, StatusRequest(r, i, g)
      PROVE  TypeInv'
  <2> DEFINE y == [NoRequest EXCEPT !.pc = "write", !.op = "status",
                                    !.item = i, !.goal = g]
  <2>1. y \in ReqState /\ RequestOK(y)
    BY PipelineAssumption
       DEF NoRequest, ReqState, RequestOK, Sending, ReqPC, ReqOp
  <2>2. QED
    BY <1>2, <1>3, <2>1 DEF StatusRequest
<1>4. CASE EnqueueRequest(r, i)
  <2> DEFINE y == [NoRequest EXCEPT !.pc = "find", !.op = "enqueue",
                                    !.item = i]
  <2>1. y \in ReqState /\ RequestOK(y)
    BY DEF NoRequest, ReqState, RequestOK, Sending, ReqPC, ReqOp
  <2>2. QED
    BY <1>2, <1>4, <2>1 DEF EnqueueRequest
<1>5. CASE RetryRequest(r, i)
  <2> DEFINE y == [NoRequest EXCEPT !.pc = "find", !.op = "retry", !.item = i,
                                    !.saw = status[i], !.goal = "running"]
  <2>1. status[i] \in WorkStatus /\ "running" \in WorkStatus
    BY <1>5 DEF RetryRequest, Retryable, WorkStatus
  <2>2. y \in ReqState /\ RequestOK(y)
    BY <2>1 DEF NoRequest, ReqState, RequestOK, Sending, ReqPC, ReqOp
  <2>3. QED
    BY <1>2, <1>5, <2>2 DEF RetryRequest
<1>6. CASE PromoteRequest(r, i)
  <2> DEFINE y == [NoRequest EXCEPT !.pc = "children", !.op = "promote",
                                    !.item = i]
  <2>1. y \in ReqState /\ RequestOK(y)
    BY DEF NoRequest, ReqState, RequestOK, Sending, ReqPC, ReqOp
  <2>2. QED
    BY <1>2, <1>6, <2>1 DEF PromoteRequest
<1> QED
  BY <1>1, <1>3, <1>4, <1>5, <1>6

\* The steps of a request that only move it.
LEMMA RequestMoveType ==
  ASSUME TypeInv, NEW r \in Request,
         FindChild(r) \/ FindJob(r) \/ CheckStatus(r)
  PROVE  TypeInv'
<1> USE RequestFacts
<1>1. ASSUME /\ req' \in [Request -> ReqState]
             /\ \A s \in Request : RequestOK(req'[s]),
             UNCHANGED <<ledger, redis, wk, faults>>
      PROVE  TypeInv'
  BY <1>1 DEF TypeInv, TypeOK, ControlInv, ledger, redis
<1>2. CASE Done(r)
  BY <1>1, <1>2, DoneRequest DEF FindChild, FindJob, CheckStatus
<1>3. CASE FindChild(r) /\ Goto(r, "child")
  <2>1. RequestOK([req[r] EXCEPT !.pc = "child"])
    BY <1>3 DEF FindChild, RequestOK, Sending, ReqState
  <2>2. QED
    BY <1>1, <1>3, <2>1, GotoRequest DEF FindChild, ReqPC
<1>4. CASE FindJob(r) /\ Goto(r, "create")
  <2>1. RequestOK([req[r] EXCEPT !.pc = "create"])
    BY <1>4 DEF FindJob, RequestOK, Sending, ReqState
  <2>2. QED
    BY <1>1, <1>4, <2>1, GotoRequest DEF FindJob, ReqPC
<1>5. CASE CheckStatus(r) /\ Goto(r, "write")
  <2>1. RequestOK([req[r] EXCEPT !.pc = "write"])
    BY <1>5 DEF CheckStatus, RequestOK, Sending, ReqState
  <2>2. QED
    BY <1>1, <1>5, <2>1, GotoRequest DEF CheckStatus, ReqPC
<1> QED
  BY <1>2, <1>3, <1>4, <1>5 DEF FindChild, FindJob, CheckStatus

\* CreateChild and CreateJob: a row is inserted and the request goes on.
LEMMA RequestCreateType ==
  ASSUME TypeInv, NEW r \in Request, CreateChild(r) \/ CreateJob(r)
  PROVE  TypeInv'
<1>0. req[r] \in ReqState /\ RequestOK(req[r])
  BY RequestFacts
<1>1. CASE CreateChild(r)
  <2>1. PICK c \in SelfPatch :
          /\ status' = [status EXCEPT ![c] = "accepted"]
          /\ parent' = [parent EXCEPT ![c] = req[r].item]
          /\ req' = [req EXCEPT ![r].pc = "find", ![r].op = "enqueue",
                                ![r].item = c]
    BY <1>1 DEF CreateChild
  <2> DEFINE y == [req[r] EXCEPT !.pc = "find", !.op = "enqueue", !.item = c]
  <2>2. y \in ReqState /\ RequestOK(y)
    BY <1>0, PipelineAssumption
       DEF ReqState, RequestOK, Sending, ReqPC, ReqOp
  <2>3. req' = [req EXCEPT ![r] = y]
    BY <2>1
  <2>4. req[r].item \in Item \cup {None} /\ "accepted" \in WorkStatus
    BY <1>0 DEF ReqState, WorkStatus
  <2>5. QED
    BY <1>1, <2>1, <2>2, <2>3, <2>4, SetRequest
       DEF CreateChild, TypeInv, TypeOK, ControlInv, redis
<1>2. CASE CreateJob(r)
  <2>1. PICK j \in Job :
          /\ jobStatus' = [jobStatus EXCEPT ![j] = "created"]
          /\ jobItem' = [jobItem EXCEPT ![j] = req[r].item]
          /\ req' = [req EXCEPT ![r].job = j,
                                ![r].pc = IF req[r].op = "retry"
                                             THEN "check" ELSE "xadd"]
    BY <1>2 DEF CreateJob
  <2> DEFINE y == [req[r] EXCEPT !.job = j,
                                 !.pc = IF req[r].op = "retry"
                                           THEN "check" ELSE "xadd"]
  <2>2. "running" \in WorkStatus
    BY DEF WorkStatus
  <2>3. y \in ReqState /\ RequestOK(y)
    BY <1>0, <1>2, <2>2
       DEF CreateJob, ReqState, RequestOK, Sending, ReqPC, ReqOp
  <2>4. req' = [req EXCEPT ![r] = y]
    BY <2>1
  <2>5. req[r].item \in Item \cup {None} /\ "created" \in JobStatus
    BY <1>0 DEF ReqState, JobStatus
  <2>6. QED
    BY <1>2, <2>1, <2>3, <2>4, <2>5, SetRequest
       DEF CreateJob, TypeInv, TypeOK, ControlInv, redis
<1> QED
  BY <1>1, <1>2

\* WriteStatus: the UPDATE of transition_work_item, and what follows it.
LEMMA RequestWriteType ==
  ASSUME TypeInv, NEW r \in Request, WriteStatus(r)
  PROVE  TypeInv'
<1>0. req[r] \in ReqState /\ RequestOK(req[r])
  BY RequestFacts
<1>1. status' \in [Item -> WorkStatus \cup {"absent"}]
  BY <1>0 DEF WriteStatus, TypeInv, TypeOK, RequestOK
<1>2. /\ req' \in [Request -> ReqState]
      /\ \A s \in Request : RequestOK(req'[s])
  <2>1. CASE req[r].op = "retry"
    <3>1. RequestOK([req[r] EXCEPT !.pc = "xadd"])
      BY <1>0, <2>1 DEF WriteStatus, RequestOK, Sending, ReqState
    <3>2. QED
      BY <2>1, <3>1, GotoRequest DEF WriteStatus, ReqPC
  <2>2. CASE req[r].op = "status" /\ req[r].goal = "accepted"
    <3> DEFINE y == [req[r] EXCEPT !.pc = "find", !.op = "enqueue"]
    <3>1. y \in ReqState /\ RequestOK(y)
      BY <1>0, <2>2
         DEF WriteStatus, ReqState, RequestOK, Sending, ReqPC, ReqOp
    <3>2. req' = [req EXCEPT ![r] = y]
      BY <2>2 DEF WriteStatus
    <3>3. QED
      BY <3>1, <3>2, SetRequest
  <2>3. CASE /\ req[r].op # "retry"
             /\ ~(req[r].op = "status" /\ req[r].goal = "accepted")
    BY <2>3, DoneRequest DEF WriteStatus
  <2> QED
    BY <2>1, <2>2, <2>3
<1> QED
  BY <1>1, <1>2 DEF WriteStatus, TypeInv, TypeOK, ControlInv, redis

\* The three ways an XADD ends, and what is recorded of it.
LEMMA RequestSendType ==
  ASSUME TypeInv, NEW r \in Request,
         \/ Xadd(r) \/ XaddFails(r) \/ XaddReplyLost(r)
         \/ MarkQueued(r) \/ MarkEnqueueFailed(r)
  PROVE  TypeInv'
<1>0. req[r] \in ReqState /\ RequestOK(req[r])
  BY RequestFacts
<1>1. ASSUME NEW j \in Job, AddToStream(j)
      PROVE  stream' \in [Queue -> Seq(Job)]
  <2> DEFINE q == QueueOf(jobItem[j])
  <2>1. stream \in [Queue -> Seq(Job)] /\ q \in Queue
    BY DEF TypeInv, TypeOK, QueueOf, Queue
  <2> DEFINE s == Append(stream[q], j)
  <2>2. s \in Seq(Job)
    BY <2>1
  <2>3. stream' = [stream EXCEPT ![q] = s]
    BY <1>1 DEF AddToStream
  <2> HIDE DEF q, s
  <2>4. QED
    BY <2>1, <2>2, <2>3
<1>2. ASSUME req[r].pc = "xadd", NEW pc \in {"mark_queued", "mark_failed"},
             Goto(r, pc)
      PROVE  /\ req[r].job \in Job
             /\ req' \in [Request -> ReqState]
             /\ \A s \in Request : RequestOK(req'[s])
  <2>1. req[r].job \in Job
    BY <1>0, <1>2 DEF RequestOK, Sending
  <2>2. RequestOK([req[r] EXCEPT !.pc = pc])
    BY <1>0, <1>2, <2>1 DEF RequestOK, Sending, ReqState
  <2>3. pc \in ReqPC
    BY DEF ReqPC
  <2>4. QED
    BY <1>2, <2>1, <2>2, <2>3, GotoRequest
<1>3. CASE Xadd(r)
  BY <1>1, <1>2, <1>3 DEF Xadd, TypeInv, TypeOK, ControlInv, ledger
<1>4. CASE XaddFails(r)
  BY <1>2, <1>4 DEF XaddFails, Fault, TypeInv, TypeOK, ControlInv, ledger, redis
<1>5. CASE XaddReplyLost(r)
  BY <1>1, <1>2, <1>5
     DEF XaddReplyLost, Fault, TypeInv, TypeOK, ControlInv, ledger
<1>6. CASE MarkQueued(r)
  <2>1. "queued" \in JobStatus
    BY DEF JobStatus
  <2>2. QED
    BY <1>6, <2>1, DoneRequest DEF MarkQueued, TypeInv, TypeOK, ControlInv, redis
<1>7. CASE MarkEnqueueFailed(r)
  <2>1. "enqueue_failed" \in JobStatus
    BY DEF JobStatus
  <2>2. /\ req' \in [Request -> ReqState]
        /\ \A s \in Request : RequestOK(req'[s])
    <3>1. CASE req[r].op = "retry"
      <4> DEFINE y == [req[r] EXCEPT !.pc = "check", !.op = "restore",
                                     !.goal = req[r].saw]
      <4>1. y \in ReqState /\ RequestOK(y)
        BY <1>0, <1>7, <3>1
           DEF MarkEnqueueFailed, ReqState, RequestOK, Sending, ReqPC, ReqOp
      <4>2. req' = [req EXCEPT ![r] = y]
        BY <1>7, <3>1 DEF MarkEnqueueFailed
      <4>3. QED
        BY <4>1, <4>2, SetRequest
    <3>2. CASE req[r].op # "retry"
      BY <1>7, <3>2, DoneRequest DEF MarkEnqueueFailed
    <3> QED
      BY <3>1, <3>2
  <2>3. QED
    BY <1>7, <2>1, <2>2 DEF MarkEnqueueFailed, TypeInv, TypeOK, ControlInv, redis
<1> QED
  BY <1>3, <1>4, <1>5, <1>6, <1>7

\* A restart of the API forgets every request.
LEMMA RestartType ==
  ASSUME TypeInv, ApiRestart
  PROVE  TypeInv'
<1>1. NoRequest \in ReqState /\ RequestOK(NoRequest)
  BY DEF NoRequest, ReqState, RequestOK, Sending, ReqPC, ReqOp
<1>2. QED
  BY <1>1 DEF ApiRestart, Fault, TypeInv, TypeOK, ControlInv, ledger, redis

\* What is known of a worker in a well-typed state.
LEMMA WorkerFacts ==
  ASSUME TypeInv, NEW w \in Worker
  PROVE  wk[w] \in WorkerState /\ WorkerOK(wk[w])
  BY DEF TypeInv, TypeOK, ControlInv

\* A worker that moves on, with its fields good for the new position.
LEMMA StepWorker ==
  ASSUME TypeInv, NEW w \in Worker, NEW pc \in WorkerPC, Step(w, pc),
         WorkerOK([wk[w] EXCEPT !.pc = pc])
  PROVE  /\ wk' \in [Worker -> WorkerState]
         /\ \A v \in Worker : WorkerOK(wk'[v])
<1> DEFINE y == [wk[w] EXCEPT !.pc = pc]
<1>1. y \in WorkerState
  BY DEF TypeInv, TypeOK, WorkerState
<1>2. wk' = [wk EXCEPT ![w] = y]
  BY DEF Step
<1>3. QED
  BY <1>1, <1>2, SetWorker

\* The positions that need no goal.
Plain == WorkerPC \ {"idle", "check", "write", "record_write", "fail_write"}

\* A busy worker may move to any of them.
LEMMA PlainStep ==
  ASSUME TypeInv, NEW w \in Worker, wk[w].pc # "idle",
         NEW pc \in Plain, Step(w, pc)
  PROVE  /\ wk' \in [Worker -> WorkerState]
         /\ \A v \in Worker : WorkerOK(wk'[v])
<1>1. WorkerOK([wk[w] EXCEPT !.pc = pc])
  BY WorkerFacts DEF WorkerOK, WorkerState, Plain
<1>2. QED
  BY <1>1, StepWorker DEF Plain

\* A worker may move to a position that writes a status once it has one.
LEMMA GoalStep ==
  ASSUME TypeInv, NEW w \in Worker, wk[w].pc # "idle",
         NEW goal \in WorkStatus,
         NEW pc \in {"check", "write", "record_write", "fail_write"},
         wk' = [wk EXCEPT ![w].pc = pc, ![w].goal = goal]
  PROVE  /\ wk' \in [Worker -> WorkerState]
         /\ \A v \in Worker : WorkerOK(wk'[v])
<1> DEFINE y == [wk[w] EXCEPT !.pc = pc, !.goal = goal]
<1>1. y \in WorkerState /\ WorkerOK(y)
  BY WorkerFacts DEF WorkerOK, WorkerState, WorkerPC
<1>2. wk' = [wk EXCEPT ![w] = y]
  OBVIOUS
<1>3. QED
  BY <1>1, <1>2, SetWorker

\* A worker that turns to the rest of its batch, or to nothing.
LEMMA NextMessageType ==
  ASSUME TypeInv, NEW w \in Worker, NextMessage(w)
  PROVE  /\ wk' \in [Worker -> WorkerState]
         /\ \A v \in Worker : WorkerOK(wk'[v])
<1> DEFINE y == [NoMessage EXCEPT !.pc = "start", !.job = wk[w].next]
<1>1. NoMessage \in WorkerState /\ WorkerOK(NoMessage)
  BY DEF NoMessage, WorkerState, WorkerOK, WorkerPC
<1>2. wk[w].next # None => y \in WorkerState /\ WorkerOK(y)
  BY WorkerFacts DEF NoMessage, WorkerState, WorkerOK, WorkerPC
<1>3. QED
  BY <1>1, <1>2, SetWorker DEF NextMessage

\* What XREADGROUP takes from the streams are jobs, and streams remain.
LEMMA DeliverType ==
  ASSUME TypeInv, Deliver
  PROVE  /\ Heads \subseteq Job
         /\ stream' \in [Queue -> Seq(Job)]
         /\ pending' \subseteq Job
<1>1. pending \subseteq Job /\ \A q \in Queue : stream[q] \in Seq(Job)
  BY DEF TypeInv, TypeOK
<1>2. \A q \in Ready : Head(stream[q]) \in Job /\ Tail(stream[q]) \in Seq(Job)
  BY <1>1 DEF Ready
<1>3. Heads \subseteq Job
  BY <1>2 DEF Heads
<1>4. QED
  BY <1>1, <1>2, <1>3 DEF Deliver

\* Reading a batch, whether or not the reply arrives.
LEMMA ReadType ==
  ASSUME TypeInv, NEW w \in Worker, ReadMessages(w) \/ ReadReplyLost(w)
  PROVE  TypeInv'
<1>1. Deliver
  BY DEF ReadMessages, ReadReplyLost
<1>2. /\ Heads \subseteq Job
      /\ stream' \in [Queue -> Seq(Job)]
      /\ pending' \subseteq Job
  BY <1>1, DeliverType
<1>3. CASE ReadMessages(w)
  <2>1. \A q \in Ready : Head(stream[q]) \in Job
    BY <1>2 DEF Heads
  <2>2. Ready \subseteq Queue /\ Ready # {}
    BY <1>1 DEF Ready, Deliver
  <2>3. "self_patch" \notin Ready => "external_work" \in Ready
    BY <2>2 DEF Queue
  <2>4. Ready = Queue => "external_work" \in Ready
    BY DEF Queue
  <2>5. Fetched \in WorkerState /\ WorkerOK(Fetched)
    BY <2>1, <2>3, <2>4
       DEF Fetched, NoMessage, WorkerState, WorkerOK, WorkerPC
  <2>6. QED
    BY <1>2, <1>3, <2>5, SetWorker
       DEF ReadMessages, TypeInv, TypeOK, ControlInv, ledger
<1>4. CASE ReadReplyLost(w)
  BY <1>2, <1>4 DEF ReadReplyLost, Fault, TypeInv, TypeOK, ControlInv, ledger
<1> QED
  BY <1>3, <1>4

\* The steps of a worker that only move it.
LEMMA WorkerMoveType ==
  ASSUME TypeInv, NEW w \in Worker,
         \/ CheckStart(w) \/ RecordResult(w) \/ CheckFailed(w)
         \/ Ack(w) \/ AckFails(w) \/ Bury(w) \/ AckDead(w) \/ WorkerCrash(w)
  PROVE  TypeInv'
<1>0. wk[w] \in WorkerState /\ WorkerOK(wk[w])
  BY WorkerFacts
<1>1. /\ wk' \in [Worker -> WorkerState]
      /\ \A v \in Worker : WorkerOK(wk'[v])
  <2>1. CASE \E pc \in Plain : wk[w].pc # "idle" /\ Step(w, pc)
    BY <2>1, PlainStep
  <2>2. CASE NextMessage(w)
    BY <2>2, NextMessageType
  <2>3. CASE CheckStart(w)
    <3>1. CASE Step(w, "write")
      <4>1. WorkerOK([wk[w] EXCEPT !.pc = "write"])
        BY <1>0, <2>3 DEF CheckStart, WorkerOK, WorkerState
      <4>2. QED
        BY <3>1, <4>1, StepWorker DEF WorkerPC
    <3>2. CASE Step(w, "fail")
      BY <2>1, <2>3, <3>2 DEF CheckStart, Plain, WorkerPC
    <3> QED
      BY <2>3, <3>1, <3>2 DEF CheckStart
  <2>4. CASE RecordResult(w)
    <3>1. StatusAfter(result[wk[w].job]) \in WorkStatus
      BY StatusAfterType
    <3>2. CASE Step(w, "complete")
      BY <2>1, <2>4, <3>2 DEF RecordResult, Plain, WorkerPC
    <3> QED
      BY <2>4, <3>1, <3>2, GoalStep DEF RecordResult
  <2>5. CASE CheckFailed(w)
    <3>1. "reviewing" \in WorkStatus
      BY DEF WorkStatus
    <3>2. CASE Step(w, "bury")
      BY <2>1, <2>5, <3>2 DEF CheckFailed, Plain, WorkerPC
    <3> QED
      BY <2>5, <3>1, <3>2, GoalStep DEF CheckFailed
  <2>6. CASE AckFails(w)
    BY <2>1, <2>6 DEF AckFails, Plain, WorkerPC
  <2>7. CASE Bury(w)
    BY <2>1, <2>7 DEF Bury, Plain, WorkerPC
  <2>8. CASE WorkerCrash(w)
    <3>1. NoMessage \in WorkerState /\ WorkerOK(NoMessage)
      BY DEF NoMessage, WorkerState, WorkerOK, WorkerPC
    <3>2. QED
      BY <2>8, <3>1, SetWorker DEF WorkerCrash
  <2> QED
    BY <2>2, <2>3, <2>4, <2>5, <2>6, <2>7, <2>8 DEF Ack, AckDead
<1>2. /\ pending' \subseteq Job /\ acked' \subseteq Job /\ dead' \subseteq Job
      /\ faults' \in Nat
  <2>1. wk[w].pc # "idle" => wk[w].job \in Job
    BY <1>0 DEF WorkerOK
  <2>2. QED
    BY <2>1 DEF CheckStart, RecordResult, CheckFailed, Ack, AckFails, Bury,
                AckDead, WorkerCrash, XackOf, Fault, redis, TypeInv, TypeOK
<1> QED
  BY <1>1, <1>2 DEF CheckStart, RecordResult, CheckFailed, Ack, AckFails, Bury,
       AckDead, WorkerCrash, TypeInv, TypeOK, ControlInv, ledger, redis

\* The steps of a worker that write the ledger.
LEMMA WorkerWriteType ==
  ASSUME TypeInv, NEW w \in Worker,
         \/ MarkRunning(w) \/ Observe(w) \/ WriteStart(w) \/ Run(w)
         \/ WriteResult(w) \/ MarkCompleted(w) \/ MarkFailed(w) \/ WriteFailed(w)
  PROVE  TypeInv'
<1>0. /\ wk[w] \in WorkerState /\ WorkerOK(wk[w])
      /\ wk[w].pc # "idle" => wk[w].job \in Job
  BY WorkerFacts DEF WorkerOK
<1>1. ASSUME NEW pc \in Plain, wk[w].pc # "idle", Step(w, pc)
      PROVE  /\ wk' \in [Worker -> WorkerState]
             /\ \A v \in Worker : WorkerOK(wk'[v])
  BY <1>1, PlainStep
<1>2. CASE MarkRunning(w)
  <2>1. "running" \in JobStatus /\ "observe" \in Plain
    BY DEF JobStatus, Plain, WorkerPC
  <2>2. QED
    BY <1>0, <1>1, <1>2, <2>1
       DEF MarkRunning, TypeInv, TypeOK, ControlInv, redis
<1>3. CASE Observe(w)
  <2>1. StartsAs(ItemOf(w)) \in WorkStatus /\ "ignored" \in Result
    BY DEF StartsAs, WorkStatus, Result
  <2>2. "run" \in Plain /\ "record" \in Plain
    BY DEF Plain, WorkerPC
  <2>3. /\ wk' \in [Worker -> WorkerState]
        /\ \A v \in Worker : WorkerOK(wk'[v])
    BY <1>1, <1>3, <2>1, <2>2, GoalStep DEF Observe
  <2>4. QED
    BY <1>3, <2>1, <2>3 DEF Observe, TypeInv, TypeOK, ControlInv, redis
<1>4. CASE WriteStart(w) \/ WriteResult(w) \/ WriteFailed(w)
  <2>1. "run" \in Plain /\ "complete" \in Plain /\ "bury" \in Plain
    BY DEF Plain, WorkerPC
  <2>2. wk[w].goal \in WorkStatus
    BY <1>0, <1>4 DEF WriteStart, WriteResult, WriteFailed, WorkerOK
  <2>3. QED
    BY <1>1, <1>4, <2>1, <2>2 DEF WriteStart, WriteResult, WriteFailed,
         WriteItem, TypeInv, TypeOK, ControlInv, redis
<1>5. CASE Run(w)
  <2>1. "record" \in Plain /\ "fail" \in Plain
    BY DEF Plain, WorkerPC
  <2>2. RunResult \cup {"raised", "dispatched"} \subseteq Result
    BY DEF Result
  <2>3. /\ wk' \in [Worker -> WorkerState]
        /\ \A v \in Worker : WorkerOK(wk'[v])
    BY <1>1, <1>5, <2>1 DEF Run
  <2>4. QED
    BY <1>5, <2>2, <2>3 DEF Run, TypeInv, TypeOK, ControlInv, redis
<1>6. CASE MarkCompleted(w)
  <2>1. "completed" \in JobStatus /\ "ack" \in Plain
    BY DEF JobStatus, Plain, WorkerPC
  <2>2. QED
    BY <1>0, <1>1, <1>6, <2>1
       DEF MarkCompleted, TypeInv, TypeOK, ControlInv, redis
<1>7. CASE MarkFailed(w)
  <2>1. {"retry_wait", "dead_letter"} \subseteq JobStatus
    BY DEF JobStatus
  <2>2. "fail_check" \in Plain /\ "bury" \in Plain
    BY DEF Plain, WorkerPC
  <2>3. /\ wk' \in [Worker -> WorkerState]
        /\ \A v \in Worker : WorkerOK(wk'[v])
    BY <1>1, <1>7, <2>2, NextMessageType DEF MarkFailed
  <2>4. QED
    BY <1>7, <2>1, <2>3 DEF MarkFailed, TypeInv, TypeOK, ControlInv, redis
<1> QED
  BY <1>2, <1>3, <1>4, <1>5, <1>6, <1>7

\* Every step keeps the types.
LEMMA NextTypeInv == TypeInv /\ [Next]_vars => TypeInv'
<1> SUFFICES ASSUME TypeInv, [Next]_vars
             PROVE  TypeInv'
  OBVIOUS
<1>1. ASSUME NEW i \in Item, CreateItem(i)
      PROVE  TypeInv'
  BY <1>1 DEF CreateItem, TypeInv, TypeOK, ControlInv, redis, WorkStatus
<1>2. ASSUME NEW r \in Request, RequestStart(r) \/ RequestStep(r)
      PROVE  TypeInv'
  BY <1>2, RequestStartType, RequestMoveType, RequestCreateType,
     RequestWriteType, RequestSendType DEF RequestStep
<1>3. ASSUME NEW w \in Worker, WorkerStep(w)
      PROVE  TypeInv'
  BY <1>3, ReadType, WorkerMoveType, WorkerWriteType DEF WorkerStep
<1>4. CASE FaultStep
  BY <1>4, RequestSendType, RestartType, ReadType, WorkerMoveType
     DEF FaultStep
<1>5. CASE UNCHANGED vars
  BY <1>5 DEF vars, ledger, redis, TypeInv, TypeOK, ControlInv
<1> QED
  BY <1>1, <1>2, <1>3, <1>4, <1>5 DEF Next

\* Every process stays in a position whose fields are filled in.
THEOREM TypeInvariant == Spec => []TypeInv
<1>1. QED
  BY InitTypeInv, NextTypeInv, PTL DEF Spec

\* The ledger, the streams, the requests and the workers stay well typed.
THEOREM TypeCorrect == Spec => []TypeOK
<1>1. TypeInv => TypeOK
  BY DEF TypeInv
<1> QED
  BY <1>1, TypeInvariant, PTL

-----------------------------------------------------------------------------
(***************************************************************************)
(* Messages.                                                               *)
(***************************************************************************)

\* Nothing was sent, handed out or started in the empty system.
LEMMA InitMessages == Init => MessageInv /\ SettleInv
<1> SUFFICES ASSUME Init PROVE MessageInv /\ SettleInv
  OBVIOUS
<1>1. StreamInv /\ \A j \in Job : ~Unread(j)
  BY DEF Init, StreamInv, Unread
<1>2. SenderInv
  BY <1>1 DEF Init, SenderInv, Holds, Sending, NoRequest, HandedOut
<1>3. HolderInv
  BY PipelineAssumption DEF Init, HolderInv, NoMessage
<1>4. AttemptInv /\ SettleInv
  BY DEF Init, AttemptInv, SettleInv, AckedIsAccounted, RunningIsPending,
         NoMessage, Failing
<1> QED
  BY <1>1, <1>2, <1>3, <1>4 DEF MessageInv

-----------------------------------------------------------------------------
(***************************************************************************)
(* Frames: steps that leave a part of the invariant alone.                 *)
(***************************************************************************)

\* No message is added, handed out or given to another item.
SameMessages ==
    /\ stream' = stream
    /\ jobItem' = jobItem
    /\ HandedOut' = HandedOut
    /\ \A j \in Job : jobStatus'[j] = "absent" => jobStatus[j] = "absent"

\* No request gets a job to send.
NoNewSender ==
    \A r \in Request : Holds(r)' => Holds(r) /\ req'[r].job = req[r].job

\* The streams and the senders are undisturbed by such a step.
LEMMA SenderFrame ==
  ASSUME TypeInv, StreamInv, SenderInv, SameMessages, NoNewSender
  PROVE  StreamInv' /\ SenderInv'
<1>1. StreamInv'
  BY DEF SameMessages, StreamInv
<1>2. \A j \in Job : Unread(j)' <=> Unread(j)
  BY DEF SameMessages, Unread
<1>3. \A r \in Request : Holds(r) => req[r].job \in Job
  BY RequestFacts DEF Holds, RequestOK
<1>4. SenderInv'
  BY <1>2, <1>3 DEF SameMessages, NoNewSender, SenderInv
<1> QED
  BY <1>1, <1>4

\* A step of the API that only moves requests and jobs that are not running.
QuietStep ==
    /\ SameMessages
    /\ NoNewSender
    /\ UNCHANGED <<pending, acked, dead, attempts, recorded, wk>>
    /\ \A j \in Job : jobStatus'[j] = "running" => jobStatus[j] = "running"

\* It keeps the whole invariant.
LEMMA QuietMessages ==
  ASSUME TypeInv, MessageInv, SettleInv, QuietStep
  PROVE  MessageInv' /\ SettleInv'
<1>1. StreamInv' /\ SenderInv'
  BY SenderFrame DEF QuietStep, MessageInv
<1>2. HolderInv' /\ AttemptInv'
  BY DEF QuietStep, MessageInv, HolderInv, AttemptInv, HandedOut
<1>3. \A w \in Worker : wk[w].pc # "idle" => wk[w].job \in Job
  BY WorkerFacts DEF WorkerOK
<1>4. SettleInv'
  BY <1>3 DEF QuietStep, SettleInv, AckedIsAccounted, RunningIsPending, Failing
<1> QED
  BY <1>1, <1>2, <1>4 DEF MessageInv

\* A request that starts has no job yet.
LEMMA RequestStartQuiet ==
  ASSUME TypeInv, NEW r \in Request, RequestStart(r)
  PROVE  QuietStep
<1>1. \A s \in Request \ {r} : req'[s] = req[s]
  BY DEF RequestStart, StatusRequest, EnqueueRequest, RetryRequest,
         PromoteRequest, TypeInv, TypeOK
<1>2. ~Holds(r)'
  <2>0. req \in [Request -> ReqState]
    BY DEF TypeInv, TypeOK
  <2>1. ASSUME NEW y, req' = [req EXCEPT ![r] = y],
               \/ y.pc \in {"find", "children"}
               \/ y.pc = "write" /\ y.op = "status"
        PROVE  ~Holds(r)'
    BY <2>0, <2>1 DEF Holds, Sending
  <2>2. ASSUME NEW i \in Item, NEW g \in UserGoals, StatusRequest(r, i, g)
        PROVE  ~Holds(r)'
    <3> DEFINE y == [NoRequest EXCEPT !.pc = "write", !.op = "status",
                                      !.item = i, !.goal = g]
    <3>1. y.pc = "write" /\ y.op = "status" /\ req' = [req EXCEPT ![r] = y]
      BY <2>2 DEF StatusRequest, NoRequest
    <3> HIDE DEF y
    <3>2. QED
      BY <2>1, <3>1
  <2>3. ASSUME NEW i \in Item, EnqueueRequest(r, i)
        PROVE  ~Holds(r)'
    <3> DEFINE y == [NoRequest EXCEPT !.pc = "find", !.op = "enqueue",
                                      !.item = i]
    <3>1. y.pc = "find" /\ req' = [req EXCEPT ![r] = y]
      BY <2>3 DEF EnqueueRequest, NoRequest
    <3> HIDE DEF y
    <3>2. QED
      BY <2>1, <3>1
  <2>4. ASSUME NEW i \in Item, RetryRequest(r, i)
        PROVE  ~Holds(r)'
    <3> DEFINE y == [NoRequest EXCEPT !.pc = "find", !.op = "retry",
                                      !.item = i, !.saw = status[i],
                                      !.goal = "running"]
    <3>1. y.pc = "find" /\ req' = [req EXCEPT ![r] = y]
      BY <2>4 DEF RetryRequest, NoRequest
    <3> HIDE DEF y
    <3>2. QED
      BY <2>1, <3>1
  <2>5. ASSUME NEW i \in Item, PromoteRequest(r, i)
        PROVE  ~Holds(r)'
    <3> DEFINE y == [NoRequest EXCEPT !.pc = "children", !.op = "promote",
                                      !.item = i]
    <3>1. y.pc = "children" /\ req' = [req EXCEPT ![r] = y]
      BY <2>5 DEF PromoteRequest, NoRequest
    <3> HIDE DEF y
    <3>2. QED
      BY <2>1, <3>1
  <2> QED
    BY <2>2, <2>3, <2>4, <2>5 DEF RequestStart
<1>3. NoNewSender
  BY <1>1, <1>2 DEF NoNewSender, Holds
<1>4. UNCHANGED <<ledger, redis, wk>>
  BY DEF RequestStart, StatusRequest, EnqueueRequest, RetryRequest,
         PromoteRequest
<1> QED
  BY <1>3, <1>4 DEF QuietStep, SameMessages, HandedOut, ledger, redis

\* A request that reads, writes a status or records how its XADD ended.
LEMMA RequestMoveQuiet ==
  ASSUME TypeInv, SenderInv, NEW r \in Request,
         \/ FindChild(r) \/ CreateChild(r) \/ FindJob(r) \/ CheckStatus(r)
         \/ WriteStatus(r) \/ MarkQueued(r) \/ MarkEnqueueFailed(r)
         \/ XaddFails(r)
  PROVE  QuietStep
<1>0. req[r] \in ReqState /\ RequestOK(req[r])
  BY RequestFacts
<1>1. \A s \in Request \ {r} : req'[s] = req[s]
  BY DEF FindChild, CreateChild, FindJob, CheckStatus, WriteStatus,
         MarkQueued, MarkEnqueueFailed, XaddFails, Goto, Done, TypeInv, TypeOK
<1>2. Holds(r)' => Holds(r) /\ req'[r].job = req[r].job
  BY <1>0 DEF FindChild, CreateChild, FindJob, CheckStatus, WriteStatus,
         MarkQueued, MarkEnqueueFailed, XaddFails, Goto, Done, TypeInv, TypeOK,
         Holds, Sending, NoRequest, ReqState
<1>3. NoNewSender
  BY <1>1, <1>2 DEF NoNewSender, Holds
<1>4. /\ UNCHANGED <<stream, jobItem, pending, acked, dead, attempts,
                      recorded, wk>>
      /\ \A j \in Job : /\ jobStatus'[j] = "absent" => jobStatus[j] = "absent"
                        /\ jobStatus'[j] = "running" => jobStatus[j] = "running"
  <2>1. CASE MarkQueued(r) \/ MarkEnqueueFailed(r)
    BY <2>1 DEF MarkQueued, MarkEnqueueFailed, redis, TypeInv, TypeOK
  <2>2. CASE \/ FindChild(r) \/ CreateChild(r) \/ FindJob(r)
             \/ CheckStatus(r) \/ WriteStatus(r) \/ XaddFails(r)
    BY <2>2 DEF FindChild, CreateChild, FindJob, CheckStatus, WriteStatus,
                XaddFails, ledger, redis
  <2> QED
    BY <2>1, <2>2
<1>5. SameMessages
  BY <1>4 DEF SameMessages, HandedOut
<1> QED
  BY <1>3, <1>4, <1>5 DEF QuietStep

\* A new row, and a restart of the API, which forgets every request.
LEMMA RestartQuiet ==
  ASSUME TypeInv, ApiRestart \/ \E i \in Item : CreateItem(i)
  PROVE  QuietStep
<1>1. NoNewSender
  BY DEF ApiRestart, CreateItem, NoNewSender, Holds, Sending, NoRequest
<1>2. UNCHANGED <<stream, jobItem, jobStatus, pending, acked, dead, attempts,
                  recorded, wk>>
  BY DEF ApiRestart, CreateItem, ledger, redis
<1> QED
  BY <1>1, <1>2 DEF QuietStep, SameMessages, HandedOut

-----------------------------------------------------------------------------
(***************************************************************************)
(* A job is created and its message sent.                                  *)
(***************************************************************************)

\* The new job is the request's alone: its id was never in Redis.
LEMMA CreateJobMessages ==
  ASSUME TypeInv, MessageInv, SettleInv, NEW r \in Request, CreateJob(r)
  PROVE  MessageInv' /\ SettleInv'
<1>0. req[r] \in ReqState /\ RequestOK(req[r])
  BY RequestFacts
<1>1. PICK j \in Job :
        /\ jobStatus[j] = "absent"
        /\ jobStatus' = [jobStatus EXCEPT ![j] = "created"]
        /\ jobItem' = [jobItem EXCEPT ![j] = req[r].item]
        /\ req' = [req EXCEPT ![r].job = j,
                              ![r].pc = IF req[r].op = "retry" THEN "check"
                                                               ELSE "xadd"]
  BY DEF CreateJob
<1>2. UNCHANGED <<stream, pending, acked, dead, attempts, recorded, wk>>
  BY DEF CreateJob, redis
<1>3. j \notin HandedOut /\ ~Unread(j)
  BY <1>1 DEF MessageInv, SenderInv
<1>4. req[r].item \in Item
  BY <1>0 DEF CreateJob, RequestOK
<1>5. StreamInv'
  <2>1. \A q \in Queue : \A n \in 1..Len(stream[q]) :
          /\ stream[q][n] # j
          /\ stream[q][n] \in Job
    BY <1>3 DEF Unread, TypeInv, TypeOK
  <2>2. \A k \in Job \ {j} : jobItem'[k] = jobItem[k]
    BY <1>1 DEF TypeInv, TypeOK
  <2>3. QED
    BY <1>2, <2>1, <2>2 DEF MessageInv, StreamInv, HandedOut, QueueOf
<1>6. SenderInv'
  <2>1. \A s \in Request \ {r} : req'[s] = req[s]
    BY <1>1 DEF TypeInv, TypeOK
  <2>2. req'[r].job = j
    BY <1>0, <1>1 DEF TypeInv, TypeOK, ReqState
  <2>3. \A s \in Request : Holds(s) => req[s].job \in Job /\ req[s].job # j
    BY <1>1, RequestFacts DEF MessageInv, SenderInv, Holds, RequestOK
  <2>4. /\ \A k \in Job \ {j} : /\ jobItem'[k] = jobItem[k]
                               /\ jobStatus'[k] = jobStatus[k]
        /\ jobItem'[j] \in Item
        /\ jobStatus'[j] = "created"
    BY <1>1, <1>4 DEF TypeInv, TypeOK
  <2>5. \A k \in Job : (Unread(k)' <=> Unread(k)) /\ HandedOut' = HandedOut
    BY <1>2 DEF Unread, HandedOut
  <2>6. \A s \in Request \ {r} : Holds(s)' <=> Holds(s)
    BY <2>1 DEF Holds
  <2>7. QED
    BY <1>3, <2>1, <2>2, <2>3, <2>4, <2>5, <2>6 DEF MessageInv, SenderInv
<1>7. HolderInv' /\ AttemptInv'
  BY <1>2 DEF MessageInv, HolderInv, AttemptInv, HandedOut
<1>8. SettleInv'
  <2>1. \A k \in Job : jobStatus'[k] = "running" => jobStatus[k] = "running"
    BY <1>1 DEF TypeInv, TypeOK
  <2>2. \A w \in Worker : wk[w].pc # "idle" => wk[w].job \in Job
    BY WorkerFacts DEF WorkerOK
  <2>3. QED
    BY <1>2, <2>1, <2>2
       DEF SettleInv, AckedIsAccounted, RunningIsPending, Failing
<1> QED
  BY <1>5, <1>6, <1>7, <1>8 DEF MessageInv

\* The message goes to the end of its item's stream, where it is alone.
LEMMA SendMessages ==
  ASSUME TypeInv, MessageInv, SettleInv, NEW r \in Request,
         Xadd(r) \/ XaddReplyLost(r)
  PROVE  MessageInv' /\ SettleInv'
<1> DEFINE j == req[r].job
           q == QueueOf(jobItem[j])
           s == Append(stream[q], j)
<1>0. req[r].pc = "xadd" /\ Holds(r)
  BY DEF Xadd, XaddReplyLost, Holds, Sending
<1>1. /\ j \in Job /\ j \notin HandedOut /\ ~Unread(j)
      /\ jobItem[j] \in Item /\ jobStatus[j] # "absent"
  BY <1>0, RequestFacts DEF MessageInv, SenderInv, RequestOK, Holds
<1>2. q \in Queue /\ stream[q] \in Seq(Job)
  BY DEF QueueOf, Queue, TypeInv, TypeOK
<1>3. stream' = [stream EXCEPT ![q] = s]
  BY DEF Xadd, XaddReplyLost, AddToStream
<1>4. UNCHANGED <<jobStatus, jobItem, pending, acked, dead, attempts,
                  recorded, wk>>
  BY DEF Xadd, XaddReplyLost, ledger
<1>5. /\ Len(s) = Len(stream[q]) + 1
      /\ s[Len(s)] = j
      /\ \A n \in 1..Len(stream[q]) : s[n] = stream[q][n]
      /\ Len(stream[q]) \in Nat
  BY <1>1, <1>2
<1>6. /\ \A p \in Queue \ {q} : stream'[p] = stream[p]
      /\ stream'[q] = s
  BY <1>2, <1>3 DEF TypeInv, TypeOK
<1> HIDE DEF s
<1>7. \A n \in 1..Len(stream[q]) : stream[q][n] # j
  BY <1>1, <1>2 DEF Unread
<1>8. StreamInv'
  <2>1. HandedOut' = HandedOut /\ jobItem' = jobItem
    BY <1>4 DEF HandedOut
  <2>2. \A n \in 1..Len(s) :
          /\ s[n] \notin HandedOut
          /\ jobItem[s[n]] \in Item
          /\ QueueOf(jobItem[s[n]]) = q
    BY <1>1, <1>2, <1>5 DEF MessageInv, StreamInv
  <2>3. \A n, m \in 1..Len(s) : s[m] = s[n] => m = n
    BY <1>2, <1>5, <1>7 DEF MessageInv, StreamInv
  <2>4. QED
    BY <1>2, <1>6, <2>1, <2>2, <2>3 DEF MessageInv, StreamInv, QueueOf
<1>9. \A k \in Job \ {j} : Unread(k)' => Unread(k)
  <2> SUFFICES ASSUME NEW k \in Job \ {j}, NEW p \in Queue,
                      NEW n \in 1..Len(stream'[p]), stream'[p][n] = k
               PROVE  Unread(k)
    BY DEF Unread
  <2>1. CASE p = q
    <3>1. n \in 1..Len(stream[q])
      BY <1>5, <1>6, <2>1
    <3>2. QED
      BY <1>2, <1>5, <1>6, <2>1, <3>1 DEF Unread
  <2>2. CASE p # q
    BY <1>6, <2>2 DEF Unread
  <2> QED
    BY <2>1, <2>2
<1>10. SenderInv'
  <2>1. ~Holds(r)' /\ \A t \in Request \ {r} : req'[t] = req[t]
    <3>1. PICK pc \in {"mark_queued", "mark_failed"} : Goto(r, pc)
      BY DEF Xadd, XaddReplyLost
    <3>2. req \in [Request -> ReqState] /\ req[r] \in ReqState
      BY DEF TypeInv, TypeOK
    <3>3. req'[r].pc = pc /\ \A t \in Request \ {r} : req'[t] = req[t]
      BY <3>1, <3>2 DEF Goto, ReqState
    <3>4. QED
      BY <3>3 DEF Holds, Sending
  <2>2. \A t \in Request \ {r} : Holds(t) => req[t].job \in Job \ {j}
    BY <1>0, RequestFacts DEF MessageInv, SenderInv, RequestOK, Holds
  <2>3. HandedOut' = HandedOut
    BY <1>4 DEF HandedOut
  <2>4. \A t \in Request : Holds(t)' => t # r /\ Holds(t)
    BY <2>1 DEF Holds
  <2>5. QED
    BY <1>1, <1>4, <1>9, <2>1, <2>2, <2>3, <2>4 DEF MessageInv, SenderInv
<1>11. HolderInv' /\ AttemptInv' /\ SettleInv'
  BY <1>4 DEF MessageInv, HolderInv, AttemptInv, HandedOut,
              SettleInv, AckedIsAccounted, RunningIsPending, Failing
<1> QED
  BY <1>8, <1>10, <1>11 DEF MessageInv

\* Every step of the API keeps the invariant.
LEMMA ApiMessages ==
  ASSUME TypeInv, MessageInv, SettleInv,
         \/ \E i \in Item : CreateItem(i)
         \/ \E r \in Request :
               \/ RequestStart(r) \/ RequestStep(r)
               \/ XaddFails(r) \/ XaddReplyLost(r)
         \/ ApiRestart
  PROVE  MessageInv' /\ SettleInv'
  BY QuietMessages, RequestStartQuiet, RequestMoveQuiet, RestartQuiet,
     CreateJobMessages, SendMessages DEF RequestStep, MessageInv

-----------------------------------------------------------------------------
(***************************************************************************)
(* Workers.                                                                *)
(***************************************************************************)

\* What XREADGROUP hands out: the heads of the streams, each once, that no
\* one held, and the streams keep the rest.
LEMMA DeliverMessages ==
  ASSUME TypeInv, StreamInv, SenderInv, Deliver,
         UNCHANGED <<jobStatus, jobItem, acked, req>>
  PROVE  /\ StreamInv' /\ SenderInv'
         /\ Heads \cap HandedOut = {}
         /\ \A p, q \in Ready : Head(stream[p]) = Head(stream[q]) => p = q
<1>1. \A q \in Queue :
        /\ stream[q] \in Seq(Job)
        /\ Len(stream[q]) \in Nat
        /\ stream[q] # <<>> =>
             /\ Len(stream[q]) > 0
             /\ Head(stream[q]) = stream[q][1]
             /\ Len(Tail(stream[q])) = Len(stream[q]) - 1
             /\ \A n \in 1..(Len(stream[q]) - 1) :
                  Tail(stream[q])[n] = stream[q][n + 1]
  BY DEF TypeInv, TypeOK
<1>2. \A q \in Ready : /\ Head(stream[q]) \notin HandedOut
                       /\ QueueOf(jobItem[Head(stream[q])]) = q
  BY <1>1 DEF StreamInv, Ready
<1>3. Heads \cap HandedOut = {}
  BY <1>2 DEF Heads
<1>4. \A p, q \in Ready : Head(stream[p]) = Head(stream[q]) => p = q
  BY <1>2
<1>5. HandedOut' = HandedOut \cup Heads
  BY DEF Deliver, HandedOut
<1>6. \A q \in Queue :
        /\ q \in Ready => stream'[q] = Tail(stream[q])
        /\ q \notin Ready => stream'[q] = stream[q]
  BY DEF Deliver
<1>7. \A q \in Queue : \A n \in 1..Len(stream'[q]) :
        \E m \in 1..Len(stream[q]) :
          /\ stream'[q][n] = stream[q][m]
          /\ q \in Ready => m = n + 1
          /\ q \notin Ready => m = n
  <2> TAKE q \in Queue
  <2>1. CASE q \in Ready
    <3>1. /\ stream'[q] = Tail(stream[q])
          /\ stream[q] # <<>>
      BY <1>6, <2>1 DEF Ready
    <3>2. /\ Len(stream[q]) \in Nat
          /\ Len(stream'[q]) = Len(stream[q]) - 1
          /\ \A n \in 1..(Len(stream[q]) - 1) : stream'[q][n] = stream[q][n + 1]
      BY <1>1, <3>1
    <3> HIDE <1>1, <1>6
    <3>3. \A n \in 1..Len(stream'[q]) : n + 1 \in 1..Len(stream[q])
      BY <3>2
    <3>4. QED
      BY <2>1, <3>2, <3>3
  <2>2. CASE q \notin Ready
    BY <1>6, <2>2
  <2> QED
    BY <2>1, <2>2
<1>8. StreamInv'
  <2> SUFFICES ASSUME NEW q \in Queue, NEW n \in 1..Len(stream'[q])
               PROVE  /\ stream'[q][n] \notin HandedOut \cup Heads
                      /\ jobItem[stream'[q][n]] \in Item
                      /\ QueueOf(jobItem[stream'[q][n]]) = q
                      /\ \A k \in 1..Len(stream'[q]) :
                           stream'[q][k] = stream'[q][n] => k = n
    BY <1>5 DEF StreamInv, QueueOf
  <2>1. PICK m \in 1..Len(stream[q]) :
          /\ stream'[q][n] = stream[q][m]
          /\ q \in Ready => m = n + 1
          /\ q \notin Ready => m = n
    BY <1>7
  <2>2. stream[q][m] \notin Heads
    <3> SUFFICES ASSUME NEW p \in Ready, Head(stream[p]) = stream[q][m]
                 PROVE  FALSE
      BY DEF Heads
    <3>1. p = q
      BY <1>2 DEF StreamInv
    <3>2. m = 1 /\ q \in Ready
      BY <1>1, <3>1 DEF StreamInv, Ready
    <3>3. QED
      BY <1>1, <1>6, <2>1, <3>2
  <2>3. \A k \in 1..Len(stream'[q]) : stream'[q][k] = stream'[q][n] => k = n
    BY <1>1, <1>7, <2>1 DEF StreamInv
  <2>4. QED
    BY <2>1, <2>2, <2>3 DEF StreamInv
<1>9. \A k \in Job : Unread(k)' => Unread(k)
  BY <1>7 DEF Unread
<1>10. \A k \in Heads : Unread(k)
  BY <1>1 DEF Heads, Ready, Unread
<1>11. SenderInv'
  <2>1. \A r \in Request : Holds(r) => req[r].job \in Job
    BY RequestFacts DEF RequestOK, Holds
  <2>2. \A r \in Request : Holds(r)' <=> Holds(r)
    BY DEF Holds
  <2>3. QED
    BY <1>5, <1>9, <1>10, <2>1, <2>2 DEF SenderInv
<1> QED
  BY <1>3, <1>4, <1>8, <1>11

\* A worker that gets a batch is the only holder of its messages, none of
\* which was started before; a batch whose reply is lost has no holder.
LEMMA ReadMessagesInv ==
  ASSUME TypeInv, MessageInv, SettleInv, NEW w \in Worker,
         ReadMessages(w) \/ ReadReplyLost(w)
  PROVE  MessageInv' /\ SettleInv'
<1>0. /\ Deliver
      /\ UNCHANGED <<jobStatus, jobItem, attempts, recorded, acked, dead, req>>
  BY DEF ReadMessages, ReadReplyLost, ledger
<1>1. /\ StreamInv' /\ SenderInv'
      /\ Heads \cap HandedOut = {}
      /\ \A p, q \in Ready : Head(stream[p]) = Head(stream[q]) => p = q
  BY <1>0, DeliverMessages DEF MessageInv
<1>2. pending' = pending \cup Heads /\ HandedOut' = HandedOut \cup Heads
  BY <1>0 DEF Deliver, HandedOut
<1>3. /\ Heads \subseteq Job
      /\ \A v \in Worker : WorkerOK(wk[v])
  BY <1>0, DeliverType, WorkerFacts
<1>4. \/ wk' = wk
      \/ /\ wk[w].pc = "idle"
         /\ wk' = [wk EXCEPT ![w] = Fetched]
  BY DEF ReadMessages, ReadReplyLost
<1>5. /\ Fetched.pc = "start"
      /\ Fetched.job \in Heads
      /\ Fetched.next \in Heads \cup {None}
      /\ Fetched.next # Fetched.job
  <2>1. Ready \subseteq Queue /\ Ready # {}
    BY <1>0 DEF Ready, Deliver
  <2>2. /\ Fetched.pc = "start"
        /\ Fetched.job = IF "self_patch" \in Ready
                            THEN Head(stream["self_patch"])
                            ELSE Head(stream["external_work"])
        /\ Fetched.next = IF Ready = Queue THEN Head(stream["external_work"])
                                           ELSE None
    BY DEF Fetched, NoMessage
  <2>3. Fetched.job \in Heads
    BY <2>1, <2>2 DEF Heads, Queue
  <2>4. CASE Ready = Queue
    BY <1>1, <2>2, <2>3, <2>4 DEF Heads, Queue
  <2>5. CASE Ready # Queue
    BY <1>3, <2>2, <2>3, <2>5, PipelineAssumption
  <2> QED
    BY <2>2, <2>3, <2>4, <2>5
<1>6. /\ \A v \in Worker \ {w} : wk'[v] = wk[v]
      /\ \/ wk'[w] = wk[w]
         \/ wk'[w] = Fetched /\ wk[w].pc = "idle"
  <2>1. wk \in [Worker -> WorkerState]
    BY DEF TypeInv, TypeOK
  <2>2. QED
    BY <1>4, <2>1
<1>7. HolderInv /\ AttemptInv
  BY DEF MessageInv
<1>8. \A v \in Worker :
        /\ wk[v].pc # "idle" => wk[v].job \in HandedOut /\ wk[v].job \in Job
        /\ wk[v].pc = "idle" => wk[v].job = None
        /\ wk[v].next # None => wk[v].next \in pending /\ wk[v].next \in Job
  BY <1>3, <1>7 DEF HolderInv, WorkerOK, TypeInv, TypeOK
<1>9. HolderInv'
  <2>1. pending' \cap acked' = {}
    BY <1>0, <1>1, <1>2, <1>7 DEF HolderInv, HandedOut
  <2>2. ASSUME NEW v \in Worker
        PROVE  /\ wk'[v].pc # "idle" => wk'[v].job \in HandedOut'
               /\ wk'[v].pc \notin Failing \cup {"idle"} => wk'[v].job \in pending'
               /\ wk'[v].next # None => /\ wk'[v].next \in pending'
                                       /\ wk'[v].next # wk'[v].job
    BY <1>2, <1>5, <1>6, <1>7 DEF HolderInv, HandedOut
  <2>3. ASSUME NEW u \in Worker, NEW v \in Worker, u # v
        PROVE  /\ wk'[u].job \in Job => wk'[u].job \notin {wk'[v].job, wk'[v].next}
               /\ wk'[u].next \in Job => wk'[u].next # wk'[v].next
    <3>1. CASE u = w /\ wk'[w] = Fetched
      BY <1>1, <1>3, <1>5, <1>6, <1>8, <2>3, <3>1, PipelineAssumption
         DEF HandedOut
    <3>2. CASE v = w /\ wk'[w] = Fetched
      BY <1>1, <1>3, <1>5, <1>6, <1>8, <2>3, <3>2, PipelineAssumption
         DEF HandedOut
    <3>3. CASE wk'[u] = wk[u] /\ wk'[v] = wk[v]
      BY <1>7, <2>3, <3>3 DEF HolderInv
    <3> QED
      BY <1>6, <2>3, <3>1, <3>2, <3>3
  <2>4. QED
    BY <2>1, <2>2, <2>3 DEF HolderInv
<1>10. AttemptInv'
  <2>1. \A j \in Heads : attempts[j] = 0
    BY <1>1, <1>3, <1>7 DEF AttemptInv
  <2>2. QED
    BY <1>0, <1>2, <1>5, <1>6, <1>7, <2>1, PipelineAssumption DEF AttemptInv
<1>11. SettleInv'
  BY <1>0, <1>2, <1>5, <1>6 DEF SettleInv, AckedIsAccounted, RunningIsPending,
                                Failing
<1> QED
  BY <1>1, <1>9, <1>10, <1>11 DEF MessageInv

\* What a worker may do to the two sets of messages it was handed.
LEMMA XackKeepsHanded ==
  ASSUME TypeInv, HolderInv, NEW w \in Worker, wk[w].pc # "idle",
         UNCHANGED <<pending, acked>> \/ XackOf(w)
  PROVE  HandedOut' = HandedOut
  BY DEF XackOf, HandedOut, HolderInv

\* A worker goes on with its message.
LEMMA StayMessages ==
  ASSUME TypeInv, MessageInv, SettleInv, NEW w \in Worker, NEW y,
         wk[w].pc \notin {"idle", "start"}, wk' = [wk EXCEPT ![w] = y],
         y.job = wk[w].job, y.next = wk[w].next, y.pc \notin {"idle", "start"},
         wk[w].pc \in Failing => y.pc \in Failing,
         UNCHANGED <<stream, jobItem, attempts, req>>,
         recorded \subseteq recorded', dead \subseteq dead',
         \A j \in Job \ {wk[w].job} : jobStatus'[j] = jobStatus[j],
         jobStatus'[wk[w].job] \in {jobStatus[wk[w].job]}
                                      \cup (JobStatus \ {"running"}),
         \/ UNCHANGED <<pending, acked>>
         \/ XackOf(w) /\ y.pc = "fail" /\ wk[w].pc = "ack",
         y.pc = "ack" => wk[w].job \in recorded',
         y.pc = "ack_dead" => wk[w].job \in dead',
         y.pc \in {"ack"} \cup (Failing \ {"fail"}) =>
            jobStatus'[wk[w].job] # "running"
  PROVE  MessageInv' /\ SettleInv'
<1>0. /\ \A v \in Worker : WorkerOK(wk[v])
      /\ wk[w].job \in Job
  BY WorkerFacts DEF WorkerOK
<1>1. /\ wk'[w] = y
      /\ \A v \in Worker \ {w} : wk'[v] = wk[v]
      /\ \A v \in Worker : wk'[v].job = wk[v].job /\ wk'[v].next = wk[v].next
  BY DEF TypeInv, TypeOK
<1>2. HandedOut' = HandedOut
  BY XackKeepsHanded DEF MessageInv
<1>3. StreamInv' /\ SenderInv'
  <2>1. SameMessages
    BY <1>2 DEF SameMessages, JobStatus
  <2>2. NoNewSender
    BY DEF NoNewSender, Holds
  <2>3. QED
    BY <2>1, <2>2, SenderFrame DEF MessageInv
<1>4. HolderInv /\ AttemptInv
  BY DEF MessageInv
<1>5. HolderInv'
  <2>1. pending' \cap acked' = {}
    BY <1>4 DEF HolderInv, XackOf
  <2>2. ASSUME NEW v \in Worker
        PROVE  /\ wk'[v].pc # "idle" => wk'[v].job \in HandedOut'
               /\ wk'[v].pc \notin Failing \cup {"idle"} => wk'[v].job \in pending'
               /\ wk'[v].next # None => /\ wk'[v].next \in pending'
                                       /\ wk'[v].next # wk'[v].job
    <3>1. CASE v = w
      BY <1>0, <1>1, <1>2, <1>4, <3>1 DEF HolderInv, XackOf, Failing
    <3>2. CASE v # w
      <4>1. /\ wk[v].pc # "idle" => wk[v].job \in Job
            /\ wk[v].pc = "idle" => wk[v].next = None
        BY <1>0 DEF WorkerOK
      <4>2. wk[w].job # wk[v].next /\ wk[w].job # wk[v].job
        BY <1>0, <1>4, <3>2 DEF HolderInv
      <4>3. QED
        BY <1>0, <1>1, <1>2, <1>4, <3>2, <4>1, <4>2 DEF HolderInv, XackOf
    <3> QED
      BY <3>1, <3>2
  <2>3. ASSUME NEW u \in Worker, NEW v \in Worker, u # v
        PROVE  /\ wk'[u].job \in Job => wk'[u].job \notin {wk'[v].job, wk'[v].next}
               /\ wk'[u].next \in Job => wk'[u].next # wk'[v].next
    BY <1>1, <1>4, <2>3 DEF HolderInv
  <2>4. QED
    BY <2>1, <2>2, <2>3 DEF HolderInv
<1>6. AttemptInv'
  BY <1>1, <1>2, <1>4 DEF AttemptInv
<1>7. SettleInv'
  <2>1. acked' \subseteq recorded' \cup dead'
    BY DEF SettleInv, AckedIsAccounted, XackOf
  <2>2. \A j \in Job : jobStatus'[j] = "running" => j \in pending'
    BY <1>0 DEF SettleInv, RunningIsPending, XackOf, Failing
  <2>3. ASSUME NEW v \in Worker
        PROVE  /\ wk'[v].pc = "ack" => wk'[v].job \in recorded'
               /\ wk'[v].pc = "ack_dead" => wk'[v].job \in dead'
               /\ wk'[v].pc \in {"ack"} \cup (Failing \ {"fail"}) =>
                     jobStatus'[wk'[v].job] # "running"
    <3>1. CASE v = w
      BY <1>1, <3>1
    <3>2. CASE v # w
      <4>1. wk[v].pc # "idle" => wk[v].job \in Job \ {wk[w].job}
        BY <1>0, <1>4, <3>2 DEF WorkerOK, HolderInv
      <4>2. QED
        BY <1>1, <3>2, <4>1 DEF SettleInv, Failing
    <3> QED
      BY <3>1, <3>2
  <2>4. QED
    BY <2>1, <2>2, <2>3 DEF SettleInv, AckedIsAccounted, RunningIsPending
<1> QED
  BY <1>3, <1>5, <1>6, <1>7 DEF MessageInv

\* A worker is done with its message, or dies: the rest of its batch keeps
\* its holder, or loses it.
LEMMA DropMessages ==
  ASSUME TypeInv, MessageInv, SettleInv, NEW w \in Worker, wk[w].pc # "idle",
         NextMessage(w) \/ wk' = [wk EXCEPT ![w] = NoMessage],
         UNCHANGED <<stream, jobItem, attempts, req, recorded, dead>>,
         \A j \in Job : jobStatus'[j] \in {jobStatus[j], "retry_wait"},
         \/ UNCHANGED <<pending, acked>>
         \/ XackOf(w) /\ wk[w].pc \in {"ack", "ack_dead"}
  PROVE  MessageInv' /\ SettleInv'
<1> DEFINE y == [NoMessage EXCEPT !.pc = "start", !.job = wk[w].next]
<1>0. /\ \A v \in Worker : WorkerOK(wk[v])
      /\ wk[w].job \in Job
  BY WorkerFacts DEF WorkerOK
<1>1. /\ \A v \in Worker \ {w} : wk'[v] = wk[v]
      /\ \/ wk'[w] = NoMessage
         \/ wk'[w] = y /\ wk[w].next # None
  BY DEF NextMessage, TypeInv, TypeOK
<1>2. /\ NoMessage.pc = "idle" /\ NoMessage.job = None /\ NoMessage.next = None
      /\ y.pc = "start" /\ y.job = wk[w].next /\ y.next = None
  BY DEF NoMessage
<1> HIDE DEF y
<1>3. HandedOut' = HandedOut
  BY XackKeepsHanded DEF MessageInv
<1>4. StreamInv' /\ SenderInv'
  <2>1. SameMessages
    BY <1>3 DEF SameMessages
  <2>2. NoNewSender
    BY DEF NoNewSender, Holds
  <2>3. QED
    BY <2>1, <2>2, SenderFrame DEF MessageInv
<1>5. HolderInv /\ AttemptInv
  BY DEF MessageInv
<1>6. /\ wk[w].next # None =>
            wk[w].next \in pending \ {wk[w].job} /\ wk[w].next \in Job
      /\ \A v \in Worker \ {w} :
            /\ wk[v].pc # "idle" => wk[v].job \in Job \ {wk[w].job}
            /\ wk[v].next # None => wk[v].next \in Job \ {wk[w].job}
  BY <1>0, <1>5 DEF HolderInv, WorkerOK, TypeInv, TypeOK
<1>7. HolderInv'
  <2>1. pending' \cap acked' = {}
    BY <1>5 DEF HolderInv, XackOf
  <2>2. ASSUME NEW v \in Worker
        PROVE  /\ wk'[v].pc # "idle" => wk'[v].job \in HandedOut'
               /\ wk'[v].pc \notin Failing \cup {"idle"} => wk'[v].job \in pending'
               /\ wk'[v].next # None => /\ wk'[v].next \in pending'
                                       /\ wk'[v].next # wk'[v].job
    BY <1>0, <1>1, <1>2, <1>3, <1>5, <1>6
       DEF HolderInv, XackOf, HandedOut, WorkerOK
  <2>3. ASSUME NEW u \in Worker, NEW v \in Worker, u # v
        PROVE  /\ wk'[u].job \in Job => wk'[u].job \notin {wk'[v].job, wk'[v].next}
               /\ wk'[u].next \in Job => wk'[u].next # wk'[v].next
    BY <1>1, <1>2, <1>5, <1>6, <2>3, PipelineAssumption DEF HolderInv
  <2>4. QED
    BY <2>1, <2>2, <2>3 DEF HolderInv
<1>8. AttemptInv'
  BY <1>1, <1>2, <1>3, <1>5, <1>6 DEF AttemptInv
<1>9. SettleInv'
  <2>1. acked' \subseteq recorded' \cup dead'
    BY DEF SettleInv, AckedIsAccounted, XackOf
  <2>2. \A j \in Job : jobStatus'[j] = "running" => j \in pending'
    BY <1>0 DEF SettleInv, RunningIsPending, XackOf, Failing
  <2>3. ASSUME NEW v \in Worker
        PROVE  /\ wk'[v].pc = "ack" => wk'[v].job \in recorded'
               /\ wk'[v].pc = "ack_dead" => wk'[v].job \in dead'
               /\ wk'[v].pc \in {"ack"} \cup (Failing \ {"fail"}) =>
                     jobStatus'[wk'[v].job] # "running"
    BY <1>1, <1>2, <1>6 DEF SettleInv, Failing
  <2>4. QED
    BY <2>1, <2>2, <2>3 DEF SettleInv, AckedIsAccounted, RunningIsPending
<1> QED
  BY <1>4, <1>7, <1>8, <1>9 DEF MessageInv

\* The job's first and only start.
LEMMA MarkRunningMessages ==
  ASSUME TypeInv, MessageInv, SettleInv, NEW w \in Worker, MarkRunning(w)
  PROVE  MessageInv' /\ SettleInv'
<1>0. /\ \A v \in Worker : WorkerOK(wk[v])
      /\ wk[w].job \in Job
  BY WorkerFacts DEF MarkRunning, WorkerOK
<1>1. /\ \A v \in Worker \ {w} : wk'[v] = wk[v]
      /\ wk'[w].pc = "observe" /\ wk'[w].job = wk[w].job
      /\ wk'[w].next = wk[w].next
  BY DEF MarkRunning, Step, TypeInv, TypeOK, WorkerState
<1>2. /\ UNCHANGED <<stream, pending, acked, dead, jobItem, recorded, req>>
      /\ HandedOut' = HandedOut
      /\ wk[w].pc = "start"
  BY DEF MarkRunning, redis, HandedOut
<1>3. /\ attempts'[wk[w].job] = attempts[wk[w].job] + 1
      /\ \A j \in Job \ {wk[w].job} : /\ attempts'[j] = attempts[j]
                                      /\ jobStatus'[j] = jobStatus[j]
      /\ jobStatus'[wk[w].job] = "running"
  BY <1>0 DEF MarkRunning, TypeInv, TypeOK
<1>4. StreamInv' /\ SenderInv'
  <2>1. SameMessages
    BY <1>2, <1>3 DEF SameMessages
  <2>2. NoNewSender
    BY <1>2 DEF NoNewSender, Holds
  <2>3. QED
    BY <2>1, <2>2, SenderFrame DEF MessageInv
<1>5. HolderInv /\ AttemptInv
  BY DEF MessageInv
<1>6. wk[w].job \in pending /\ attempts[wk[w].job] = 0
  BY <1>2, <1>5 DEF HolderInv, AttemptInv, Failing
<1>7. \A v \in Worker \ {w} :
        /\ wk[v].pc # "idle" => wk[v].job \in Job \ {wk[w].job}
        /\ wk[v].next # None => wk[v].next \in Job \ {wk[w].job}
  BY <1>0, <1>5 DEF HolderInv, WorkerOK, TypeInv, TypeOK
<1>8. wk[w].next # None => wk[w].next \in Job \ {wk[w].job}
  BY <1>5 DEF HolderInv, TypeInv, TypeOK
<1>9. HolderInv'
  BY <1>1, <1>2, <1>5, <1>6 DEF HolderInv
<1>10. AttemptInv'
  BY <1>1, <1>2, <1>3, <1>5, <1>6, <1>7, <1>8 DEF AttemptInv, HandedOut
<1>11. SettleInv'
  BY <1>1, <1>2, <1>3, <1>6, <1>7
     DEF SettleInv, AckedIsAccounted, RunningIsPending, Failing
<1> QED
  BY <1>4, <1>9, <1>10, <1>11 DEF MessageInv

\* A step that only moves the worker, or also writes a status or a result.
LEMMA MoveMessages ==
  ASSUME TypeInv, MessageInv, SettleInv, NEW w \in Worker,
         NEW pc \in WorkerPC \ {"idle", "start", "ack", "ack_dead"},
         wk[w].pc \notin {"idle", "start"},
         \/ Step(w, pc)
         \/ \E g \in WorkStatus :
              wk' = [wk EXCEPT ![w].pc = pc, ![w].goal = g],
         wk[w].pc \in Failing => pc \in Failing,
         pc \in Failing \ {"fail"} => wk[w].pc \in Failing \ {"fail"},
         UNCHANGED <<stream, jobItem, attempts, req, recorded, dead, jobStatus,
                     pending, acked>>
  PROVE  MessageInv' /\ SettleInv'
<1>0. wk[w] \in WorkerState
  BY WorkerFacts
<1>1. pc \in Failing \ {"fail"} => jobStatus[wk[w].job] # "running"
  BY DEF SettleInv
<1>2. CASE Step(w, pc)
  <2> DEFINE y == [wk[w] EXCEPT !.pc = pc]
  <2>1. /\ wk' = [wk EXCEPT ![w] = y]
        /\ y.pc = pc /\ y.job = wk[w].job /\ y.next = wk[w].next
    BY <1>0, <1>2 DEF Step, WorkerState
  <2> HIDE DEF y
  <2>2. QED
    BY <1>1, <2>1, StayMessages
<1>3. ASSUME NEW g \in WorkStatus,
             wk' = [wk EXCEPT ![w].pc = pc, ![w].goal = g]
      PROVE  MessageInv' /\ SettleInv'
  <2> DEFINE y == [wk[w] EXCEPT !.pc = pc, !.goal = g]
  <2>1. /\ wk' = [wk EXCEPT ![w] = y]
        /\ y.pc = pc /\ y.job = wk[w].job /\ y.next = wk[w].next
    BY <1>0, <1>3 DEF WorkerState
  <2> HIDE DEF y
  <2>2. QED
    BY <1>1, <2>1, StayMessages
<1> QED
  BY <1>2, <1>3

\* Every step of a worker that is not a read, a start or an acknowledgement.
LEMMA WorkMessages ==
  ASSUME TypeInv, MessageInv, SettleInv, NEW w \in Worker,
         \/ Observe(w) \/ CheckStart(w) \/ WriteStart(w) \/ Run(w)
         \/ RecordResult(w) \/ WriteResult(w) \/ CheckFailed(w)
         \/ WriteFailed(w)
  PROVE  MessageInv' /\ SettleInv'
<1>1. UNCHANGED <<stream, jobItem, attempts, req, recorded, dead, jobStatus,
                  pending, acked>>
  BY DEF Observe, CheckStart, WriteStart, Run, RecordResult, WriteResult,
         CheckFailed, WriteFailed, ledger, redis
<1>2. PICK pc \in {"check", "run", "record", "write", "fail", "record_write",
                   "complete", "fail_write", "bury"} :
        /\ wk[w].pc \notin {"idle", "start"}
        /\ \/ Step(w, pc)
           \/ \E g \in WorkStatus :
                wk' = [wk EXCEPT ![w].pc = pc, ![w].goal = g]
        /\ wk[w].pc \in Failing => pc \in Failing
        /\ pc \in Failing \ {"fail"} => wk[w].pc \in Failing \ {"fail"}
  <2>1. CASE Observe(w)
    <3>1. StartsAs(ItemOf(w)) \in WorkStatus
      BY DEF StartsAs, WorkStatus
    <3>2. QED
      BY <2>1, <3>1 DEF Observe, Failing
  <2>2. CASE CheckStart(w) \/ WriteStart(w) \/ Run(w) \/ WriteResult(w)
    BY <2>2 DEF CheckStart, WriteStart, Run, WriteResult, Failing
  <2>3. CASE RecordResult(w)
    <3>1. StatusAfter(result[wk[w].job]) \in WorkStatus
      BY StatusAfterType
    <3>2. QED
      BY <2>3, <3>1 DEF RecordResult, Failing
  <2>4. CASE CheckFailed(w) \/ WriteFailed(w)
    <3>1. "reviewing" \in WorkStatus
      BY DEF WorkStatus
    <3>2. QED
      BY <2>4, <3>1 DEF CheckFailed, WriteFailed, Failing
  <2> QED
    BY <2>1, <2>2, <2>3, <2>4
<1> QED
  BY <1>1, <1>2, MoveMessages DEF WorkerPC

\* The job is recorded, as completed or as failed, or buried.
LEMMA RecordMessages ==
  ASSUME TypeInv, MessageInv, SettleInv, NEW w \in Worker,
         MarkCompleted(w) \/ MarkFailed(w) \/ Bury(w)
  PROVE  MessageInv' /\ SettleInv'
<1>0. /\ wk[w] \in WorkerState /\ wk[w].job \in Job
      /\ wk[w].pc \notin {"idle", "start"}
  BY WorkerFacts DEF WorkerOK, MarkCompleted, MarkFailed, Bury
<1>1. CASE MarkCompleted(w)
  <2> DEFINE y == [wk[w] EXCEPT !.pc = "ack"]
  <2>1. /\ wk' = [wk EXCEPT ![w] = y]
        /\ y.pc = "ack" /\ y.job = wk[w].job /\ y.next = wk[w].next
    BY <1>0, <1>1 DEF MarkCompleted, Step, WorkerState
  <2>2. /\ jobStatus'[wk[w].job] \in JobStatus \ {"running"}
        /\ \A j \in Job \ {wk[w].job} : jobStatus'[j] = jobStatus[j]
    BY <1>0, <1>1 DEF MarkCompleted, JobStatus, TypeInv, TypeOK
  <2> HIDE DEF y
  <2>3. QED
    BY <1>0, <1>1, <2>1, <2>2, StayMessages DEF MarkCompleted, redis, Failing
<1>2. CASE /\ MarkFailed(w)
           /\ ItemOf(w) \notin SelfPatch
           /\ attempts[wk[w].job] < MaxAttempts
  <2>1. /\ jobStatus' = [jobStatus EXCEPT ![wk[w].job] = "retry_wait"]
        /\ NextMessage(w)
    BY <1>2 DEF MarkFailed
  <2>2. \A j \in Job : jobStatus'[j] \in {jobStatus[j], "retry_wait"}
    BY <1>0, <2>1 DEF TypeInv, TypeOK
  <2>3. QED
    BY <1>0, <1>2, <2>1, <2>2, DropMessages DEF MarkFailed, redis
<1>3. CASE /\ MarkFailed(w)
           /\ \/ ItemOf(w) \in SelfPatch
              \/ ~(attempts[wk[w].job] < MaxAttempts)
  <2>1. /\ jobStatus' = [jobStatus EXCEPT ![wk[w].job] = "dead_letter"]
        /\ Step(w, "fail_check") \/ Step(w, "bury")
    BY <1>3 DEF MarkFailed
  <2>2. PICK pc \in {"fail_check", "bury"} : Step(w, pc)
    BY <2>1
  <2> DEFINE y == [wk[w] EXCEPT !.pc = pc]
  <2>3. /\ wk' = [wk EXCEPT ![w] = y]
        /\ y.pc = pc /\ y.job = wk[w].job /\ y.next = wk[w].next
    BY <1>0, <2>2 DEF Step, WorkerState
  <2>4. /\ jobStatus'[wk[w].job] \in JobStatus \ {"running"}
        /\ \A j \in Job \ {wk[w].job} : jobStatus'[j] = jobStatus[j]
    BY <1>0, <2>1 DEF JobStatus, TypeInv, TypeOK
  <2> HIDE DEF y
  <2>5. QED
    BY <1>0, <1>3, <2>3, <2>4, StayMessages DEF MarkFailed, redis, Failing
<1>4. CASE Bury(w)
  <2> DEFINE y == [wk[w] EXCEPT !.pc = "ack_dead"]
  <2>1. /\ wk' = [wk EXCEPT ![w] = y]
        /\ y.pc = "ack_dead" /\ y.job = wk[w].job /\ y.next = wk[w].next
    BY <1>0, <1>4 DEF Bury, Step, WorkerState
  <2>2. jobStatus[wk[w].job] # "running"
    BY <1>4 DEF Bury, SettleInv, Failing
  <2> HIDE DEF y
  <2>3. QED
    BY <1>0, <1>4, <2>1, <2>2, StayMessages DEF Bury, ledger, Failing
<1> QED
  BY <1>1, <1>2, <1>3, <1>4

\* XACK, and the end of a message.
LEMMA AckMessages ==
  ASSUME TypeInv, MessageInv, SettleInv, NEW w \in Worker,
         Ack(w) \/ AckFails(w) \/ AckDead(w) \/ WorkerCrash(w)
  PROVE  MessageInv' /\ SettleInv'
<1>1. CASE Ack(w) \/ AckDead(w)
  BY <1>1, DropMessages DEF Ack, AckDead, ledger
<1>2. CASE WorkerCrash(w)
  BY <1>2, DropMessages DEF WorkerCrash, ledger, redis
<1>3. CASE AckFails(w)
  <2> DEFINE y == [wk[w] EXCEPT !.pc = "fail"]
  <2>1. /\ wk' = [wk EXCEPT ![w] = y]
        /\ y.pc = "fail" /\ y.job = wk[w].job /\ y.next = wk[w].next
    BY <1>3, WorkerFacts DEF AckFails, Step, WorkerState
  <2> HIDE DEF y
  <2>2. QED
    BY <1>3, <2>1, StayMessages DEF AckFails, ledger, Failing
<1> QED
  BY <1>1, <1>2, <1>3

\* Every step keeps the whole invariant.
LEMMA NextIInv == IInv /\ [Next]_vars => IInv'
<1> SUFFICES ASSUME TypeInv, MessageInv, SettleInv, [Next]_vars
             PROVE  MessageInv' /\ SettleInv'
  BY NextTypeInv DEF IInv
<1>1. CASE FaultStep
  BY <1>1, ApiMessages, ReadMessagesInv, AckMessages DEF FaultStep
<1>2. ASSUME NEW w \in Worker, WorkerStep(w)
      PROVE  MessageInv' /\ SettleInv'
  BY <1>2, ReadMessagesInv, MarkRunningMessages, WorkMessages, RecordMessages,
     AckMessages DEF WorkerStep
<1>3. CASE UNCHANGED vars
  BY <1>3 DEF vars, ledger, redis, MessageInv, StreamInv, SenderInv, HolderInv,
       AttemptInv, SettleInv, HandedOut, Unread, Holds, AckedIsAccounted,
       RunningIsPending
<1> QED
  BY <1>1, <1>2, <1>3, ApiMessages DEF Next

\* The inductive invariant holds in every reachable state.
THEOREM InductiveInvariant == Spec => []IInv
<1>1. Init => IInv
  BY InitTypeInv, InitMessages DEF IInv
<1> QED
  BY <1>1, NextIInv, PTL DEF Spec

\* A job's message is handed to one worker, which starts the job once.
THEOREM MessageStartedOnce == Spec => []DeliveredOnce
<1>1. IInv => DeliveredOnce
  BY DEF IInv, MessageInv, AttemptInv, DeliveredOnce
<1> QED
  BY <1>1, InductiveInvariant, PTL

\* An acknowledged message is recorded as completed or kept as a dead letter.
THEOREM NothingLost == Spec => []AckedIsAccounted
<1>1. IInv => AckedIsAccounted
  BY DEF IInv, SettleInv
<1> QED
  BY <1>1, InductiveInvariant, PTL

\* A job the ledger calls running can be found in the pending entries.
THEOREM RunningRecoverable == Spec => []RunningIsPending
<1>1. IInv => RunningIsPending
  BY DEF IInv, SettleInv
<1> QED
  BY <1>1, InductiveInvariant, PTL

-----------------------------------------------------------------------------
(***************************************************************************)
(* The pipeline implements at-most-once delivery: seen through PlaceOf,    *)
(* every step is a step of JobDelivery or changes nothing.                 *)
(***************************************************************************)

\* A message that is added can be read, and no other message changes place.
LEMMA AddMakesUnread ==
  ASSUME TypeInv, NEW j \in Job, AddToStream(j)
  PROVE  Unread(j)' /\ \A k \in Job \ {j} : Unread(k)' <=> Unread(k)
<1> DEFINE q == QueueOf(jobItem[j])
           s == Append(stream[q], j)
<1>2. q \in Queue /\ stream \in [Queue -> Seq(Job)]
  BY DEF QueueOf, Queue, TypeInv, TypeOK
<1>3. stream' = [stream EXCEPT ![q] = s]
  BY DEF AddToStream
<1>4. /\ Len(s) = Len(stream[q]) + 1
      /\ Len(stream[q]) \in Nat
      /\ s[Len(s)] = j
      /\ \A n \in 1..Len(stream[q]) : s[n] = stream[q][n]
  BY <1>2
<1>5. /\ \A p \in Queue \ {q} : stream'[p] = stream[p]
      /\ stream'[q] = s
  BY <1>2, <1>3
<1> HIDE DEF s, q
<1>6. Unread(j)'
  <2>1. Len(s) \in 1..Len(s)
    BY <1>4
  <2>2. QED
    BY <1>2, <1>4, <1>5, <2>1 DEF Unread
<1>7. \A k \in Job \ {j} : Unread(k)' <=> Unread(k)
  <2> TAKE k \in Job \ {j}
  <2>1. (\E n \in 1..Len(s) : s[n] = k) <=>
          (\E n \in 1..Len(stream[q]) : stream[q][n] = k)
    BY <1>4
  <2>2. QED
    BY <1>2, <1>5, <2>1 DEF Unread
<1> QED
  BY <1>6, <1>7

\* An XADD sends one message.
LEMMA XaddSends ==
  ASSUME IInv, NEW r \in Request, Xadd(r) \/ XaddReplyLost(r)
  PROVE  Delivery!Next
<1>0. TypeInv /\ StreamInv /\ SenderInv
  BY DEF IInv, MessageInv
<1>1. PICK j \in Job : j = req[r].job /\ j \notin HandedOut /\ ~Unread(j)
  BY <1>0, RequestFacts
     DEF Xadd, XaddReplyLost, RequestOK, SenderInv, Holds, Sending
<1>2. AddToStream(j) /\ UNCHANGED <<pending, acked, attempts>>
  BY <1>1 DEF Xadd, XaddReplyLost, ledger
<1>3. Unread(j)' /\ \A k \in Job \ {j} : Unread(k)' <=> Unread(k)
  BY <1>0, <1>2, AddMakesUnread
<1>4. PlaceOf[j] = "unsent"
  BY <1>1 DEF PlaceOf, HandedOut
<1>5. PlaceOf' = [k \in Job |-> IF k \in {j} THEN "unread" ELSE PlaceOf[k]]
  BY <1>1, <1>2, <1>3 DEF PlaceOf, HandedOut
<1> QED
  BY <1>1, <1>2, <1>4, <1>5 DEF Delivery!Next, Delivery!Send, Delivery!Move

\* What a read hands out was unread, and no other message changes place.
LEMMA DeliverTakesHeads ==
  ASSUME TypeInv, Deliver
  PROVE  /\ \A k \in Heads : Unread(k)
         /\ \A k \in Job \ Heads : Unread(k)' <=> Unread(k)
<1>4. \A q \in Ready :
        /\ Len(stream[q]) \in Nat /\ Len(stream[q]) > 0
        /\ Head(stream[q]) = stream[q][1]
        /\ Len(stream'[q]) = Len(stream[q]) - 1
        /\ \A n \in 1..(Len(stream[q]) - 1) : stream'[q][n] = stream[q][n + 1]
  <2>1. \A q \in Ready : /\ stream[q] \in Seq(Job) /\ stream[q] # <<>>
                         /\ stream'[q] = Tail(stream[q])
    BY DEF TypeInv, TypeOK, Ready, Deliver
  <2>2. ASSUME NEW t \in Seq(Job), t # <<>>
        PROVE  /\ Len(t) \in Nat /\ Len(t) > 0
               /\ Head(t) = t[1]
               /\ Len(Tail(t)) = Len(t) - 1
               /\ \A n \in 1..(Len(t) - 1) : Tail(t)[n] = t[n + 1]
    BY <2>2
  <2>3. QED
    BY <2>1, <2>2
<1>5. \A q \in Queue \ Ready : stream'[q] = stream[q]
  BY DEF Deliver
<1>6. \A k \in Heads : Unread(k)
  BY <1>4 DEF Heads, Ready, Unread
<1>7. \A k \in Job \ Heads : Unread(k)' <=> Unread(k)
  <2> TAKE k \in Job \ Heads
  <2>1. ASSUME NEW q \in Ready
        PROVE  (\E n \in 1..Len(stream'[q]) : stream'[q][n] = k) <=>
                  (\E n \in 1..Len(stream[q]) : stream[q][n] = k)
    <3>1. stream[q][1] # k
      BY <1>4 DEF Heads
    <3>2. \A n \in 1..Len(stream[q]) :
            n # 1 => /\ n - 1 \in 1..(Len(stream[q]) - 1)
                     /\ stream'[q][n - 1] = stream[q][n]
      BY <1>4
    <3>3. \A n \in 1..Len(stream'[q]) : n + 1 \in 1..Len(stream[q])
      BY <1>4
    <3>4. ASSUME NEW n \in 1..Len(stream'[q]), stream'[q][n] = k
          PROVE  \E m \in 1..Len(stream[q]) : stream[q][m] = k
      BY <1>4, <3>3, <3>4
    <3>5. ASSUME NEW n \in 1..Len(stream[q]), stream[q][n] = k
          PROVE  \E m \in 1..Len(stream'[q]) : stream'[q][m] = k
      BY <1>4, <3>1, <3>2, <3>5
    <3> QED
      BY <3>4, <3>5
  <2>2. QED
    BY <1>5, <2>1 DEF Unread
<1> QED
  BY <1>6, <1>7

\* A read hands out the heads of the streams.
LEMMA ReadHands ==
  ASSUME IInv, NEW w \in Worker, ReadMessages(w) \/ ReadReplyLost(w)
  PROVE  Delivery!Next
<1>0. /\ TypeInv /\ StreamInv /\ SenderInv
      /\ Deliver
      /\ UNCHANGED <<jobStatus, jobItem, attempts, acked, req>>
  BY DEF IInv, MessageInv, ReadMessages, ReadReplyLost, ledger
<1>1. /\ Heads \cap HandedOut = {}
      /\ Heads \subseteq Job
      /\ Heads # {}
  BY <1>0, DeliverMessages, DeliverType DEF Deliver, Heads
<1>2. PICK S \in SUBSET Job : S = Heads
  BY <1>1
<1>3. /\ pending' = pending \cup S
      /\ acked' = acked
  BY <1>0, <1>2 DEF Deliver
<1>6. \A k \in S : Unread(k)
  BY <1>0, <1>2, DeliverTakesHeads
<1>7. \A k \in Job \ S : Unread(k)' <=> Unread(k)
  BY <1>0, <1>2, DeliverTakesHeads
<1>8. \A k \in S : PlaceOf[k] = "unread"
  BY <1>1, <1>2, <1>6 DEF PlaceOf, HandedOut
<1>9. PlaceOf' = [k \in Job |-> IF k \in S THEN "held" ELSE PlaceOf[k]]
  <2>1. \A k \in S : ~Unread(k)'
    BY <1>0, <1>2, <1>3, DeliverMessages DEF StreamInv, HandedOut, Unread
  <2>2. QED
    BY <1>1, <1>2, <1>3, <1>7, <2>1 DEF PlaceOf, HandedOut
<1> QED
  BY <1>0, <1>1, <1>2, <1>8, <1>9 DEF Delivery!Next, Delivery!Hand, Delivery!Move

\* An XACK settles a message, or nothing when it was applied before.
LEMMA XackSettles ==
  ASSUME IInv, NEW w \in Worker, wk[w].pc \notin {"idle", "start"},
         XackOf(w), UNCHANGED <<stream, attempts>>
  PROVE  Delivery!Next \/ UNCHANGED <<PlaceOf, attempts>>
<1>0. TypeInv /\ HolderInv /\ AttemptInv /\ StreamInv
  BY DEF IInv, MessageInv
<1>1. PICK j \in Job : /\ j = wk[w].job /\ j \in HandedOut
                       /\ ~Unread(j) /\ attempts[j] = 1
  BY <1>0, WorkerFacts DEF WorkerOK, HolderInv, AttemptInv, StreamInv, Unread
<1>2. /\ pending' = pending \ {j}
      /\ acked' = acked \cup {j}
      /\ \A k \in Job : Unread(k)' <=> Unread(k)
  BY <1>1 DEF XackOf, Unread
<1>3. CASE j \in acked
  BY <1>0, <1>2, <1>3 DEF PlaceOf, HolderInv
<1>4. CASE j \notin acked
  <2>1. PlaceOf[j] = "held"
    BY <1>1, <1>4 DEF PlaceOf, HandedOut
  <2>2. PlaceOf' = [k \in Job |-> IF k \in {j} THEN "settled" ELSE PlaceOf[k]]
    BY <1>1, <1>2, <1>4 DEF PlaceOf
  <2>3. QED
    BY <1>1, <2>1, <2>2 DEF Delivery!Next, Delivery!Settle, Delivery!Move
<1> QED
  BY <1>3, <1>4

\* mark_work_job_running begins a message that its worker holds.
LEMMA RunningBegins ==
  ASSUME IInv, NEW w \in Worker, MarkRunning(w)
  PROVE  Delivery!Next
<1>0. TypeInv /\ HolderInv /\ AttemptInv /\ StreamInv
  BY DEF IInv, MessageInv
<1>1. PICK j \in Job : /\ j = wk[w].job /\ j \in pending
                       /\ ~Unread(j) /\ attempts[j] = 0
  BY <1>0, WorkerFacts DEF MarkRunning, WorkerOK, HolderInv, AttemptInv,
     StreamInv, HandedOut, Unread, Failing
<1>2. PlaceOf[j] = "held" /\ UNCHANGED PlaceOf
  BY <1>1 DEF MarkRunning, redis, PlaceOf, Unread
<1>3. attempts' = [attempts EXCEPT ![j] = 1]
  BY <1>0, <1>1 DEF MarkRunning, TypeInv, TypeOK
<1> QED
  BY <1>1, <1>2, <1>3 DEF Delivery!Next, Delivery!Begin

\* The pipeline implements JobDelivery.
THEOREM DeliveryRefinement == Spec => ImplementsDelivery
<1>1. Init => Delivery!Init
  BY DEF Init, Delivery!Init, PlaceOf, Unread
<1>2. IInv /\ [Next]_vars => [Delivery!Next]_<<PlaceOf, attempts>>
  <2> SUFFICES ASSUME IInv, [Next]_vars
               PROVE  Delivery!Next \/ UNCHANGED <<PlaceOf, attempts>>
    OBVIOUS
  <2>1. CASE UNCHANGED <<stream, pending, acked, attempts>>
    BY <2>1 DEF PlaceOf, Unread
  <2>2. ASSUME NEW w \in Worker,
               Ack(w) \/ AckDead(w) \/ AckFails(w)
        PROVE  Delivery!Next \/ UNCHANGED <<PlaceOf, attempts>>
    BY <2>1, <2>2, XackSettles DEF Ack, AckDead, AckFails, ledger
  <2>3. ASSUME NEW r \in Request, RequestStart(r) \/ RequestStep(r)
        PROVE  Delivery!Next \/ UNCHANGED <<PlaceOf, attempts>>
    BY <2>1, <2>3, XaddSends DEF RequestStart, RequestStep, StatusRequest,
       EnqueueRequest, RetryRequest, PromoteRequest, FindChild, CreateChild,
       FindJob, CreateJob, CheckStatus, WriteStatus, MarkQueued,
       MarkEnqueueFailed, ledger, redis
  <2>4. ASSUME NEW w \in Worker, WorkerStep(w)
        PROVE  Delivery!Next \/ UNCHANGED <<PlaceOf, attempts>>
    BY <2>1, <2>2, <2>4, ReadHands, RunningBegins DEF WorkerStep, Observe,
       CheckStart, WriteStart, Run, RecordResult, WriteResult, MarkCompleted,
       MarkFailed, CheckFailed, WriteFailed, Bury, ledger, redis
  <2>5. CASE FaultStep
    BY <2>1, <2>2, <2>5, XaddSends, ReadHands
       DEF FaultStep, XaddFails, ApiRestart, WorkerCrash, ledger, redis
  <2>6. CASE UNCHANGED vars
    BY <2>1, <2>6 DEF vars, ledger, redis
  <2>7. ASSUME NEW i \in Item, CreateItem(i)
        PROVE  Delivery!Next \/ UNCHANGED <<PlaceOf, attempts>>
    BY <2>1, <2>7 DEF CreateItem, redis
  <2> QED
    BY <2>3, <2>4, <2>5, <2>6, <2>7 DEF Next
<1> QED
  BY <1>1, <1>2, InductiveInvariant, PTL
     DEF Spec, ImplementsDelivery, Delivery!Spec

-----------------------------------------------------------------------------
(***************************************************************************)
(* Approvals.  The argument rests on the messages: a job is started once,  *)
(* so the result that a patch is ready for is never replaced by another.   *)
(***************************************************************************)

-----------------------------------------------------------------------------
(* The inductive invariant, next to IInv.                                  *)

\* Positions of a worker whose job has been started and not been run.
Fresh == {"observe", "check", "write", "run"}

\* A job has no result before it is run.
ResultInv ==
    /\ \A j \in Job : attempts[j] = 0 => result[j] = "none"
    /\ \A w \in Worker : wk[w].pc \in Fresh => result[wk[w].job] = "none"

\* What a worker is about to write says what its run came to.
WorkerGoals ==
    \A w \in Worker :
        /\ wk[w].pc \in {"check", "write"} => wk[w].goal # "waiting_approval"
        /\ wk[w].pc = "fail_write" => wk[w].goal # "waiting_approval"
        /\ wk[w].pc = "record_write" /\ wk[w].goal = "waiting_approval" =>
              result[wk[w].job] = "patch_ready"

\* No request asks for an approval, and a retry only puts back what it found.
RequestGoals ==
    \A r \in Request :
        /\ req[r].pc \in {"check", "write"} => req[r].goal # "waiting_approval"
        /\ req[r].op = "retry" => req[r].saw # "waiting_approval"

PatchInv == IInv /\ ResultInv /\ WorkerGoals /\ RequestGoals /\ ApprovalHasPatch

-----------------------------------------------------------------------------
(* How workers and requests move.                                          *)

OtherWorkers(w) == \A v \in Worker : v # w => wk'[v] = wk[v]

OtherRequests(r) == \A s \in Request : s # r => req'[s] = req[s]

\* A worker goes on, or turns to its next message.
LEMMA WorkerMoves ==
  ASSUME TypeInv, NEW w \in Worker
  PROVE  /\ \A pc : Step(w, pc) =>
              /\ OtherWorkers(w) /\ wk'[w].pc = pc /\ wk'[w].job = wk[w].job
              /\ wk'[w].goal = wk[w].goal
         /\ NextMessage(w) => OtherWorkers(w) /\ wk'[w].pc \in {"idle", "start"}
         /\ wk' = [wk EXCEPT ![w] = Fetched] => OtherWorkers(w) /\ wk'[w].pc = "start"
         /\ wk' = [wk EXCEPT ![w] = NoMessage] => OtherWorkers(w) /\ wk'[w].pc = "idle"
<1>1. wk[w] \in WorkerState /\ wk \in [Worker -> WorkerState]
  BY DEF TypeInv, TypeOK
<1>2. ASSUME NEW y, wk' = [wk EXCEPT ![w] = y]
      PROVE  wk'[w] = y /\ OtherWorkers(w)
  BY <1>1, <1>2 DEF OtherWorkers
<1>3. ASSUME NEW pc, Step(w, pc)
      PROVE  /\ OtherWorkers(w) /\ wk'[w].pc = pc /\ wk'[w].job = wk[w].job
             /\ wk'[w].goal = wk[w].goal
  <2>1. PICK y : y = [wk[w] EXCEPT !.pc = pc]
    OBVIOUS
  <2>2. wk' = [wk EXCEPT ![w] = y]
    BY <1>3, <2>1, Zenon DEF Step
  <2>3. y.pc = pc /\ y.job = wk[w].job /\ y.goal = wk[w].goal
    BY <1>1, <2>1 DEF WorkerState
  <2> QED
    BY <1>2, <2>2, <2>3
<1>5. Fetched.pc = "start" /\ NoMessage.pc = "idle"
  BY DEF Fetched, NoMessage
<1>6. ASSUME NextMessage(w)
      PROVE  OtherWorkers(w) /\ wk'[w].pc \in {"idle", "start"}
  <2>1. CASE wk[w].next = None
    <3>1. wk' = [wk EXCEPT ![w] = NoMessage]
      BY <1>6, <2>1, Zenon DEF NextMessage
    <3> QED
      BY <1>2, <1>5, <3>1
  <2>2. CASE wk[w].next # None
    <3>1. PICK y : y = [NoMessage EXCEPT !.pc = "start", !.job = wk[w].next]
      OBVIOUS
    <3>2. wk' = [wk EXCEPT ![w] = y]
      BY <1>6, <2>2, <3>1, Zenon DEF NextMessage
    <3>3. y.pc = "start"
      BY <3>1 DEF NoMessage
    <3> QED
      BY <1>2, <3>2, <3>3
  <2> QED
    BY <2>1, <2>2
<1>7. ASSUME wk' = [wk EXCEPT ![w] = Fetched]
      PROVE  OtherWorkers(w) /\ wk'[w].pc = "start"
  BY <1>2, <1>5, <1>7
<1>8. ASSUME wk' = [wk EXCEPT ![w] = NoMessage]
      PROVE  OtherWorkers(w) /\ wk'[w].pc = "idle"
  BY <1>2, <1>5, <1>8
<1> QED
  BY <1>3, <1>6, <1>7, <1>8

\* A worker goes on to write a goal.
LEMMA WorkerAims ==
  ASSUME TypeInv, NEW w \in Worker, NEW pc, NEW goal,
         wk' = [wk EXCEPT ![w].pc = pc, ![w].goal = goal]
  PROVE  /\ OtherWorkers(w) /\ wk'[w].pc = pc /\ wk'[w].job = wk[w].job
         /\ wk'[w].goal = goal
<1>1. wk[w] \in WorkerState /\ wk \in [Worker -> WorkerState]
  BY DEF TypeInv, TypeOK
<1>2. PICK y : y = [wk[w] EXCEPT !.pc = pc, !.goal = goal]
  OBVIOUS
<1>3. wk' = [wk EXCEPT ![w] = y]
  BY <1>2, Zenon
<1>4. y.pc = pc /\ y.job = wk[w].job /\ y.goal = goal
  BY <1>1, <1>2 DEF WorkerState
<1> QED
  BY <1>1, <1>3, <1>4 DEF OtherWorkers

\* A request goes on or ends.
LEMMA RequestMoves ==
  ASSUME TypeInv, NEW r \in Request
  PROVE  /\ \A pc : Goto(r, pc) =>
              /\ OtherRequests(r) /\ req'[r].pc = pc /\ req'[r].op = req[r].op
              /\ req'[r].saw = req[r].saw /\ req'[r].goal = req[r].goal
              /\ req'[r].job = req[r].job /\ req'[r].item = req[r].item
         /\ Done(r) => /\ OtherRequests(r) /\ req'[r].pc = "idle"
                       /\ req'[r].op = "none"
<1>1. req[r] \in ReqState /\ req \in [Request -> ReqState]
  BY DEF TypeInv, TypeOK
<1>2. ASSUME NEW y, req' = [req EXCEPT ![r] = y]
      PROVE  req'[r] = y /\ OtherRequests(r)
  BY <1>1, <1>2 DEF OtherRequests
<1>3. ASSUME NEW pc, Goto(r, pc)
      PROVE  /\ OtherRequests(r) /\ req'[r].pc = pc /\ req'[r].op = req[r].op
             /\ req'[r].saw = req[r].saw /\ req'[r].goal = req[r].goal
             /\ req'[r].job = req[r].job /\ req'[r].item = req[r].item
  <2>1. PICK y : y = [req[r] EXCEPT !.pc = pc]
    OBVIOUS
  <2>2. req' = [req EXCEPT ![r] = y]
    BY <1>3, <2>1, Zenon DEF Goto
  <2>3. /\ y.pc = pc /\ y.op = req[r].op /\ y.saw = req[r].saw /\ y.goal = req[r].goal
        /\ y.job = req[r].job /\ y.item = req[r].item
    BY <1>1, <2>1 DEF ReqState
  <2> QED
    BY <1>2, <2>2, <2>3
<1>4. ASSUME Done(r)
      PROVE  OtherRequests(r) /\ req'[r].pc = "idle" /\ req'[r].op = "none"
  BY <1>2, <1>4 DEF Done, NoRequest
<1> QED
  BY <1>3, <1>4

-----------------------------------------------------------------------------
\* The empty system has it.
LEMMA InitPatches == Init => ResultInv /\ WorkerGoals /\ RequestGoals /\ ApprovalHasPatch
<1> SUFFICES ASSUME Init
             PROVE  ResultInv /\ WorkerGoals /\ RequestGoals /\ ApprovalHasPatch
  OBVIOUS
<1>1. \A w \in Worker : wk[w].pc = "idle"
  BY DEF Init, NoMessage
<1>2. \A r \in Request : req[r].pc = "idle" /\ req[r].op = "none"
  BY DEF Init, NoRequest
<1>3. \A j \in Job : result[j] = "none"
  BY DEF Init
<1>4. \A i \in Item : status[i] = "absent"
  BY DEF Init
<1>5. ResultInv
  BY <1>1, <1>3 DEF ResultInv, Fresh
<1>6. WorkerGoals
  BY <1>1 DEF WorkerGoals
<1>7. RequestGoals
  BY <1>2 DEF RequestGoals
<1>8. ApprovalHasPatch
  BY <1>4, PipelineAssumption DEF ApprovalHasPatch
<1> QED
  BY <1>5, <1>6, <1>7, <1>8

\* A job that was started is not run anew, and keeps its item.
LEMMA PatchStays ==
  ASSUME IInv, ResultInv, [Next]_vars, NEW j \in Job, result[j] = "patch_ready"
  PROVE  result'[j] = "patch_ready" /\ jobItem'[j] = jobItem[j]
<1>1. TypeOK /\ StreamInv /\ SenderInv /\ AttemptInv /\ HolderInv
  BY DEF IInv, TypeInv, MessageInv
<1>2. jobStatus[j] # "absent"
  <2>1. attempts[j] # 0
    BY DEF ResultInv
  <2>2. j \in HandedOut
    BY <1>1, <2>1 DEF AttemptInv
  <2> QED
    BY <1>1, <2>2 DEF SenderInv
<1>3. jobItem'[j] = jobItem[j]
  <2>1. ASSUME NEW r \in Request, CreateJob(r) PROVE jobItem'[j] = jobItem[j]
    BY <1>1, <1>2, <2>1 DEF CreateJob, TypeOK
  <2>2. (\E r \in Request : CreateJob(r)) \/ jobItem' = jobItem
    BY DEF Next, RequestStart, RequestStep, WorkerStep, FaultStep, CreateItem,
           StatusRequest, EnqueueRequest, RetryRequest, PromoteRequest, FindChild,
           CreateChild, FindJob, CheckStatus, WriteStatus, Xadd, MarkQueued,
           MarkEnqueueFailed, ReadMessages, MarkRunning, Observe, CheckStart,
           WriteStart, Run, RecordResult, WriteResult, MarkCompleted, Ack, MarkFailed,
           CheckFailed, WriteFailed, Bury, AckDead, XaddFails, XaddReplyLost,
           ApiRestart, ReadReplyLost, AckFails, WorkerCrash, vars, ledger
  <2> QED
    BY <2>1, <2>2
<1>4. result'[j] = result[j]
  <2>1. ASSUME NEW w \in Worker, Observe(w) \/ Run(w) PROVE result'[j] = result[j]
    <3>1. result[wk[w].job] = "none"
      BY <2>1 DEF ResultInv, Fresh, Observe, Run
    <3>2. j # wk[w].job
      BY <3>1
    <3> QED
      BY <1>1, <2>1, <3>2 DEF Observe, Run, TypeOK
  <2>2. (\E w \in Worker : Observe(w) \/ Run(w)) \/ result' = result
    BY DEF Next, RequestStart, RequestStep, WorkerStep, FaultStep, CreateItem,
           StatusRequest, EnqueueRequest, RetryRequest, PromoteRequest, FindChild,
           CreateChild, FindJob, CreateJob, CheckStatus, WriteStatus, Xadd,
           MarkQueued, MarkEnqueueFailed, ReadMessages, MarkRunning, CheckStart,
           WriteStart, RecordResult, WriteResult, MarkCompleted, Ack, MarkFailed,
           CheckFailed, WriteFailed, Bury, AckDead, XaddFails, XaddReplyLost,
           ApiRestart, ReadReplyLost, AckFails, WorkerCrash, vars, ledger
  <2> QED
    BY <2>1, <2>2
<1> QED
  BY <1>3, <1>4

\* A step of the API leaves the workers and the results alone.
LEMMA ApiLeaves ==
  ASSUME \/ \E i \in Item : CreateItem(i)
         \/ \E r \in Request : RequestStart(r) \/ RequestStep(r)
         \/ \E r \in Request : XaddFails(r) \/ XaddReplyLost(r)
         \/ ApiRestart
  PROVE  wk' = wk /\ result' = result /\ attempts' = attempts
BY DEF RequestStart, RequestStep, CreateItem, StatusRequest, EnqueueRequest,
       RetryRequest, PromoteRequest, FindChild, CreateChild, FindJob, CreateJob,
       CheckStatus, WriteStatus, Xadd, MarkQueued, MarkEnqueueFailed, XaddFails,
       XaddReplyLost, ApiRestart, ledger

\* A step of a worker leaves the requests alone.
LEMMA WorkerLeaves ==
  ASSUME NEW w \in Worker,
         WorkerStep(w) \/ ReadReplyLost(w) \/ AckFails(w) \/ WorkerCrash(w)
  PROVE  req' = req
BY DEF WorkerStep, ReadReplyLost, AckFails, WorkerCrash, ReadMessages, MarkRunning,
       Observe, CheckStart, WriteStart, Run, RecordResult, WriteResult, MarkCompleted,
       Ack, MarkFailed, CheckFailed, WriteFailed, Bury, AckDead

-----------------------------------------------------------------------------
(* A worker's step.                                                        *)

\* How one step may change a worker's position and its job's result.
Advance(w) ==
    /\ OtherWorkers(w)
    /\ \A j \in Job : \/ result'[j] = result[j]
                      \/ j = wk[w].job /\ wk[w].pc \in {"observe", "run"}
    /\ \A j \in Job : attempts'[j] = 0 => attempts[j] = 0
    /\ wk'[w].pc \in Fresh =>
          /\ wk[w].pc \in Fresh \cup {"start"}
          /\ wk'[w].job = wk[w].job
          /\ result' = result

\* No result comes before its run, when a worker advances like that.
LEMMA AdvanceResults ==
  ASSUME IInv, ResultInv, NEW w \in Worker, Advance(w)
  PROVE  ResultInv'
<1>1. TypeInv /\ HolderInv /\ AttemptInv
  BY DEF IInv, MessageInv
<1>2. \A v \in Worker : wk[v].pc # "idle" => wk[v].job \in Job
  BY <1>1, WorkerFacts DEF WorkerOK
<1>3. ASSUME NEW j \in Job, attempts'[j] = 0 PROVE result'[j] = "none"
  <2>1. attempts[j] = 0 /\ result[j] = "none"
    BY <1>3 DEF Advance, ResultInv
  <2>2. ~(j = wk[w].job /\ wk[w].pc \in {"observe", "run"})
    BY <1>1, <2>1 DEF AttemptInv
  <2> QED
    BY <2>1, <2>2 DEF Advance
<1>4. ASSUME NEW v \in Worker, wk'[v].pc \in Fresh
      PROVE  result'[wk'[v].job] = "none"
  <2>1. CASE v = w
    <3>1. wk[w].pc \in Fresh \/ wk[w].pc = "start"
      BY <1>4, <2>1 DEF Advance
    <3>2. result[wk[w].job] = "none"
      <4>1. CASE wk[w].pc \in Fresh
        BY <4>1 DEF ResultInv
      <4>2. CASE wk[w].pc = "start"
        BY <1>1, <1>2, <4>2 DEF AttemptInv, ResultInv
      <4> QED
        BY <3>1, <4>1, <4>2
    <3> QED
      BY <1>4, <2>1, <3>2 DEF Advance
  <2>2. CASE v # w
    <3>1. wk'[v] = wk[v]
      BY <2>2 DEF Advance, OtherWorkers
    <3>2. wk[v].job \in Job /\ result[wk[v].job] = "none"
      BY <1>2, <1>4, <3>1 DEF ResultInv, Fresh
    <3>3. wk[v].job # wk[w].job
      BY <1>1, <2>2, <3>2 DEF HolderInv
    <3> QED
      BY <3>1, <3>2, <3>3 DEF Advance
  <2> QED
    BY <2>1, <2>2
<1> QED
  BY <1>3, <1>4 DEF ResultInv

\* Every step of a worker is such a step, and what the worker is about to
\* write agrees with its result.
LEMMA WorkerAdvances ==
  ASSUME IInv, PatchInv, NEW w \in Worker,
         WorkerStep(w) \/ AckFails(w) \/ WorkerCrash(w)
  PROVE  /\ Advance(w)
         /\ wk'[w].pc \in {"check", "write", "fail_write"} =>
               wk'[w].goal # "waiting_approval"
         /\ wk'[w].pc = "record_write" /\ wk'[w].goal = "waiting_approval" =>
               wk'[w].job = wk[w].job /\ result'[wk[w].job] = "patch_ready"
<1>0. TypeInv /\ AttemptInv
  BY DEF IInv, MessageInv
<1>1. wk[w].pc # "idle" => wk[w].job \in Job
  BY <1>0, WorkerFacts DEF WorkerOK
<1>2. result \in [Job -> Result] /\ attempts \in [Job -> Nat]
  BY <1>0 DEF TypeInv, TypeOK
<1> DEFINE Moves(pc) == /\ OtherWorkers(w) /\ wk'[w].pc = pc
                        /\ wk'[w].job = wk[w].job /\ wk'[w].goal = wk[w].goal
           Aims(pc, goal) == /\ OtherWorkers(w) /\ wk'[w].pc = pc
                             /\ wk'[w].job = wk[w].job /\ wk'[w].goal = goal
           Turns == OtherWorkers(w) /\ wk'[w].pc \in {"idle", "start"}
           Same == result' = result /\ attempts' = attempts
           Goal == /\ Advance(w)
                   /\ wk'[w].pc \in {"check", "write", "fail_write"} =>
                         wk'[w].goal # "waiting_approval"
                   /\ wk'[w].pc = "record_write" /\ wk'[w].goal = "waiting_approval" =>
                         wk'[w].job = wk[w].job /\ result'[wk[w].job] = "patch_ready"
<1>3. \A pc : Step(w, pc) => Moves(pc)
  BY <1>0, WorkerMoves
<1>4. ASSUME NEW pc, NEW goal, wk' = [wk EXCEPT ![w].pc = pc, ![w].goal = goal]
      PROVE  Aims(pc, goal)
  BY <1>0, <1>4, WorkerAims
<1>5. /\ NextMessage(w) => Turns
      /\ wk' = [wk EXCEPT ![w] = Fetched] => Turns
      /\ wk' = [wk EXCEPT ![w] = NoMessage] => Turns
  BY <1>0, WorkerMoves
<1> HIDE DEF Moves, Aims, Turns, Same, Goal
<1> SUFFICES Goal
  BY DEF Goal
<1>6. Turns /\ Same => Goal
  BY DEF Turns, Same, Goal, Advance, Fresh
<1>7. ASSUME NEW pc \in WorkerPC \ (Fresh \cup {"record_write", "fail_write"}),
             Moves(pc), Same
      PROVE  Goal
  BY <1>7 DEF Moves, Same, Goal, Advance, Fresh
<1>8. ASSUME ReadMessages(w) \/ Ack(w) \/ AckDead(w) \/ WorkerCrash(w) PROVE Goal
  BY <1>5, <1>6, <1>8 DEF ReadMessages, Ack, AckDead, WorkerCrash, ledger, Same
<1>9. CASE MarkRunning(w)
  <2>1. Moves("observe") /\ result' = result /\ wk[w].pc = "start"
    BY <1>3, <1>9 DEF MarkRunning
  <2>2. \A j \in Job : attempts'[j] = 0 => attempts[j] = 0
    BY <1>1, <1>2, <1>9 DEF MarkRunning
  <2> QED
    BY <2>1, <2>2 DEF Moves, Goal, Advance, Fresh
<1>10. CASE Observe(w)
  <2>1. wk[w].pc = "observe" /\ attempts' = attempts
    BY <1>10 DEF Observe
  <2>2. \/ result' = result /\ Aims("check", StartsAs(ItemOf(w)))
        \/ result' = result /\ Moves("run")
        \/ result' = [result EXCEPT ![wk[w].job] = "ignored"] /\ Moves("record")
    BY <1>3, <1>4, <1>10 DEF Observe
  <2>3. StartsAs(ItemOf(w)) # "waiting_approval"
    BY DEF StartsAs
  <2>4. result' = [result EXCEPT ![wk[w].job] = "ignored"] =>
           \A j \in Job : result'[j] = result[j] \/ j = wk[w].job
    BY <1>2
  <2> QED
    BY <2>1, <2>2, <2>3, <2>4 DEF Moves, Aims, Goal, Advance, Fresh
<1>11. CASE CheckStart(w)
  <2>1. wk[w].pc = "check" /\ Same
    BY <1>11 DEF CheckStart, ledger, Same
  <2>2. wk[w].goal # "waiting_approval"
    BY <2>1 DEF PatchInv, WorkerGoals
  <2>3. Moves("write") \/ Moves("fail")
    BY <1>3, <1>11 DEF CheckStart
  <2> QED
    BY <2>1, <2>2, <2>3 DEF Moves, Same, Goal, Advance, Fresh
<1>12. CASE WriteStart(w)
  <2>1. wk[w].pc = "write" /\ Same /\ Moves("run")
    BY <1>3, <1>12 DEF WriteStart, Same
  <2> QED
    BY <2>1 DEF Moves, Same, Goal, Advance, Fresh
<1>13. CASE Run(w)
  <2>1. wk[w].pc = "run" /\ attempts' = attempts
    BY <1>13 DEF Run
  <2>2. /\ \A j \in Job : result'[j] = result[j] \/ j = wk[w].job
        /\ Moves("record") \/ Moves("fail")
    BY <1>2, <1>3, <1>13 DEF Run
  <2> QED
    BY <2>1, <2>2 DEF Moves, Goal, Advance, Fresh
<1>14. CASE RecordResult(w)
  <2>1. wk[w].pc = "record" /\ Same
    BY <1>14 DEF RecordResult, ledger, Same
  <2>2. \/ Aims("record_write", StatusAfter(result[wk[w].job]))
        \/ Moves("complete")
    BY <1>3, <1>4, <1>14 DEF RecordResult
  <2>3. StatusAfter(result[wk[w].job]) = "waiting_approval" =>
           result[wk[w].job] = "patch_ready"
    BY DEF StatusAfter
  <2> QED
    BY <2>1, <2>2, <2>3 DEF Moves, Aims, Same, Goal, Advance, Fresh
<1>15. ASSUME \/ WriteResult(w) \/ MarkCompleted(w) \/ WriteFailed(w)
              \/ Bury(w) \/ AckFails(w)
       PROVE  Goal
  <2>1. \/ Moves("complete") \/ Moves("ack") \/ Moves("bury")
        \/ Moves("ack_dead") \/ Moves("fail")
    BY <1>3, <1>15 DEF WriteResult, MarkCompleted, WriteFailed, Bury, AckFails
  <2>2. Same
    BY <1>15 DEF WriteResult, MarkCompleted, WriteFailed, Bury, AckFails, ledger, Same
  <2> QED
    BY <1>7, <2>1, <2>2 DEF WorkerPC, Fresh
<1>16. CASE MarkFailed(w)
  <2>1. Moves("fail_check") \/ Moves("bury") \/ Turns
    BY <1>3, <1>5, <1>16 DEF MarkFailed
  <2>2. Same
    BY <1>16 DEF MarkFailed, Same
  <2> QED
    BY <1>6, <1>7, <2>1, <2>2 DEF WorkerPC, Fresh
<1>17. CASE CheckFailed(w)
  <2>1. Same
    BY <1>17 DEF CheckFailed, ledger, Same
  <2>2. Aims("fail_write", "reviewing") \/ Moves("bury")
    BY <1>3, <1>4, <1>17 DEF CheckFailed
  <2> QED
    BY <2>1, <2>2 DEF Moves, Aims, Same, Goal, Advance, Fresh
<1> QED
  BY <1>8, <1>9, <1>10, <1>11, <1>12, <1>13, <1>14, <1>15, <1>16, <1>17
     DEF WorkerStep

\* So every worker's goal agrees with its result afterwards.
LEMMA NextWorkerGoals ==
  ASSUME IInv, PatchInv, [Next]_vars, NEW w \in Worker,
         WorkerStep(w) \/ AckFails(w) \/ WorkerCrash(w)
  PROVE  ResultInv' /\ WorkerGoals'
<1>0. TypeInv /\ ResultInv /\ WorkerGoals
  BY DEF IInv, PatchInv
<1>1. Advance(w)
  BY WorkerAdvances
<1>2. ResultInv'
  BY <1>0, <1>1, AdvanceResults
<1>3. ASSUME NEW v \in Worker
      PROVE  /\ wk'[v].pc \in {"check", "write", "fail_write"} =>
                   wk'[v].goal # "waiting_approval"
             /\ wk'[v].pc = "record_write" /\ wk'[v].goal = "waiting_approval" =>
                   result'[wk'[v].job] = "patch_ready"
  <2>1. CASE v = w
    BY <2>1, WorkerAdvances
  <2>2. CASE v # w
    <3>1. wk'[v] = wk[v]
      BY <1>1, <2>2 DEF Advance, OtherWorkers
    <3>2. wk[v].pc = "record_write" => wk[v].job \in Job
      BY <1>0, WorkerFacts DEF WorkerOK
    <3>3. \A j \in Job : result[j] = "patch_ready" => result'[j] = "patch_ready"
      BY <1>0, PatchStays
    <3> QED
      BY <1>0, <3>1, <3>2, <3>3 DEF WorkerGoals
  <2> QED
    BY <2>1, <2>2
<1> QED
  BY <1>2, <1>3 DEF WorkerGoals

-----------------------------------------------------------------------------
(* A request's step.                                                       *)

\* What a request asks for does not become an approval.
LEMMA NextRequestGoals ==
  ASSUME "waiting_approval" \notin UserGoals, IInv, RequestGoals, NEW r \in Request,
         RequestStart(r) \/ RequestStep(r) \/ XaddFails(r) \/ XaddReplyLost(r)
  PROVE  RequestGoals'
<1>0. TypeInv
  BY DEF IInv
<1>1. req[r] \in ReqState /\ req \in [Request -> ReqState]
  BY <1>0 DEF TypeInv, TypeOK
<1>2. req[r].op = "retry" => req[r].goal = "running"
  BY <1>0, RequestFacts DEF RequestOK
<1> DEFINE Good(x) == /\ x.pc \in {"check", "write"} => x.goal # "waiting_approval"
                      /\ x.op = "retry" => x.saw # "waiting_approval"
           Ends == OtherRequests(r) /\ Good(req'[r])
<1>3. Good(req[r])
  BY DEF RequestGoals
<1>4. ASSUME NEW y, req' = [req EXCEPT ![r] = y], Good(y) PROVE Ends
  BY <1>1, <1>4 DEF OtherRequests
<1>5. Done(r) => Ends
  BY <1>0, RequestMoves DEF OtherRequests
<1>6. ASSUME NEW pc, Goto(r, pc), pc \in {"check", "write"} => req[r].pc \in {"check", "write"}
      PROVE  Ends
  BY <1>0, <1>3, <1>6, RequestMoves
<1> HIDE DEF Good, Ends
<1>7. ASSUME RequestStart(r) PROVE Ends
  <2>1. PICK i \in Item : \/ \E g \in UserGoals : StatusRequest(r, i, g)
                          \/ EnqueueRequest(r, i)
                          \/ RetryRequest(r, i)
                          \/ PromoteRequest(r, i)
    BY <1>7 DEF RequestStart
  <2>2. ASSUME NEW g \in UserGoals, StatusRequest(r, i, g) PROVE Ends
    <3>1. PICK y : y = [NoRequest EXCEPT !.pc = "write", !.op = "status",
                                         !.item = i, !.goal = g]
      OBVIOUS
    <3>2. req' = [req EXCEPT ![r] = y]
      BY <2>2, <3>1, Zenon DEF StatusRequest
    <3>3. Good(y)
      BY <3>1 DEF NoRequest, Good
    <3> QED
      BY <1>4, <3>2, <3>3
  <2>3. CASE EnqueueRequest(r, i)
    <3>1. PICK y : y = [NoRequest EXCEPT !.pc = "find", !.op = "enqueue", !.item = i]
      OBVIOUS
    <3>2. req' = [req EXCEPT ![r] = y]
      BY <2>3, <3>1, Zenon DEF EnqueueRequest
    <3>3. Good(y)
      BY <3>1 DEF NoRequest, Good
    <3> QED
      BY <1>4, <3>2, <3>3
  <2>4. CASE RetryRequest(r, i)
    <3>1. PICK y : y = [NoRequest EXCEPT !.pc = "find", !.op = "retry", !.item = i,
                                         !.saw = status[i], !.goal = "running"]
      OBVIOUS
    <3>2. req' = [req EXCEPT ![r] = y]
      BY <2>4, <3>1, Zenon DEF RetryRequest
    <3>3. status[i] # "waiting_approval"
      BY <2>4 DEF RetryRequest, Retryable
    <3>4. Good(y)
      BY <3>1, <3>3 DEF NoRequest, Good
    <3> QED
      BY <1>4, <3>2, <3>4
  <2>5. CASE PromoteRequest(r, i)
    <3>1. PICK y : y = [NoRequest EXCEPT !.pc = "children", !.op = "promote", !.item = i]
      OBVIOUS
    <3>2. req' = [req EXCEPT ![r] = y]
      BY <2>5, <3>1, Zenon DEF PromoteRequest
    <3>3. Good(y)
      BY <3>1 DEF NoRequest, Good
    <3> QED
      BY <1>4, <3>2, <3>3
  <2> QED
    BY <2>1, <2>2, <2>3, <2>4, <2>5
<1>8. ASSUME \/ FindChild(r) \/ FindJob(r) \/ CheckStatus(r) \/ Xadd(r)
             \/ MarkQueued(r) \/ XaddFails(r) \/ XaddReplyLost(r)
      PROVE  Ends
  BY <1>5, <1>6, <1>8 DEF FindChild, FindJob, CheckStatus, Xadd, MarkQueued,
     XaddFails, XaddReplyLost
<1>9. ASSUME CreateChild(r) PROVE Ends
  <2>1. PICK c \in SelfPatch :
           req' = [req EXCEPT ![r].pc = "find", ![r].op = "enqueue", ![r].item = c]
    BY <1>9 DEF CreateChild
  <2>2. PICK y : y = [req[r] EXCEPT !.pc = "find", !.op = "enqueue", !.item = c]
    OBVIOUS
  <2>3. req' = [req EXCEPT ![r] = y]
    BY <2>1, <2>2, Zenon
  <2>4. y.pc = "find" /\ y.op = "enqueue"
    BY <1>1, <2>2 DEF ReqState
  <2> QED
    BY <1>4, <2>3, <2>4 DEF Good
<1>10. ASSUME CreateJob(r) PROVE Ends
  <2> DEFINE pc == IF req[r].op = "retry" THEN "check" ELSE "xadd"
  <2>1. PICK j \in Job : req' = [req EXCEPT ![r].job = j, ![r].pc = pc]
    BY <1>10, Zenon DEF CreateJob
  <2>2. PICK y : y = [req[r] EXCEPT !.job = j, !.pc = pc]
    OBVIOUS
  <2>3. req' = [req EXCEPT ![r] = y]
    BY <2>1, <2>2, Zenon
  <2>4. y.pc = pc /\ y.op = req[r].op /\ y.saw = req[r].saw /\ y.goal = req[r].goal
    BY <1>1, <2>2 DEF ReqState
  <2> QED
    BY <1>2, <1>3, <1>4, <2>3, <2>4 DEF Good
<1>11. ASSUME WriteStatus(r) PROVE Ends
  <2>1. CASE req[r].op = "retry"
    <3>1. Goto(r, "xadd")
      BY <1>11, <2>1 DEF WriteStatus
    <3> QED
      BY <1>6, <3>1
  <2>2. CASE req[r].op = "status" /\ req[r].goal = "accepted"
    <3>1. req' = [req EXCEPT ![r].pc = "find", ![r].op = "enqueue"]
      BY <1>11, <2>2 DEF WriteStatus
    <3>2. PICK y : y = [req[r] EXCEPT !.pc = "find", !.op = "enqueue"]
      OBVIOUS
    <3>3. req' = [req EXCEPT ![r] = y]
      BY <3>1, <3>2, Zenon
    <3>4. y.pc = "find" /\ y.op = "enqueue"
      BY <1>1, <3>2 DEF ReqState
    <3> QED
      BY <1>4, <3>3, <3>4 DEF Good
  <2>3. CASE req[r].op # "retry" /\ ~(req[r].op = "status" /\ req[r].goal = "accepted")
    BY <1>5, <1>11, <2>3 DEF WriteStatus
  <2> QED
    BY <2>1, <2>2, <2>3
<1>12. ASSUME MarkEnqueueFailed(r) PROVE Ends
  <2>1. CASE req[r].op = "retry"
    <3>1. req' = [req EXCEPT ![r].pc = "check", ![r].op = "restore",
                             ![r].goal = req[r].saw]
      BY <1>12, <2>1 DEF MarkEnqueueFailed
    <3>2. PICK y : y = [req[r] EXCEPT !.pc = "check", !.op = "restore",
                                      !.goal = req[r].saw]
      OBVIOUS
    <3>3. req' = [req EXCEPT ![r] = y]
      BY <3>1, <3>2, Zenon
    <3>4. y.op = "restore" /\ y.goal = req[r].saw
      BY <1>1, <3>2 DEF ReqState
    <3> QED
      BY <1>3, <1>4, <2>1, <3>3, <3>4 DEF Good
  <2>2. CASE req[r].op # "retry"
    BY <1>5, <1>12, <2>2 DEF MarkEnqueueFailed
  <2> QED
    BY <2>1, <2>2
<1>13. Ends
  BY <1>7, <1>8, <1>9, <1>10, <1>11, <1>12 DEF RequestStep
<1> QED
  BY <1>13 DEF Ends, Good, OtherRequests, RequestGoals

-----------------------------------------------------------------------------
(* The property itself.                                                    *)

\* Whoever waits for approval has a patch, or had it before the step.
LEMMA NextApproval ==
  ASSUME PatchInv, [Next]_vars
  PROVE  ApprovalHasPatch'
<1>0. IInv /\ TypeOK /\ ResultInv /\ WorkerGoals /\ RequestGoals /\ ApprovalHasPatch
  BY DEF PatchInv, IInv, TypeInv
<1> SUFFICES ASSUME NEW i \in SelfPatch, status'[i] = "waiting_approval"
             PROVE  \E j \in Job : jobItem'[j] = i /\ result'[j] = "patch_ready"
  BY DEF ApprovalHasPatch
<1>1. i \in Item /\ status \in [Item -> WorkStatus \cup {"absent"}]
  BY <1>0, PipelineAssumption DEF TypeOK
<1>2. ASSUME NEW j \in Job, jobItem[j] = i, result[j] = "patch_ready"
      PROVE  \E k \in Job : jobItem'[k] = i /\ result'[k] = "patch_ready"
  BY <1>0, <1>2, PatchStays
<1>3. CASE status[i] = "waiting_approval"
  BY <1>0, <1>2, <1>3 DEF ApprovalHasPatch
<1>4. ASSUME NEW w \in Worker, WriteResult(w), status'[i] # status[i]
      PROVE  \E j \in Job : jobItem'[j] = i /\ result'[j] = "patch_ready"
  <2>1. ItemOf(w) = i /\ wk[w].goal = "waiting_approval"
    BY <1>1, <1>4 DEF WriteResult, WriteItem
  <2>2. wk[w].job \in Job
    BY <1>0, <1>4, WorkerFacts DEF WriteResult, WorkerOK, IInv
  <2>3. result[wk[w].job] = "patch_ready"
    BY <1>0, <1>4, <2>1 DEF WriteResult, WorkerGoals
  <2> QED
    BY <1>2, <2>1, <2>2, <2>3 DEF ItemOf
<1>5. ASSUME NEW w \in Worker, WriteStart(w) \/ WriteFailed(w)
      PROVE  status'[i] = status[i]
  <2>1. wk[w].goal # "waiting_approval"
    BY <1>0, <1>5 DEF WriteStart, WriteFailed, WorkerGoals
  <2> QED
    BY <1>1, <1>5, <2>1 DEF WriteStart, WriteFailed, WriteItem
<1>6. ASSUME NEW r \in Request, WriteStatus(r)
      PROVE  status'[i] = status[i]
  <2>1. req[r].goal # "waiting_approval"
    BY <1>0, <1>6 DEF WriteStatus, RequestGoals
  <2> QED
    BY <1>1, <1>6, <2>1 DEF WriteStatus
<1>7. ASSUME NEW k \in Item, CreateItem(k)
      PROVE  status'[i] = status[i]
  BY <1>1, <1>7 DEF CreateItem
<1>8. ASSUME NEW r \in Request, CreateChild(r)
      PROVE  status'[i] = status[i]
  BY <1>1, <1>8 DEF CreateChild
<1>9. \/ status' = status
      \/ \E w \in Worker : WriteResult(w) \/ WriteStart(w) \/ WriteFailed(w)
      \/ \E r \in Request : WriteStatus(r) \/ CreateChild(r)
      \/ \E k \in Item : CreateItem(k)
  BY DEF Next, RequestStart, RequestStep, WorkerStep, FaultStep, StatusRequest,
         EnqueueRequest, RetryRequest, PromoteRequest, FindChild, FindJob,
         CreateJob, CheckStatus, Xadd, MarkQueued, MarkEnqueueFailed, ReadMessages,
         MarkRunning, Observe, CheckStart, Run, RecordResult, MarkCompleted, Ack,
         MarkFailed, CheckFailed, Bury, AckDead, XaddFails, XaddReplyLost,
         ApiRestart, ReadReplyLost, AckFails, WorkerCrash, vars, ledger
<1> QED
  BY <1>3, <1>4, <1>5, <1>6, <1>7, <1>8, <1>9

-----------------------------------------------------------------------------
(* The theorem.                                                            *)

\* Every step preserves the invariant.
LEMMA NextPatches ==
  ASSUME "waiting_approval" \notin UserGoals, PatchInv, [Next]_vars
  PROVE  PatchInv'
<1>0. IInv /\ TypeInv /\ ResultInv /\ WorkerGoals /\ RequestGoals
  BY DEF PatchInv, IInv
<1>1. IInv' /\ ApprovalHasPatch'
  BY <1>0, NextIInv, NextApproval
<1> SUFFICES ResultInv' /\ WorkerGoals' /\ RequestGoals'
  BY <1>1 DEF PatchInv
<1>2. ASSUME wk' = wk, result' = result, attempts' = attempts
      PROVE  ResultInv' /\ WorkerGoals'
  BY <1>0, <1>2 DEF ResultInv, WorkerGoals
<1>3. req' = req => RequestGoals'
  BY <1>0 DEF RequestGoals
<1>4. ASSUME NEW w \in Worker, WorkerStep(w) \/ AckFails(w) \/ WorkerCrash(w)
      PROVE  ResultInv' /\ WorkerGoals' /\ RequestGoals'
  BY <1>0, <1>3, <1>4, NextWorkerGoals, WorkerLeaves
<1>5. ASSUME NEW r \in Request,
             RequestStart(r) \/ RequestStep(r) \/ XaddFails(r) \/ XaddReplyLost(r)
      PROVE  ResultInv' /\ WorkerGoals' /\ RequestGoals'
  BY <1>0, <1>2, <1>5, ApiLeaves, NextRequestGoals
<1>6. CASE ApiRestart
  <2>1. RequestGoals'
    <3>1. \A r \in Request : req'[r].pc = "idle" /\ req'[r].op = "none"
      BY <1>6 DEF ApiRestart, NoRequest
    <3> QED
      BY <3>1 DEF RequestGoals
  <2> QED
    BY <1>2, <1>6, <2>1, ApiLeaves
<1>7. ASSUME NEW i \in Item, CreateItem(i)
      PROVE  ResultInv' /\ WorkerGoals' /\ RequestGoals'
  BY <1>2, <1>3, <1>7 DEF CreateItem
<1>8. ASSUME NEW w \in Worker, ReadReplyLost(w)
      PROVE  ResultInv' /\ WorkerGoals' /\ RequestGoals'
  BY <1>2, <1>3, <1>8 DEF ReadReplyLost, ledger
<1>9. CASE UNCHANGED vars
  BY <1>2, <1>3, <1>9 DEF vars, ledger
<1> QED
  BY <1>4, <1>5, <1>6, <1>7, <1>8, <1>9 DEF Next, FaultStep

\* Nobody is asked to approve a self_patch for which no run built a patch,
\* unless a caller of the status endpoint asks for waiting_approval itself.
THEOREM ApprovalsHavePatches ==
  ASSUME "waiting_approval" \notin UserGoals
  PROVE  Spec => []ApprovalHasPatch
<1>1. Init => ResultInv /\ WorkerGoals /\ RequestGoals /\ ApprovalHasPatch
  BY InitPatches
<1>2. Init => IInv
  BY InitTypeInv, InitMessages DEF IInv
<1>3. Init => PatchInv
  BY <1>1, <1>2 DEF PatchInv
<1>4. PatchInv /\ [Next]_vars => PatchInv'
  BY NextPatches
<1>5. PatchInv => ApprovalHasPatch
  BY DEF PatchInv
<1> QED
  BY <1>3, <1>4, <1>5, PTL DEF Spec

-----------------------------------------------------------------------------
(***************************************************************************)
(* A work item has one job, while requests come one at a time.             *)
(***************************************************************************)

\* A worker that goes on keeps the rest of its batch; the last step of a message
\* makes the rest the next one.
LEMMA WorkerBatch ==
  ASSUME TypeInv, NEW w \in Worker
  PROVE  /\ \A pc : Step(w, pc) => wk'[w].next = wk[w].next
         /\ \A pc, goal : wk' = [wk EXCEPT ![w].pc = pc, ![w].goal = goal]
                            => wk'[w].next = wk[w].next
         /\ NextMessage(w) =>
              /\ wk'[w].next = None
              /\ \/ wk'[w].pc = "idle"
                 \/ wk'[w].pc = "start" /\ wk[w].next # None /\ wk'[w].job = wk[w].next
<1>1. wk[w] \in WorkerState /\ wk \in [Worker -> WorkerState]
  BY DEF TypeInv, TypeOK
<1>2. ASSUME NEW y, wk' = [wk EXCEPT ![w] = y] PROVE wk'[w] = y
  BY <1>1, <1>2
<1>3. ASSUME NEW pc, Step(w, pc) PROVE wk'[w].next = wk[w].next
  <2>1. PICK y : y = [wk[w] EXCEPT !.pc = pc]
    OBVIOUS
  <2>2. wk' = [wk EXCEPT ![w] = y]
    BY <1>3, <2>1, Zenon DEF Step
  <2>3. y.next = wk[w].next
    BY <1>1, <2>1 DEF WorkerState
  <2> QED
    BY <1>2, <2>2, <2>3
<1>4. ASSUME NEW pc, NEW goal, wk' = [wk EXCEPT ![w].pc = pc, ![w].goal = goal]
      PROVE  wk'[w].next = wk[w].next
  <2>1. PICK y : y = [wk[w] EXCEPT !.pc = pc, !.goal = goal]
    OBVIOUS
  <2>2. wk' = [wk EXCEPT ![w] = y]
    BY <1>4, <2>1, Zenon
  <2>3. y.next = wk[w].next
    BY <1>1, <2>1 DEF WorkerState
  <2> QED
    BY <1>2, <2>2, <2>3
<1>5. ASSUME NextMessage(w), wk[w].next = None
      PROVE  wk'[w].next = None /\ wk'[w].pc = "idle"
  <2>1. wk' = [wk EXCEPT ![w] = NoMessage]
    BY <1>5, Zenon DEF NextMessage
  <2> QED
    BY <1>2, <2>1 DEF NoMessage
<1>6. ASSUME NextMessage(w), wk[w].next # None
      PROVE  wk'[w].next = None /\ wk'[w].pc = "start" /\ wk'[w].job = wk[w].next
  <2>1. PICK y : y = [NoMessage EXCEPT !.pc = "start", !.job = wk[w].next]
    OBVIOUS
  <2>2. wk' = [wk EXCEPT ![w] = y]
    BY <1>6, <2>1, Zenon DEF NextMessage
  <2>3. y.next = None /\ y.pc = "start" /\ y.job = wk[w].next
    BY <2>1 DEF NoMessage
  <2> QED
    BY <1>2, <2>2, <2>3
<1> QED
  BY <1>3, <1>4, <1>5, <1>6

\* What JobInv says of a system whose requests came one at a time.
Alone == /\ OneRequest
         /\ MessagesToDo
         /\ \A r \in Request : RequestAlone(r)
         /\ JobsAlone

\* What a worker's step may do to jobs and messages.
Works(w) ==
    /\ OtherWorkers(w) /\ UNCHANGED <<req, jobItem>>
    /\ \A j \in Job : ToBeDone(j)' => ToBeDone(j)
    /\ \A j \in Job : ToBeDone(j) =>
          ToBeDone(j)' \/ (wk[w].pc # "idle" /\ j = wk[w].job)
    /\ \A j \in Job : Unread(j)' => Unread(j)
    /\ \A j \in Job : j \in HandedOut' => j \in HandedOut \/ Unread(j)
    /\ WorkerToDo(w)'

\* It finishes no job but the worker's own, which no one else has.
LEMMA WorksAlone ==
  ASSUME IInv, Alone, NEW w \in Worker, Works(w)
  PROVE  Alone'
<1>1. TypeInv /\ StreamInv /\ SenderInv /\ HolderInv
  BY DEF IInv, MessageInv
<1>2. OneRequest'
  BY Zenon DEF Alone, OneRequest, Works
<1>3. JobsAlone'
  BY DEF Alone, JobsAlone, Works
<1>4. ASSUME wk[w].pc # "idle" PROVE wk[w].job \in HandedOut /\ ~Unread(wk[w].job)
  BY <1>1, <1>4 DEF HolderInv, StreamInv, Unread
<1>5. \A j \in Job : Unread(j)' => ToBeDone(j)'
  BY <1>4 DEF Alone, MessagesToDo, Works
<1>6. ASSUME NEW v \in Worker, v # w PROVE WorkerToDo(v)'
  <2>1. wk'[v] = wk[v]
    BY <1>6 DEF Works, OtherWorkers
  <2>2. ItemOf(v)' = ItemOf(v)
    BY <2>1 DEF ItemOf, Works
  <2>3. wk[v].next # None => wk[v].next \in Job
    BY <1>1 DEF TypeInv, TypeOK, WorkerState
  <2>4. wk[v].pc # "idle" => wk[v].job \in Job
    BY <1>1 DEF TypeInv, ControlInv, WorkerOK
  <2>5. ASSUME wk[w].pc # "idle", wk[v].next # None PROVE wk[v].next # wk[w].job
    <3>1. wk[w].job \in Job
      BY <1>1, <2>5 DEF TypeInv, ControlInv, WorkerOK
    <3> QED
      BY <1>1, <1>6, <3>1 DEF HolderInv
  <2>6. ASSUME wk[w].pc # "idle", wk[v].pc # "idle" PROVE wk[v].job # wk[w].job
    BY <1>1, <1>6, <2>4, <2>6 DEF HolderInv
  <2>7. WorkerToDo(v)
    BY DEF Alone, MessagesToDo
  <2>8. PICK x : x = wk[v]
    OBVIOUS
  <2>9. x.next # None => ToBeDone(x.next)'
    BY <2>3, <2>5, <2>7, <2>8 DEF Works, WorkerToDo
  <2>10. ToBeDone(x.job) /\ x.pc # "idle" => ToBeDone(x.job)'
    BY <2>4, <2>6, <2>8 DEF Works
  <2>11. x.pc \in Doing \cup {"fail"} => x.pc # "idle"
    BY DEF Doing
  <2> QED
    BY <2>1, <2>2, <2>7, <2>8, <2>9, <2>10, <2>11 DEF WorkerToDo
<1>7. ASSUME NEW r \in Request PROVE RequestAlone(r)'
  <2>1. req'[r] = req[r]
    BY DEF Works
  <2>2. RequestAlone(r)
    BY DEF Alone
  <2>3. PICK x : x = req[r]
    OBVIOUS
  <2>4. x.pc = "create" => ActiveJobs(x.item)' = {}
    BY <2>2, <2>3 DEF RequestAlone, ActiveJobs, Works, ToBeDone
  <2>5. Sending(x) => x.job \in Job /\ x.job \notin HandedOut /\ ToBeDone(x.job)
    BY <1>1, <2>2, <2>3
       DEF SenderInv, Holds, RequestAlone, TypeInv, ControlInv, RequestOK
  <2>6. Sending(x) => ToBeDone(x.job)'
    BY <1>4, <2>5 DEF Works
  <2>7. x.pc = "mark_failed" => x.job \in Job
    BY <1>1, <2>3 DEF TypeInv, ControlInv, RequestOK
  <2>8. x.pc = "mark_failed" => x.job \notin HandedOut' /\ ~Unread(x.job)'
    BY <2>2, <2>3, <2>7 DEF RequestAlone, Works
  <2>9. Handling(x) =>
          \A j \in Job : ToBeDone(j)' /\ jobItem'[j] = jobItem'[x.job] => j = x.job
    BY <2>2, <2>3 DEF RequestAlone, Works
  <2>10. req'[r] = x /\ (Holds(r)' <=> Sending(x))
    BY <2>1, <2>3 DEF Holds
  <2> QED
    BY <2>4, <2>6, <2>8, <2>9, <2>10 DEF RequestAlone
<1> QED
  BY <1>2, <1>3, <1>5, <1>6, <1>7 DEF Alone, MessagesToDo, Works

\* A step that leaves the job tables and Redis as they are does not begin anew
\* with a job that is done.
LEMMA GoingOnWorks ==
  ASSUME TypeInv, NEW w \in Worker, WorkerToDo(w), OtherWorkers(w),
         UNCHANGED <<req, jobItem, jobStatus, stream>>, HandedOut' = HandedOut,
         wk'[w].job = wk[w].job, wk'[w].next = wk[w].next,
         wk'[w].pc \in Doing => wk[w].pc \in Doing,
         wk'[w].pc = "fail" => wk[w].pc \in Doing \/ ItemOf(w) \in SelfPatch
  PROVE  Works(w)
<1>1. \A j : (ToBeDone(j)' <=> ToBeDone(j)) /\ (Unread(j)' <=> Unread(j))
  BY DEF ToBeDone, Unread
<1>2. ItemOf(w)' = ItemOf(w)
  BY DEF ItemOf
<1>3. PICK j, n : j = wk[w].job /\ n = wk[w].next
  OBVIOUS
<1>4. (ToBeDone(j)' <=> ToBeDone(j)) /\ (ToBeDone(n)' <=> ToBeDone(n))
  BY <1>1
<1>5. WorkerToDo(w)'
  BY <1>2, <1>3, <1>4 DEF WorkerToDo
<1> QED
  BY <1>1, <1>5 DEF Works

\* The steps that do not write the job tables nor talk to Redis, and the failing
\* XACK of a self_patch.
LEMMA PlainWorks ==
  ASSUME IInv, NEW w \in Worker, WorkerToDo(w),
         \/ Observe(w) \/ CheckStart(w) \/ WriteStart(w) \/ Run(w)
         \/ RecordResult(w) \/ WriteResult(w) \/ CheckFailed(w)
         \/ WriteFailed(w) \/ Bury(w)
         \/ AckFails(w) /\ ItemOf(w) \in SelfPatch
  PROVE  Works(w)
<1>1. TypeInv /\ HolderInv
  BY DEF IInv, MessageInv
<1>2. UNCHANGED <<req, jobItem, jobStatus, stream>>
  BY DEF Observe, CheckStart, WriteStart, Run, RecordResult, WriteResult, CheckFailed,
         WriteFailed, Bury, AckFails, ledger, redis
<1>3. HandedOut' = HandedOut
  <2>1. CASE AckFails(w)
    <3>1. wk[w].job \in HandedOut
      BY <1>1, <2>1 DEF AckFails, HolderInv
    <3> QED
      BY <2>1, <3>1 DEF AckFails, XackOf, HandedOut
  <2>2. CASE UNCHANGED <<pending, acked>>
    BY <2>2 DEF HandedOut
  <2> QED
    BY <2>1, <2>2 DEF Observe, CheckStart, WriteStart, Run, RecordResult, WriteResult,
       CheckFailed, WriteFailed, Bury, redis
<1>4. \/ \E pc, goal : /\ wk' = [wk EXCEPT ![w].pc = pc, ![w].goal = goal]
                       /\ pc \in Doing => wk[w].pc \in Doing
                       /\ pc # "fail"
      \/ \E pc : /\ Step(w, pc)
                 /\ pc \in Doing => wk[w].pc \in Doing
                 /\ pc = "fail" => wk[w].pc \in Doing \/ ItemOf(w) \in SelfPatch
  <2>1. CASE Observe(w)
    <3>1. wk[w].pc \in Doing
      BY <2>1 DEF Observe, Doing
    <3>2. \/ wk' = [wk EXCEPT ![w].pc = "check", ![w].goal = StartsAs(ItemOf(w))]
          \/ Step(w, "run") \/ Step(w, "record")
      BY <2>1, Zenon DEF Observe
    <3> QED
      BY <3>1, <3>2
  <2>2. CASE CheckStart(w)
    BY <2>2 DEF CheckStart, Doing
  <2>3. CASE WriteStart(w) \/ Run(w)
    BY <2>3 DEF WriteStart, Run, Doing
  <2>4. CASE RecordResult(w)
    <3>1. wk[w].pc \in Doing
      BY <2>4 DEF RecordResult, Doing
    <3>2. \/ \E goal : wk' = [wk EXCEPT ![w].pc = "record_write", ![w].goal = goal]
          \/ Step(w, "complete")
      BY <2>4, Zenon DEF RecordResult
    <3> QED
      BY <3>1, <3>2
  <2>5. CASE WriteResult(w) \/ WriteFailed(w) \/ Bury(w)
    BY <2>5 DEF WriteResult, WriteFailed, Bury, Doing
  <2>6. CASE CheckFailed(w)
    <3>1. \/ wk' = [wk EXCEPT ![w].pc = "fail_write", ![w].goal = "reviewing"]
          \/ Step(w, "bury")
      BY <2>6, Zenon DEF CheckFailed
    <3>2. {"fail_write", "bury"} \cap (Doing \cup {"fail"}) = {}
      BY DEF Doing
    <3> QED
      BY <3>1, <3>2
  <2>7. CASE AckFails(w) /\ ItemOf(w) \in SelfPatch
    BY <2>7 DEF AckFails, Doing
  <2> QED
    BY <2>1, <2>2, <2>3, <2>4, <2>5, <2>6, <2>7
<1>5. /\ OtherWorkers(w) /\ wk'[w].job = wk[w].job /\ wk'[w].next = wk[w].next
      /\ wk'[w].pc \in Doing => wk[w].pc \in Doing
      /\ wk'[w].pc = "fail" => wk[w].pc \in Doing \/ ItemOf(w) \in SelfPatch
  <2>1. ASSUME NEW pc, NEW goal, wk' = [wk EXCEPT ![w].pc = pc, ![w].goal = goal]
        PROVE  /\ OtherWorkers(w) /\ wk'[w].job = wk[w].job
               /\ wk'[w].next = wk[w].next /\ wk'[w].pc = pc
    <3>1. wk'[w].next = wk[w].next
      BY <1>1, <2>1, WorkerBatch, Zenon
    <3> QED
      BY <1>1, <2>1, <3>1, WorkerAims
  <2>2. ASSUME NEW pc, Step(w, pc)
        PROVE  /\ OtherWorkers(w) /\ wk'[w].job = wk[w].job
               /\ wk'[w].next = wk[w].next /\ wk'[w].pc = pc
    BY <1>1, <2>2, WorkerMoves, WorkerBatch
  <2>3. ASSUME NEW pc, NEW goal, wk' = [wk EXCEPT ![w].pc = pc, ![w].goal = goal],
               pc \in Doing => wk[w].pc \in Doing, pc # "fail"
        PROVE  /\ OtherWorkers(w) /\ wk'[w].job = wk[w].job
               /\ wk'[w].next = wk[w].next
               /\ wk'[w].pc \in Doing => wk[w].pc \in Doing
               /\ wk'[w].pc = "fail" => wk[w].pc \in Doing \/ ItemOf(w) \in SelfPatch
    <3>1. /\ OtherWorkers(w) /\ wk'[w].job = wk[w].job
          /\ wk'[w].next = wk[w].next /\ wk'[w].pc = pc
      BY <2>1, <2>3, Zenon
    <3>2. (pc \in Doing => wk[w].pc \in Doing) /\ pc # "fail"
      BY <2>3, Zenon
    <3> QED
      BY <3>1, <3>2
  <2>4. ASSUME NEW pc, Step(w, pc), pc \in Doing => wk[w].pc \in Doing,
               pc = "fail" => wk[w].pc \in Doing \/ ItemOf(w) \in SelfPatch
        PROVE  /\ OtherWorkers(w) /\ wk'[w].job = wk[w].job
               /\ wk'[w].next = wk[w].next
               /\ wk'[w].pc \in Doing => wk[w].pc \in Doing
               /\ wk'[w].pc = "fail" => wk[w].pc \in Doing \/ ItemOf(w) \in SelfPatch
    BY <2>2, <2>4
  <2> QED
    BY <1>4, <2>3, <2>4
<1> QED
  BY <1>1, <1>2, <1>3, <1>5, GoingOnWorks

\* The steps that write the job's status.
LEMMA MarkWorks ==
  ASSUME IInv, NEW w \in Worker, WorkerToDo(w),
         MarkRunning(w) \/ MarkCompleted(w) \/ MarkFailed(w)
  PROVE  Works(w)
<1>1. TypeInv /\ HolderInv
  BY DEF IInv, MessageInv
<1>2. /\ wk[w].pc # "idle" /\ jobStatus \in [Job -> JobStatus \cup {"absent"}]
      /\ wk[w].job \in Job
      /\ wk[w].next # None => wk[w].next \in Job /\ wk[w].next # wk[w].job
  BY <1>1 DEF MarkRunning, MarkCompleted, MarkFailed, TypeInv, TypeOK, ControlInv,
              WorkerOK, WorkerState, HolderInv
<1>3. PICK b, n : b = wk[w].job /\ n = wk[w].next
  OBVIOUS
<1>4. UNCHANGED <<req, jobItem, stream, pending, acked>>
  BY DEF MarkRunning, MarkCompleted, MarkFailed, redis
<1>5. \A j \in Job \ {b} : ToBeDone(j)' <=> ToBeDone(j)
  BY <1>2, <1>3 DEF MarkRunning, MarkCompleted, MarkFailed, ToBeDone
<1>6. \A j : (Unread(j)' <=> Unread(j)) /\ (j \in HandedOut' <=> j \in HandedOut)
  BY <1>4 DEF Unread, HandedOut
<1>7. n # None => ToBeDone(n)'
  BY <1>2, <1>3, <1>5 DEF WorkerToDo
<1>8. CASE MarkRunning(w)
  <2>1. Step(w, "observe") /\ wk[w].pc = "start"
    BY <1>8 DEF MarkRunning
  <2>2. /\ OtherWorkers(w) /\ wk'[w].pc = "observe" /\ wk'[w].job = b
        /\ wk'[w].next = n
    BY <1>1, <1>3, <2>1, WorkerMoves, WorkerBatch
  <2>3. ToBeDone(b) /\ ToBeDone(b)'
    BY <1>2, <1>3, <1>8, <2>1 DEF MarkRunning, ToBeDone, ActiveStatus, WorkerToDo, Doing
  <2>4. WorkerToDo(w)'
    BY <1>7, <2>2, <2>3 DEF WorkerToDo
  <2> QED
    BY <1>4, <1>5, <1>6, <2>2, <2>3, <2>4 DEF Works
<1>9. CASE MarkCompleted(w)
  <2>1. Step(w, "ack") /\ wk[w].pc = "complete"
    BY <1>9 DEF MarkCompleted
  <2>2. OtherWorkers(w) /\ wk'[w].pc = "ack" /\ wk'[w].next = n
    BY <1>1, <1>3, <2>1, WorkerMoves, WorkerBatch
  <2>3. ToBeDone(b)
    BY <1>2, <1>3, <2>1 DEF WorkerToDo, Doing
  <2>4. WorkerToDo(w)'
    BY <1>7, <2>2 DEF WorkerToDo, Doing
  <2> QED
    BY <1>2, <1>3, <1>4, <1>5, <1>6, <2>2, <2>3, <2>4 DEF Works
<1>10. CASE MarkFailed(w)
  <2>1. /\ wk[w].pc = "fail"
        /\ \/ Step(w, "fail_check") \/ Step(w, "bury")
           \/ NextMessage(w)
    BY <1>10, Zenon DEF MarkFailed
  <2>2. /\ OtherWorkers(w)
        /\ \/ wk'[w].pc \in {"fail_check", "bury"} /\ wk'[w].next = n
           \/ wk'[w].next = None /\ \/ wk'[w].pc = "idle"
                                    \/ wk'[w].pc = "start" /\ n # None /\ wk'[w].job = n
    BY <1>1, <1>3, <2>1, WorkerMoves, WorkerBatch
  <2>3. ToBeDone(b)' => ToBeDone(b)
    <3>1. CASE ItemOf(w) \in SelfPatch
      <4>1. jobStatus'[b] = "dead_letter"
        BY <1>2, <1>3, <1>10, <3>1 DEF MarkFailed
      <4> QED
        BY <4>1 DEF ToBeDone, ActiveStatus
    <3>2. CASE ItemOf(w) \notin SelfPatch
      BY <1>3, <2>1, <3>2 DEF WorkerToDo
    <3> QED
      BY <3>1, <3>2
  <2>4. WorkerToDo(w)'
    <3>1. {"fail_check", "bury", "idle"} \cap (Doing \cup {"fail"}) = {}
      BY DEF Doing
    <3> QED
      BY <1>7, <2>2, <3>1 DEF WorkerToDo
  <2> QED
    BY <1>2, <1>3, <1>4, <1>5, <1>6, <2>2, <2>3, <2>4 DEF Works
<1> QED
  BY <1>8, <1>9, <1>10

\* The steps that end with a message: the next one is still to be done.
LEMMA LeavingWorks ==
  ASSUME IInv, NEW w \in Worker, WorkerToDo(w), Ack(w) \/ AckDead(w) \/ WorkerCrash(w)
  PROVE  Works(w)
<1>1. TypeInv /\ HolderInv
  BY DEF IInv, MessageInv
<1>2. UNCHANGED <<req, jobItem, jobStatus, stream>>
  BY DEF Ack, AckDead, WorkerCrash, ledger, redis
<1>3. HandedOut' = HandedOut
  <2>1. wk[w].job \in HandedOut
    BY <1>1 DEF Ack, AckDead, WorkerCrash, HolderInv
  <2> QED
    BY <2>1 DEF Ack, AckDead, WorkerCrash, XackOf, redis, HandedOut
<1>4. \A j : (ToBeDone(j)' <=> ToBeDone(j)) /\ (Unread(j)' <=> Unread(j))
  BY <1>2 DEF ToBeDone, Unread
<1>5. PICK n : n = wk[w].next
  OBVIOUS
<1>6. /\ OtherWorkers(w)
      /\ wk'[w].next = None
      /\ \/ wk'[w].pc = "idle"
         \/ wk'[w].pc = "start" /\ n # None /\ wk'[w].job = n
  <2>1. CASE NextMessage(w)
    BY <1>1, <1>5, <2>1, WorkerMoves, WorkerBatch
  <2>2. CASE wk' = [wk EXCEPT ![w] = NoMessage]
    <3>1. wk'[w] = NoMessage
      BY <1>1, <2>2 DEF TypeInv, TypeOK
    <3> QED
      BY <1>1, <2>2, <3>1, WorkerMoves DEF NoMessage
  <2> QED
    BY <2>1, <2>2 DEF Ack, AckDead, WorkerCrash
<1>7. n # None => ToBeDone(n)'
  BY <1>4, <1>5 DEF WorkerToDo
<1>8. WorkerToDo(w)'
  BY <1>6, <1>7 DEF WorkerToDo, Doing
<1> QED
  BY <1>2, <1>3, <1>4, <1>6, <1>8 DEF Works

\* A worker is handed messages that were not dealt with.
LEMMA ReadingWorks ==
  ASSUME IInv, MessagesToDo, NEW w \in Worker, ReadMessages(w) \/ ReadReplyLost(w)
  PROVE  Works(w)
<1>1. TypeInv /\ Deliver /\ UNCHANGED <<req, jobItem, jobStatus, acked>>
  BY DEF IInv, ReadMessages, ReadReplyLost, ledger
<1>2. Heads \subseteq Job /\ \A j \in Job : Unread(j)' => Unread(j)
  BY <1>1, DeliverTakesHeads, DeliverType DEF Heads
<1>3. \A j \in Heads : Unread(j)
  BY <1>1, DeliverTakesHeads
<1>4. \A j \in Job : j \in HandedOut' => j \in HandedOut \/ Unread(j)
  BY <1>1, <1>3 DEF Deliver, HandedOut
<1>5. \A j : ToBeDone(j)' <=> ToBeDone(j)
  BY <1>1 DEF ToBeDone
<1>6. \A j \in Heads : ToBeDone(j)'
  BY <1>2, <1>3, <1>5 DEF MessagesToDo
<1>7. OtherWorkers(w) /\ WorkerToDo(w)'
  <2>1. CASE ReadMessages(w)
    <3>1. wk'[w] = Fetched /\ OtherWorkers(w)
      BY <1>1, <2>1, WorkerMoves DEF ReadMessages, TypeInv, TypeOK
    <3>2. Fetched.job \in Heads /\ (Fetched.next # None => Fetched.next \in Heads)
      BY <1>1 DEF Fetched, NoMessage, Heads, Ready, Queue, Deliver
    <3>3. PICK x : x = Fetched
      OBVIOUS
    <3>4. wk'[w] = x /\ ToBeDone(x.job)' /\ (x.next # None => ToBeDone(x.next)')
      BY <1>6, <3>1, <3>2, <3>3
    <3> QED
      BY <3>1, <3>4 DEF WorkerToDo
  <2>2. CASE ReadReplyLost(w)
    <3>1. wk' = wk
      BY <2>2 DEF ReadReplyLost
    <3>2. ItemOf(w)' = ItemOf(w)
      BY <1>1, <3>1 DEF ItemOf
    <3>3. PICK x : x = wk[w]
      OBVIOUS
    <3>4. WorkerToDo(w)
      BY DEF MessagesToDo
    <3>5. wk'[w] = x /\ (ToBeDone(x.job)' <=> ToBeDone(x.job))
                     /\ (ToBeDone(x.next)' <=> ToBeDone(x.next))
      BY <1>5, <3>1, <3>3
    <3> QED
      BY <3>1, <3>2, <3>3, <3>4, <3>5 DEF WorkerToDo, OtherWorkers
  <2> QED
    BY <2>1, <2>2
<1> QED
  BY <1>1, <1>2, <1>4, <1>5, <1>7 DEF Works

\* Whatever a worker does, as long as there is no doubt.
LEMMA WorkerAlone ==
  ASSUME IInv, Alone, ~Overlapping, NEW w \in Worker,
         WorkerStep(w) \/ ReadReplyLost(w) \/ AckFails(w) \/ WorkerCrash(w)
  PROVE  Alone'
<1>1. MessagesToDo /\ WorkerToDo(w)
  BY DEF Alone, MessagesToDo
<1>2. AckFails(w) => ItemOf(w) \in SelfPatch
  BY Zenon DEF Overlapping
<1>3. Works(w)
  BY <1>1, <1>2, PlainWorks, MarkWorks, LeavingWorks, ReadingWorks DEF WorkerStep
<1> QED
  BY <1>3, WorksAlone

-----------------------------------------------------------------------------
(* A request's step, or a new item.                                        *)

\* Workers do not notice what happens to jobs that are not handed out.
LEMMA WorkersKeepAtIt ==
  ASSUME TypeInv, HolderInv, UNCHANGED wk, NEW w \in Worker, WorkerToDo(w),
         \A j \in Job : j \in HandedOut =>
            jobItem'[j] = jobItem[j] /\ (ToBeDone(j) => ToBeDone(j)')
  PROVE  WorkerToDo(w)'
<1>1. PICK x : x = wk[w]
  OBVIOUS
<1>2. /\ x.next # None => x.next \in Job /\ x.next \in HandedOut
      /\ x.pc # "idle" => x.job \in Job /\ x.job \in HandedOut
  BY <1>1 DEF TypeInv, TypeOK, ControlInv, WorkerState, WorkerOK, HolderInv, HandedOut
<1>3. /\ x.next # None => ToBeDone(x.next)'
      /\ x.pc # "idle" /\ ToBeDone(x.job) => ToBeDone(x.job)'
      /\ x.pc # "idle" => jobItem'[x.job] = jobItem[x.job]
  BY <1>1, <1>2 DEF WorkerToDo
<1>4. x.pc \in Doing \cup {"fail"} => x.pc # "idle"
  BY DEF Doing
<1>5. wk' = wk
  OBVIOUS
<1> QED
  BY <1>1, <1>3, <1>4, <1>5 DEF WorkerToDo, ItemOf

\* How a step that leaves the job tables and Redis alone may change a request.
Asks(r) ==
    \/ req'[r] = req[r]
    \/ req'[r].pc = "create" /\ ActiveJobs(req'[r].item) = {}
    \/ ~Handling(req'[r]) /\ req'[r].pc # "create"
    \/ Sending(req[r]) /\ Sending(req'[r]) /\ req'[r].job = req[r].job

LEMMA AskingAlone ==
  ASSUME IInv, Alone, OneRequest', \A r \in Request : Asks(r),
         UNCHANGED <<jobStatus, jobItem, stream, pending, acked, wk>>
  PROVE  Alone'
<1>1. TypeInv /\ HolderInv
  BY DEF IInv, MessageInv
<1>2. \A j : /\ ToBeDone(j)' <=> ToBeDone(j)
             /\ Unread(j)' <=> Unread(j)
             /\ j \in HandedOut' <=> j \in HandedOut
  BY DEF ToBeDone, Unread, HandedOut
<1>3. \A w \in Worker : WorkerToDo(w)'
  BY <1>1, <1>2, WorkersKeepAtIt DEF Alone, MessagesToDo
<1>4. MessagesToDo' /\ JobsAlone'
  BY <1>2, <1>3 DEF MessagesToDo, Alone, JobsAlone
<1>5. ASSUME NEW r \in Request PROVE RequestAlone(r)'
  <2>1. PICK x, y : x = req[r] /\ y = req'[r]
    OBVIOUS
  <2>2. Holds(r)' <=> Sending(y)
    BY <2>1 DEF Holds
  <2>3. /\ ActiveJobs(y.item)' = ActiveJobs(y.item)
        /\ ToBeDone(y.job)' <=> ToBeDone(y.job)
        /\ Unread(y.job)' <=> Unread(y.job)
        /\ HandedOut' = HandedOut
    BY <1>2 DEF ActiveJobs, HandedOut
  <2>4. /\ RequestAlone(r)
        /\ Holds(r) <=> Sending(x)
    BY <2>1 DEF Alone, Holds
  <2>5. /\ y.pc = "create" => ActiveJobs(y.item) = {}
        /\ Sending(y) => ToBeDone(y.job)
        /\ y.pc = "mark_failed" => y.job \notin HandedOut /\ ~Unread(y.job)
        /\ Handling(y) =>
             \A j \in Job : ToBeDone(j) /\ jobItem[j] = jobItem[y.job] => j = y.job
    <3>1. CASE y = x
      BY <2>1, <2>4, <3>1 DEF RequestAlone
    <3>2. CASE y.pc = "create" /\ ActiveJobs(y.item) = {}
      BY <3>2 DEF Handling, Sending
    <3>3. CASE ~Handling(y) /\ y.pc # "create"
      BY <3>3 DEF Handling
    <3>4. CASE Sending(x) /\ Sending(y) /\ y.job = x.job
      <4>1. y.pc # "create" /\ y.pc # "mark_failed" /\ Handling(x)
        BY <3>4 DEF Sending, Handling
      <4> QED
        BY <2>1, <2>4, <3>4, <4>1 DEF RequestAlone
    <3> QED
      BY <2>1, <3>1, <3>2, <3>3, <3>4 DEF Asks
  <2> QED
    BY <1>2, <2>1, <2>2, <2>3, <2>5 DEF RequestAlone
<1> QED
  BY <1>4, <1>5 DEF Alone

\* All the steps of this kind.
LEMMA QuietRequestAlone ==
  ASSUME IInv, Alone, OneRequest',
         \/ \E i \in Item : CreateItem(i)
         \/ \E r \in Request :
              RequestStart(r) \/ FindChild(r) \/ CreateChild(r) \/ FindJob(r)
                              \/ CheckStatus(r) \/ WriteStatus(r)
         \/ ApiRestart
         \/ UNCHANGED vars
  PROVE  Alone'
<1>1. TypeInv
  BY DEF IInv
<1>2. UNCHANGED <<jobStatus, jobItem, stream, pending, acked, wk>>
  BY DEF CreateItem, RequestStart, StatusRequest, EnqueueRequest, RetryRequest,
         PromoteRequest, FindChild, CreateChild, FindJob, CheckStatus, WriteStatus,
         ApiRestart, vars, ledger, redis
<1>3. ASSUME NEW r \in Request, RequestStart(r) PROVE Asks(r) /\ OtherRequests(r)
  <2>1. PICK i, g : \/ StatusRequest(r, i, g) \/ EnqueueRequest(r, i)
                    \/ RetryRequest(r, i) \/ PromoteRequest(r, i)
    BY <1>3, Zenon DEF RequestStart
  <2>2. PICK y : /\ req' = [req EXCEPT ![r] = y]
                 /\ (y.pc = "write" /\ y.op = "status") \/ y.pc \in {"find", "children"}
    <3>1. ASSUME StatusRequest(r, i, g)
          PROVE  \E y : req' = [req EXCEPT ![r] = y] /\ y.pc = "write" /\ y.op = "status"
      <4>1. PICK y : y = [NoRequest EXCEPT !.pc = "write", !.op = "status", !.item = i,
                                           !.goal = g]
        OBVIOUS
      <4>2. y.pc = "write" /\ y.op = "status"
        BY <4>1 DEF NoRequest
      <4> QED
        BY <3>1, <4>1, <4>2, Zenon DEF StatusRequest
    <3>2. ASSUME EnqueueRequest(r, i)
          PROVE  \E y : req' = [req EXCEPT ![r] = y] /\ y.pc = "find"
      <4>1. PICK y : y = [NoRequest EXCEPT !.pc = "find", !.op = "enqueue", !.item = i]
        OBVIOUS
      <4>2. y.pc = "find"
        BY <4>1 DEF NoRequest
      <4> QED
        BY <3>2, <4>1, <4>2, Zenon DEF EnqueueRequest
    <3>3. ASSUME RetryRequest(r, i)
          PROVE  \E y : req' = [req EXCEPT ![r] = y] /\ y.pc = "find"
      <4>1. PICK y : y = [NoRequest EXCEPT !.pc = "find", !.op = "retry", !.item = i,
                                           !.saw = status[i], !.goal = "running"]
        OBVIOUS
      <4>2. y.pc = "find"
        BY <4>1 DEF NoRequest
      <4> QED
        BY <3>3, <4>1, <4>2, Zenon DEF RetryRequest
    <3>4. ASSUME PromoteRequest(r, i)
          PROVE  \E y : req' = [req EXCEPT ![r] = y] /\ y.pc = "children"
      <4>1. PICK y : y = [NoRequest EXCEPT !.pc = "children", !.op = "promote", !.item = i]
        OBVIOUS
      <4>2. y.pc = "children"
        BY <4>1 DEF NoRequest
      <4> QED
        BY <3>4, <4>1, <4>2, Zenon DEF PromoteRequest
    <3> QED
      BY <2>1, <3>1, <3>2, <3>3, <3>4
  <2>3. req'[r] = y /\ OtherRequests(r)
    BY <1>1, <2>2 DEF TypeInv, TypeOK, OtherRequests
  <2> QED
    BY <2>2, <2>3 DEF Asks, Handling, Sending
<1>4. ASSUME NEW r \in Request, FindChild(r) PROVE Asks(r) /\ OtherRequests(r)
  BY <1>1, <1>4, RequestMoves DEF FindChild, Asks, Handling, Sending
<1>5. ASSUME NEW r \in Request, CreateChild(r) PROVE Asks(r) /\ OtherRequests(r)
  <2>1. PICK c \in SelfPatch :
          req' = [req EXCEPT ![r].pc = "find", ![r].op = "enqueue", ![r].item = c]
    BY <1>5, Zenon DEF CreateChild
  <2>2. PICK y : y = [req[r] EXCEPT !.pc = "find", !.op = "enqueue", !.item = c]
    OBVIOUS
  <2>3. req' = [req EXCEPT ![r] = y]
    BY <2>1, <2>2, Zenon
  <2>4. y.pc = "find"
    BY <1>1, <2>2 DEF TypeInv, TypeOK, ReqState
  <2>5. req'[r] = y /\ OtherRequests(r)
    BY <1>1, <2>3 DEF TypeInv, TypeOK, OtherRequests
  <2> QED
    BY <2>4, <2>5 DEF Asks, Handling, Sending
<1>6. ASSUME NEW r \in Request, FindJob(r) PROVE Asks(r) /\ OtherRequests(r)
  <2>1. CASE ActiveJobs(req[r].item) # {}
    BY <1>1, <1>6, <2>1, RequestMoves DEF FindJob, Asks, Handling, Sending
  <2>2. CASE ActiveJobs(req[r].item) = {}
    <3>1. Goto(r, "create")
      BY <1>6, <2>2 DEF FindJob
    <3> QED
      BY <1>1, <2>2, <3>1, RequestMoves DEF Asks
  <2> QED
    BY <2>1, <2>2
<1>7. ASSUME NEW r \in Request, CheckStatus(r) PROVE Asks(r) /\ OtherRequests(r)
  <2>1. CASE Done(r)
    BY <1>1, <2>1, RequestMoves DEF Asks, Handling, Sending
  <2>2. CASE Goto(r, "write")
    <3>1. /\ req'[r].pc = "write" /\ req'[r].op = req[r].op /\ OtherRequests(r)
          /\ req'[r].job = req[r].job /\ req[r].pc = "check"
      BY <1>1, <1>7, <2>2, RequestMoves DEF CheckStatus
    <3> QED
      BY <3>1 DEF Asks, Handling, Sending
  <2> QED
    BY <1>7, <2>1, <2>2 DEF CheckStatus
<1>8. ASSUME NEW r \in Request, WriteStatus(r) PROVE Asks(r) /\ OtherRequests(r)
  <2>1. CASE req[r].op = "retry"
    <3>1. Goto(r, "xadd") /\ req[r].pc = "write"
      BY <1>8, <2>1 DEF WriteStatus
    <3>2. req'[r].pc = "xadd" /\ OtherRequests(r) /\ req'[r].job = req[r].job
      BY <1>1, <3>1, RequestMoves
    <3> QED
      BY <2>1, <3>1, <3>2 DEF Asks, Sending
  <2>2. CASE req[r].op = "status" /\ req[r].goal = "accepted"
    <3>1. req' = [req EXCEPT ![r].pc = "find", ![r].op = "enqueue"]
      BY <1>8, <2>2, Zenon DEF WriteStatus
    <3>2. PICK y : y = [req[r] EXCEPT !.pc = "find", !.op = "enqueue"]
      OBVIOUS
    <3>3. req' = [req EXCEPT ![r] = y]
      BY <3>1, <3>2, Zenon
    <3>4. y.pc = "find"
      BY <1>1, <3>2 DEF TypeInv, TypeOK, ReqState
    <3>5. req'[r] = y /\ OtherRequests(r)
      BY <1>1, <3>3 DEF TypeInv, TypeOK, OtherRequests
    <3> QED
      BY <3>4, <3>5 DEF Asks, Handling, Sending
  <2>3. CASE Done(r)
    BY <1>1, <2>3, RequestMoves DEF Asks, Handling, Sending
  <2> QED
    BY <1>8, <2>1, <2>2, <2>3, Zenon DEF WriteStatus
<1>9. ASSUME ApiRestart, NEW r \in Request PROVE Asks(r)
  BY <1>9 DEF ApiRestart, Asks, NoRequest, Handling, Sending
<1>10. (\E i \in Item : CreateItem(i)) \/ UNCHANGED vars => req' = req
  BY DEF CreateItem, vars
<1>11. \A r \in Request : Asks(r)
  BY <1>3, <1>4, <1>5, <1>6, <1>7, <1>8, <1>9, <1>10 DEF OtherRequests, Asks
<1> QED
  BY <1>2, <1>11, AskingAlone


\* The step of a request that works on jobs: all other requests are idle.
LEMMA OthersAreIdle ==
  ASSUME Alone, NEW r \in Request, req[r].pc # "idle", OtherRequests(r), RequestAlone(r)'
  PROVE  \A s \in Request : RequestAlone(s)'
<1> SUFFICES ASSUME NEW s \in Request, s # r PROVE RequestAlone(s)'
  OBVIOUS
<1>1. req'[s].pc = "idle"
  BY DEF Alone, OneRequest, OtherRequests
<1> QED
  BY <1>1 DEF RequestAlone, Holds, Sending, Handling

\* create_work_job: no other job of the item was to be done when it was looked for.
LEMMA CreateJobAlone ==
  ASSUME IInv, Alone, OneRequest', NEW r \in Request, CreateJob(r)
  PROVE  Alone'
<1>1. TypeInv /\ SenderInv /\ HolderInv
  BY DEF IInv, MessageInv
<1>2. req[r].pc = "create" /\ UNCHANGED <<stream, pending, acked, wk>>
  BY DEF CreateJob, redis
<1>3. PICK j, pc :
        /\ j \in Job /\ jobStatus[j] = "absent"
        /\ jobStatus' = [jobStatus EXCEPT ![j] = "created"]
        /\ jobItem' = [jobItem EXCEPT ![j] = req[r].item]
        /\ req' = [req EXCEPT ![r].job = j, ![r].pc = pc]
        /\ pc = IF req[r].op = "retry" THEN "check" ELSE "xadd"
  BY Zenon DEF CreateJob
<1>4. PICK y : y = [req[r] EXCEPT !.job = j, !.pc = pc]
  OBVIOUS
<1>5. req' = [req EXCEPT ![r] = y]
  BY <1>3, <1>4, Zenon
<1>6. y.job = j /\ y.pc = pc /\ y.op = req[r].op /\ y.item = req[r].item
  BY <1>1, <1>4 DEF TypeInv, TypeOK, ReqState
<1>7. req'[r] = y /\ OtherRequests(r)
  BY <1>1, <1>5 DEF TypeInv, TypeOK, OtherRequests
<1>8. j \notin HandedOut /\ ~Unread(j)
  BY <1>1, <1>3 DEF SenderInv
<1>9. /\ ToBeDone(j)' /\ jobItem'[j] = req[r].item
      /\ \A k \in Job \ {j} : (ToBeDone(k)' <=> ToBeDone(k)) /\ jobItem'[k] = jobItem[k]
  BY <1>1, <1>3 DEF TypeInv, TypeOK, ToBeDone, ActiveStatus
<1>10. \A k : (Unread(k)' <=> Unread(k)) /\ (k \in HandedOut' <=> k \in HandedOut)
  BY <1>2 DEF Unread, HandedOut
<1>11. \A k \in Job \ {j} : ToBeDone(k)' => jobItem'[k] # jobItem'[j]
  <2>1. ActiveJobs(req[r].item) = {}
    BY <1>2 DEF Alone, RequestAlone
  <2> QED
    BY <1>9, <2>1 DEF ActiveJobs, ToBeDone
<1>12. JobsAlone'
  BY <1>9, <1>11 DEF Alone, JobsAlone
<1>13. \A w \in Worker : WorkerToDo(w)'
  BY <1>1, <1>2, <1>8, <1>9, WorkersKeepAtIt DEF Alone, MessagesToDo
<1>14. MessagesToDo'
  BY <1>9, <1>10, <1>13 DEF Alone, MessagesToDo
<1>15. RequestAlone(r)'
  <2>1. y.pc \in {"check", "xadd"}
    BY <1>3, <1>6
  <2> QED
    BY <1>6, <1>7, <1>9, <1>11, <2>1 DEF RequestAlone, Holds
<1> QED
  BY <1>2, <1>7, <1>12, <1>14, <1>15, OthersAreIdle DEF Alone

\* XADD, and its failing: the request keeps its job, which is to be done.
LEMMA SendAlone ==
  ASSUME IInv, Alone, OneRequest', NEW r \in Request, Xadd(r) \/ XaddFails(r)
  PROVE  Alone'
<1>1. TypeInv /\ SenderInv /\ HolderInv
  BY DEF IInv, MessageInv
<1>2. req[r].pc = "xadd" /\ UNCHANGED <<jobStatus, jobItem, pending, acked, wk>>
  BY DEF Xadd, XaddFails, ledger, redis
<1>3. Sending(req[r]) /\ Handling(req[r]) /\ Holds(r)
  BY <1>2 DEF Sending, Handling, Holds
<1>4. PICK j \in Job : /\ j = req[r].job /\ j \notin HandedOut /\ ~Unread(j)
                      /\ ToBeDone(j)
                      /\ \A k \in Job : ToBeDone(k) /\ jobItem[k] = jobItem[j] => k = j
  BY <1>1, <1>3 DEF SenderInv, TypeInv, ControlInv, RequestOK, Alone, RequestAlone
<1>5. \A k : (ToBeDone(k)' <=> ToBeDone(k)) /\ (k \in HandedOut' <=> k \in HandedOut)
  BY <1>2 DEF ToBeDone, HandedOut
<1>6. \A w \in Worker : WorkerToDo(w)'
  BY <1>1, <1>2, <1>5, WorkersKeepAtIt DEF Alone, MessagesToDo
<1>7. JobsAlone'
  BY <1>2, <1>5 DEF Alone, JobsAlone
<1>8. CASE Xadd(r)
  <2>1. AddToStream(j) /\ Goto(r, "mark_queued")
    BY <1>4, <1>8 DEF Xadd
  <2>2. \A k \in Job : Unread(k)' => Unread(k) \/ k = j
    BY <1>1, <2>1, AddMakesUnread
  <2>3. MessagesToDo'
    BY <1>4, <1>5, <1>6, <2>2 DEF Alone, MessagesToDo
  <2>4. req'[r].pc = "mark_queued" /\ req'[r].job = j /\ OtherRequests(r)
    BY <1>1, <1>4, <2>1, RequestMoves
  <2>5. RequestAlone(r)'
    BY <1>2, <1>4, <1>5, <2>4 DEF RequestAlone, Holds, Sending
  <2> QED
    BY <1>2, <1>7, <2>3, <2>4, <2>5, OthersAreIdle DEF Alone
<1>9. CASE XaddFails(r)
  <2>1. Goto(r, "mark_failed") /\ UNCHANGED stream
    BY <1>9 DEF XaddFails, redis
  <2>2. \A k : Unread(k)' <=> Unread(k)
    BY <2>1 DEF Unread
  <2>3. MessagesToDo'
    BY <1>5, <1>6, <2>2 DEF Alone, MessagesToDo
  <2>4. req'[r].pc = "mark_failed" /\ req'[r].job = j /\ OtherRequests(r)
    BY <1>1, <1>4, <2>1, RequestMoves
  <2>5. PICK x : x = req'[r]
    OBVIOUS
  <2>6. x.job \notin HandedOut' /\ ~Unread(x.job)'
    BY <1>4, <1>5, <2>2, <2>4, <2>5
  <2>7. RequestAlone(r)'
    BY <1>2, <1>4, <1>5, <2>4, <2>5, <2>6 DEF RequestAlone, Holds, Sending
  <2> QED
    BY <1>2, <1>7, <2>3, <2>4, <2>7, OthersAreIdle DEF Alone
<1> QED
  BY <1>8, <1>9

\* The late mark_work_job_queued may put a completed job back among those to be
\* done: it is still the only one.
LEMMA MarkQueuedAlone ==
  ASSUME IInv, Alone, OneRequest', NEW r \in Request, MarkQueued(r)
  PROVE  Alone'
<1>1. TypeInv /\ HolderInv
  BY DEF IInv, MessageInv
<1>2. /\ req[r].pc = "mark_queued" /\ Done(r)
      /\ UNCHANGED <<jobItem, stream, pending, acked, wk>>
  BY DEF MarkQueued, redis
<1>3. PICK j \in Job : /\ j = req[r].job
                      /\ \A k \in Job : ToBeDone(k) /\ jobItem[k] = jobItem[j] => k = j
  BY <1>1, <1>2 DEF TypeInv, ControlInv, RequestOK, Alone, RequestAlone, Handling
<1>4. jobStatus' = [jobStatus EXCEPT ![j] = "queued"]
  BY <1>3 DEF MarkQueued
<1>5. ToBeDone(j)' /\ \A k \in Job \ {j} : ToBeDone(k)' <=> ToBeDone(k)
  BY <1>1, <1>4 DEF TypeInv, TypeOK, ToBeDone, ActiveStatus
<1>6. \A k : Unread(k)' <=> Unread(k)
  BY <1>2 DEF Unread
<1>7. \A w \in Worker : WorkerToDo(w)'
  BY <1>1, <1>2, <1>5, WorkersKeepAtIt DEF Alone, MessagesToDo
<1>8. MessagesToDo'
  BY <1>5, <1>6, <1>7 DEF Alone, MessagesToDo
<1>9. JobsAlone'
  BY <1>2, <1>3, <1>5 DEF Alone, JobsAlone
<1>10. req'[r].pc = "idle" /\ OtherRequests(r)
  BY <1>1, <1>2, RequestMoves
<1>11. RequestAlone(r)'
  BY <1>10 DEF RequestAlone, Holds, Sending, Handling
<1> QED
  BY <1>2, <1>8, <1>9, <1>10, <1>11, OthersAreIdle DEF Alone

\* mark_work_job_enqueue_failed: nobody was told of the job.
LEMMA MarkEnqueueFailedAlone ==
  ASSUME IInv, Alone, OneRequest', NEW r \in Request, MarkEnqueueFailed(r)
  PROVE  Alone'
<1>1. TypeInv /\ HolderInv
  BY DEF IInv, MessageInv
<1>2. req[r].pc = "mark_failed" /\ UNCHANGED <<jobItem, stream, pending, acked, wk>>
  BY DEF MarkEnqueueFailed, redis
<1>3. PICK j \in Job : j = req[r].job /\ j \notin HandedOut /\ ~Unread(j)
  BY <1>1, <1>2 DEF TypeInv, ControlInv, RequestOK, Alone, RequestAlone
<1>4. jobStatus' = [jobStatus EXCEPT ![j] = "enqueue_failed"]
  BY <1>3 DEF MarkEnqueueFailed
<1>5. ~ToBeDone(j)' /\ \A k \in Job \ {j} : ToBeDone(k)' <=> ToBeDone(k)
  BY <1>1, <1>4 DEF TypeInv, TypeOK, ToBeDone, ActiveStatus
<1>6. \A k : Unread(k)' <=> Unread(k)
  BY <1>2 DEF Unread
<1>7. \A w \in Worker : WorkerToDo(w)'
  BY <1>1, <1>2, <1>3, <1>5, WorkersKeepAtIt DEF Alone, MessagesToDo
<1>8. MessagesToDo'
  BY <1>3, <1>5, <1>6, <1>7 DEF Alone, MessagesToDo
<1>9. JobsAlone'
  BY <1>2, <1>5 DEF Alone, JobsAlone
<1>10. OtherRequests(r) /\ (req'[r].pc = "idle" \/ (req'[r].pc = "check" /\ req'[r].op = "restore"))
  <2>1. CASE Done(r)
    BY <1>1, <2>1, RequestMoves
  <2>2. CASE req[r].op = "retry"
    <3>1. req' = [req EXCEPT ![r].pc = "check", ![r].op = "restore",
                             ![r].goal = req[r].saw]
      BY <2>2, Zenon DEF MarkEnqueueFailed
    <3>2. PICK y : y = [req[r] EXCEPT !.pc = "check", !.op = "restore",
                                      !.goal = req[r].saw]
      OBVIOUS
    <3>3. req' = [req EXCEPT ![r] = y]
      BY <3>1, <3>2, Zenon
    <3>4. y.pc = "check" /\ y.op = "restore"
      BY <1>1, <3>2 DEF TypeInv, TypeOK, ReqState
    <3>5. req'[r] = y /\ OtherRequests(r)
      BY <1>1, <3>3 DEF TypeInv, TypeOK, OtherRequests
    <3> QED
      BY <3>4, <3>5
  <2> QED
    BY <2>1, <2>2 DEF MarkEnqueueFailed
<1>11. RequestAlone(r)'
  BY <1>10 DEF RequestAlone, Holds, Sending, Handling
<1> QED
  BY <1>2, <1>8, <1>9, <1>10, <1>11, OthersAreIdle DEF Alone

\* JobInv is preserved.
LEMMA NextJobInv ==
  ASSUME IInv, JobInv, [HistoryNext]_<<vars, doubt>>
  PROVE  JobInv'
<1> SUFFICES ASSUME ~doubt' PROVE Alone'
  BY DEF JobInv, Alone
<1>1. ~doubt /\ Alone
  <2>1. ~doubt
    <3>1. CASE HistoryNext
      BY <3>1, Zenon DEF HistoryNext
    <3> QED
      BY <3>1
  <2> QED
    BY <2>1 DEF JobInv, Alone
<1>2. CASE UNCHANGED <<vars, doubt>>
  <2>1. OneRequest'
    BY <1>1, <1>2 DEF vars, OneRequest, Alone
  <2> QED
    BY <1>1, <1>2, <2>1, QuietRequestAlone
<1>3. CASE HistoryNext
  <2>1. Next /\ ~Overlapping
    BY <1>1, <1>3 DEF HistoryNext
  <2>2. OneRequest'
    BY <2>1 DEF Overlapping, OneRequest
  <2>3. ASSUME NEW r \in Request, RequestStep(r) PROVE Alone'
    BY <1>1, <2>2, <2>3, QuietRequestAlone, CreateJobAlone, SendAlone, MarkQueuedAlone,
       MarkEnqueueFailedAlone DEF RequestStep
  <2>4. ASSUME NEW r \in Request, XaddFails(r) \/ XaddReplyLost(r) PROVE Alone'
    BY <1>1, <2>1, <2>2, <2>4, SendAlone DEF Overlapping
  <2> QED
    BY <1>1, <2>1, <2>2, <2>3, <2>4, QuietRequestAlone, WorkerAlone DEF Next, FaultStep
<1> QED
  BY <1>2, <1>3

\* A work item has one job that is to be done, and one worker that runs it, as long
\* as requests come one at a time and nothing raised a doubt: OneJobWhenSerial.
THEOREM OneJobAlways == HistorySpec => []OneJobWhenSerial
<1>1. HistoryInit => IInv /\ JobInv
  <2> SUFFICES ASSUME Init PROVE IInv /\ Alone
    BY DEF HistoryInit, JobInv, Alone
  <2>1. IInv
    BY InitTypeInv, InitMessages DEF IInv
  <2>2. \A r \in Request : req[r].pc = "idle" /\ req[r].op = "none"
    BY DEF Init, NoRequest
  <2>3. \A w \in Worker : wk[w].pc = "idle" /\ wk[w].next = None
    BY DEF Init, NoMessage
  <2>4. \A j \in Job : ~ToBeDone(j) /\ ~Unread(j)
    BY DEF Init, ToBeDone, ActiveStatus, Unread
  <2>5. OneRequest /\ JobsAlone
    BY <2>2, <2>4 DEF OneRequest, JobsAlone
  <2>6. MessagesToDo
    BY <2>3, <2>4 DEF MessagesToDo, WorkerToDo, Doing
  <2>7. \A r \in Request : RequestAlone(r)
    BY <2>2 DEF RequestAlone, Holds, Sending, Handling
  <2> QED
    BY <2>1, <2>5, <2>6, <2>7 DEF Alone
<1>2. IInv /\ JobInv /\ [HistoryNext]_<<vars, doubt>> => (IInv /\ JobInv)'
  <2>1. [HistoryNext]_<<vars, doubt>> => [Next]_vars
    BY DEF HistoryNext
  <2> QED
    BY <2>1, NextIInv, NextJobInv
<1>3. IInv /\ JobInv => OneJobWhenSerial
  <2> SUFFICES ASSUME IInv, Alone PROVE OneActiveJob /\ OneRunPerItem
    BY DEF JobInv, Alone, OneJobWhenSerial
  <2>1. TypeInv /\ HolderInv
    BY DEF IInv, MessageInv
  <2>2. OneActiveJob
    <3>1. \A j \in Job : jobStatus[j] \in JobStatus \cup {"absent"}
      BY <2>1 DEF TypeInv, TypeOK
    <3>2. \A j \in Job :
            jobStatus[j] \notin {"absent", "enqueue_failed", "completed", "dead_letter"}
              => ToBeDone(j)
      BY <3>1 DEF JobStatus, ToBeDone, ActiveStatus
    <3> QED
      BY <3>2 DEF OneActiveJob, Alone, JobsAlone
  <2>3. OneRunPerItem
    <3> SUFFICES ASSUME NEW v \in Worker, NEW w \in Worker, wk[v].pc = "run",
                        wk[w].pc = "run", ItemOf(v) = ItemOf(w)
                 PROVE  v = w
      BY DEF OneRunPerItem
    <3>1. wk[v].job \in Job /\ wk[w].job \in Job
      BY <2>1 DEF TypeInv, ControlInv, WorkerOK
    <3>2. ToBeDone(wk[v].job) /\ ToBeDone(wk[w].job)
      BY DEF Alone, MessagesToDo, WorkerToDo, Doing
    <3>3. wk[v].job = wk[w].job
      BY <3>1, <3>2 DEF Alone, JobsAlone, ItemOf
    <3> QED
      BY <2>1, <3>1, <3>3 DEF HolderInv
  <2> QED
    BY <2>2, <2>3
<1> QED
  BY <1>1, <1>2, <1>3, PTL DEF HistorySpec

-----------------------------------------------------------------------------
(***************************************************************************)
(* A promoted item has one child, while requests come one at a time and    *)
(* users give nothing up.                                                  *)
(***************************************************************************)

\* No step of a request gives an item up; and only one that looked for children
\* goes on to make one.
LEMMA RequestGivesNothingUp ==
  ASSUME UserGoals \cap GivenUp = {}, TypeInv, NobodyGivesUp, NEW r \in Request,
         RequestStart(r) \/ RequestStep(r) \/ XaddFails(r) \/ XaddReplyLost(r)
  PROVE  /\ OtherRequests(r)
         /\ req'[r].goal \notin GivenUp /\ req'[r].saw \notin GivenUp
         /\ req'[r].pc = "child" => FindChild(r)
<1>1. req[r] \in ReqState /\ req \in [Request -> ReqState]
  BY DEF TypeInv, TypeOK
<1> DEFINE Good(x) == x.goal \notin GivenUp /\ x.saw \notin GivenUp
           Ends == /\ OtherRequests(r) /\ Good(req'[r])
                   /\ req'[r].pc = "child" => FindChild(r)
<1>2. "none" \notin GivenUp /\ "running" \notin GivenUp
  BY DEF GivenUp
<1>3. Good(req[r])
  BY DEF NobodyGivesUp
<1>4. ASSUME NEW y, req' = [req EXCEPT ![r] = y], Good(y), y.pc # "child" PROVE Ends
  BY <1>1, <1>4 DEF OtherRequests
<1>5. ASSUME Done(r) PROVE Ends
  <2>1. req' = [req EXCEPT ![r] = NoRequest]
    BY <1>5 DEF Done
  <2>2. Good(NoRequest) /\ NoRequest.pc # "child"
    BY <1>2 DEF NoRequest
  <2> QED
    BY <1>4, <2>1, <2>2
<1>6. ASSUME NEW pc, Goto(r, pc), pc = "child" => FindChild(r) PROVE Ends
  BY <1>3, <1>6, RequestMoves
<1> HIDE DEF Good, Ends
<1>7. ASSUME RequestStart(r) PROVE Ends
  <2>1. PICK i \in Item : \/ \E g \in UserGoals : StatusRequest(r, i, g)
                          \/ EnqueueRequest(r, i)
                          \/ RetryRequest(r, i)
                          \/ PromoteRequest(r, i)
    BY <1>7 DEF RequestStart
  <2>2. ASSUME NEW g \in UserGoals, StatusRequest(r, i, g) PROVE Ends
    <3>1. PICK y : y = [NoRequest EXCEPT !.pc = "write", !.op = "status",
                                         !.item = i, !.goal = g]
      OBVIOUS
    <3>2. req' = [req EXCEPT ![r] = y]
      BY <2>2, <3>1, Zenon DEF StatusRequest
    <3>3. Good(y) /\ y.pc # "child"
      BY <1>2, <3>1 DEF NoRequest, Good
    <3> QED
      BY <1>4, <3>2, <3>3
  <2>3. CASE EnqueueRequest(r, i)
    <3>1. PICK y : y = [NoRequest EXCEPT !.pc = "find", !.op = "enqueue", !.item = i]
      OBVIOUS
    <3>2. req' = [req EXCEPT ![r] = y]
      BY <2>3, <3>1, Zenon DEF EnqueueRequest
    <3>3. Good(y) /\ y.pc # "child"
      BY <1>2, <3>1 DEF NoRequest, Good
    <3> QED
      BY <1>4, <3>2, <3>3
  <2>4. CASE RetryRequest(r, i)
    <3>1. PICK y : y = [NoRequest EXCEPT !.pc = "find", !.op = "retry", !.item = i,
                                         !.saw = status[i], !.goal = "running"]
      OBVIOUS
    <3>2. req' = [req EXCEPT ![r] = y]
      BY <2>4, <3>1, Zenon DEF RetryRequest
    <3>3. status[i] \notin GivenUp
      BY DEF NobodyGivesUp
    <3>4. Good(y) /\ y.pc # "child"
      BY <1>2, <3>1, <3>3 DEF NoRequest, Good
    <3> QED
      BY <1>4, <3>2, <3>4
  <2>5. CASE PromoteRequest(r, i)
    <3>1. PICK y : y = [NoRequest EXCEPT !.pc = "children", !.op = "promote", !.item = i]
      OBVIOUS
    <3>2. req' = [req EXCEPT ![r] = y]
      BY <2>5, <3>1, Zenon DEF PromoteRequest
    <3>3. Good(y) /\ y.pc # "child"
      BY <1>2, <3>1 DEF NoRequest, Good
    <3> QED
      BY <1>4, <3>2, <3>3
  <2> QED
    BY <2>1, <2>2, <2>3, <2>4, <2>5
<1>8. ASSUME \/ FindChild(r) \/ FindJob(r) \/ CheckStatus(r) \/ Xadd(r)
             \/ MarkQueued(r) \/ XaddFails(r) \/ XaddReplyLost(r)
      PROVE  Ends
  BY <1>5, <1>6, <1>8 DEF FindChild, FindJob, CheckStatus, Xadd, MarkQueued,
     XaddFails, XaddReplyLost
<1>9. ASSUME CreateChild(r) PROVE Ends
  <2>1. PICK c \in SelfPatch :
           req' = [req EXCEPT ![r].pc = "find", ![r].op = "enqueue", ![r].item = c]
    BY <1>9, Zenon DEF CreateChild
  <2>2. PICK y : y = [req[r] EXCEPT !.pc = "find", !.op = "enqueue", !.item = c]
    OBVIOUS
  <2>3. req' = [req EXCEPT ![r] = y]
    BY <2>1, <2>2, Zenon
  <2>4. y.pc = "find" /\ y.goal = req[r].goal /\ y.saw = req[r].saw
    BY <1>1, <2>2 DEF ReqState
  <2> QED
    BY <1>3, <1>4, <2>3, <2>4 DEF Good
<1>10. ASSUME CreateJob(r) PROVE Ends
  <2> DEFINE pc == IF req[r].op = "retry" THEN "check" ELSE "xadd"
  <2>1. PICK j \in Job : req' = [req EXCEPT ![r].job = j, ![r].pc = pc]
    BY <1>10, Zenon DEF CreateJob
  <2>2. PICK y : y = [req[r] EXCEPT !.job = j, !.pc = pc]
    OBVIOUS
  <2>3. req' = [req EXCEPT ![r] = y]
    BY <2>1, <2>2, Zenon
  <2>4. y.pc # "child" /\ y.goal = req[r].goal /\ y.saw = req[r].saw
    BY <1>1, <2>2 DEF ReqState
  <2> QED
    BY <1>3, <1>4, <2>3, <2>4 DEF Good
<1>11. ASSUME WriteStatus(r) PROVE Ends
  <2>1. CASE req[r].op = "retry"
    <3>1. Goto(r, "xadd")
      BY <1>11, <2>1 DEF WriteStatus
    <3> QED
      BY <1>6, <3>1
  <2>2. CASE req[r].op = "status" /\ req[r].goal = "accepted"
    <3>1. req' = [req EXCEPT ![r].pc = "find", ![r].op = "enqueue"]
      BY <1>11, <2>2, Zenon DEF WriteStatus
    <3>2. PICK y : y = [req[r] EXCEPT !.pc = "find", !.op = "enqueue"]
      OBVIOUS
    <3>3. req' = [req EXCEPT ![r] = y]
      BY <3>1, <3>2, Zenon
    <3>4. y.pc = "find" /\ y.goal = req[r].goal /\ y.saw = req[r].saw
      BY <1>1, <3>2 DEF ReqState
    <3> QED
      BY <1>3, <1>4, <3>3, <3>4 DEF Good
  <2>3. CASE req[r].op # "retry" /\ ~(req[r].op = "status" /\ req[r].goal = "accepted")
    BY <1>5, <1>11, <2>3 DEF WriteStatus
  <2> QED
    BY <2>1, <2>2, <2>3
<1>12. ASSUME MarkEnqueueFailed(r) PROVE Ends
  <2>1. CASE req[r].op = "retry"
    <3>1. req' = [req EXCEPT ![r].pc = "check", ![r].op = "restore",
                             ![r].goal = req[r].saw]
      BY <1>12, <2>1, Zenon DEF MarkEnqueueFailed
    <3>2. PICK y : y = [req[r] EXCEPT !.pc = "check", !.op = "restore",
                                      !.goal = req[r].saw]
      OBVIOUS
    <3>3. req' = [req EXCEPT ![r] = y]
      BY <3>1, <3>2, Zenon
    <3>4. y.pc = "check" /\ y.goal = req[r].saw /\ y.saw = req[r].saw
      BY <1>1, <3>2 DEF ReqState
    <3> QED
      BY <1>3, <1>4, <3>3, <3>4 DEF Good
  <2>2. CASE req[r].op # "retry"
    BY <1>5, <1>12, <2>2 DEF MarkEnqueueFailed
  <2> QED
    BY <2>1, <2>2
<1>13. Ends
  BY <1>7, <1>8, <1>9, <1>10, <1>11, <1>12 DEF RequestStep
<1> QED
  BY <1>13 DEF Ends, Good

\* No step of a worker does.
LEMMA WorkerGivesNothingUp ==
  ASSUME TypeInv, NobodyGivesUp, NEW w \in Worker,
         WorkerStep(w) \/ ReadReplyLost(w) \/ AckFails(w) \/ WorkerCrash(w)
  PROVE  \A v \in Worker : wk'[v].goal \notin GivenUp
<1>1. wk[w] \in WorkerState /\ wk \in [Worker -> WorkerState]
  BY DEF TypeInv, TypeOK
<1> DEFINE Good == OtherWorkers(w) /\ wk'[w].goal \notin GivenUp
<1>2. ASSUME NEW y, wk' = [wk EXCEPT ![w] = y], y.goal = "none" PROVE Good
  BY <1>1, <1>2 DEF OtherWorkers, GivenUp
<1>3. \A pc : Step(w, pc) => Good
  BY WorkerMoves DEF NobodyGivesUp
<1>4. ASSUME NEW pc, NEW goal, wk' = [wk EXCEPT ![w].pc = pc, ![w].goal = goal],
             goal \notin GivenUp
      PROVE  Good
  BY <1>4, WorkerAims
<1>5. ASSUME NextMessage(w) PROVE Good
  <2>1. CASE wk[w].next = None
    <3>1. wk' = [wk EXCEPT ![w] = NoMessage]
      BY <1>5, <2>1, Zenon DEF NextMessage
    <3> QED
      BY <1>2, <3>1 DEF NoMessage
  <2>2. CASE wk[w].next # None
    <3>1. PICK y : y = [NoMessage EXCEPT !.pc = "start", !.job = wk[w].next]
      OBVIOUS
    <3>2. wk' = [wk EXCEPT ![w] = y]
      BY <1>5, <2>2, <3>1, Zenon DEF NextMessage
    <3>3. y.goal = "none"
      BY <3>1 DEF NoMessage
    <3> QED
      BY <1>2, <3>2, <3>3
  <2> QED
    BY <2>1, <2>2
<1> HIDE DEF Good
<1>6. ASSUME ReadMessages(w) \/ WorkerCrash(w) PROVE Good
  <2>1. Fetched.goal = "none" /\ NoMessage.goal = "none"
    BY DEF Fetched, NoMessage
  <2> QED
    BY <1>2, <1>6, <2>1 DEF ReadMessages, WorkerCrash
<1>7. ASSUME Observe(w) PROVE Good
  <2>1. StartsAs(ItemOf(w)) \notin GivenUp
    BY DEF StartsAs, GivenUp
  <2>2. \/ wk' = [wk EXCEPT ![w].pc = "check", ![w].goal = StartsAs(ItemOf(w))]
        \/ Step(w, "run") \/ Step(w, "record")
    BY <1>7, Zenon DEF Observe
  <2> QED
    BY <1>3, <1>4, <2>1, <2>2
<1>8. ASSUME RecordResult(w) PROVE Good
  <2>1. PICK goal : goal = StatusAfter(result[wk[w].job])
    OBVIOUS
  <2>2. goal \notin GivenUp
    BY <2>1 DEF StatusAfter, GivenUp
  <2>3. \/ wk' = [wk EXCEPT ![w].pc = "record_write", ![w].goal = goal]
        \/ Step(w, "complete")
    BY <1>8, <2>1, Zenon DEF RecordResult
  <2> QED
    BY <1>3, <1>4, <2>2, <2>3
<1>9. ASSUME CheckFailed(w) PROVE Good
  <2>1. \/ wk' = [wk EXCEPT ![w].pc = "fail_write", ![w].goal = "reviewing"]
        \/ Step(w, "bury")
    BY <1>9, Zenon DEF CheckFailed
  <2>2. "reviewing" \notin GivenUp
    BY DEF GivenUp
  <2> QED
    BY <1>3, <1>4, <2>1, <2>2
<1>10. ASSUME \/ MarkRunning(w) \/ CheckStart(w) \/ WriteStart(w) \/ Run(w)
              \/ WriteResult(w) \/ MarkCompleted(w) \/ WriteFailed(w)
              \/ Bury(w) \/ AckFails(w)
       PROVE  Good
  BY <1>3, <1>10 DEF MarkRunning, CheckStart, WriteStart, Run, WriteResult,
     MarkCompleted, WriteFailed, Bury, AckFails
<1>11. ASSUME MarkFailed(w) \/ Ack(w) \/ AckDead(w) PROVE Good
  <2>1. \/ Step(w, "fail_check") \/ Step(w, "bury") \/ NextMessage(w)
    BY <1>11, Zenon DEF MarkFailed, Ack, AckDead
  <2> QED
    BY <1>3, <1>5, <2>1
<1>12. Good \/ wk' = wk
  BY <1>6, <1>7, <1>8, <1>9, <1>10, <1>11 DEF WorkerStep, ReadReplyLost
<1> QED
  BY <1>12 DEF Good, OtherWorkers, NobodyGivesUp

\* What is written into a row.
LEMMA StatusesWritten ==
  ASSUME TypeInv, NobodyGivesUp, [Next]_vars
  PROVE  \A i \in Item : \/ status'[i] = status[i]
                         \/ status'[i] \in WorkStatus \ GivenUp
<1>1. status \in [Item -> WorkStatus \cup {"absent"}] /\ SelfPatch \subseteq Item
  BY PipelineAssumption DEF TypeInv, TypeOK
<1>2. {"proposed", "accepted"} \subseteq WorkStatus \ GivenUp
  BY DEF WorkStatus, GivenUp
<1>3. ASSUME NEW i \in Item, NEW g \in WorkStatus \ GivenUp,
             status' = [status EXCEPT ![i] = g]
      PROVE  \A k \in Item : \/ status'[k] = status[k]
                             \/ status'[k] \in WorkStatus \ GivenUp
  BY <1>1, <1>3
<1>4. ASSUME NEW i \in Item, CreateItem(i)
      PROVE  status' = [status EXCEPT ![i] = "proposed"]
  BY <1>4 DEF CreateItem
<1>5. ASSUME NEW r \in Request, CreateChild(r)
      PROVE  \E c \in SelfPatch : status' = [status EXCEPT ![c] = "accepted"]
  BY <1>5 DEF CreateChild
<1>6. ASSUME NEW r \in Request, WriteStatus(r)
      PROVE  /\ status' = [status EXCEPT ![req[r].item] = req[r].goal]
             /\ req[r].item \in Item /\ req[r].goal \in WorkStatus \ GivenUp
  BY <1>6 DEF WriteStatus, TypeInv, ControlInv, RequestOK, NobodyGivesUp
<1>7. ASSUME NEW w \in Worker, WriteStart(w) \/ WriteResult(w) \/ WriteFailed(w)
      PROVE  /\ status' = [status EXCEPT ![ItemOf(w)] = wk[w].goal]
             /\ wk[w].goal \in WorkStatus \ GivenUp
  BY <1>7 DEF WriteStart, WriteResult, WriteFailed, WriteItem, TypeInv, ControlInv,
              WorkerOK, NobodyGivesUp
<1>8. ASSUME NEW w \in Worker, WriteStart(w) \/ WriteResult(w) \/ WriteFailed(w)
      PROVE  \A k \in Item : \/ status'[k] = status[k]
                             \/ status'[k] \in WorkStatus \ GivenUp
  BY <1>1, <1>7, <1>8
<1>9. \/ \E i \in Item : CreateItem(i)
      \/ \E r \in Request : CreateChild(r) \/ WriteStatus(r)
      \/ \E w \in Worker : WriteStart(w) \/ WriteResult(w) \/ WriteFailed(w)
      \/ status' = status
  BY DEF Next, RequestStart, RequestStep, WorkerStep, FaultStep, StatusRequest,
         EnqueueRequest, RetryRequest, PromoteRequest, FindChild, FindJob, CreateJob,
         CheckStatus, Xadd, MarkQueued, MarkEnqueueFailed, ReadMessages, MarkRunning,
         Observe, CheckStart, Run, RecordResult, MarkCompleted, Ack, MarkFailed,
         CheckFailed, Bury, AckDead, XaddFails, XaddReplyLost, ApiRestart,
         ReadReplyLost, AckFails, WorkerCrash, vars, ledger
<1> QED
  BY <1>1, <1>2, <1>3, <1>4, <1>5, <1>6, <1>8, <1>9

\* Children are made by promotions only.
LEMMA ParentsWritten ==
  ASSUME [Next]_vars
  PROVE  parent' = parent \/ \E r \in Request : CreateChild(r)
BY DEF Next, RequestStart, RequestStep, WorkerStep, FaultStep, CreateItem,
       StatusRequest, EnqueueRequest, RetryRequest, PromoteRequest, FindChild,
       FindJob, CreateJob, CheckStatus, WriteStatus, Xadd, MarkQueued,
       MarkEnqueueFailed, ReadMessages, MarkRunning, Observe, CheckStart, WriteStart,
       Run, RecordResult, WriteResult, MarkCompleted, Ack, MarkFailed, CheckFailed,
       WriteFailed, Bury, AckDead, XaddFails, XaddReplyLost, ApiRestart,
       ReadReplyLost, AckFails, WorkerCrash, vars, ledger

\* A promotion turns one absent item into a child of the promoted one.
LEMMA ChildMade ==
  ASSUME TypeInv, NEW r \in Request, CreateChild(r)
  PROVE  /\ req[r].pc = "child" /\ req[r].item \in Item
         /\ \E c \in SelfPatch :
              /\ status[c] = "absent" /\ status'[c] = "accepted"
              /\ parent'[c] = req[r].item
              /\ \A i \in Item : i # c => parent'[i] = parent[i]
<1>1. /\ status \in [Item -> WorkStatus \cup {"absent"}]
      /\ parent \in [Item -> Item \cup {None}]
      /\ SelfPatch \subseteq Item
  BY PipelineAssumption DEF TypeInv, TypeOK
<1>2. PICK c \in SelfPatch : /\ status[c] = "absent"
                             /\ status' = [status EXCEPT ![c] = "accepted"]
                             /\ parent' = [parent EXCEPT ![c] = req[r].item]
  BY Zenon DEF CreateChild
<1>3. /\ status'[c] = "accepted" /\ parent'[c] = req[r].item
      /\ \A i \in Item : i # c => parent'[i] = parent[i]
  BY <1>1, <1>2
<1>4. req[r].pc = "child" /\ req[r].item \in Item
  BY DEF CreateChild, TypeInv, ControlInv, RequestOK
<1> QED
  BY <1>2, <1>3, <1>4

\* Nothing is given up by any step.
LEMMA NextGivesNothingUp ==
  ASSUME UserGoals \cap GivenUp = {}, TypeInv, NobodyGivesUp, [Next]_vars
  PROVE  NobodyGivesUp'
<1>1. \A i \in Item : status'[i] \notin GivenUp
  BY StatusesWritten DEF NobodyGivesUp
<1>2. ASSUME NEW i \in Item, parent'[i] # None PROVE status'[i] # "absent"
  <2>1. "absent" \notin WorkStatus
    BY DEF WorkStatus
  <2>2. CASE parent'[i] = parent[i]
    BY <1>2, <2>1, <2>2, StatusesWritten DEF NobodyGivesUp
  <2>3. CASE parent'[i] # parent[i]
    <3>1. PICK r \in Request : CreateChild(r)
      BY <2>3, ParentsWritten
    <3> QED
      BY <2>3, <3>1, ChildMade
  <2> QED
    BY <2>2, <2>3
<1>3. \A r \in Request : req'[r].goal \notin GivenUp /\ req'[r].saw \notin GivenUp
  <2>1. ASSUME NEW r \in Request,
               RequestStart(r) \/ RequestStep(r) \/ XaddFails(r) \/ XaddReplyLost(r)
        PROVE  \A s \in Request : req'[s].goal \notin GivenUp /\ req'[s].saw \notin GivenUp
    BY <2>1, RequestGivesNothingUp DEF OtherRequests, NobodyGivesUp
  <2>2. CASE ApiRestart
    BY <2>2 DEF ApiRestart, NoRequest, GivenUp
  <2>3. CASE req' = req
    BY <2>3 DEF NobodyGivesUp
  <2> QED
    BY <2>1, <2>2, <2>3, WorkerLeaves DEF Next, FaultStep, CreateItem, vars
<1>4. \A w \in Worker : wk'[w].goal \notin GivenUp
  <2>1. CASE wk' = wk
    BY <2>1 DEF NobodyGivesUp
  <2> QED
    BY <2>1, ApiLeaves, WorkerGivesNothingUp DEF Next, FaultStep, vars
<1> QED
  BY <1>1, <1>2, <1>3, <1>4 DEF NobodyGivesUp

\* The second child is not made.
LEMMA NextOnlyChild ==
  ASSUME UserGoals \cap GivenUp = {}, TypeInv, NobodyGivesUp, OneRequest, OnlyChild,
         [Next]_vars
  PROVE  OnlyChild'
<1>1. \A c \in SelfPatch : c \in Item
  BY PipelineAssumption
<1>2. ASSUME NEW r \in Request, FindChild(r), req'[r].pc = "child"
      PROVE  /\ req'[r].item = req[r].item
             /\ \A c \in SelfPatch : parent'[c] # req[r].item
  <2>1. ReusableChildren(req[r].item) = {} /\ Goto(r, "child") /\ parent' = parent
    BY <1>2, RequestMoves DEF FindChild, ledger
  <2>2. req[r].item \in Item
    BY <1>2 DEF FindChild, TypeInv, ControlInv, RequestOK
  <2>3. req'[r].item = req[r].item
    BY <2>1, RequestMoves
  <2>4. \A c \in SelfPatch : parent[c] # req[r].item
    <3> SUFFICES ASSUME NEW c \in SelfPatch, parent[c] = req[r].item PROVE FALSE
      OBVIOUS
    <3>1. status[c] \notin GivenUp /\ status[c] # "absent"
      BY <1>1, <2>2, PipelineAssumption DEF NobodyGivesUp
    <3> QED
      BY <2>1, <3>1 DEF ReusableChildren, GivenUp
  <2> QED
    BY <2>1, <2>3, <2>4
<1>3. ASSUME NEW r \in Request, req'[r].pc = "child"
      PROVE  \/ FindChild(r)
             \/ req'[r] = req[r]
  <2>1. ASSUME NEW s \in Request,
               RequestStart(s) \/ RequestStep(s) \/ XaddFails(s) \/ XaddReplyLost(s)
        PROVE  FindChild(r) \/ req'[r] = req[r]
    BY <1>3, <2>1, RequestGivesNothingUp DEF OtherRequests
  <2>2. ~ApiRestart
    BY <1>3 DEF ApiRestart, NoRequest
  <2> QED
    BY <2>1, <2>2, WorkerLeaves DEF Next, FaultStep, CreateItem, vars
<1>4. CASE parent' = parent
  <2>1. ASSUME NEW r \in Request, req'[r].pc = "child", NEW c \in SelfPatch
        PROVE  parent'[c] # req'[r].item
    BY <1>2, <1>3, <1>4, <2>1 DEF OnlyChild
  <2> QED
    BY <1>4, <2>1 DEF OnlyChild
<1>5. ASSUME NEW r \in Request, CreateChild(r) PROVE OnlyChild'
  <2>1. PICK c \in SelfPatch :
          /\ parent'[c] = req[r].item
          /\ \A i \in Item : i # c => parent'[i] = parent[i]
    BY <1>5, ChildMade
  <2>2. req[r].pc = "child" /\ \A d \in SelfPatch : parent[d] # req[r].item
    BY <1>5 DEF CreateChild, OnlyChild
  <2>3. \A d, e \in SelfPatch :
          parent'[d] = parent'[e] /\ parent'[d] # None => d = e
    BY <1>1, <2>1, <2>2 DEF OnlyChild
  <2>4. \A s \in Request : req'[s].pc # "child"
    <3>1. req'[r].pc # "child" /\ OtherRequests(r)
      <4>1. RequestStep(r)
        BY <1>5 DEF RequestStep
      <4>2. ~FindChild(r)
        BY <2>2 DEF FindChild
      <4> QED
        BY <4>1, <4>2, RequestGivesNothingUp
    <3> QED
      BY <2>2, <3>1 DEF OneRequest, OtherRequests
  <2> QED
    BY <2>3, <2>4 DEF OnlyChild
<1> QED
  BY <1>4, <1>5, ParentsWritten

\* ChildInv is preserved.
LEMMA NextChildInv ==
  ASSUME UserGoals \cap GivenUp = {}, TypeInv, ChildInv,
         [HistoryNext]_<<vars, doubt>>
  PROVE  ChildInv'
<1>1. [Next]_vars
  BY DEF HistoryNext
<1>2. NobodyGivesUp'
  BY <1>1, NextGivesNothingUp DEF ChildInv
<1>3. ASSUME ~doubt' PROVE OneRequest' /\ OnlyChild'
  <2>1. ~doubt
    <3>1. CASE HistoryNext
      BY <1>3, <3>1, Zenon DEF HistoryNext
    <3> QED
      BY <1>3, <3>1
  <2>2. OnlyChild'
    BY <1>1, <2>1, NextOnlyChild DEF ChildInv
  <2>3. OneRequest'
    <3>1. CASE HistoryNext
      <4>1. ~Overlapping
        BY <1>3, <3>1, Zenon DEF HistoryNext
      <4> QED
        BY <4>1 DEF Overlapping, OneRequest
    <3>2. CASE UNCHANGED <<vars, doubt>>
      BY <2>1, <3>2 DEF vars, ChildInv, OneRequest
    <3> QED
      BY <3>1, <3>2
  <2> QED
    BY <2>2, <2>3
<1> QED
  BY <1>2, <1>3 DEF ChildInv

\* A promoted item keeps one child, when no user asks for a status that gives one
\* up, as long as requests come one at a time: OneChildWhenSerial.
THEOREM OneChildAlways ==
  ASSUME UserGoals \cap GivenUp = {}
  PROVE  HistorySpec => []OneChildWhenSerial
<1>1. HistoryInit => TypeInv /\ ChildInv
  <2> SUFFICES ASSUME Init PROVE TypeInv /\ NobodyGivesUp /\ OneRequest /\ OnlyChild
    BY DEF HistoryInit, ChildInv
  <2>1. TypeInv
    BY InitTypeInv
  <2>2. \A r \in Request : req[r].pc = "idle" /\ req[r].goal = "none" /\ req[r].saw = "none"
    BY DEF Init, NoRequest
  <2>3. \A w \in Worker : wk[w].goal = "none"
    BY DEF Init, NoMessage
  <2>4. \A i \in Item : status[i] = "absent" /\ parent[i] = None
    BY DEF Init
  <2>5. NobodyGivesUp
    BY <2>2, <2>3, <2>4 DEF NobodyGivesUp, GivenUp
  <2>6. OneRequest /\ OnlyChild
    BY <2>2, <2>4, PipelineAssumption DEF OneRequest, OnlyChild
  <2> QED
    BY <2>1, <2>5, <2>6
<1>2. TypeInv /\ ChildInv /\ [HistoryNext]_<<vars, doubt>> => (TypeInv /\ ChildInv)'
  <2>1. [HistoryNext]_<<vars, doubt>> => [Next]_vars
    BY DEF HistoryNext
  <2> QED
    BY <2>1, NextTypeInv, NextChildInv
<1>3. ChildInv => OneChildWhenSerial
  BY DEF ChildInv, OnlyChild, OneChildWhenSerial, OneLiveChild
<1> QED
  BY <1>1, <1>2, <1>3, PTL DEF HistorySpec
=============================================================================
