-------------------------- MODULE WorkPipelineInv ---------------------------
(***************************************************************************)
(* The inductive invariant behind the message properties of WorkPipeline.  *)
(* WorkPipelineProofs proves it.                                           *)
(***************************************************************************)
EXTENDS WorkPipeline

\* A request that has created its job and not yet sent the job's message.
Sending(x) ==
    \/ x.pc = "xadd"
    \/ x.pc \in {"check", "write"} /\ x.op = "retry"

\* What a request's position says about its own fields.
RequestOK(x) ==
    /\ x.pc # "idle" => x.item \in Item
    /\ x.pc \in {"check", "write"} => x.goal \in WorkStatus
    /\ x.op = "retry" => x.saw \in WorkStatus /\ x.goal = "running"
    /\ Sending(x) \/ x.pc \in {"mark_queued", "mark_failed"} => x.job \in Job

\* What a worker's position says about its own fields.
WorkerOK(x) ==
    /\ x.pc = "idle" => x.job = None /\ x.next = None
    /\ x.pc # "idle" => x.job \in Job
    /\ x.pc \in {"check", "write", "record_write", "fail_write"} =>
          x.goal \in WorkStatus

ControlInv ==
    /\ \A r \in Request : RequestOK(req[r])
    /\ \A w \in Worker : WorkerOK(wk[w])

Holds(r) == Sending(req[r])

HandedOut == pending \cup acked

\* A message sits at one place of one stream, before any worker has it.
StreamInv ==
    /\ \A q \in Queue : \A n \in 1..Len(stream[q]) :
        /\ stream[q][n] \notin HandedOut
        /\ jobItem[stream[q][n]] \in Item
        /\ QueueOf(jobItem[stream[q][n]]) = q
        /\ \A m \in 1..Len(stream[q]) : stream[q][m] = stream[q][n] => m = n

\* A job that a request has yet to send is its alone and nowhere in Redis.
SenderInv ==
    /\ \A r \in Request : Holds(r) =>
        /\ req[r].job \notin HandedOut
        /\ ~Unread(req[r].job)
        /\ jobItem[req[r].job] \in Item
        /\ jobStatus[req[r].job] # "absent"
    /\ \A r, s \in Request :
        Holds(r) /\ Holds(s) /\ req[r].job = req[s].job => r = s
    /\ \A j \in Job : jobStatus[j] = "absent" => j \notin HandedOut /\ ~Unread(j)

\* Positions of a worker from which it may have acknowledged its message.
Failing == {"fail", "fail_check", "fail_write", "bury", "ack_dead"}

\* A worker holds messages that were delivered to it and to no one else.
HolderInv ==
    /\ pending \cap acked = {}
    /\ \A w \in Worker :
        /\ wk[w].pc # "idle" => wk[w].job \in HandedOut
        /\ wk[w].pc \notin Failing \cup {"idle"} => wk[w].job \in pending
        /\ wk[w].next # None => wk[w].next \in pending /\ wk[w].next # wk[w].job
    /\ \A v, w \in Worker : v # w =>
        /\ wk[v].job \in Job => wk[v].job \notin {wk[w].job, wk[w].next}
        /\ wk[v].next \in Job => wk[v].next # wk[w].next

\* A message is started after it is handed out, and only then.
AttemptInv ==
    /\ \A j \in Job : attempts[j] \in {0, 1}
    /\ \A j \in Job \ HandedOut : attempts[j] = 0
    /\ \A w \in Worker :
        /\ wk[w].pc = "start" => attempts[wk[w].job] = 0
        /\ wk[w].pc \notin {"idle", "start"} => attempts[wk[w].job] = 1
        /\ wk[w].next # None => attempts[wk[w].next] = 0

\* The ledger or the dead-letter stream has the job before XACK is sent.
SettleInv ==
    /\ AckedIsAccounted
    /\ RunningIsPending
    /\ \A w \in Worker :
        /\ wk[w].pc = "ack" => wk[w].job \in recorded
        /\ wk[w].pc = "ack_dead" => wk[w].job \in dead
        /\ wk[w].pc \in {"ack"} \cup (Failing \ {"fail"}) =>
              jobStatus[wk[w].job] # "running"

TypeInv    == TypeOK /\ ControlInv
MessageInv == StreamInv /\ SenderInv /\ HolderInv /\ AttemptInv
IInv       == TypeInv /\ MessageInv /\ SettleInv
=============================================================================
