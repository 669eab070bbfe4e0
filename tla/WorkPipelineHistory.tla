------------------------ MODULE WorkPipelineHistory -------------------------
(***************************************************************************)
(* WorkPipeline with a note of what happened so far, for the properties    *)
(* that hold as long as something has not happened, and the inductive      *)
(* invariants behind them.  WorkPipelineProofs proves them.                *)
(***************************************************************************)
EXTENDS WorkPipelineInv

VARIABLE doubt   \* see Overlapping

\* Two requests are served at the same time; or the reply to an XADD is lost; or
\* the XACK of external work fails, which sends a job that is completed to
\* retry_wait.
Overlapping ==
    \/ \E q, r \in Request : q # r /\ req'[q].pc # "idle" /\ req'[r].pc # "idle"
    \/ \E r \in Request : XaddReplyLost(r)
    \/ \E w \in Worker : AckFails(w) /\ ItemOf(w) \notin SelfPatch

HistoryInit == Init /\ doubt = FALSE
HistoryNext == Next /\ doubt' = (doubt \/ Overlapping)

HistorySpec == HistoryInit /\ [][HistoryNext]_<<vars, doubt>>

HistoryFairSpec == HistorySpec /\ Fairness

\* The active_job_exists check of enqueue and the retry check keep their promise
\* as long as requests come one at a time and Redis answers: a work item has one
\* job that is still to be done, and no two workers run the self-patch runner for
\* it, whatever workers and other faults do.
OneJobWhenSerial == ~doubt => OneActiveJob /\ OneRunPerItem

\* A promoted item keeps one child that is not given up, as long as requests come
\* one at a time (and nobody gives up a child that a worker is at work on: these
\* users only accept).
OneChildWhenSerial == ~doubt => OneLiveChild

-----------------------------------------------------------------------------
(***************************************************************************)
(* The invariant behind OneJobWhenSerial, on top of IInv: what a request   *)
(* found out about the jobs of its item still holds when it writes, and a  *)
(* message that was not dealt with belongs to a job that is to be done.    *)
(***************************************************************************)

ToBeDone(j) == jobStatus[j] \in ActiveStatus

\* A request that has a job of its own under way.
Handling(x) == Sending(x) \/ x.pc \in {"mark_queued", "mark_failed"}

\* Positions of a worker whose job is to be done or being done.
Doing == {"start", "observe", "check", "write", "run", "record", "record_write",
          "complete"}

OneRequest ==
    \A q, r \in Request : req[q].pc # "idle" /\ req[r].pc # "idle" => q = r

WorkerToDo(w) ==
    /\ wk[w].next # None => ToBeDone(wk[w].next)
    /\ wk[w].pc \in Doing => ToBeDone(wk[w].job)
    /\ wk[w].pc = "fail" /\ ItemOf(w) \notin SelfPatch => ToBeDone(wk[w].job)

MessagesToDo ==
    /\ \A j \in Job : Unread(j) => ToBeDone(j)
    /\ \A w \in Worker : WorkerToDo(w)

RequestAlone(r) ==
    /\ req[r].pc = "create" => ActiveJobs(req[r].item) = {}
    /\ Holds(r) => ToBeDone(req[r].job)
    /\ req[r].pc = "mark_failed" => req[r].job \notin HandedOut /\ ~Unread(req[r].job)
    /\ Handling(req[r]) =>
         \A j \in Job : ToBeDone(j) /\ jobItem[j] = jobItem[req[r].job] => j = req[r].job

JobsAlone == \A j, k \in Job :
    ToBeDone(j) /\ ToBeDone(k) /\ jobItem[j] = jobItem[k] => j = k

JobInv == ~doubt => /\ OneRequest
                    /\ MessagesToDo
                    /\ \A r \in Request : RequestAlone(r)
                    /\ JobsAlone

-----------------------------------------------------------------------------
(***************************************************************************)
(* The invariant behind OneChildWhenSerial, on top of TypeInv: no status   *)
(* that is written, or on the way, gives an item up, so a request that     *)
(* found no child to reuse found no child at all.                          *)
(***************************************************************************)

GivenUp == {"rejected", "cancelled", "failed", "archived"}

NobodyGivesUp ==
    /\ \A i \in Item : status[i] \notin GivenUp
    /\ \A i \in Item : parent[i] # None => status[i] # "absent"
    /\ \A r \in Request : req[r].goal \notin GivenUp /\ req[r].saw \notin GivenUp
    /\ \A w \in Worker : wk[w].goal \notin GivenUp

OnlyChild ==
    /\ \A r \in Request : req[r].pc = "child" =>
         \A c \in SelfPatch : parent[c] # req[r].item
    /\ \A c, d \in SelfPatch : parent[c] = parent[d] /\ parent[c] # None => c = d

ChildInv == NobodyGivesUp /\ (~doubt => OneRequest /\ OnlyChild)
=============================================================================
