--------------------------- MODULE MCTaskRuntime ---------------------------
(***************************************************************************)
(* Instances of TaskRuntime: a catalog with one action of every kind the   *)
(* gate tells apart, and small sets of task specifications; and whether    *)
(* requests for one task have overlapped so far.                           *)
(***************************************************************************)
EXTENDS TaskRuntime

Def(st, risk, se, ra) == [status |-> st, risk |-> risk, side_effect |-> se,
                          requires_approval |-> ra, targets |-> {"local"}]

MCCatalog ==
    [a \in Action |->
       CASE a = "get_uptime"      -> Def("active", "low", FALSE, FALSE)
         [] a = "get_waiting_probe" -> Def("activation_candidate", "low", FALSE, FALSE)
         [] a = "write_file"      -> Def("active", "medium", TRUE, TRUE)
         [] OTHER                 -> Def("active", "low", TRUE, FALSE)]

TaskOf(allowed, ra, mode) ==
    [allowed |-> allowed, blocked |-> {}, target |-> "local", risk |-> "low",
     requires_approval |-> ra, mode |-> mode]

DeniedTask   == TaskOf(<<"get_waiting_probe">>, FALSE, "readonly")
WriteTask    == TaskOf(<<"write_file">>, FALSE, "readonly")
MixedTask    == TaskOf(<<"write_file", "get_uptime">>, FALSE, "readonly")
ApprovedTask == TaskOf(<<"get_uptime">>, TRUE, "readonly")
DryTask      == TaskOf(<<"get_uptime">>, TRUE, "dry_run")
EmptyTask    == TaskOf(<<>>, FALSE, "readonly")

EverySpec == {DeniedTask, MixedTask, ApprovedTask, DryTask, EmptyTask}
WriteOnly == {WriteTask}

EveryOp == [h \in Thread |-> Op]

CreateAndRun == [h \in Thread |-> {"create", "run"}]

-----------------------------------------------------------------------------
VARIABLE overlapped   \* see Overlapping

Works(x)   == x.op \in {"create", "run"}
Answers(x) == x.op \in {"approve", "reject"}

\* A task is run while it is still being created, or two runs of one task, or
\* two answers about it, are served at the same time.
Overlapping ==
    \E g, h \in Thread :
        /\ g # h
        /\ thread'[g].task = thread'[h].task
        /\ \/ Works(thread'[g]) /\ Works(thread'[h])
           \/ Answers(thread'[g]) /\ Answers(thread'[h])

HistoryInit == Init /\ overlapped = FALSE
HistoryNext == Next /\ overlapped' = (overlapped \/ Overlapping)

HistorySpec == HistoryInit /\ [][HistoryNext]_<<vars, overlapped>>

HistoryFairSpec ==
    HistorySpec /\ \A h \in Thread : WF_vars(Continue(h))

\* "task is not runnable": while requests for one task do not overlap so its
\* action is executed once at most, restarts in the middle of a run included.
ExecutedOnceWhenSerial == ~overlapped => ExecutedAtMostOnce

\* A run that was begun settles its task, unless requests overlapped so, the
\* API process was restarted, or the gate asked for an approval.
RunSettlesWhenSerial ==
    \A t \in Task :
        status[t] \in {"running", "deciding", "executing", "evaluating"}
            ~> \/ status[t] \in Terminal
               \/ overlapped
               \/ restarts > 0
               \/ \E a \in Action : <<a, "requires_approval">> \in decided[t]
=============================================================================
