---------------------------- MODULE MCBotSession ----------------------------
(* Two messages; three actions of the catalog and the tasks that tell apart   *)
(* what auto may run, what do runs and what the gate holds back.              *)
EXTENDS BotSession, TLC

MCAction == {"get_uptime", "run_safe_benchmark", "write_file"}

Entry(risk, effect, approval) ==
    [status |-> "active", risk |-> risk, side_effect |-> effect,
     requires_approval |-> approval, targets |-> {"local", "orangepi5"}]

MCCatalog ==
    [a \in MCAction |-> IF a = "write_file" THEN Entry("medium", TRUE, TRUE)
                        ELSE Entry("low", FALSE, FALSE)]

MCExecutor ==
    [a \in MCAction |-> CASE a = "get_uptime" -> "readonly_system"
                          [] a = "run_safe_benchmark" -> "benchmark"
                          [] OTHER -> "write_file"]

MCSpecOf ==
    [t \in {"uptime", "bench", "write"} |->
        CASE t = "uptime" -> ReadonlyTask("get_uptime")
          [] t = "bench"  -> [ReadonlyTask("run_safe_benchmark") EXCEPT !.allowed =
                                 <<"run_safe_benchmark">>]
          [] OTHER        -> [ReadonlyTask("write_file") EXCEPT !.risk = "medium",
                                 !.requires_approval = TRUE]]

MCWeight == [w \in {"uptime"} |-> [a \in MCAction |-> IF a = "get_uptime" THEN 6 ELSE 1]]

Sym == Permutations(Message)
=============================================================================
