----------------------------- MODULE WorkStates -----------------------------
(***************************************************************************)
(* The two transition tables of harness/work_states.py: which status a     *)
(* work item or a capability proposal may be given next.  The functions    *)
(* allowed_work_next_statuses and allowed_proposal_next_statuses look a    *)
(* status up and answer the empty set for one they do not know.            *)
(***************************************************************************)

WorkStatus ==
    {"proposed", "accepted", "planned", "running", "blocked",
     "waiting_approval", "reviewing", "deferred", "rejected", "completed",
     "failed", "cancelled", "archived"}

WorkNext(s) ==
    CASE s = "proposed" ->
            {"accepted", "planned", "running", "waiting_approval", "rejected",
             "deferred", "cancelled", "completed", "failed"}
      [] s = "accepted" ->
            {"planned", "running", "waiting_approval", "blocked", "cancelled",
             "completed", "failed"}
      [] s = "planned" ->
            {"running", "blocked", "waiting_approval", "cancelled",
             "completed", "failed"}
      [] s = "running" ->
            {"blocked", "waiting_approval", "reviewing", "completed",
             "failed", "cancelled"}
      [] s = "blocked" ->
            {"planned", "running", "waiting_approval", "cancelled", "failed"}
      [] s = "waiting_approval" ->
            {"planned", "running", "reviewing", "completed", "rejected",
             "cancelled"}
      [] s = "reviewing" -> {"running", "completed", "failed", "cancelled"}
      [] s = "deferred" -> {"proposed", "planned", "cancelled"}
      [] s = "failed" -> {"planned", "running", "archived"}
      [] s \in {"completed", "cancelled"} -> {"archived"}
      [] OTHER -> {}

ProposalStatus ==
    {"proposed", "deferred", "approved_for_dev", "active", "duplicate",
     "unsafe", "rejected", "archived"}

ProposalNext(s) ==
    CASE s = "proposed" ->
            {"approved_for_dev", "rejected", "deferred", "duplicate", "unsafe"}
      [] s = "deferred" -> {"proposed", "approved_for_dev", "rejected"}
      [] s = "approved_for_dev" -> {"active", "deferred", "rejected"}
      [] s = "active" -> {"archived"}
      [] OTHER -> {}

=============================================================================
