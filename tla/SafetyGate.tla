----------------------------- MODULE SafetyGate -----------------------------
(***************************************************************************)
(* What a task asks for and what the safety gate answers                   *)
(* (harness/task_spec.py, harness/safety_gate.py, the candidate choice of  *)
(* harness/service.py).  Operators only: a task specification never        *)
(* changes after create_task stored it, and neither does the catalog after *)
(* the service has been built.                                             *)
(*                                                                         *)
(* Left out of a specification: goal, context, success criteria, rollback  *)
(* plan and timeout, which the gate does not read.                         *)
(***************************************************************************)
EXTENDS Naturals, Sequences

CONSTANTS
    Action,   \* action ids of the catalog
    Catalog   \* their definitions

Risk   == {"none", "low", "medium", "high", "forbidden"}
Target == {"local", "orangepi5"}
Mode   == {"dry_run", "dry_run_or_readonly", "readonly"}

ActionStatus == {"proposed", "drafted", "tested", "activation_candidate",
                 "active", "disabled", "deprecated", "rejected"}

ActionDefinition == [status : ActionStatus, risk : Risk, side_effect : BOOLEAN,
                     requires_approval : BOOLEAN, targets : SUBSET Target]

ASSUME CatalogAssumption == Catalog \in [Action -> ActionDefinition]

TaskSpec == [allowed : Seq(Action), blocked : SUBSET Action, target : Target,
             risk : Risk, requires_approval : BOOLEAN, mode : Mode]

Elements(s) == {s[n] : n \in DOMAIN s}

NeedsApproval == {"medium", "high", "forbidden"}

\* task_spec_from_dict raises TaskSpecError on anything else.
AcceptsTaskSpec(s) ==
    /\ s \in TaskSpec
    /\ \A m, n \in DOMAIN s.allowed : s.allowed[m] = s.allowed[n] => m = n
    /\ Elements(s.allowed) \cap s.blocked = {}
    /\ s.risk \in NeedsApproval => s.requires_approval

-----------------------------------------------------------------------------
Decision == {"allow", "deny", "requires_approval", "dry_run_only"}

Denied(s, a) ==
    \/ a \notin Action
    \/ Catalog[a].status # "active"
    \/ a \in s.blocked
    \/ s.allowed # <<>> /\ a \notin Elements(s.allowed)
    \/ s.target \notin Catalog[a].targets
    \/ Catalog[a].risk = "forbidden"

\* Mutant: the task's own requires_approval is not looked at.
GatedByCatalogOnly(s, a) ==
    \/ Catalog[a].requires_approval
    \/ Catalog[a].risk \in {"medium", "high"}

\* The condition under which an approval decides; without one the action
\* waits for it.
Gated(s, a) ==
    \/ Catalog[a].requires_approval
    \/ Catalog[a].risk \in {"medium", "high"}
    \/ s.requires_approval

CheckActionSafety(s, a, approved) ==
    CASE Denied(s, a)            -> "deny"
      [] ~Denied(s, a) /\ s.mode = "dry_run" -> "dry_run_only"
      [] ~Denied(s, a) /\ s.mode # "dry_run" /\ Gated(s, a) ->
           IF approved THEN "allow" ELSE "requires_approval"
      [] OTHER ->
           IF Catalog[a].side_effect THEN "requires_approval" ELSE "allow"

\* An action that may run without anybody's approval.
Harmless(s, a) ==
    /\ a \in Action \ s.blocked
    /\ Catalog[a].status = "active" /\ s.target \in Catalog[a].targets
    /\ Catalog[a].risk \in {"none", "low"} /\ ~Catalog[a].side_effect
    /\ ~Catalog[a].requires_approval /\ ~s.requires_approval
    /\ s.mode # "dry_run"

-----------------------------------------------------------------------------
\* The positions in s.allowed of the actions that are not blocked.
CandidateActions(s) == {n \in DOMAIN s.allowed : s.allowed[n] \notin s.blocked}

Choice == [action : Action \cup {"none"}, decision : Decision]
NoChoice == [action |-> "none", decision |-> "deny"]

DecisionOn(s, n) == CheckActionSafety(s, s.allowed[n], FALSE)

SomeWith(s, c, D) == \E n \in c : DecisionOn(s, n) \in D

\* The first candidate of c whose decision without approval is in D.
FirstWith(s, c, D) ==
    LET hits == {n \in c : DecisionOn(s, n) \in D}
        n    == CHOOSE m \in hits : \A k \in hits : m =< k
    IN  [action |-> s.allowed[n], decision |-> DecisionOn(s, n)]

\* run never passes an approval to the gate.
ChooseFirstAllowed(s, c) ==
    IF SomeWith(s, c, {"allow", "dry_run_only"})
    THEN FirstWith(s, c, {"allow", "dry_run_only"})
    ELSE IF SomeWith(s, c, {"requires_approval"})
         THEN FirstWith(s, c, {"requires_approval"})
         ELSE NoChoice

\* dry_run reports the first runnable candidate, else the first of all.
DryRunChoice(s) ==
    LET c == CandidateActions(s) IN
    IF SomeWith(s, c, {"allow", "dry_run_only"})
    THEN FirstWith(s, c, {"allow", "dry_run_only"})
    ELSE IF c # {} THEN FirstWith(s, c, Decision) ELSE NoChoice
=============================================================================
