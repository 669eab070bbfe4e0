----------------------------- MODULE SlotDataset ------------------------------
(***************************************************************************)
(* replay/slot_dataset.py: the rows of a snapshot form a group, which goes *)
(* into the balanced training set as a whole or not at all.  A group is    *)
(* judged by what its rows show; the groups of the highest priority are    *)
(* taken first, up to the quota of their family.                           *)
(***************************************************************************)
EXTENDS Counterfactual

Rows(w, s) == ToSet(Candidates(w, s))

Succeeds(w, s, a) == Succeeded(w, Effect(w, s, a))

Informs(w, s, a) == InformationGain(w, s, a) > 0

Advances(w, s, a) == ProgressDelta(w, s, a) > 0

\* _is_information_action
InformationAction(a) == Name(a) \in {"inspect", "search", "read"}

\* _is_post_reveal_execution
PostRevealExecution(w, s, a) ==
    /\ LastObservation(w, s).by # "none"
    /\ CurrentSlotKnown(w, s)
    /\ ~InformationAction(a)

\* _is_post_setup_correct_action: what it takes for correct is the belief's word.
PostSetupCorrect(w, s, a) ==
    /\ PostSetupExecution(w, s, a)
    /\ SetupState(w, s) = "post_setup_done"
    /\ a = BeliefOf(w, s).required

\* The flags of a CandidateGroupSummary, as _scan_slot_dataset gathers them.
Group(w, s) ==
    LET some(P(_)) == \E a \in Rows(w, s) : P(a)
        setUp(a) == PostSetupExecution(w, s, a)
        good(a) == Advances(w, s, a) \/ Succeeds(w, s, a)
    IN  [success      |-> some(LAMBDA a : Succeeds(w, s, a)),
         informs      |-> some(LAMBDA a : Informs(w, s, a)),
         revealed     |-> some(LAMBDA a : PostRevealExecution(w, s, a)),
         setUp        |-> some(setUp),
         setUpGood    |-> some(LAMBDA a : setUp(a) /\ good(a)),
         setUpCorrect |-> some(LAMBDA a : PostSetupCorrect(w, s, a)),
         moved        |-> some(LAMBDA a : ProgressDelta(w, s, a) # 0)]

\* Mutant: what is right after a setup earns no more than an execution.
PriorityUnset(w, s) ==
    LET g == Group(w, s) IN
      If(g.setUp, 120) + If(g.informs, 100) + If(g.revealed, 80)
        + If(Mode(w, s) # "visible", 30) + If(g.success, 10) + If(g.moved, 5)

\* _group_priority; of equals the smaller goes first.
Priority(w, s) ==
    LET g == Group(w, s) IN
      If(g.setUpCorrect, 140) + If(g.setUpGood, 130) + If(g.setUp, 120)
        + If(g.informs, 100) + If(g.revealed, 80)
        + If(Mode(w, s) # "visible", 30) + If(g.success, 10) + If(g.moved, 5)
=============================================================================
