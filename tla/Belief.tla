------------------------------- MODULE Belief --------------------------------
(***************************************************************************)
(* core/belief.py and the encoder of replay/slot_dataset.py: what of a     *)
(* state is shown to a learned model.  A state publishes facts; the belief *)
(* arranges them in slots, each with a value that is known or not; and the *)
(* encoder lays the belief out as features.  Values are the actions that   *)
(* carry them, NoAction is the value "unknown", and slots count from 1, so *)
(* that 0 is the slot of an observation nobody made.                       *)
(***************************************************************************)
EXTENDS ActionGate

-----------------------------------------------------------------------------
(* The facts of a state                                                    *)

HintSeen(s) == 1 \in s.known

\* Mutant: the slots are filled from code and sequence.
AllValues(w, s) ==
    IF Maze(w) THEN [n \in DOMAIN w.doors |-> Move(w.doors[n])] ELSE w.goal

\* What visible_code, visible_sequence and doors hold, slot by slot.
VisibleValues(w, s) ==
    IF Maze(w) THEN [n \in DOMAIN w.doors |-> Move(w.doors[n])]
    ELSE [n \in Slots(w) |-> IF n \in s.known THEN w.goal[n] ELSE NoAction]

\* The fact current_slot_known.
CurrentSlotKnown(w, s) ==
    CASE w.kind \in {"lock", "tool"} ->
           s.progress >= Len(w.goal) \/ s.progress + 1 \in s.known
      [] w.kind = "trap" -> s.progress < Len(w.goal)
      [] w.kind = "maze" -> HintSeen(s)
      [] OTHER -> TRUE

\* visibility_mode: a maze whose hint was seen calls itself visible.
Mode(w, s) == IF w.kind = "maze" /\ HintSeen(s) THEN "visible" ELSE w.mode

Observed(by, slot, value) == [by |-> by, slot |-> slot, value |-> value]

\* last_observation: a lock and a tool chain remember it, the others make it up
\* from being unarmed.
LastObservation(w, s) ==
    CASE w.kind \in {"lock", "tool"} /\ s.seen # <<>> ->
           Observed(s.seen[1], s.seen[2], w.goal[s.seen[2]])
      [] w.kind = "maze" /\ HintSeen(s) -> Observed("inspect", 1, w.goal[1])
      [] w.kind = "trap" /\ ~s.armed -> Observed("inspect", s.progress + 1, NoAction)
      [] w.kind = "hazard" /\ ~s.armed -> Observed("inspect", 1, NoAction)
      [] w.kind = "precondition" /\ ~s.armed -> Observed("search", 1, NoAction)
      [] OTHER -> Observed("none", 0, NoAction)

\* setup_state, which only the worlds that can be armed publish.
SetupState(w, s) ==
    CASE w.kind \in {"lock", "maze", "tool"} -> "none"
      [] w.kind = "hazard" /\ ~w.present -> "safe_no_hazard"
      [] OTHER -> IF s.armed THEN "pre_setup" ELSE "post_setup_done"

\* post_setup_state
PostSetup(w, s) == SetupState(w, s) \in {"post_setup_done", "safe_no_hazard"}

-----------------------------------------------------------------------------
(* The belief                                                              *)

Slot(value, known) == [value |-> value, known |-> known]

\* _slots_for_family: a maze has a slot per door and a mask for one, which is not
\* used because its length is wrong.
BeliefSlots(w, s) ==
    [n \in DOMAIN VisibleValues(w, s) |->
        Slot(VisibleValues(w, s)[n],
             (Maze(w) \/ n \in s.known) /\ VisibleValues(w, s)[n] # NoAction)]

\* current_index, from 1; a maze stays at its only slot.
CurrentSlot(w, s) == IF Maze(w) THEN 1 ELSE s.progress + 1

\* Mutant: the slot that was observed last stands for the current one.
RequiredValueSeen(w, s) ==
    LET n == IF s.seen = <<>> THEN CurrentSlot(w, s) ELSE s.seen[2] IN
    IF CurrentSlotKnown(w, s) /\ n \in DOMAIN BeliefSlots(w, s)
       THEN BeliefSlots(w, s)[n].value ELSE NoAction

\* current_required_value
RequiredValue(w, s) ==
    IF CurrentSlotKnown(w, s) /\ CurrentSlot(w, s) \in DOMAIN BeliefSlots(w, s)
       THEN BeliefSlots(w, s)[CurrentSlot(w, s)].value
       ELSE NoAction

\* "... or -1" takes the first slot, which is 0 in the code, for no slot.
BeliefObservation(w, s) ==
    [LastObservation(w, s) EXCEPT !.slot = IF @ = 1 THEN 0 ELSE @]

\* belief_from_facts
BeliefOf(w, s) ==
    LET open == CurrentSlot(w, s) =< Len(w.goal) IN
    [slots       |-> BeliefSlots(w, s),
     current     |-> CurrentSlot(w, s),
     length      |-> Len(w.goal),
     mode        |-> Mode(w, s),
     required    |-> RequiredValue(w, s),
     observation |-> BeliefObservation(w, s),
     pending     |-> open /\ ~CurrentSlotKnown(w, s),
     executable  |-> open /\ CurrentSlotKnown(w, s)]

-----------------------------------------------------------------------------
(* The features                                                            *)

\* _maze_target_color: the target stands in for a target that is not visible.
TargetColor(w) == IF Maze(w) THEN w.goal[1] ELSE NoAction

\* What a maze says of its hazard; one without says nothing.
HazardFeatures(w, s) ==
    IF w.kind = "hazard"
       THEN [known |-> TRUE, present |-> w.present, active |-> s.armed,
             cleared |-> w.present /\ ~s.armed]
       ELSE [known |-> FALSE, present |-> FALSE, active |-> FALSE, cleared |-> FALSE]

\* The fact can_finish, of which the precondition wants no known slot.
FinishFact(w, s) ==
    IF w.kind = "precondition" THEN ~s.armed /\ LastStep(w, s) ELSE CanFinish(w, s)

\* encode_belief_global
GlobalFeatures(w, s) ==
    LET b == BeliefOf(w, s) IN
    [mode |-> b.mode, current |-> b.current, length |-> b.length,
     remaining |-> Min({12, w.max - s.steps}),
     currentKnown |-> CurrentSlotKnown(w, s),
     pending |-> b.pending, executable |-> b.executable,
     canFinish |-> FinishFact(w, s),
     target |-> TargetColor(w),
     hazard |-> HazardFeatures(w, s),
     canMoveTarget |-> Maze(w) /\ ~s.armed /\ FinishFact(w, s),
     setup |-> SetupState(w, s), postSetup |-> PostSetup(w, s),
     observation |-> b.observation]

\* encode_slot_flat, for one slot.
SlotFeatures(w, s, n) ==
    LET b == BeliefOf(w, s)
        isTarget == Maze(w) /\ b.slots[n].value = TargetColor(w)
    IN  [known |-> b.slots[n].known, value |-> b.slots[n].value,
         place |-> CASE n < b.current -> "past" [] n = b.current -> "current"
                     [] OTHER -> "future",
         target |-> isTarget,
         hazard |-> HazardFeatures(w, s),
         blocked |-> Maze(w) /\ (HazardFeatures(w, s).active \/ ~isTarget),
         inspected |-> Maze(w) /\ (LastObservation(w, s).by = "inspect" \/ HintSeen(s))]

\* The state vector, which is part of the input too.
Vector(w, s) ==
    <<Headway(w, s), Succeeded(w, s), s.steps, w.max, s.armed,
      w.kind # "hazard" /\ s.done>>

\* encode_slot_input_vector, without the action.
Encode(w, s) ==
    [global |-> GlobalFeatures(w, s),
     slots  |-> [n \in DOMAIN BeliefSlots(w, s) |-> SlotFeatures(w, s, n)],
     vector |-> Vector(w, s)]

\* The rows of a maze that audit_maze_grounding passes: the target is known and
\* one door, and only one, is marked as it.
Grounded(w, s) ==
    LET e == Encode(w, s) IN
    /\ e.global.target = w.goal[1]
    /\ Cardinality({n \in DOMAIN e.slots : e.slots[n].target}) = 1

\* The goals that a world could have for all that was revealed of it, one slot
\* away from the goal it has.
OtherGoals(w, s) ==
    LET values == CASE Lock(w) -> {Press(d) : d \in 1..4}
                    [] Maze(w) -> {Move(w.doors[n]) : n \in DOMAIN w.doors}
                    [] Tool(w) -> {Use("search"), Use("read")}
    IN  {[w.goal EXCEPT ![n] = v] :
            n \in {m \in Slots(w) \ s.known : w.goal[m] # Use("summarize")},
            v \in values}
=============================================================================
