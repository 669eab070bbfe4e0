------------------------------ MODULE Curriculum ------------------------------
(***************************************************************************)
(* The curricula of replay/counterfactual.py: states of generated worlds   *)
(* that are written down without playing.  Every profile has its own kinds *)
(* of world, which this module tells by what a world is and by the steps   *)
(* that its generator gives it; which profile a world comes from, and how  *)
(* many are generated, does not matter to what is written down.            *)
(***************************************************************************)
EXTENDS Counterfactual

\* _make_state on a world object whose mask, memory and arming were set before.
At(progress, steps, known, seen, armed) ==
    [progress |-> progress, steps |-> steps, known |-> known, seen |-> seen,
     armed |-> armed, done |-> FALSE]

Stages(w) == 0..(Len(w.goal) - 1)

LastBefore(w, steps) == Min({w.max - 1, steps})

\* The tool chains that are generated use other tools before they summarize.
Chain(w) ==
    w.kind = "tool" /\ Len(w.goal) > 1 /\ w.goal[Len(w.goal)] = Use("summarize")

\* Any stage after any number of steps that it takes at least: lock-canonical and
\* tool-variant.
Canonical(w) ==
    IF w.mode = "visible"
          /\ \/ w.kind = "lock" /\ w.max = Max({6, Len(w.goal) + 3})
             \/ Chain(w) /\ w.max = Len(w.goal) + 3
       THEN UNION {{At(p, steps, Slots(w), <<>>, FALSE) : steps \in p..(w.max - 1)} :
                     p \in Stages(w)}
       ELSE {}

\* The reveal_action of a post state: a slot that hides summarize was read.
RevealedBy(w, p) ==
    IF w.kind = "lock" THEN "inspect"
    ELSE IF w.goal[p + 1] = Use("summarize") THEN "read" ELSE Name(w.goal[p + 1])

\* A stage as it is before its slot is revealed.
Before(w, p) == At(p, LastBefore(w, p), InitiallyKnown(w), <<>>, FALSE)

\* Mutant: the step that reveals is not counted.
AfterNoStep(w, p) ==
    At(p, LastBefore(w, p), InitiallyKnown(w) \cup {p + 1},
       <<RevealedBy(w, p), p + 1>>, FALSE)

\* ... and just after.
After(w, p) ==
    At(p, LastBefore(w, p + 1), InitiallyKnown(w) \cup {p + 1},
       <<RevealedBy(w, p), p + 1>>, FALSE)

SlotV2Sized(w) ==
    \/ w.kind = "lock" /\ w.max = Max({8, Len(w.goal) + 5})
    \/ Chain(w) /\ w.max = Len(w.goal) + 5

\* The locks and tool chains of slot_v2.
SlotV2(w) ==
    CASE ~SlotV2Sized(w) -> {}
      [] SlotV2Sized(w) /\ w.mode = "visible" -> {Before(w, p) : p \in Stages(w)}
      [] OTHER -> {Before(w, p) : p \in Stages(w)} \cup {After(w, p) : p \in Stages(w)}

\* partial-hidden
PartialHidden(w) ==
    IF w.mode = "partial_hidden"
          /\ \/ w.kind = "lock" /\ w.max = Max({7, Len(w.goal) + 4})
             \/ Chain(w) /\ w.max = Len(w.goal) + 5
       THEN {At(p, p, InitiallyKnown(w), <<>>, FALSE) : p \in Stages(w)}
       ELSE {}

\* The mazes of slot_v2: before the hint and after it, or after it only.
MazeV2(w) ==
    IF w.kind = "maze" /\ w.max \in {5, 7, 8, 10}
       THEN {ResetWorld(w, [known |-> {}]),
             At(0, IF w.mode = "visible" THEN 2 ELSE 1, {1}, <<>>, FALSE)}
       ELSE {}

\* slot-model-needed-lock-trap: armed on every stage, or disarmed some steps ago.
LockTrap(w) ==
    IF w.kind = "trap" /\ w.max = Max({8, Len(w.goal) + 5})
       THEN UNION {{At(p, p, Slots(w), <<>>, TRUE)}
                     \cup {At(p, LastBefore(w, p + more), Slots(w), <<>>, FALSE) :
                             more \in {0, 1, 2, 4}} : p \in Stages(w)}
       ELSE {}

\* slot-model-needed-maze: the scenarios of both generators, in the world that each
\* of them builds.
MazeHazard(w) ==
    CASE w.kind # "hazard" \/ w.max # 7 \/ ~w.hint -> {}
      [] w.kind = "hazard" /\ w.max = 7 /\ w.hint /\ w.present /\ w.active ->
           {At(0, 0, {}, <<>>, TRUE)} \cup {At(0, n, {1}, <<>>, TRUE) : n \in {0, 1}}
      [] w.kind = "hazard" /\ w.max = 7 /\ w.hint /\ w.present /\ ~w.active ->
           {At(0, n, {1}, <<>>, FALSE) : n \in 1..6}
      [] OTHER -> {At(0, n, {1}, <<>>, FALSE) : n \in {0, 1, 3}}

\* slot-model-needed-tool-precondition
ToolPrecondition(w) ==
    IF w.kind = "precondition" /\ w.max = Len(w.goal) + 4
       THEN UNION {{At(p, p, Slots(w), <<>>, TRUE)}
                     \cup {At(p, LastBefore(w, p + more), Slots(w), <<>>, FALSE) :
                             more \in 0..2} : p \in Stages(w)}
       ELSE {}

\* All that the profiles write down of a world.
Written(w) ==
    Canonical(w) \cup SlotV2(w) \cup PartialHidden(w) \cup MazeV2(w)
      \cup LockTrap(w) \cup MazeHazard(w) \cup ToolPrecondition(w)

-----------------------------------------------------------------------------
(* States that no episode of the world passes                              *)

\* A tool chain cannot get past a slot that is hidden; a lock can, by guessing.
PastAHiddenSlot(w, s) == w.kind = "tool" /\ ~(1..s.progress \subseteq s.known)

\* Nothing is done while a world is armed, and disarming it takes a step.
NeverSetUp(w, s) ==
    w.kind \in {"trap", "precondition"}
      /\ IF s.armed THEN s.progress > 0 ELSE s.steps = s.progress

\* Nobody inspects a slot that is visible from the start, nor uses a tool that the
\* chain does not offer.
NeverObserved(w, s) ==
    s.seen # <<>>
      /\ \/ s.seen[2] \in InitiallyKnown(w)
         \/ s.seen[1] \notin ActionNames(w)

\* A hint is not forgotten.
HintForgotten(w, s) == w.kind = "hazard" /\ w.hint /\ ~HintSeen(s)

Impossible(w, s) ==
    PastAHiddenSlot(w, s) \/ NeverSetUp(w, s) \/ NeverObserved(w, s)
      \/ HintForgotten(w, s)
=============================================================================
