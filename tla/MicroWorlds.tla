---------------------------- MODULE MicroWorlds ------------------------------
(***************************************************************************)
(* The six micro worlds of envs/: two locks, two mazes and two tool chains.*)
(* In each of them an agent has to take the actions of a goal one after    *)
(* the other: the digits of the code, the door of the maze (a goal of one  *)
(* action), the tools of the sequence.  What makes a world hard is that    *)
(* slots of the goal may be hidden until an action reveals them, and that  *)
(* it may be armed: a trap, a hazard or a missing precondition that turns  *)
(* the right action into a wrong one until it is set up.                   *)
(*                                                                         *)
(* A world is a record: kind, goal, max (max_steps), mode (visibility),    *)
(* doors, and, for the mazes with a hazard, present, active and hint.      *)
(* Rewards are paid to nobody here: no agent reads them.                   *)
(***************************************************************************)
EXTENDS Integers, SequencesExt

Kind == {"lock", "trap", "maze", "hazard", "tool", "precondition"}

Visibility == {"visible", "partial_hidden", "hidden"}

\* An action is its name and, if it has one, its parameter.
Inspect  == <<"inspect">>
Reset    == <<"reset">>
Press(d) == <<"press", d>>
Move(c)  == <<"move", c>>
Use(tool) == <<tool>>

Name(a) == a[1]

Lock(w) == w.kind \in {"lock", "trap"}
Maze(w) == w.kind \in {"maze", "hazard"}
Tool(w) == w.kind \in {"tool", "precondition"}

\* What a goal is made of: digits that can be pressed, doors that the maze has, and
\* tools, of which search only sets up a chain that has a precondition.
GoalActions(w) ==
    CASE Lock(w) -> {Press(d) : d \in 1..4}
      [] Maze(w) -> {Move(w.doors[n]) : n \in DOMAIN w.doors}
      [] w.kind = "tool" -> {Use("search"), Use("read"), Use("summarize")}
      [] OTHER -> {Use("read"), Use("summarize")}

\* The worlds that are built: a tool chain uses summarize in its last slot if at
\* all, the doors of a maze differ, and no hazard is active that is not present.
IsWorld(w) ==
    /\ w = [kind |-> w.kind, goal |-> w.goal, max |-> w.max, mode |-> w.mode,
            doors |-> w.doors, present |-> w.present, active |-> w.active,
            hint |-> w.hint]
    /\ w.kind \in Kind /\ w.mode \in Visibility /\ w.max \in Nat \ {0}
    /\ {w.present, w.active, w.hint} \subseteq BOOLEAN /\ (w.active => w.present)
    /\ w.doors \in Seq(STRING)
    /\ \A n, m \in DOMAIN w.doors : w.doors[n] = w.doors[m] => n = m
    /\ w.goal \in Seq(GoalActions(w)) /\ w.goal # <<>>
    /\ Maze(w) => Len(w.goal) = 1
    /\ \A n \in 1..(Len(w.goal) - 1) : w.goal[n] # Use("summarize")

-----------------------------------------------------------------------------
(* The actions of a world and what its ActionSpecs say of them             *)

ActionNames(w) ==
    CASE Lock(w) -> {"inspect", "press", "reset"}
      [] Maze(w) -> {"inspect", "move"}
      [] w.kind = "tool" -> {Name(w.goal[n]) : n \in DOMAIN w.goal}
      [] OTHER -> {"search", "read", "summarize"}

\* validate_action, for actions that have the parameters their name calls for.
Allowed(w, a) ==
    /\ Name(a) \in ActionNames(w)
    /\ Name(a) = "move" => a[2] \in ToSet(w.doors)

Reveals(a) == Name(a) \in {"inspect", "search", "read"}

RequiresKnown(w, a) ==
    \/ Name(a) \in {"press", "move", "summarize"}
    \/ w.kind = "precondition" /\ Name(a) = "read"

TerminalOnly(a) == Name(a) \in {"move", "summarize"}

\* The slots of a tool chain that use a tool for the first time.
FirstUses(w) ==
    {n \in DOMAIN w.goal : \A m \in 1..(n - 1) : w.goal[m] # w.goal[n]}

\* candidate_actions, in their order; a tool chain offers each tool once.
Candidates(w, s) ==
    CASE Lock(w) ->
           (IF w.kind = "trap" \/ s.progress + 1 \notin s.known
               THEN <<Inspect>> ELSE <<>>)
             \o [d \in 1..4 |-> Press(d)] \o <<Reset>>
      [] Maze(w) -> <<Inspect>> \o [n \in DOMAIN w.doors |-> Move(w.doors[n])]
      [] w.kind = "tool" ->
           [n \in 1..Cardinality(FirstUses(w)) |->
               w.goal[CHOOSE m \in FirstUses(w) :
                         Cardinality(FirstUses(w) \cap 1..m) = n]]
      [] OTHER -> <<Use("search"), Use("read"), Use("summarize")>>

-----------------------------------------------------------------------------
(* The state of an episode: how much of the goal is done, in how many      *)
(* steps, which slots are revealed, whether the world is armed, and with   *)
(* which action a lock or a tool chain last showed which slot.             *)

Slots(w) == DOMAIN w.goal

\* _initial_known_mask; a maze shows its hint only in visible mode.
InitiallyKnown(w) ==
    CASE w.kind \in {"trap", "precondition"} -> Slots(w)
      [] w.kind \in {"lock", "tool"} /\ w.mode = "visible" -> Slots(w)
      [] w.kind \in {"lock", "tool"} /\ w.mode = "partial_hidden" ->
           {n \in Slots(w) : n =< 1 \/ n =< Len(w.goal) \div 2}
      [] w.kind = "maze" /\ w.mode = "visible" -> {1}
      [] w.kind = "hazard" /\ w.hint -> {1}
      [] OTHER -> {}

InitiallyArmed(w) ==
    w.kind \in {"trap", "precondition"} \/ (w.kind = "hazard" /\ w.present /\ w.active)

\* Mutant: a new episode keeps what the last one revealed.
ResetKeepsMask(w, s) ==
    [progress |-> 0, steps |-> 0, known |-> InitiallyKnown(w) \cup s.known,
     seen |-> <<>>, armed |-> InitiallyArmed(w), done |-> FALSE]

\* reset, whatever state the last episode ended in.
ResetWorld(w, s) ==
    [progress |-> 0, steps |-> 0, known |-> InitiallyKnown(w),
     seen |-> <<>>, armed |-> InitiallyArmed(w), done |-> FALSE]

Right(w, s, a) == a = w.goal[s.progress + 1]

SlotUnknown(w, s) == s.progress + 1 \notin s.known

Forward(s)  == [s EXCEPT !.progress = @ + 1]
Back(s)     == [s EXCEPT !.progress = IF @ > 0 THEN @ - 1 ELSE 0]
ToStart(s)  == [s EXCEPT !.progress = 0]
Reveal(s)   == [s EXCEPT !.known = @ \cup {s.progress + 1}]
Unarmed(s)  == [s EXCEPT !.armed = FALSE]

\* The worlds that are not armed keep _last_observation.
Observe(w, s, a) ==
    [Reveal(s) EXCEPT !.seen = IF w.kind \in {"lock", "tool"}
                                  THEN <<Name(a), s.progress + 1>> ELSE @]

\* A reset arms the trap again; so does no other action.
LockEffect(w, s, a) ==
    CASE a = Inspect -> Unarmed(Observe(w, s, a))
      [] a = Reset -> [ToStart(s) EXCEPT !.armed = w.kind = "trap"]
      [] Right(w, s, a) /\ ~s.armed -> Forward(s)
      [] OTHER -> ToStart(s)

\* The maze with a hazard opens the right door to who has not seen the hint too.
MazeEffect(w, s, a) ==
    CASE a = Inspect -> Unarmed(Reveal(s))
      [] Right(w, s, a) /\ ~s.armed /\ (w.kind = "hazard" \/ 1 \in s.known) ->
           Forward(s)
      [] OTHER -> s

\* search and read on a hidden slot reveal it instead of being executed.
Revealing(w, s, a) == SlotUnknown(w, s) /\ Reveals(a)

ToolEffect(w, s, a) ==
    CASE Revealing(w, s, a) -> Observe(w, s, a)
      [] w.kind = "precondition" /\ Name(a) = "search" -> Unarmed(s)
      [] Right(w, s, a) /\ ~s.armed /\ ~Revealing(w, s, a) -> Forward(s)
      [] OTHER -> Back(s)

Effect(w, s, a) ==
    CASE Lock(w) -> LockEffect(w, s, a)
      [] Maze(w) -> MazeEffect(w, s, a)
      [] Tool(w) -> ToolEffect(w, s, a)

Succeeded(w, s) == s.progress >= Len(w.goal)

\* step: the effect of the action, one more step, and the end of the episode.
StepWorld(w, s, a) ==
    LET t == Effect(w, s, a) IN
    [progress |-> t.progress, steps |-> s.steps + 1, known |-> t.known,
     seen |-> t.seen, armed |-> t.armed,
     done |-> Succeeded(w, t) \/ s.steps + 1 >= w.max]

\* expert_action, which looks at the whole goal.
ExpertAction(w, s) ==
    LET right == w.goal[s.progress + 1] IN
    CASE Lock(w) /\ (s.armed \/ SlotUnknown(w, s)) -> Inspect
      [] w.kind = "maze" /\ SlotUnknown(w, s) -> Inspect
      [] w.kind = "hazard" /\ s.armed -> Inspect
      [] w.kind = "precondition" /\ s.armed -> Use("search")
      [] w.kind = "tool" /\ SlotUnknown(w, s) /\ ~Reveals(right) -> Use("search")
      [] OTHER -> right
=============================================================================
