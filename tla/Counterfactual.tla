---------------------------- MODULE Counterfactual ----------------------------
(***************************************************************************)
(* replay/counterfactual.py: the training data of a world model.  A state  *)
(* is taken down as a snapshot, and each of its candidates is tried in a   *)
(* world rebuilt from it.  The snapshots come from episodes, from a search *)
(* of a world, and from curricula that write states down without playing.  *)
(* A world object is a pair [world, state]; scores are in units of Unit.   *)
(***************************************************************************)
EXTENDS Belief

-----------------------------------------------------------------------------
(* Snapshots                                                               *)

\* snapshot: what the world is and what its state's facts say.  The hazard that a
\* maze started with is not in it.
Snapshot(w, s) ==
    [kind |-> w.kind, goal |-> w.goal, max |-> w.max, mode |-> w.mode,
     doors |-> w.doors, present |-> w.present, hint |-> w.hint,
     progress |-> s.progress, steps |-> s.steps, known |-> s.known,
     seen |-> s.seen, armed |-> s.armed, done |-> s.done]

\* _make_env_from_restore_state, for a world whose name is not registered: a maze
\* with a hazard is built as if it had started with the hazard it has now, and as
\* if it had shown the hint.
Rebuilt(p) ==
    [kind |-> p.kind, goal |-> p.goal, max |-> p.max, mode |-> p.mode,
     doors |-> p.doors, present |-> p.present,
     active |-> p.kind = "hazard" /\ p.armed, hint |-> p.kind = "hazard"]

\* What restore sets of a world object: all but its kind and the hazard it was made
\* with.
Overwritten(w, p) ==
    [kind |-> w.kind, goal |-> p.goal, max |-> p.max, mode |-> p.mode,
     doors |-> p.doors, present |-> p.present, active |-> w.active, hint |-> p.hint]

\* Mutant: restore leaves the mask as the new world has it.
RestoreForgetsMask(w, p) ==
    [world |-> Overwritten(w, p),
     state |-> [progress |-> p.progress, steps |-> p.steps,
                known |-> InitiallyKnown(w), seen |-> p.seen,
                armed |-> p.armed, done |-> p.done]]

\* restore, in a world object of the same kind.
Restore(w, p) ==
    [world |-> Overwritten(w, p),
     state |-> [progress |-> p.progress, steps |-> p.steps, known |-> p.known,
                seen |-> p.seen, armed |-> p.armed, done |-> p.done]]

\* A name in the registry makes the registered world, any other is built.
Restored(w, s, registered) ==
    Restore(IF registered THEN w ELSE Rebuilt(Snapshot(w, s)), Snapshot(w, s))

-----------------------------------------------------------------------------
(* The row of a candidate                                                  *)

\* The reward of step: a success pays Unit in every world.
LockReward(w, s, a) ==
    CASE a = Inspect /\ s.armed -> 30
      [] a = Inspect /\ SlotUnknown(w, s) -> 15
      [] Name(a) = "press" /\ Right(w, s, a) ->
           IF s.armed THEN -105 ELSE IF w.kind = "trap" THEN 75 ELSE 60
      [] Name(a) = "press" /\ ~Right(w, s, a) -> -60
      [] OTHER -> -3

MazeReward(w, s, a) ==
    CASE a = Inspect /\ w.kind = "maze" -> 30
      [] a = Inspect /\ w.kind = "hazard" ->
           IF s.armed THEN 36 ELSE IF w.present THEN -6 ELSE 6
      [] Right(w, s, a) /\ s.armed -> -105
      [] OTHER -> -75

ToolReward(w, s, a) ==
    CASE Revealing(w, s, a) -> 15
      [] w.kind = "precondition" /\ Name(a) = "search" -> IF s.armed THEN 36 ELSE -6
      [] Right(w, s, a) /\ ~Revealing(w, s, a) -> IF s.armed THEN -90 ELSE 75
      [] OTHER -> -30

Reward(w, s, a) ==
    CASE Succeeded(w, Effect(w, s, a)) -> Unit
      [] ~Succeeded(w, Effect(w, s, a)) /\ Lock(w) -> LockReward(w, s, a)
      [] ~Succeeded(w, Effect(w, s, a)) /\ Maze(w) -> MazeReward(w, s, a)
      [] ~Succeeded(w, Effect(w, s, a)) /\ Tool(w) -> ToolReward(w, s, a)

\* The information_gain of step: a slot revealed, a trap or a hazard cleared.
InformationGain(w, s, a) ==
    LET t == Effect(w, s, a) IN
    IF w.kind = "hazard" THEN If(s.armed /\ ~t.armed, Unit)
    ELSE If(t.known # s.known \/ (s.armed /\ ~t.armed), Unit)

\* _progress: a maze counts its hint for three tenths.
ProgressOf(w, s) ==
    CASE Maze(w) /\ Succeeded(w, s) -> Unit
      [] Maze(w) /\ ~Succeeded(w, s) -> If(HintSeen(s), 90)
      [] OTHER -> (Unit * s.progress) \div Len(w.goal)

ProgressDelta(w, s, a) == ProgressOf(w, Effect(w, s, a)) - ProgressOf(w, s)

\* Mutant: what an action reveals is not scored.
ScoreUninformed(w, s, a) ==
    Reward(w, s, a) + 2 * ProgressDelta(w, s, a)
      + If(Succeeded(w, Effect(w, s, a)), Unit \div 2)

\* actual_action_score, by which the candidates are ranked.
ActualScore(w, s, a) ==
    Reward(w, s, a) + 2 * ProgressDelta(w, s, a) + InformationGain(w, s, a)
      + If(Succeeded(w, Effect(w, s, a)), Unit \div 2)

\* The rows of a snapshot that no other row of it outscores.
BestRows(w, s) ==
    LET rows == ToSet(Candidates(w, s)) IN
    {a \in rows : \A b \in rows : ActualScore(w, s, b) =< ActualScore(w, s, a)}

\* _is_post_setup_execution
PostSetupExecution(w, s, a) ==
    /\ PostSetup(w, s)
    /\ Name(a) \in CASE Lock(w) -> {"press"} [] Maze(w) -> {"move"}
                     [] Tool(w) -> {"read", "summarize"}

-----------------------------------------------------------------------------
(* The search of a world                                                   *)

\* Mutant: the search stops a step too early.
SearchTooShallow(w) ==
    LET After[depth \in 0..w.max] ==
            IF depth = 0 THEN {ResetWorld(w, [known |-> {}])}
            ELSE UNION {{StepWorld(w, s, a) : a \in ToSet(Candidates(w, s))} :
                           s \in {t \in After[depth - 1] : ~t.done}}
    IN  {s \in UNION {After[depth] : depth \in 0..(w.max - 2)} : ~s.done}

\* _bfs_snapshots: every candidate of every state found, to the depth of the last
\* state that is not the end.  The steps are part of a snapshot's restore_id, so
\* that a state found again after more steps is another one.
Search(w) ==
    LET After[depth \in 0..w.max] ==
            IF depth = 0 THEN {ResetWorld(w, [known |-> {}])}
            ELSE UNION {{StepWorld(w, s, a) : a \in ToSet(Candidates(w, s))} :
                           s \in {t \in After[depth - 1] : ~t.done}}
    IN  {s \in UNION {After[depth] : depth \in 0..(w.max - 1)} : ~s.done}
=============================================================================
