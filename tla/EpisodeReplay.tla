---------------------------- MODULE EpisodeReplay -----------------------------
(***************************************************************************)
(* What the replay data says of the states that episodes pass: properties  *)
(* of Episode's behaviours in terms of the snapshots, rows, features and   *)
(* curricula that are made of its states.                                  *)
(***************************************************************************)
EXTENDS Episode, Curriculum, SlotDataset

Playing == pc = "play" /\ ~state.done

\* The states that the search of each world finds.
Found == [w \in World |-> Search(w)]

\* A candidate tried in a world restored from a snapshot leads where it leads in
\* the world that was played, in a registered world and in one that is built from
\* the snapshot; and a reset brings the same start back, except that a maze whose
\* hazard was cleared is built without it.
ProbeLeavesNothingOut ==
    Playing => \A registered \in BOOLEAN :
        LET o == Restored(world, state, registered) IN
        /\ Candidates(o.world, o.state) = Candidates(world, state)
        /\ \A a \in ToSet(Candidates(world, state)) :
             StepWorld(o.world, o.state, a) = StepWorld(world, state, a)
        /\ ResetWorld(o.world, o.state) # ResetWorld(world, state)
             <=> ~registered /\ world.kind = "hazard" /\ world.active /\ ~state.armed

\* A lucky guess outscores looking: of the last slot, and in a code of two.
GuessPays ==
    /\ ~Maze(world) /\ SlotUnknown(world, state)
    /\ ~Reveals(world.goal[state.progress + 1])
    /\ LastStep(world, state) \/ Len(world.goal) = 2

\* What a model is trained to prefer.  The score of the rows teaches what the expert
\* would do, except where a guess pays: its action is the best row of every state,
\* beside which only another tool can be that reveals the same slot.  And a group
\* whose world was set up goes into the balanced set before every group whose world
\* was not, and has a row that is correct unless there was nothing to set up.
TrainingPrefersExperts ==
    Playing =>
        /\ ExpertAction(world, state) \notin BestRows(world, state) <=> GuessPays
        /\ \A a, b \in BestRows(world, state) :
             a = b \/ (Revealing(world, state, a) /\ Revealing(world, state, b))
        /\ LET most == 100 + 80 + 30 + 10 + 5 IN
             PostSetup(world, state) <=> Priority(world, state) > most
        /\ Group(world, state).setUpCorrect
             <=> SetupState(world, state) = "post_setup_done"

\* The search of a world finds every state in which an episode has to choose, and a
\* state that a curriculum writes down is one that the search finds, so one that
\* episodes of its world pass, except in four ways, in each of which it is not.
CurriculumIsReachable ==
    /\ Playing => state \in Found[world]
    /\ \A s \in Written(world) : s \in Found[world] <=> ~Impossible(world, s)

\* The features of a lock and of a tool chain are the same whatever its hidden
\* slots hold; the features of a maze always say where its door is, as the audit of
\* the maze rows demands.
HiddenSlotsStayHidden ==
    Playing =>
        /\ ~Maze(world) => \A goal \in OtherGoals(world, state) :
             Encode([world EXCEPT !.goal = goal], state) = Encode(world, state)
        /\ Maze(world) => Grounded(world, state)

\* The belief requires the action that the gate requires, and the rows counted as
\* correct after a setup are the ones the gate would take; a maze's belief requires
\* the first of the doors, whichever is the target.
BeliefAgreesWithGate ==
    Playing
      /\ (Maze(world) => world.goal[1] = Move(world.doors[1]))
      /\ (world.kind = "hazard" => HintSeen(state)) =>
        /\ BeliefOf(world, state).required = Required(world, state)
        /\ \A a \in ToSet(Candidates(world, state)) :
             PostSetupCorrect(world, state, a)
               <=> /\ SetupState(world, state) = "post_setup_done"
                   /\ Matches(world, state, a)
=============================================================================
