------------------------------- MODULE Episode -------------------------------
(***************************************************************************)
(* eval/evaluator.py: an agent plays episodes in a micro world, one after  *)
(* the other, in the same world object.                                    *)
(***************************************************************************)
EXTENDS ActionGate

CONSTANTS World, Predictor, MaxEpisodes

ASSUME EpisodeAssumption ==
    /\ MaxEpisodes \in Nat \ {0}
    /\ Predictor \subseteq {"symbolic", "noop", "any"}
    /\ \A w \in World : IsWorld(w)

\* Who plays: the expert, the random baseline, or a gate around a predictor; of
\* the predictor "any" nothing is known but that its scores are bounded.
Agent ==
    [role : {"expert", "random"}, mode : {"prior_only"}, predictor : {"noop"}]
      \cup [role : {"gated"}, mode : GateMode, predictor : Predictor]

VARIABLES
    world, agent,   \* what the run was called with
    state,          \* the state of the world
    episode,        \* which episode is being played
    pc              \* "play", or "raised" by a ContractError

vars == <<world, agent, state, episode, pc>>

TypeOK ==
    /\ world \in World /\ agent \in Agent
    /\ state.progress \in 0..Len(world.goal) /\ state.steps \in 0..world.max
    /\ state.known \subseteq Slots(world)
    /\ state.seen = <<>> \/ state.seen[2] \in state.known
    /\ state.armed \in BOOLEAN /\ state.done \in BOOLEAN
    /\ episode \in 1..MaxEpisodes
    /\ pc \in {"play", "raised"}

Init ==
    /\ world \in World
    /\ agent \in Agent
    /\ state = ResetWorld(world, [known |-> {}])
    /\ episode = 1
    /\ pc = "play"

\* What act may answer.
Answers ==
    CASE agent.role = "expert" -> {ExpertAction(world, state)}
      [] agent.role = "random" -> ToSet(Candidates(world, state))
      [] agent.role = "gated" /\ agent.predictor = "any" ->
           Choosable(agent.mode, world, state)
      [] OTHER -> {Chosen(agent.mode, agent.predictor, world, state)}

\* One turn of the loop in _run_episode.
Act ==
    /\ pc = "play"
    /\ ~state.done /\ state.steps < world.max
    /\ \E a \in Answers :
         IF Allowed(world, a)
            THEN state' = StepWorld(world, state, a) /\ UNCHANGED pc
            ELSE pc' = "raised" /\ UNCHANGED state
    /\ UNCHANGED <<world, agent, episode>>

\* run goes on with the next episode.
NextEpisode ==
    /\ pc = "play"
    /\ state.done
    /\ episode < MaxEpisodes
    /\ episode' = episode + 1
    /\ state' = ResetWorld(world, state)
    /\ UNCHANGED <<world, agent, pc>>

Next == Act \/ NextEpisode

Spec == Init /\ [][Next]_vars

-----------------------------------------------------------------------------
(* Properties.                                                             *)

Gated(modes) == agent.role = "gated" /\ agent.mode \in modes

HintKnown == 1 \in InitiallyKnown(world)

\* Steps that are not on the goal: one for every hidden slot, and one to set up.
\* Only the expert knows the door of a maze without a hint.
Preparation ==
    IF world.kind = "hazard"
       THEN If(InitiallyArmed(world) \/ (~HintKnown /\ agent.role = "gated"), 1)
       ELSE Cardinality(Slots(world) \ InitiallyKnown(world))
              + If(InitiallyArmed(world), 1)

\* The baselines: the expert; the gate around the symbolic predictor, with a veto
\* everywhere and without one where nothing known has to be set up first.
Baseline ==
    \/ agent.role = "expert"
    \/ /\ agent.predictor = "symbolic"
       /\ \/ Gated({"hybrid_veto"})
          \/ Gated({"prior_only", "hybrid"}) /\ ~(InitiallyArmed(world) /\ HintKnown)

\* A baseline solves every world that leaves it the steps, in every episode and
\* without a step too many; without the veto no predictor gets a gate to set up a
\* world whose next action it knows, which is what makes the world model-needed; and
\* only an expert that has no search to reveal the last tool with calls an action
\* that the world refuses.
WhoSolvesWhat ==
    /\ Baseline /\ state.done /\ world.max >= Len(world.goal) + Preparation =>
         Succeeded(world, state) /\ state.steps = Len(world.goal) + Preparation
    /\ Gated({"prior_only", "hybrid"}) /\ InitiallyArmed(world) /\ HintKnown =>
         state.armed /\ ~Succeeded(world, state)
    /\ pc = "raised" =>
         agent.role = "expert" /\ ~Allowed(world, Use("search"))

\* What a state vector shows.
Shown(t) == <<t.progress, t.armed, Headway(world, t)>>

\* Where the predictor's rules are not the world's: a reset arms a trap again,
\* search is free of charge once the tools are set up, and a maze that never had
\* a hazard opens without a hint.
PredictorErrs(a) ==
    \/ world.kind = "trap" /\ a = Reset /\ ~state.armed
    \/ world.kind = "precondition" /\ Name(a) = "search" /\ state.progress > 0
    \/ /\ world.kind = "hazard" /\ ~state.armed
       /\ Right(world, state, a) /\ SlotUnknown(world, state)

\* The symbolic predictor's next state vector is the one the world steps to, for
\* every other candidate of every state an episode passes.
PredictionIsExact ==
    ~state.done => \A a \in ToSet(Candidates(world, state)) :
        Shown(Symbolic(world, state, a).to) = Shown(Effect(world, state, a))
            <=> ~PredictorErrs(a)
=============================================================================
