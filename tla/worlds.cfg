SPECIFICATION Spec
CONSTANTS
    World <- Worlds
    Predictor = {"symbolic", "noop", "any"}
    MaxEpisodes = 2
CHECK_DEADLOCK FALSE
INVARIANT WhoSolvesWhat
INVARIANT PredictionIsExact
INVARIANT ProbeLeavesNothingOut
INVARIANT TrainingPrefersExperts
INVARIANT CurriculumIsReachable
INVARIANT HiddenSlotsStayHidden
INVARIANT BeliefAgreesWithGate
