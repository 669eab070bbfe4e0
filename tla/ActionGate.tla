----------------------------- MODULE ActionGate ------------------------------
(***************************************************************************)
(* core/gate.py: how a gated agent chooses among the candidates of a micro *)
(* world, from what a predictor says of each and from a prior that only    *)
(* looks at what the agent may know; and the symbolic predictor, a copy of *)
(* the worlds' rules that looks at everything.                             *)
(*                                                                         *)
(* Scores are multiplied by Unit, which makes integers of the weights in   *)
(* GateConfig and of the fractions of goals of up to six actions.          *)
(***************************************************************************)
EXTENDS MicroWorlds

GateMode == {"model_only", "prior_only", "hybrid", "hybrid_veto"}

Unit == 300

-----------------------------------------------------------------------------
(* What the gate knows of an action (CompatibilityInfo)                    *)

NoAction == <<"none">>

\* current_required_action_key: the next action of the goal, if its slot is known.
Required(w, s) ==
    IF SlotUnknown(w, s) THEN NoAction ELSE w.goal[s.progress + 1]

Known(w, s) == Required(w, s) # NoAction

Matches(w, s, a) == a = Required(w, s)

Executes(a) == Name(a) \in {"press", "move", "search", "read", "summarize"}

LastStep(w, s) == s.progress = Len(w.goal) - 1

\* The fact can_finish: in a maze, that the hint was seen, armed or not.
CanFinish(w, s) ==
    /\ LastStep(w, s)
    /\ ~SlotUnknown(w, s)
    /\ Maze(w) \/ ~s.armed

\* Mutant: what the world calls terminal is judged like any other action.
BlockedByFinishOnly(w, s, a) ==
    IF TerminalOnly(a) THEN ~CanFinish(w, s)
    ELSE (RequiresKnown(w, a) \/ Executes(a)) /\ ~Reveals(a)

\* _compatibility_blocked.
Blocked(w, s, a) ==
    CASE TerminalOnly(a) -> ~CanFinish(w, s)
      [] ~TerminalOnly(a) /\ Known(w, s) -> ~Matches(w, s, a)
      [] OTHER -> (RequiresKnown(w, a) \/ Executes(a)) /\ ~Reveals(a)

\* Mutant: only an action that executes nothing may be set up with.
EscapesIfIdle(w, s, a) == Known(w, s) /\ Reveals(a) /\ ~Executes(a)

\* _veto_escape_allowed: a way round the block that reveals or sets up.
Escapes(w, s, a) ==
    Known(w, s) /\ Reveals(a) /\ (~Executes(a) \/ s.armed)

If(condition, points) == IF condition THEN points ELSE 0

\* compatibility_prior_components, added up.
Prior(w, s, a) ==
      If(Matches(w, s, a), 300)
    - If(Known(w, s) /\ ~Matches(w, s, a) /\ Executes(a), 360)
    + If(~Known(w, s) /\ Reveals(a), 300)
    - If(~Known(w, s) /\ ~Reveals(a) /\ (RequiresKnown(w, a) \/ Executes(a)), 600)
    - If(TerminalOnly(a) /\ ~CanFinish(w, s), 600)
    - If(a = Reset /\ s.progress > 0, 240)

\* _legacy_visibility_guard_adjustment, the only prior of the mode model_only.
LegacyGuard(w, s, a) ==
    LET hidden == SlotUnknown(w, s) /\ w.mode # "visible"
        last   == LastStep(w, s) /\ (w.kind = "maze" => ~SlotUnknown(w, s))
    IN    If(hidden /\ Reveals(a), 300)
        - If(hidden /\ RequiresKnown(w, a), 600)
        - If(TerminalOnly(a) /\ ~last, 600)

-----------------------------------------------------------------------------
(* Predictions                                                             *)

\* A prediction: where it leads, its reward and information gain, and whether it
\* states a progress_delta.
Predicted(to, reward, info, delta) ==
    [to |-> to, reward |-> reward, info |-> info, delta |-> delta]

\* SymbolicPredictor._lock
PredictLock(w, s, a) ==
    CASE a = Inspect ->
           Predicted(Unarmed(s),
                     CASE s.armed -> 30 [] SlotUnknown(w, s) /\ ~s.armed -> 15
                       [] OTHER -> -3,
                     If(s.armed \/ SlotUnknown(w, s), Unit), TRUE)
      [] Right(w, s, a) /\ s.armed -> Predicted(ToStart(s), -105, 0, TRUE)
      [] Right(w, s, a) /\ ~s.armed ->
           Predicted(Forward(s), IF LastStep(w, s) THEN 300 ELSE 60, 0, TRUE)
      [] a = Reset -> Predicted(ToStart(s), -3, 0, TRUE)
      [] OTHER -> Predicted(ToStart(s), -60, 0, TRUE)

\* Mutant: the predictor forgets that a missing precondition makes a tool fail.
PredictToolReady(w, s, a) ==
    CASE s.armed /\ Name(a) = "search" -> Predicted(Unarmed(s), 36, Unit, TRUE)
      [] Revealing(w, s, a) -> Predicted(s, 15, Unit, FALSE)
      [] Right(w, s, a) /\ ~Revealing(w, s, a) ->
           Predicted(Forward(s), IF LastStep(w, s) THEN 300 ELSE 75, 0, FALSE)
      [] OTHER -> Predicted(Back(s), -30, 0, FALSE)

\* SymbolicPredictor._tool
PredictTool(w, s, a) ==
    CASE s.armed /\ Name(a) = "search" -> Predicted(Unarmed(s), 36, Unit, TRUE)
      [] s.armed /\ Right(w, s, a) -> Predicted(s, -90, 0, TRUE)
      [] Revealing(w, s, a) -> Predicted(s, 15, Unit, FALSE)
      [] Right(w, s, a) /\ ~s.armed /\ ~Revealing(w, s, a) ->
           Predicted(Forward(s), IF LastStep(w, s) THEN 300 ELSE 75, 0, FALSE)
      [] OTHER -> Predicted(Back(s), -30, 0, FALSE)

\* SymbolicPredictor._maze
PredictMaze(w, s, a) ==
    CASE a = Inspect ->
           Predicted(Unarmed(Reveal(s)), IF s.armed THEN 36 ELSE 30,
                     If(SlotUnknown(w, s) \/ s.armed, Unit), FALSE)
      [] Right(w, s, a) /\ ~SlotUnknown(w, s) /\ ~s.armed ->
           Predicted(Forward(s), 300, 0, FALSE)
      [] Right(w, s, a) /\ ~SlotUnknown(w, s) /\ s.armed ->
           Predicted(s, -105, 0, FALSE)
      [] OTHER -> Predicted(s, -75, 0, FALSE)

Symbolic(w, s, a) ==
    CASE Lock(w) -> PredictLock(w, s, a)
      [] Tool(w) -> PredictTool(w, s, a)
      [] Maze(w) -> PredictMaze(w, s, a)

NoOp(s) == Predicted(s, 0, 0, FALSE)

\* The first component of the state vector.
Headway(w, s) ==
    IF Maze(w) THEN If(1 \in s.known, Unit) ELSE (Unit * s.progress) \div Len(w.goal)

Gain(w, s, p) == Headway(w, p.to) - Headway(w, s)

\* ActionGate._score, with what the predictor takes for a success.
ModelScore(w, s, p) ==
    LET ends == Succeeded(w, p.to) \/ s.steps + 1 >= w.max
    IN  p.reward + 2 * Gain(w, s, p) + p.info + If(ends /\ p.reward > 0, Unit \div 2)

\* model_veto; the predictors here give no success_probability.
Veto(w, s, a, p) ==
    LET bad    == p.reward < -15 \/ (p.delta /\ Gain(w, s, p) < -15)
        strong == p.reward < -45 /\ p.delta /\ Gain(w, s, p) < -30
        setUp  == w.kind \in {"trap", "hazard", "precondition"} /\ ~s.armed
    IN  If(Matches(w, s, a) /\ Executes(a) /\ bad /\ (setUp => strong), -450)

-----------------------------------------------------------------------------
(* The choice                                                              *)

HardBlock == -1000000 * Unit

\* score_breakdown
Score(mode, w, s, a, p) ==
    LET free == \/ ~Blocked(w, s, a)
                \/ mode = "hybrid_veto" /\ Escapes(w, s, a)
    IN  CASE mode = "model_only" -> ModelScore(w, s, p) + LegacyGuard(w, s, a)
          [] mode = "prior_only" -> Prior(w, s, a)
          [] mode = "hybrid" /\ free -> ModelScore(w, s, p) + Prior(w, s, a)
          [] mode = "hybrid_veto" /\ free ->
               ModelScore(w, s, p) + Prior(w, s, a) + Veto(w, s, a, p)
          [] OTHER -> HardBlock + Prior(w, s, a)

\* The first of the allowed candidates whose score none of the others exceeds.
FirstBest(w, c, score) ==
    LET allowed == {n \in DOMAIN c : Allowed(w, c[n])} IN
    c[CHOOSE n \in allowed :
        \A m \in allowed : score[m] < score[n] \/ (score[m] = score[n] /\ n =< m)]

\* ActionGate.choose for the symbolic predictor and for the one that says nothing.
Chosen(mode, predictor, w, s) ==
    LET c == Candidates(w, s) IN
    FirstBest(w, c, [n \in DOMAIN c |->
        Score(mode, w, s, c[n],
              IF predictor = "symbolic" THEN Symbolic(w, s, c[n]) ELSE NoOp(s))])

\* What choose may answer, whatever a predictor says: model scores are arbitrary,
\* though far from HardBlock.
Choosable(mode, w, s) ==
    LET c    == ToSet(Candidates(w, s))
        free == {a \in c : ~Blocked(w, s, a)
                             \/ (mode = "hybrid_veto" /\ Escapes(w, s, a))}
    IN  CASE mode = "model_only" -> c
          [] mode \in {"hybrid", "hybrid_veto"} /\ free # {} -> free
          [] OTHER -> {Chosen("prior_only", "noop", w, s)}
=============================================================================
