-------------------------- MODULE TaskRuntimeProofs --------------------------
(***************************************************************************)
(* Proofs about TaskRuntime: for every catalog, every set of tasks and API *)
(* threads and every interleaving of their requests, with the process      *)
(* restarted at any moment, an executor is only started on an action that  *)
(* needs nobody's approval, a task that asked for an approval gets         *)
(* nowhere without one, and a status says what the other tables say. While *)
(* no two requests work at one task, what is started was not started       *)
(* before.                                                                 *)
(***************************************************************************)
EXTENDS MCTaskRuntime, WellFoundedInduction, TLAPS

-----------------------------------------------------------------------------
(* What the gate and the choice of the action answer.                      *)

\* A set of numbers that is not empty has a least one.
LEMMA Least ==
  ASSUME NEW S \in SUBSET Nat, S # {}
  PROVE  \E m \in S : \A k \in S : m =< k
<1>1. PICK m \in S : \A k \in S : <<k, m>> \notin OpToRel(<, Nat)
  BY WFMin, NatLessThanWellFounded, Zenon
<1>2. \A k \in S : ~(k < m)
  BY <1>1, Zenon DEF OpToRel
<1> QED
  BY <1>2

\* The decision on a candidate is one of the four.
LEMMA DecisionType ==
  ASSUME NEW s, NEW n
  PROVE  DecisionOn(s, n) \in Decision
BY DEF DecisionOn, CheckActionSafety, Decision

\* The first candidate with a decision in D is a candidate with a decision in D.
LEMMA FirstWithIs ==
  ASSUME NEW s \in TaskSpec, NEW c \in SUBSET DOMAIN s.allowed, NEW D,
         SomeWith(s, c, D)
  PROVE  \E n \in c : /\ DecisionOn(s, n) \in D
                      /\ FirstWith(s, c, D) =
                           [action |-> s.allowed[n], decision |-> DecisionOn(s, n)]
<1> DEFINE hits == {n \in c : DecisionOn(s, n) \in D}
<1>1. hits \in SUBSET Nat
  BY DEF TaskSpec
<1>2. hits # {}
  BY DEF SomeWith
<1> DEFINE n == CHOOSE m \in hits : \A k \in hits : m =< k
<1>3. n \in hits
  BY <1>1, <1>2, Least
<1>4. FirstWith(s, c, D) = [action |-> s.allowed[n], decision |-> DecisionOn(s, n)]
  BY DEF FirstWith
<1> QED
  BY <1>3, <1>4

\* The candidates are positions of the allowed actions.
LEMMA CandidatesAre ==
  ASSUME NEW s
  PROVE  CandidateActions(s) \in SUBSET DOMAIN s.allowed
BY DEF CandidateActions

\* A decision without approval that lets an action run finds it harmless.
LEMMA AllowIsHarmless ==
  ASSUME NEW s \in TaskSpec, NEW n \in DOMAIN s.allowed,
         DecisionOn(s, n) = "allow"
  PROVE  Harmless(s, s.allowed[n]) /\ s.allowed[n] \in Elements(s.allowed)
<1> DEFINE a == s.allowed[n]
<1>1. s.allowed[n] \in Action
  BY DEF TaskSpec
<1>2. a \in Elements(s.allowed)
  BY DEF Elements
<1> HIDE DEF a
<1>3. Catalog[a] \in ActionDefinition
  BY <1>1, CatalogAssumption DEF a
<1>4. CheckActionSafety(s, a, FALSE) = "allow"
  BY DEF DecisionOn, a
<1>5. ~Denied(s, a) /\ s.mode # "dry_run" /\ ~Gated(s, a) /\ ~Catalog[a].side_effect
  BY <1>4 DEF CheckActionSafety
<1>6. Catalog[a].risk \in Risk
  BY <1>3 DEF ActionDefinition
<1>7. Harmless(s, a)
  BY <1>5, <1>6 DEF Denied, Gated, Harmless, Risk
<1> QED
  BY <1>2, <1>7 DEF a

\* What run chooses is typed, and an action that it is allowed to run is harmless.
LEMMA ChoiceIsSound ==
  ASSUME NEW s \in TaskSpec
  PROVE  LET c == ChooseFirstAllowed(s, CandidateActions(s)) IN
         /\ c \in Choice
         /\ c.decision = "allow" =>
              Harmless(s, c.action) /\ c.action \in Elements(s.allowed)
<1> DEFINE c == CandidateActions(s)
<1> DEFINE r == ChooseFirstAllowed(s, c)
<1>1. c \in SUBSET DOMAIN s.allowed
  BY CandidatesAre
<1>2. \A n \in c : s.allowed[n] \in Action /\ DecisionOn(s, n) \in Decision
  BY <1>1, DecisionType DEF TaskSpec
<1> HIDE DEF c
<1>3. r = NoChoice \/
        \E n \in c : r = [action |-> s.allowed[n], decision |-> DecisionOn(s, n)]
  <2>1. CASE SomeWith(s, c, {"allow", "dry_run_only"})
    BY <2>1, <1>1, FirstWithIs DEF ChooseFirstAllowed
  <2>2. CASE ~SomeWith(s, c, {"allow", "dry_run_only"})
             /\ SomeWith(s, c, {"requires_approval"})
    BY <2>2, <1>1, FirstWithIs DEF ChooseFirstAllowed
  <2>3. CASE ~SomeWith(s, c, {"allow", "dry_run_only"})
             /\ ~SomeWith(s, c, {"requires_approval"})
    BY <2>3 DEF ChooseFirstAllowed
  <2> QED
    BY <2>1, <2>2, <2>3
<1>4. NoChoice \in Choice /\ NoChoice.decision # "allow"
  BY DEF NoChoice, Choice, Decision
<1>5. r \in Choice
  BY <1>2, <1>3, <1>4 DEF Choice
<1>6. r.decision = "allow" =>
        Harmless(s, r.action) /\ r.action \in Elements(s.allowed)
  BY <1>1, <1>3, <1>4, AllowIsHarmless
<1> QED
  BY <1>5, <1>6 DEF c

\* So is what dry_run records.
LEMMA DryRunChoiceType ==
  ASSUME NEW s \in TaskSpec
  PROVE  DryRunChoice(s) \in Choice
<1> DEFINE c == CandidateActions(s)
<1> DEFINE r == DryRunChoice(s)
<1>1. c \in SUBSET DOMAIN s.allowed
  BY CandidatesAre
<1>2. \A n \in c : s.allowed[n] \in Action /\ DecisionOn(s, n) \in Decision
  BY <1>1, DecisionType DEF TaskSpec
<1> HIDE DEF c
<1>3. r = NoChoice \/
        \E n \in c : r = [action |-> s.allowed[n], decision |-> DecisionOn(s, n)]
  <2>1. CASE SomeWith(s, c, {"allow", "dry_run_only"})
    BY <2>1, <1>1, FirstWithIs DEF DryRunChoice, c
  <2>2. CASE ~SomeWith(s, c, {"allow", "dry_run_only"}) /\ c # {}
    <3>1. SomeWith(s, c, Decision)
      BY <2>2, <1>2 DEF SomeWith
    <3> QED
      BY <2>2, <3>1, <1>1, FirstWithIs DEF DryRunChoice, c
  <2>3. CASE ~SomeWith(s, c, {"allow", "dry_run_only"}) /\ c = {}
    BY <2>3 DEF DryRunChoice, c
  <2> QED
    BY <2>1, <2>2, <2>3
<1> QED
  BY <1>2, <1>3 DEF NoChoice, Choice, Decision

-----------------------------------------------------------------------------
(* The inductive invariant.                                                *)

\* The thread is about to move its task to goal, or has checked that it may.
Moves(x, goal) == x.pc \in {"check", "write"} /\ x.goal = goal

\* The thread is about to start its action.
Starts(x) == x.pc = "execute" \/ Moves(x, "executing")

Past == {"ready", "running", "deciding", "executing", "evaluating", "completed"}

\* The thread has got its task past waiting_approval, or is about to.
Advances(x) ==
    \/ x.pc \in {"decide", "execute", "result", "complete"}
    \/ x.pc = "write" /\ x.goal = "running"
    \/ \E goal \in Past \ {"running"} : Moves(x, goal)

\* What requires_approval asks for.
Approved(t) == spec[t].requires_approval => "approved" \in approvals[t]

\* A decision of the gate stands behind an action.
Decided(t, a) ==
    /\ Harmless(spec[t], a) /\ a \in Elements(spec[t].allowed)
    /\ <<a, "allow">> \in decided[t]

\* A thread at work has a task that exists, and what it is about to do is due.
ThreadIsSound(x) ==
    x.pc # "idle" =>
        /\ x.task \in Task /\ status[x.task] # "absent"
        /\ x.pc \in {"check", "write"} => x.goal \in TaskState
        /\ Starts(x) => Decided(x.task, x.act)
        /\ Advances(x) => Approved(x.task)
        /\ x.pc = "read_status" /\ x.op = "approve" => "approved" \in approvals[x.task]

ThreadsAreSound == \A h \in Thread : ThreadIsSound(thread[h])

\* What an executor was started on was decided; nothing was before there is a task.
RunsAreDecided ==
    \A t \in Task : /\ \A a \in ran[t] : Decided(t, a)
                    /\ status[t] = "absent" => ran[t] = {}

PastIsApproved == \A t \in Task : status[t] \in Past => Approved(t)

TaskInv == TypeOK /\ ThreadsAreSound /\ RunsAreDecided /\ PastIsApproved

-----------------------------------------------------------------------------
\* An idle API over an empty database has it.
LEMMA InitTask == Init => TaskInv
<1> SUFFICES ASSUME Init PROVE TaskInv
  OBVIOUS
<1>1. NoSpec \in TaskSpec
  BY DEF NoSpec, TaskSpec, Risk, Target, Mode
<1>2. NoRequest \in ThreadState
  BY DEF NoRequest, ThreadState, PC, Op
<1>3. TypeOK
  BY <1>1, <1>2, RuntimeAssumption DEF Init, TypeOK
<1>4. ThreadsAreSound
  BY DEF Init, ThreadsAreSound, ThreadIsSound, NoRequest
<1>5. RunsAreDecided /\ PastIsApproved
  BY DEF Init, RunsAreDecided, PastIsApproved, Past
<1> QED
  BY <1>3, <1>4, <1>5 DEF TaskInv

-----------------------------------------------------------------------------
(* The types.                                                              *)

\* The parts of a typed thread.
LEMMA ThreadTyped ==
  ASSUME TypeOK, NEW h \in Thread
  PROVE  /\ thread[h] \in ThreadState
         /\ thread[h].pc \in PC /\ thread[h].op \in Op \cup {"none"}
         /\ thread[h].task \in Task \cup {None}
         /\ thread[h].goal \in TaskState \cup {"none"}
         /\ thread[h].act \in Action \cup {"none"} /\ thread[h].success \in BOOLEAN
<1>1. thread[h] \in ThreadState
  BY DEF TypeOK
<1> QED
  BY <1>1, Zenon DEF ThreadState

\* A status may be set to any state, with its event.
LEMMA SetStatusTyped ==
  ASSUME TypeOK, NEW t \in Task, NEW s \in TaskState, SetStatus(t, s)
  PROVE  /\ status' \in [Task -> TaskState \cup {"absent"}]
         /\ events' \in [Task -> Seq(Event)]
<1>1. status' \in [Task -> TaskState \cup {"absent"}]
  BY DEF TypeOK, SetStatus
<1>2. s \in Event /\ events[t] \in Seq(Event)
  BY DEF TypeOK, Event
<1>3. Append(events[t], s) \in Seq(Event)
  BY <1>2
<1>4. events' = [events EXCEPT ![t] = Append(events[t], s)]
  BY DEF SetStatus, AddEvent
<1>5. events' \in [Task -> Seq(Event)]
  BY <1>3, <1>4 DEF TypeOK
<1> QED
  BY <1>1, <1>5

\* A received request is typed.
LEMMA ReceiveTyped ==
  ASSUME TypeOK, NEW h \in Thread, NEW op \in Op, NEW t \in Task, NEW pc \in PC,
         NEW goal \in TaskState \cup {"none"}, Receive(h, op, t, pc, goal)
  PROVE  /\ thread' \in [Thread -> ThreadState]
         /\ requests' \in 0..MaxRequests /\ restarts' \in 0..MaxRestarts
<1>1. [NoRequest EXCEPT !.pc = pc, !.op = op, !.task = t, !.goal = goal] \in ThreadState
  BY DEF NoRequest, ThreadState
<1> QED
  BY <1>1, RuntimeAssumption DEF Receive, TypeOK

\* So is a thread that goes on, or whose request ends.
LEMMA GoTyped ==
  ASSUME TypeOK, NEW h \in Thread
  PROVE  /\ \A pc \in PC : Goto(h, pc) => thread' \in [Thread -> ThreadState]
         /\ \A goal \in TaskState :
              Transition(h, goal) => thread' \in [Thread -> ThreadState]
         /\ Return(h) => thread' \in [Thread -> ThreadState]
<1>0. thread[h] \in ThreadState /\ thread \in [Thread -> ThreadState]
  BY DEF TypeOK
<1>1. ASSUME NEW pc \in PC PROVE [thread[h] EXCEPT !.pc = pc] \in ThreadState
  BY <1>0 DEF ThreadState
<1>2. ASSUME NEW pc \in PC, NEW goal \in TaskState
      PROVE  [thread[h] EXCEPT !.pc = pc, !.goal = goal] \in ThreadState
  BY <1>0 DEF ThreadState
<1>3. NoRequest \in ThreadState
  BY DEF NoRequest, ThreadState, PC, Op
<1>4. ASSUME NEW pc \in PC, Goto(h, pc) PROVE thread' \in [Thread -> ThreadState]
  BY <1>0, <1>4, <1>1 DEF Goto
<1>5. ASSUME NEW goal \in TaskState, Transition(h, goal)
      PROVE  thread' \in [Thread -> ThreadState]
  BY <1>0, <1>5, <1>2 DEF Transition, PC
<1>6. ASSUME Return(h) PROVE thread' \in [Thread -> ThreadState]
  BY <1>0, <1>6, <1>3 DEF Return
<1> QED
  BY <1>4, <1>5, <1>6

\* A thread at work has a task; one that is to change its status knows to what.
LEMMA AtWork ==
  ASSUME TaskInv, NEW h \in Thread, thread[h].pc # "idle"
  PROVE  /\ thread[h].task \in Task /\ status[thread[h].task] # "absent"
         /\ thread[h].pc \in {"check", "write"} => thread[h].goal \in TaskState
BY DEF TaskInv, ThreadsAreSound, ThreadIsSound

\* What becomes of a thread after a write.
LEMMA AfterWriteIs ==
  ASSUME NEW h, AfterWrite(h)
  PROVE  \/ \E goal \in {"waiting_approval", "ready", "deciding"} : Transition(h, goal)
         \/ \E pc \in {"decide", "execute", "complete", "trace"} : Goto(h, pc)
         \/ Return(h)
BY Zenon DEF AfterWrite

\* The types are kept.
LEMMA NextTaskType == TaskInv /\ [Next]_vars => TypeOK'
<1> SUFFICES ASSUME TaskInv, [Next]_vars PROVE TypeOK'
  OBVIOUS
<1> TypeOK
  BY DEF TaskInv
<1> USE DEF tables
<1>1. ASSUME NEW h \in Thread, Check(h) PROVE TypeOK'
  BY <1>1, GoTyped DEF Check, TypeOK, PC
<1>2. ASSUME NEW h \in Thread, Write(h) PROVE TypeOK'
  <2>1. thread[h].pc = "write" /\ SetStatus(thread[h].task, thread[h].goal)
        /\ AfterWrite(h)
    BY <1>2 DEF Write
  <2>2. thread' \in [Thread -> ThreadState]
    BY <2>1, AfterWriteIs, GoTyped DEF TaskState, PC
  <2>3. /\ status' \in [Task -> TaskState \cup {"absent"}]
        /\ events' \in [Task -> Seq(Event)]
    BY <2>1, AtWork, SetStatusTyped
  <2> QED
    BY <1>2, <2>2, <2>3 DEF Write, TypeOK
<1>3. ASSUME NEW h \in Thread, Gate(h) PROVE TypeOK'
  BY <1>3, GoTyped DEF Gate, TypeOK, TaskState
<1>4. ASSUME NEW h \in Thread, Decide(h) PROVE TypeOK'
  <2> DEFINE t == thread[h].task
  <2> DEFINE c == ChooseFirstAllowed(spec[t], CandidateActions(spec[t]))
  <2>1. t \in Task /\ thread[h].pc = "decide"
    BY <1>4, AtWork DEF Decide
  <2>2. c \in Choice
    BY <2>1, ChoiceIsSound DEF TypeOK
  <2>3. decided' = [decided EXCEPT ![t] = @ \cup {<<c.action, c.decision>>}]
        /\ thread' = [thread EXCEPT
             ![h].act = c.action,
             ![h].pc = CASE c.decision = "deny"         -> "trace"
                         [] c.decision = "dry_run_only" -> "complete"
                         [] OTHER                       -> "check",
             ![h].goal = IF c.decision = "requires_approval"
                         THEN "waiting_approval" ELSE "executing"]
    BY <1>4 DEF Decide
  <2> HIDE DEF c
  <2>4. c.action \in Action \cup {"none"} /\ c.decision \in Decision
    BY <2>2 DEF Choice
  <2>5. decided' \in [Task -> SUBSET ((Action \cup {"none"}) \X Decision)]
    BY <2>1, <2>3, <2>4 DEF TypeOK
  <2>6. thread' \in [Thread -> ThreadState]
    <3>1. PICK pc \in PC, goal \in TaskState :
            thread' = [thread EXCEPT ![h].act = c.action, ![h].pc = pc, ![h].goal = goal]
      BY <2>3 DEF PC, TaskState
    <3>2. thread[h] \in ThreadState
      BY ThreadTyped
    <3>3. [thread[h] EXCEPT !.act = c.action, !.pc = pc, !.goal = goal] \in ThreadState
      BY <2>4, <3>2 DEF ThreadState
    <3> QED
      BY <3>1, <3>3 DEF TypeOK
  <2> QED
    BY <1>4, <2>5, <2>6 DEF Decide, TypeOK
<1>5. ASSUME NEW h \in Thread, Execute(h) PROVE TypeOK'
  <2>1. PICK ok \in BOOLEAN :
          thread' = [thread EXCEPT ![h].success = ok, ![h].pc = "result"]
    BY <1>5 DEF Execute
  <2>2. thread' \in [Thread -> ThreadState]
    <3>1. thread[h] \in ThreadState
      BY ThreadTyped
    <3>2. [thread[h] EXCEPT !.success = ok, !.pc = "result"] \in ThreadState
      BY <3>1 DEF ThreadState, PC
    <3> QED
      BY <2>1, <3>2 DEF TypeOK
  <2>3. thread[h].task \in Task /\ thread[h].act \in Action
    BY <1>5 DEF Execute, TaskInv, ThreadsAreSound, ThreadIsSound, Starts, Decided,
                Harmless
  <2>4. started' \in [Task -> Nat] /\ ran' \in [Task -> SUBSET Action]
    BY <1>5, <2>3 DEF Execute, TypeOK
  <2> QED
    BY <1>5, <2>2, <2>4 DEF Execute, TypeOK
<1>6. ASSUME NEW h \in Thread, RecordResult(h) PROVE TypeOK'
  <2>1. thread' \in [Thread -> ThreadState]
    BY <1>6, GoTyped DEF RecordResult, TaskState
  <2>2. results' \in [Task -> SUBSET BOOLEAN]
    BY <1>6, ThreadTyped DEF RecordResult, TypeOK
  <2> QED
    BY <1>6, <2>1, <2>2 DEF RecordResult, TypeOK
<1>7. ASSUME NEW h \in Thread, Complete(h) PROVE TypeOK'
  <2>1. /\ status' \in [Task -> TaskState \cup {"absent"}]
        /\ events' \in [Task -> Seq(Event)]
    BY <1>7, AtWork, SetStatusTyped DEF Complete, TaskState
  <2> QED
    BY <1>7, <2>1, GoTyped DEF Complete, TypeOK
<1>8. ASSUME NEW h \in Thread, AddTrace(h) PROVE TypeOK'
  BY <1>8, AtWork, GoTyped DEF AddTrace, TypeOK, PC
<1>9. ASSUME NEW h \in Thread, Fail(h) PROVE TypeOK'
  <2>1. /\ status' \in [Task -> TaskState \cup {"absent"}]
        /\ events' \in [Task -> Seq(Event)]
    BY <1>9, AtWork, SetStatusTyped DEF Fail, TaskState
  <2> QED
    BY <1>9, <2>1, GoTyped DEF Fail, TypeOK
<1>10. ASSUME NEW h \in Thread, ReadStatus(h) PROVE TypeOK'
  BY <1>10, GoTyped DEF ReadStatus, TypeOK, TaskState
<1>11. ASSUME NEW h \in Thread, NEW t \in Task, NEW s \in Specs, CreateTask(h, t, s)
       PROVE  TypeOK'
  <2>1. thread' \in [Thread -> ThreadState] /\ requests' \in 0..MaxRequests
        /\ restarts' \in 0..MaxRestarts
    BY <1>11, ReceiveTyped DEF CreateTask, Op, PC, TaskState
  <2>2. /\ status' \in [Task -> TaskState \cup {"absent"}]
        /\ events' \in [Task -> Seq(Event)]
    BY <1>11, SetStatusTyped DEF CreateTask, TaskState
  <2>3. spec' \in [Task -> TaskSpec]
    BY <1>11 DEF CreateTask, AcceptsTaskSpec, TypeOK
  <2> QED
    BY <1>11, <2>1, <2>2, <2>3 DEF CreateTask, TypeOK
<1>12. ASSUME NEW h \in Thread, NEW t \in Task, DryRun(h, t) PROVE TypeOK'
  <2>1. thread' \in [Thread -> ThreadState] /\ requests' \in 0..MaxRequests
        /\ restarts' \in 0..MaxRestarts
    BY <1>12, ReceiveTyped DEF DryRun, Op, PC
  <2> DEFINE c == DryRunChoice(spec[t])
  <2>2. c \in Choice
    BY DryRunChoiceType DEF TypeOK
  <2>3. decided' = [decided EXCEPT ![t] = @ \cup {<<c.action, c.decision>>}]
    BY <1>12 DEF DryRun
  <2> HIDE DEF c
  <2>4. decided' \in [Task -> SUBSET ((Action \cup {"none"}) \X Decision)]
    BY <2>2, <2>3 DEF Choice, TypeOK
  <2> QED
    BY <1>12, <2>1, <2>4 DEF DryRun, TypeOK
<1>13. ASSUME NEW h \in Thread, NEW t \in Task, RunTask(h, t) PROVE TypeOK'
  BY <1>13, ReceiveTyped DEF RunTask, Op, PC, TypeOK
<1>14. ASSUME NEW h \in Thread, NEW t \in Task, NEW op \in {"approve", "reject"},
              Answer(h, op, t)
       PROVE  TypeOK'
  <2>1. thread' \in [Thread -> ThreadState] /\ requests' \in 0..MaxRequests
        /\ restarts' \in 0..MaxRestarts
    BY <1>14, ReceiveTyped DEF Answer, Op, PC
  <2>2. approvals' \in [Task -> SUBSET {"approved", "rejected"}]
    BY <1>14 DEF Answer, Verdict, TypeOK
  <2>3. events' \in [Task -> Seq(Event)]
    <3> DEFINE e == IF op = "approve" THEN "approval_approved" ELSE "approval_rejected"
    <3>1. e \in Event /\ events[t] \in Seq(Event)
      BY DEF Event, TypeOK
    <3>2. Append(events[t], e) \in Seq(Event)
      BY <3>1
    <3>3. events' = [events EXCEPT ![t] = Append(events[t], e)]
      BY <1>14 DEF Answer, AddEvent
    <3> QED
      BY <3>2, <3>3 DEF TypeOK
  <2> QED
    BY <1>14, <2>1, <2>2, <2>3 DEF Answer, TypeOK
<1>15. CASE Restart
  <2>1. NoRequest \in ThreadState
    BY DEF NoRequest, ThreadState, PC, Op
  <2> QED
    BY <1>15, <2>1, RuntimeAssumption DEF Restart, TypeOK
<1>16. CASE UNCHANGED vars
  BY <1>16 DEF vars, TypeOK
<1> QED
  BY <1>1, <1>2, <1>3, <1>4, <1>5, <1>6, <1>7, <1>8, <1>9, <1>10, <1>11, <1>12,
     <1>13, <1>14, <1>15, <1>16 DEF Next, Begin, Continue

-----------------------------------------------------------------------------
(* The tables only grow.                                                   *)

\* A task that exists keeps its specification and its row, and what was decided
\* and answered about it stays in the tables.
Grows ==
    \A t \in Task : status[t] # "absent" =>
        /\ status'[t] # "absent" /\ spec'[t] = spec[t]
        /\ decided[t] \subseteq decided'[t] /\ approvals[t] \subseteq approvals'[t]

\* They do so with every step.
LEMMA NextGrows == TaskInv /\ [Next]_vars => Grows
<1> SUFFICES ASSUME TaskInv, [Next]_vars PROVE Grows
  OBVIOUS
<1> TypeOK
  BY DEF TaskInv
<1> USE DEF tables
<1>1. ASSUME NEW h \in Thread, Write(h) PROVE Grows
  <2>1. thread[h].task \in Task /\ thread[h].goal \in TaskState
    BY <1>1, AtWork DEF Write
  <2> QED
    BY <1>1, <2>1 DEF Write, SetStatus, TypeOK, Grows, TaskState
<1>2. ASSUME NEW h \in Thread, Complete(h) \/ Fail(h) PROVE Grows
  BY <1>2, AtWork DEF Complete, Fail, SetStatus, TypeOK, Grows
<1>3. ASSUME NEW h \in Thread, Decide(h) PROVE Grows
  <2>1. \E x : decided' = [decided EXCEPT ![thread[h].task] = @ \cup x]
    BY <1>3 DEF Decide
  <2> QED
    BY <1>3, <2>1 DEF Decide, TypeOK, Grows
<1>4. ASSUME NEW h \in Thread,
             \/ Check(h) \/ Gate(h) \/ Execute(h) \/ RecordResult(h)
             \/ AddTrace(h) \/ ReadStatus(h)
      PROVE  Grows
  BY <1>4 DEF Check, Gate, Execute, RecordResult, AddTrace, ReadStatus, Grows
<1>5. ASSUME NEW h \in Thread, NEW t \in Task, NEW s \in Specs, CreateTask(h, t, s)
      PROVE  Grows
  BY <1>5 DEF CreateTask, SetStatus, TypeOK, Grows
<1>6. ASSUME NEW h \in Thread, NEW t \in Task, DryRun(h, t) PROVE Grows
  <2>1. \E x : decided' = [decided EXCEPT ![t] = @ \cup x]
    BY <1>6 DEF DryRun
  <2> QED
    BY <1>6, <2>1 DEF DryRun, TypeOK, Grows
<1>7. ASSUME NEW h \in Thread, NEW t \in Task, RunTask(h, t) PROVE Grows
  BY <1>7 DEF RunTask, Grows
<1>8. ASSUME NEW h \in Thread, NEW t \in Task, NEW op \in {"approve", "reject"},
             Answer(h, op, t)
      PROVE  Grows
  BY <1>8 DEF Answer, TypeOK, Grows
<1>9. CASE Restart \/ UNCHANGED vars
  BY <1>9 DEF Restart, vars, Grows
<1> QED
  BY <1>1, <1>2, <1>3, <1>4, <1>5, <1>6, <1>7, <1>8, <1>9 DEF Next, Begin, Continue

\* What was true of a task that exists stays true of it.
LEMMA GrowsKeeps ==
  ASSUME Grows, NEW t \in Task, status[t] # "absent"
  PROVE  /\ \A a : Decided(t, a) => Decided(t, a)'
         /\ Approved(t) => Approved(t)'
BY DEF Grows, Decided, Approved

-----------------------------------------------------------------------------
(* The threads.                                                            *)

\* A thread that the step leaves alone.
LEMMA OtherIsSound ==
  ASSUME ThreadsAreSound, Grows, NEW g \in Thread, thread'[g] = thread[g]
  PROVE  ThreadIsSound(thread[g])'
BY DEF ThreadsAreSound, ThreadIsSound, Grows, Decided, Approved

\* A thread that goes back to idle.
LEMMA IdleIsSound ==
  ASSUME NEW g \in Thread, thread'[g].pc = "idle"
  PROVE  ThreadIsSound(thread[g])'
BY DEF ThreadIsSound

\* A step of a thread leaves the others alone and the thread sound.
LEMMA ThreadsStay ==
  ASSUME ThreadsAreSound, Grows, TypeOK, NEW h \in Thread, NEW x,
         thread' = [thread EXCEPT ![h] = x], ThreadIsSound(thread[h])'
  PROVE  ThreadsAreSound'
<1> SUFFICES ASSUME NEW g \in Thread PROVE ThreadIsSound(thread[g])'
  BY DEF ThreadsAreSound
<1>1. CASE g # h
  <2>1. thread'[g] = thread[g]
    BY <1>1 DEF TypeOK
  <2> QED
    BY <2>1, OtherIsSound
<1>2. CASE g = h
  BY <1>2
<1> QED
  BY <1>1, <1>2

\* What a thread is after a step of its own; Same says what is left as it was.
Same(h) ==
    /\ thread'[h].task = thread[h].task /\ thread'[h].op = thread[h].op

OnlyMoves(h) == \E x : thread' = [thread EXCEPT ![h] = x]

LEMMA GoIs ==
  ASSUME TypeOK, NEW h \in Thread
  PROVE  /\ \A pc : Goto(h, pc) =>
              /\ OnlyMoves(h) /\ Same(h) /\ thread'[h].pc = pc
              /\ thread'[h].goal = thread[h].goal /\ thread'[h].act = thread[h].act
         /\ \A goal : Transition(h, goal) =>
              /\ OnlyMoves(h) /\ Same(h) /\ thread'[h].pc = "check"
              /\ thread'[h].goal = goal /\ thread'[h].act = thread[h].act
         /\ Return(h) => OnlyMoves(h) /\ thread'[h].pc = "idle"
<1>0. thread[h] \in ThreadState /\ thread \in [Thread -> ThreadState]
  BY DEF TypeOK
<1>1. ASSUME NEW pc, Goto(h, pc)
      PROVE  /\ OnlyMoves(h) /\ Same(h) /\ thread'[h].pc = pc
             /\ thread'[h].goal = thread[h].goal /\ thread'[h].act = thread[h].act
  <2>1. thread' = [thread EXCEPT ![h] = [thread[h] EXCEPT !.pc = pc]]
    BY <1>1, Zenon DEF Goto
  <2> QED
    BY <1>0, <2>1 DEF OnlyMoves, Same, ThreadState
<1>2. ASSUME NEW goal, Transition(h, goal)
      PROVE  /\ OnlyMoves(h) /\ Same(h) /\ thread'[h].pc = "check"
             /\ thread'[h].goal = goal /\ thread'[h].act = thread[h].act
  BY <1>0, <1>2 DEF Transition, OnlyMoves, Same, ThreadState
<1>3. ASSUME Return(h) PROVE OnlyMoves(h) /\ thread'[h].pc = "idle"
  BY <1>0, <1>3 DEF Return, OnlyMoves, NoRequest
<1> QED
  BY <1>1, <1>2, <1>3

\* Likewise for a request that has been received.
LEMMA ReceiveIs ==
  ASSUME TypeOK, NEW h \in Thread, NEW op, NEW t, NEW pc, NEW goal,
         Receive(h, op, t, pc, goal)
  PROVE  /\ OnlyMoves(h) /\ thread'[h].pc = pc /\ thread'[h].op = op
         /\ thread'[h].task = t /\ thread'[h].goal = goal
BY DEF Receive, TypeOK, OnlyMoves, NoRequest

\* A request under way that goes on: what its thread is about to do must be due,
\* or have been due before the step.
LEMMA GoesOn ==
  ASSUME TaskInv, Grows, NEW h \in Thread, thread[h].pc # "idle",
         OnlyMoves(h), Same(h), NEW t \in Task, t = thread[h].task,
         NEW x, x = thread'[h], x.pc # "read_status",
         x.pc \in {"check", "write"} => x.goal \in TaskState,
         Starts(x) => (Starts(thread[h]) /\ x.act = thread[h].act)
                        \/ Decided(t, x.act)',
         Advances(x) => Advances(thread[h]) \/ Approved(t)
  PROVE  ThreadsAreSound'
<1>1. TypeOK /\ ThreadsAreSound /\ ThreadIsSound(thread[h])
  BY DEF TaskInv, ThreadsAreSound
<1>2. status[t] # "absent" /\ x.task = t
  BY <1>1 DEF ThreadIsSound, Same
<1>3. status'[t] # "absent"
  BY <1>2 DEF Grows
<1>4. ASSUME Starts(x) PROVE Decided(t, x.act)'
  <2>1. CASE Starts(thread[h]) /\ x.act = thread[h].act
    <3>1. Decided(t, x.act)
      BY <1>1, <2>1 DEF ThreadIsSound
    <3> QED
      BY <1>2, <3>1, GrowsKeeps
  <2> QED
    BY <1>4, <2>1
<1>5. ASSUME Advances(x) PROVE Approved(t)'
  <2>1. Approved(t)
    BY <1>1, <1>5 DEF ThreadIsSound
  <2> QED
    BY <1>2, <2>1, GrowsKeeps
<1>6. ThreadIsSound(x)'
  BY <1>2, <1>3, <1>4, <1>5 DEF ThreadIsSound
<1>7. ThreadIsSound(thread[h])'
  BY <1>6
<1>8. PICK y : thread' = [thread EXCEPT ![h] = y]
  BY DEF OnlyMoves
<1> QED
  BY <1>1, <1>7, <1>8, ThreadsStay

\* A request that is received.
LEMMA Begins ==
  ASSUME TaskInv, Grows, NEW h \in Thread, NEW t \in Task, NEW op, NEW pc, NEW goal,
         Receive(h, op, t, pc, goal), status'[t] # "absent",
         \/ pc \in {"idle", "trace", "gate", "read_status"}
         \/ pc = "check" /\ goal = "validated",
         pc = "read_status" /\ op = "approve" => "approved" \in approvals'[t]
  PROVE  ThreadsAreSound'
<1>1. TypeOK /\ ThreadsAreSound
  BY DEF TaskInv
<1>2. /\ OnlyMoves(h) /\ thread'[h].pc = pc /\ thread'[h].op = op
      /\ thread'[h].task = t /\ thread'[h].goal = goal
  BY <1>1, ReceiveIs
<1>3. ~Starts(thread'[h]) /\ ~Advances(thread'[h])
  BY <1>2 DEF Starts, Advances, Moves, Past
<1>4. ThreadIsSound(thread[h])'
  BY <1>2, <1>3 DEF ThreadIsSound, TaskState
<1>5. PICK y : thread' = [thread EXCEPT ![h] = y]
  BY <1>2 DEF OnlyMoves
<1> QED
  BY <1>1, <1>4, <1>5, ThreadsStay

\* Every thread stays sound.
LEMMA NextThreads == TaskInv /\ [Next]_vars => ThreadsAreSound'
<1> SUFFICES ASSUME TaskInv, [Next]_vars PROVE ThreadsAreSound'
  OBVIOUS
<1>0. TypeOK /\ ThreadsAreSound /\ PastIsApproved /\ Grows
  BY NextGrows DEF TaskInv
<1>i. ASSUME NEW h \in Thread, Return(h) PROVE ThreadsAreSound'
  <2>1. OnlyMoves(h) /\ thread'[h].pc = "idle"
    BY <1>0, <1>i, GoIs
  <2>2. PICK y : thread' = [thread EXCEPT ![h] = y]
    BY <2>1 DEF OnlyMoves
  <2> QED
    BY <1>0, <2>1, <2>2, IdleIsSound, ThreadsStay
<1>g. ASSUME NEW h \in Thread, thread[h].pc # "idle", NEW pc, Goto(h, pc),
             pc \notin {"read_status", "check"},
             pc = "write" => thread[h].goal \in TaskState,
             pc = "execute" \/ (pc = "write" /\ thread[h].goal = "executing")
               => Starts(thread[h]),
             (\/ pc \in {"decide", "execute", "result", "complete"}
              \/ pc = "write" /\ thread[h].goal \in Past)
               => Advances(thread[h]) \/ Approved(thread[h].task)
      PROVE  ThreadsAreSound'
  <2>1. PICK t \in Task : t = thread[h].task
    BY <1>g, AtWork
  <2>2. /\ OnlyMoves(h) /\ Same(h) /\ thread'[h].pc = pc
        /\ thread'[h].goal = thread[h].goal /\ thread'[h].act = thread[h].act
    BY <1>0, <1>g, GoIs
  <2>3. PICK x : x = thread'[h]
    OBVIOUS
  <2>4. Starts(x) => Starts(thread[h]) /\ x.act = thread[h].act
    BY <1>g, <2>2, <2>3 DEF Starts, Moves
  <2>5. Advances(x) => Advances(thread[h]) \/ Approved(t)
    BY <1>g, <2>1, <2>2, <2>3 DEF Advances, Moves, Past
  <2> QED
    BY <1>0, <1>g, <2>1, <2>2, <2>3, <2>4, <2>5, GoesOn
<1>t. ASSUME NEW h \in Thread, thread[h].pc # "idle", NEW goal \in TaskState,
             Transition(h, goal),
             goal = "executing" => Starts(thread[h]),
             goal \in Past \ {"running"} => Advances(thread[h]) \/ Approved(thread[h].task)
      PROVE  ThreadsAreSound'
  <2>1. PICK t \in Task : t = thread[h].task
    BY <1>t, AtWork
  <2>2. /\ OnlyMoves(h) /\ Same(h) /\ thread'[h].pc = "check"
        /\ thread'[h].goal = goal /\ thread'[h].act = thread[h].act
    BY <1>0, <1>t, GoIs
  <2>3. PICK x : x = thread'[h]
    OBVIOUS
  <2>4. Starts(x) => Starts(thread[h]) /\ x.act = thread[h].act
    BY <1>t, <2>2, <2>3 DEF Starts, Moves
  <2>5. Advances(x) => Advances(thread[h]) \/ Approved(t)
    BY <1>t, <2>1, <2>2, <2>3 DEF Advances, Moves
  <2> QED
    BY <1>0, <1>t, <2>1, <2>2, <2>3, <2>4, <2>5, GoesOn
<1>1. ASSUME NEW h \in Thread, Check(h) PROVE ThreadsAreSound'
  <2>1. CASE Return(h)
    BY <2>1, <1>i
  <2>2. CASE Goto(h, "write")
             /\ thread[h].goal \in ALLOWED_TRANSITIONS(status[thread[h].task])
    <3>1. thread[h].pc = "check" /\ thread[h].task \in Task
          /\ thread[h].goal \in TaskState
      BY <1>1, AtWork DEF Check
    <3>2. thread[h].goal = "running" => Approved(thread[h].task)
      <4>1. thread[h].goal = "running" => status[thread[h].task] \in Past
        BY <2>2 DEF ALLOWED_TRANSITIONS, Past
      <4> QED
        BY <3>1, <4>1, <1>0 DEF PastIsApproved
    <3>3. thread[h].goal = "executing" => Starts(thread[h])
      BY <3>1 DEF Starts, Moves
    <3>4. thread[h].goal \in Past \ {"running"} => Advances(thread[h])
      BY <3>1 DEF Advances, Moves
    <3> QED
      BY <2>2, <3>1, <3>2, <3>3, <3>4, <1>g
  <2> QED
    BY <1>1, <2>1, <2>2 DEF Check
<1>2. ASSUME NEW h \in Thread, Write(h) PROVE ThreadsAreSound'
  <2> DEFINE goal == thread[h].goal
  <2>1. thread[h].pc = "write" /\ AfterWrite(h) /\ goal \in TaskState
    BY <1>2, AtWork DEF Write
  <2>2. CASE goal = "validated"
    <3>1. Transition(h, IF spec[thread[h].task].requires_approval
                        THEN "waiting_approval" ELSE "ready")
      BY <2>1, <2>2, Zenon DEF AfterWrite
    <3>2. CASE spec[thread[h].task].requires_approval
      BY <2>1, <3>1, <3>2, <1>t DEF TaskState, Past
    <3>3. CASE ~spec[thread[h].task].requires_approval
      <4>1. Approved(thread[h].task)
        BY <3>3 DEF Approved
      <4> QED
        BY <2>1, <3>1, <3>3, <4>1, <1>t DEF TaskState
    <3> QED
      BY <3>2, <3>3
  <2>3. CASE goal = "running"
    <3>1. Transition(h, "deciding")
      BY <2>1, <2>3, Zenon DEF AfterWrite
    <3>2. Advances(thread[h])
      BY <2>1, <2>3 DEF Advances
    <3> QED
      BY <2>1, <3>1, <3>2, <1>t DEF TaskState
  <2>4. CASE goal \in {"deciding", "executing", "evaluating"}
    <3>1. \/ goal = "deciding" /\ Goto(h, "decide")
          \/ goal = "executing" /\ Goto(h, "execute")
          \/ Goto(h, "complete") \/ Goto(h, "trace")
      BY <2>1, <2>4, Zenon DEF AfterWrite
    <3>2. Advances(thread[h])
      BY <2>1, <2>4 DEF Advances, Moves, Past
    <3>3. goal = "executing" => Starts(thread[h])
      BY <2>1 DEF Starts, Moves
    <3> QED
      BY <2>1, <3>1, <3>2, <3>3, <1>g
  <2>5. CASE goal \notin {"validated", "running", "deciding", "executing", "evaluating"}
    <3>1. Return(h)
      BY <2>1, <2>5, Zenon DEF AfterWrite
    <3> QED
      BY <3>1, <1>i
  <2> QED
    BY <2>2, <2>3, <2>4, <2>5
<1>3. ASSUME NEW h \in Thread, Gate(h) PROVE ThreadsAreSound'
  BY <1>3, <1>i, <1>t DEF Gate, TaskState
<1>4. ASSUME NEW h \in Thread, Decide(h) PROVE ThreadsAreSound'
  <2>1. PICK t \in Task : t = thread[h].task
    BY <1>4, AtWork DEF Decide
  <2> DEFINE c == ChooseFirstAllowed(spec[t], CandidateActions(spec[t]))
  <2>2. /\ c \in Choice
        /\ c.decision = "allow" =>
             Harmless(spec[t], c.action) /\ c.action \in Elements(spec[t].allowed)
    BY <1>0, ChoiceIsSound DEF TypeOK
  <2>3. /\ decided' = [decided EXCEPT ![t] = @ \cup {<<c.action, c.decision>>}]
        /\ spec' = spec
        /\ thread' = [thread EXCEPT
             ![h].act = c.action,
             ![h].pc = CASE c.decision = "deny"         -> "trace"
                         [] c.decision = "dry_run_only" -> "complete"
                         [] OTHER                       -> "check",
             ![h].goal = IF c.decision = "requires_approval"
                         THEN "waiting_approval" ELSE "executing"]
    BY <1>4, <2>1 DEF Decide
  <2> HIDE DEF c
  <2>4. PICK x : x = thread'[h]
    OBVIOUS
  <2>5. thread[h] \in ThreadState /\ thread \in [Thread -> ThreadState]
    BY <1>0 DEF TypeOK
  <2>6. /\ OnlyMoves(h) /\ Same(h) /\ x.act = c.action
        /\ x.pc \in {"trace", "complete", "check"}
        /\ x.goal \in {"waiting_approval", "executing"}
        /\ x.pc = "check" /\ x.goal = "executing" => c.decision = "allow"
    <3>1. PICK pc, goal :
            /\ thread' = [thread EXCEPT ![h] = [thread[h] EXCEPT !.act = c.action,
                                                  !.pc = pc, !.goal = goal]]
            /\ pc \in {"trace", "complete", "check"}
            /\ goal \in {"waiting_approval", "executing"}
            /\ pc = "check" /\ goal = "executing" => c.decision = "allow"
      <4> DEFINE pc == CASE c.decision = "deny"         -> "trace"
                         [] c.decision = "dry_run_only" -> "complete"
                         [] OTHER                       -> "check"
      <4> DEFINE goal == IF c.decision = "requires_approval"
                         THEN "waiting_approval" ELSE "executing"
      <4>1. thread' = [thread EXCEPT ![h] = [thread[h] EXCEPT !.act = c.action,
                                               !.pc = pc, !.goal = goal]]
        BY <2>3, Zenon
      <4>2. c.decision \in Decision
        BY <2>2 DEF Choice
      <4>3. pc \in {"trace", "complete", "check"}
            /\ goal \in {"waiting_approval", "executing"}
            /\ (pc = "check" /\ goal = "executing" => c.decision = "allow")
        BY <4>2 DEF Decision
      <4> HIDE DEF pc, goal
      <4> QED
        BY <4>1, <4>3
    <3> QED
      BY <2>4, <2>5, <3>1 DEF ThreadState, OnlyMoves, Same
  <2>7. Starts(x) => Decided(t, x.act)'
    <3>1. Starts(x) => c.decision = "allow"
      BY <2>6 DEF Starts, Moves
    <3>2. c.decision = "allow" => <<c.action, "allow">> \in decided'[t]
      BY <2>3, <1>0 DEF TypeOK
    <3> QED
      BY <2>2, <2>3, <2>6, <3>1, <3>2 DEF Decided
  <2>8. thread[h].pc = "decide" /\ Advances(thread[h])
    BY <1>4 DEF Decide, Advances
  <2> QED
    BY <1>0, <2>1, <2>4, <2>6, <2>7, <2>8, GoesOn DEF TaskState
<1>5. ASSUME NEW h \in Thread, Execute(h) PROVE ThreadsAreSound'
  <2>1. PICK t \in Task : t = thread[h].task
    BY <1>5, AtWork DEF Execute
  <2>2. thread[h].pc = "execute" /\ Advances(thread[h])
    BY <1>5 DEF Execute, Advances
  <2>3. PICK ok \in BOOLEAN :
          thread' = [thread EXCEPT ![h].success = ok, ![h].pc = "result"]
    BY <1>5 DEF Execute
  <2>4. thread[h] \in ThreadState /\ thread \in [Thread -> ThreadState]
    BY <1>0 DEF TypeOK
  <2>5. PICK x : x = thread'[h]
    OBVIOUS
  <2>6. OnlyMoves(h) /\ Same(h) /\ x.pc = "result"
    <3>1. thread' = [thread EXCEPT ![h] =
                       [thread[h] EXCEPT !.success = ok, !.pc = "result"]]
      BY <2>3, Zenon
    <3> QED
      BY <2>4, <2>5, <3>1 DEF ThreadState, OnlyMoves, Same
  <2>7. ~Starts(x)
    BY <2>6 DEF Starts, Moves
  <2> QED
    BY <1>0, <2>1, <2>2, <2>5, <2>6, <2>7, GoesOn
<1>6. ASSUME NEW h \in Thread, RecordResult(h) PROVE ThreadsAreSound'
  BY <1>6, <1>t DEF RecordResult, TaskState, Advances
<1>7. ASSUME NEW h \in Thread, Complete(h) \/ Fail(h) PROVE ThreadsAreSound'
  BY <1>7, <1>i DEF Complete, Fail
<1>8. ASSUME NEW h \in Thread, AddTrace(h) PROVE ThreadsAreSound'
  BY <1>8, <1>g DEF AddTrace
<1>9. ASSUME NEW h \in Thread, ReadStatus(h) PROVE ThreadsAreSound'
  <2>1. thread[h].pc = "read_status"
    BY <1>9 DEF ReadStatus
  <2>2. thread[h].op = "approve" => Approved(thread[h].task)
    BY <1>0, <2>1 DEF ThreadsAreSound, ThreadIsSound, Approved
  <2> QED
    BY <1>9, <2>1, <2>2, <1>i, <1>t DEF ReadStatus, TaskState, Past
<1>10. ASSUME NEW h \in Thread, NEW t \in Task, NEW s \in Specs, CreateTask(h, t, s)
       PROVE  ThreadsAreSound'
  <2>1. status'[t] # "absent"
    BY <1>10, <1>0 DEF CreateTask, SetStatus, TypeOK
  <2> QED
    BY <1>10, <1>0, <2>1, Begins DEF CreateTask
<1>11. ASSUME NEW h \in Thread, NEW t \in Task, DryRun(h, t) PROVE ThreadsAreSound'
  BY <1>11, <1>0, Begins DEF DryRun
<1>12. ASSUME NEW h \in Thread, NEW t \in Task, RunTask(h, t) PROVE ThreadsAreSound'
  BY <1>12, <1>0, Begins DEF RunTask, tables
<1>13. ASSUME NEW h \in Thread, NEW t \in Task, NEW op \in {"approve", "reject"},
              Answer(h, op, t)
       PROVE  ThreadsAreSound'
  <2>1. op = "approve" => "approved" \in approvals'[t]
    BY <1>13, <1>0 DEF Answer, Verdict, TypeOK
  <2> QED
    BY <1>13, <1>0, <2>1, Begins DEF Answer
<1>14. CASE Restart
  BY <1>14, IdleIsSound DEF Restart, NoRequest, ThreadsAreSound
<1>15. CASE UNCHANGED vars
  BY <1>15, <1>0, OtherIsSound DEF vars, ThreadsAreSound
<1> QED
  BY <1>1, <1>2, <1>3, <1>4, <1>5, <1>6, <1>7, <1>8, <1>9, <1>10, <1>11, <1>12,
     <1>13, <1>14, <1>15 DEF Next, Begin, Continue

-----------------------------------------------------------------------------
(* The tables.                                                             *)

\* Only Execute adds to ran, and it adds what was decided.
LEMMA NextRuns == TaskInv /\ [Next]_vars => RunsAreDecided'
<1> SUFFICES ASSUME TaskInv, [Next]_vars PROVE RunsAreDecided'
  OBVIOUS
<1>0. TypeOK /\ ThreadsAreSound /\ RunsAreDecided /\ Grows
  BY NextGrows DEF TaskInv
<1>1. ASSUME NEW t \in Task, \A a \in ran'[t] : a \in ran[t] \/ Decided(t, a),
             status[t] = "absent" => ran'[t] = ran[t]
      PROVE  /\ \A a \in ran'[t] : Decided(t, a)'
             /\ status'[t] = "absent" => ran'[t] = {}
  <2>1. CASE status[t] = "absent"
    BY <1>0, <1>1, <2>1 DEF RunsAreDecided
  <2>2. CASE status[t] # "absent"
    <3>1. \A a \in ran'[t] : Decided(t, a)
      BY <1>0, <1>1 DEF RunsAreDecided
    <3>2. status'[t] # "absent"
      BY <1>0, <2>2 DEF Grows
    <3> QED
      BY <1>0, <2>2, <3>1, <3>2, GrowsKeeps
  <2> QED
    BY <2>1, <2>2
<1>2. CASE ran' = ran
  BY <1>1, <1>2 DEF RunsAreDecided
<1>3. ASSUME NEW h \in Thread, Execute(h) PROVE RunsAreDecided'
  <2>1. PICK t \in Task : t = thread[h].task
    BY <1>3, AtWork DEF Execute
  <2>2. status[t] # "absent" /\ Decided(t, thread[h].act)
    BY <1>0, <1>3, <2>1 DEF Execute, ThreadsAreSound, ThreadIsSound, Starts
  <2>3. ran' = [ran EXCEPT ![t] = @ \cup {thread[h].act}]
    BY <1>3, <2>1 DEF Execute
  <2>4. ASSUME NEW u \in Task
        PROVE  /\ \A a \in ran'[u] : a \in ran[u] \/ Decided(u, a)
               /\ status[u] = "absent" => ran'[u] = ran[u]
    BY <1>0, <2>2, <2>3 DEF TypeOK
  <2> QED
    BY <1>1, <2>4 DEF RunsAreDecided
<1>4. (\E h \in Thread : Execute(h)) \/ ran' = ran
  BY DEF Next, Begin, Continue, Check, Write, Gate, Decide, RecordResult, Complete,
         AddTrace, Fail, ReadStatus, CreateTask, DryRun, RunTask, Answer, Restart,
         vars
<1> QED
  BY <1>2, <1>3, <1>4

\* The status of a task gets past waiting_approval by the writes that are due.
LEMMA NextPast == TaskInv /\ [Next]_vars => PastIsApproved'
<1> SUFFICES ASSUME TaskInv, [Next]_vars PROVE PastIsApproved'
  OBVIOUS
<1>0. TypeOK /\ ThreadsAreSound /\ PastIsApproved /\ Grows
  BY NextGrows DEF TaskInv
<1>1. ASSUME NEW t \in Task, status[t] # "absent", Approved(t) PROVE Approved(t)'
  BY <1>0, <1>1, GrowsKeeps
<1>2. ASSUME NEW t \in Task, status'[t] = status[t], status'[t] \in Past
      PROVE  Approved(t)'
  BY <1>0, <1>1, <1>2 DEF PastIsApproved, Past
<1>3. ASSUME NEW t \in Task, NEW s, SetStatus(t, s),
             s \in Past => status[t] # "absent" /\ Approved(t)
      PROVE  PastIsApproved'
  <2> SUFFICES ASSUME NEW u \in Task, status'[u] \in Past PROVE Approved(u)'
    BY DEF PastIsApproved
  <2>1. CASE u = t
    BY <1>0, <1>1, <1>3, <2>1 DEF SetStatus, TypeOK
  <2>2. CASE u # t
    BY <1>0, <1>2, <1>3, <2>2 DEF SetStatus, TypeOK
  <2> QED
    BY <2>1, <2>2
<1>4. ASSUME NEW h \in Thread, Write(h) PROVE PastIsApproved'
  <2>1. PICK t \in Task : t = thread[h].task
    BY <1>4, AtWork DEF Write
  <2>2. PICK s : s = thread[h].goal
    OBVIOUS
  <2>3. thread[h].pc = "write" /\ SetStatus(t, s) /\ s \in TaskState
    BY <1>4, <2>1, <2>2, AtWork DEF Write
  <2>4. CASE s \in Past
    <3>1. Advances(thread[h])
      BY <2>2, <2>3, <2>4 DEF Advances, Moves, Past
    <3> QED
      BY <1>0, <1>3, <2>1, <2>3, <3>1 DEF ThreadsAreSound, ThreadIsSound
  <2>5. CASE s \notin Past
    BY <1>3, <2>3, <2>5
  <2> QED
    BY <2>4, <2>5
<1>5. ASSUME NEW h \in Thread, Complete(h) PROVE PastIsApproved'
  <2>1. thread[h].pc = "complete" /\ SetStatus(thread[h].task, "completed")
        /\ Advances(thread[h])
    BY <1>5 DEF Complete, Advances
  <2> QED
    BY <1>0, <1>3, <2>1 DEF ThreadsAreSound, ThreadIsSound
<1>6. ASSUME NEW h \in Thread, Fail(h) PROVE PastIsApproved'
  BY <1>3, <1>6, AtWork DEF Fail, Past
<1>7. ASSUME NEW h \in Thread, NEW t \in Task, NEW s \in Specs, CreateTask(h, t, s)
      PROVE  PastIsApproved'
  BY <1>3, <1>7 DEF CreateTask, Past
<1>8. ASSUME status' = status PROVE PastIsApproved'
  BY <1>2, <1>8 DEF PastIsApproved
<1>9. \/ status' = status
      \/ \E h \in Thread : Write(h) \/ Complete(h) \/ Fail(h)
      \/ \E h \in Thread, t \in Task, s \in Specs : CreateTask(h, t, s)
  BY DEF Next, Begin, Continue, Check, Gate, Decide, Execute, RecordResult, AddTrace,
         ReadStatus, DryRun, RunTask, Answer, Restart, vars, tables
<1> QED
  BY <1>4, <1>5, <1>6, <1>7, <1>8, <1>9

-----------------------------------------------------------------------------
\* The invariant holds whatever is requested, in whatever order, restarts included.
THEOREM TaskInvAlways == Spec => []TaskInv
<1>1. TaskInv /\ [Next]_vars => TaskInv'
  BY NextTaskType, NextThreads, NextRuns, NextPast DEF TaskInv
<1> QED
  BY <1>1, InitTask, PTL DEF Spec

\* An executor is only started on an action that the gate allowed without an
\* approval, after that decision was recorded; and a task that asked for an approval
\* gets past waiting_approval only with one in the table (harness/service.py).
THEOREM RunsAuthorisedAlways == Spec => []RunsAreAuthorised
<1>1. TaskInv => RunsAreAuthorised
  BY DEF TaskInv, RunsAreDecided, PastIsApproved, Decided, Approved, Past,
         RunsAreAuthorised
<1> QED
  BY <1>1, TaskInvAlways, PTL

-----------------------------------------------------------------------------
(* The tables agree.                                                       *)

\* What a completed task can show for it.
Backed(t) == TRUE \in results[t] \/ (spec[t].mode = "dry_run" /\ started[t] = 0)

\* A thread that is about to call its task completed or failed can say why.
ThreadAgrees(x) ==
    x.pc # "idle" =>
        /\ x.pc = "complete" => Backed(x.task)
        /\ Moves(x, "evaluating") /\ x.success => TRUE \in results[x.task]
        /\ x.pc = "fail" => x.task \in traced
        /\ ~Moves(x, "completed")
        /\ Moves(x, "failed") \/ (x.pc = "read_status" /\ x.op # "approve")
             => "rejected" \in approvals[x.task]

ThreadsAgree == \A h \in Thread : ThreadAgrees(thread[h])

\* An execution leaves its action behind.
StartsAreRun == \A t \in Task : started[t] # 0 => ran[t] # {}

AgreeInv ==
    /\ TaskInv
    /\ ThreadsAgree /\ StartsAreRun
    /\ CompletedIsBacked /\ FailedIsExplained /\ LogTellsStatus

\* An action that was run shows that the task did not ask for a dry run.
LEMMA RunIsNoDryRun ==
  ASSUME TaskInv, StartsAreRun, NEW t \in Task, spec[t].mode = "dry_run"
  PROVE  started[t] = 0
<1>1. \A a \in ran[t] : spec[t].mode # "dry_run"
  BY DEF TaskInv, RunsAreDecided, Decided, Harmless
<1> QED
  BY <1>1 DEF StartsAreRun

\* The gate calls for a dry run where the task does.
LEMMA DryRunIsAsked ==
  ASSUME NEW s \in TaskSpec,
         ChooseFirstAllowed(s, CandidateActions(s)).decision = "dry_run_only"
  PROVE  s.mode = "dry_run"
<1> DEFINE c == CandidateActions(s)
<1>1. c \in SUBSET DOMAIN s.allowed
  BY CandidatesAre
<1>2. \A n : DecisionOn(s, n) = "dry_run_only" => s.mode = "dry_run"
  BY DEF DecisionOn, CheckActionSafety
<1> HIDE DEF c
<1>3. CASE SomeWith(s, c, {"allow", "dry_run_only"})
  BY <1>1, <1>2, <1>3, FirstWithIs DEF ChooseFirstAllowed, c
<1>4. CASE ~SomeWith(s, c, {"allow", "dry_run_only"})
           /\ SomeWith(s, c, {"requires_approval"})
  <2>1. \E n \in c : /\ DecisionOn(s, n) \in {"requires_approval"}
                     /\ FirstWith(s, c, {"requires_approval"}) =
                          [action |-> s.allowed[n], decision |-> DecisionOn(s, n)]
    BY <1>1, <1>4, FirstWithIs
  <2> QED
    BY <1>4, <2>1 DEF ChooseFirstAllowed, c
<1>5. CASE ~SomeWith(s, c, {"allow", "dry_run_only"})
           /\ ~SomeWith(s, c, {"requires_approval"})
  BY <1>5 DEF ChooseFirstAllowed, NoChoice, c
<1> QED
  BY <1>3, <1>4, <1>5

\* Results, traces and answers stay in their tables, and what a task can show stays so.
Adds ==
    /\ traced \subseteq traced'
    /\ \A t \in Task : /\ results[t] \subseteq results'[t]
                       /\ approvals[t] \subseteq approvals'[t]
                       /\ status[t] # "absent" /\ Backed(t) => Backed(t)'

\* They do so with every step: a task that asked for a dry run is not executed.
LEMMA NextAdds == AgreeInv /\ [Next]_vars => Adds
<1> SUFFICES ASSUME AgreeInv, [Next]_vars PROVE Adds
  OBVIOUS
<1>0. TypeOK /\ TaskInv /\ Grows
  BY NextGrows DEF AgreeInv, TaskInv
<1>1. /\ traced \subseteq traced'
      /\ \A t \in Task : approvals[t] \subseteq approvals'[t]
  <2>1. (\E h \in Thread : AddTrace(h)) \/ traced' = traced
    BY DEF Next, Begin, Continue, Check, Write, Gate, Decide, Execute, RecordResult,
           Complete, Fail, ReadStatus, CreateTask, DryRun, RunTask, Answer, Restart,
           vars, tables
  <2>2. \/ \E h \in Thread, t \in Task, op \in {"approve", "reject"} : Answer(h, op, t)
        \/ approvals' = approvals
    BY DEF Next, Begin, Continue, Check, Write, Gate, Decide, Execute, RecordResult,
           Complete, AddTrace, Fail, ReadStatus, CreateTask, DryRun, RunTask, Restart,
           vars, tables
  <2>3. traced \subseteq traced'
    BY <2>1 DEF AddTrace
  <2>4. \A t \in Task : approvals[t] \subseteq approvals'[t]
    BY <1>0, <2>2 DEF Answer, TypeOK
  <2> QED
    BY <2>3, <2>4
<1>2. \A t \in Task : results[t] \subseteq results'[t]
  <2>1. CASE \E h \in Thread : RecordResult(h)
    BY <1>0, <2>1 DEF RecordResult, TypeOK
  <2>2. CASE ~\E h \in Thread : RecordResult(h)
    <3>1. results' = results
      BY <2>2 DEF Next, Begin, Continue, Check, Write, Gate, Decide, Execute,
                  Complete, AddTrace, Fail, ReadStatus, CreateTask, DryRun, RunTask,
                  Answer, Restart, vars, tables
    <3> QED
      BY <3>1
  <2> QED
    BY <2>1, <2>2
<1>3. ASSUME NEW t \in Task, status[t] # "absent", spec[t].mode = "dry_run",
             started[t] = 0
      PROVE  started'[t] = 0
  <2>1. ASSUME NEW h \in Thread, Execute(h) PROVE started'[t] = 0
    <3>1. thread[h].task \in Task /\ Decided(thread[h].task, thread[h].act)
      BY <1>0, <2>1 DEF Execute, TaskInv, ThreadsAreSound, ThreadIsSound, Starts
    <3>2. thread[h].task # t
      BY <1>3, <3>1 DEF Decided, Harmless
    <3> QED
      BY <1>0, <1>3, <2>1, <3>1, <3>2 DEF Execute, TypeOK
  <2>2. (\E h \in Thread : Execute(h)) \/ started' = started
    BY DEF Next, Begin, Continue, Check, Write, Gate, Decide, RecordResult, Complete,
           AddTrace, Fail, ReadStatus, CreateTask, DryRun, RunTask, Answer, Restart,
           vars
  <2> QED
    BY <1>3, <2>1, <2>2
<1>4. ASSUME NEW t \in Task, status[t] # "absent", Backed(t) PROVE Backed(t)'
  <2>1. spec'[t] = spec[t]
    BY <1>0, <1>4 DEF Grows
  <2> QED
    BY <1>2, <1>3, <1>4, <2>1 DEF Backed
<1> QED
  BY <1>1, <1>2, <1>4 DEF Adds

\* A thread that the step leaves alone still can say why.
LEMMA OtherAgrees ==
  ASSUME ThreadsAreSound, ThreadsAgree, Adds, NEW g \in Thread, thread'[g] = thread[g]
  PROVE  ThreadAgrees(thread[g])'
<1>1. PICK x : x = thread[g]
  OBVIOUS
<1>2. x.pc # "idle" => x.task \in Task /\ status[x.task] # "absent"
  BY <1>1 DEF ThreadsAreSound, ThreadIsSound
<1>3. ThreadAgrees(x)
  BY <1>1 DEF ThreadsAgree
<1>4. ThreadAgrees(x)'
  BY <1>2, <1>3 DEF ThreadAgrees, Adds
<1> QED
  BY <1>1, <1>4

\* A step of a thread leaves the others alone.
LEMMA AgreesStay ==
  ASSUME TypeOK, ThreadsAreSound, ThreadsAgree, Adds, NEW h \in Thread, OnlyMoves(h),
         ThreadAgrees(thread[h])'
  PROVE  ThreadsAgree'
<1> SUFFICES ASSUME NEW g \in Thread PROVE ThreadAgrees(thread[g])'
  BY DEF ThreadsAgree
<1>1. CASE g # h
  <2>1. thread'[g] = thread[g]
    BY <1>1 DEF TypeOK, OnlyMoves
  <2> QED
    BY <2>1, OtherAgrees
<1> QED
  BY <1>1

\* Decide keeps the thread's task and goes to one of three places.
LEMMA DecideIs ==
  ASSUME TaskInv, NEW h \in Thread, Decide(h)
  PROVE  /\ OnlyMoves(h) /\ Same(h)
         /\ thread'[h].pc \in {"trace", "complete", "check"}
         /\ thread'[h].goal \in {"waiting_approval", "executing"}
         /\ thread'[h].pc = "complete" => spec[thread[h].task].mode = "dry_run"
<1>1. PICK t \in Task : t = thread[h].task
  BY AtWork DEF Decide
<1> DEFINE c == ChooseFirstAllowed(spec[t], CandidateActions(spec[t]))
<1> DEFINE pc == CASE c.decision = "deny"         -> "trace"
                   [] c.decision = "dry_run_only" -> "complete"
                   [] OTHER                       -> "check"
<1> DEFINE goal == IF c.decision = "requires_approval"
                   THEN "waiting_approval" ELSE "executing"
<1>2. thread' = [thread EXCEPT ![h] = [thread[h] EXCEPT !.act = c.action,
                                         !.pc = pc, !.goal = goal]]
  BY <1>1, Zenon DEF Decide
<1>3. pc \in {"trace", "complete", "check"} /\ goal \in {"waiting_approval", "executing"}
  OBVIOUS
<1>4. pc = "complete" => spec[t].mode = "dry_run"
  <2>1. pc = "complete" => c.decision = "dry_run_only"
    OBVIOUS
  <2>2. spec[t] \in TaskSpec
    BY DEF TaskInv, TypeOK
  <2> QED
    BY <2>1, <2>2, DryRunIsAsked
<1>5. thread[h] \in ThreadState /\ thread \in [Thread -> ThreadState]
  BY DEF TaskInv, TypeOK
<1> HIDE DEF c, pc, goal
<1>6. OnlyMoves(h) /\ Same(h) /\ thread'[h].pc = pc /\ thread'[h].goal = goal
  BY <1>2, <1>5 DEF OnlyMoves, Same, ThreadState
<1> QED
  BY <1>1, <1>3, <1>4, <1>6

\* Execute keeps the thread's task and waits for its result to be recorded.
LEMMA ExecuteIs ==
  ASSUME TypeOK, NEW h \in Thread, Execute(h)
  PROVE  OnlyMoves(h) /\ Same(h) /\ thread'[h].pc = "result"
<1>1. PICK ok \in BOOLEAN :
        thread' = [thread EXCEPT ![h].success = ok, ![h].pc = "result"]
  BY DEF Execute
<1>2. thread' = [thread EXCEPT ![h] = [thread[h] EXCEPT !.success = ok, !.pc = "result"]]
  BY <1>1, Zenon
<1>3. thread[h] \in ThreadState /\ thread \in [Thread -> ThreadState]
  BY DEF TypeOK
<1> QED
  BY <1>2, <1>3 DEF ThreadState, OnlyMoves, Same

\* Every thread can still say why.
LEMMA NextAgree == AgreeInv /\ [Next]_vars => ThreadsAgree'
<1> SUFFICES ASSUME AgreeInv, [Next]_vars PROVE ThreadsAgree'
  OBVIOUS
<1>0. TypeOK /\ TaskInv /\ ThreadsAreSound /\ ThreadsAgree /\ Adds
  BY NextAdds DEF AgreeInv, TaskInv
<1>w. ASSUME NEW h \in Thread, thread[h].pc # "idle"
      PROVE  /\ thread[h].task \in Task /\ status[thread[h].task] # "absent"
             /\ ThreadAgrees(thread[h])
  BY <1>0, <1>w DEF ThreadsAgree, ThreadsAreSound, ThreadIsSound
<1>i. ASSUME NEW h \in Thread, Return(h) PROVE ThreadsAgree'
  <2>1. OnlyMoves(h) /\ thread'[h].pc = "idle"
    BY <1>0, <1>i, GoIs
  <2>2. ThreadAgrees(thread[h])'
    BY <2>1 DEF ThreadAgrees
  <2> QED
    BY <1>0, <2>1, <2>2, AgreesStay
<1>g. ASSUME NEW h \in Thread, thread[h].pc # "idle", NEW pc, Goto(h, pc),
             pc \notin {"read_status", "check"},
             pc = "complete" => Backed(thread[h].task)',
             pc = "fail" => thread[h].task \in traced',
             pc = "write" => thread[h].pc = "check"
      PROVE  ThreadsAgree'
  <2>1. /\ OnlyMoves(h) /\ Same(h) /\ thread'[h].pc = pc
        /\ thread'[h].goal = thread[h].goal
    BY <1>0, <1>g, GoIs
  <2>2. thread'[h].success = thread[h].success
    BY <1>0, <1>g DEF Goto, TypeOK, ThreadState
  <2>3. PICK x : x = thread'[h]
    OBVIOUS
  <2>4. ThreadAgrees(x)'
    BY <1>0, <1>g, <1>w, <2>1, <2>2, <2>3 DEF ThreadAgrees, Moves, Same, Adds
  <2> QED
    BY <1>0, <2>1, <2>3, <2>4, AgreesStay
<1>t. ASSUME NEW h \in Thread, thread[h].pc # "idle", NEW goal, Transition(h, goal),
             goal # "completed",
             goal = "evaluating" /\ thread[h].success => TRUE \in results'[thread[h].task],
             goal = "failed" => "rejected" \in approvals'[thread[h].task]
      PROVE  ThreadsAgree'
  <2>1. /\ OnlyMoves(h) /\ Same(h) /\ thread'[h].pc = "check"
        /\ thread'[h].goal = goal
    BY <1>0, <1>t, GoIs
  <2>2. thread'[h].success = thread[h].success
    BY <1>0, <1>t DEF Transition, TypeOK, ThreadState
  <2>3. PICK x : x = thread'[h]
    OBVIOUS
  <2>4. ThreadAgrees(x)'
    BY <1>t, <2>1, <2>2, <2>3 DEF ThreadAgrees, Moves, Same
  <2> QED
    BY <1>0, <2>1, <2>3, <2>4, AgreesStay
<1>r. ASSUME NEW h \in Thread, NEW op, NEW t \in Task, NEW pc, NEW goal,
             Receive(h, op, t, pc, goal), pc \notin {"complete", "fail", "write"},
             goal \notin {"completed", "evaluating", "failed"},
             pc = "read_status" /\ op # "approve" => "rejected" \in approvals'[t]
      PROVE  ThreadsAgree'
  <2>1. /\ OnlyMoves(h) /\ thread'[h].pc = pc /\ thread'[h].op = op
        /\ thread'[h].task = t /\ thread'[h].goal = goal
    BY <1>0, <1>r, ReceiveIs
  <2>2. ThreadAgrees(thread[h])'
    BY <1>r, <2>1 DEF ThreadAgrees, Moves
  <2> QED
    BY <1>0, <2>1, <2>2, AgreesStay
<1>1. ASSUME NEW h \in Thread, Check(h) PROVE ThreadsAgree'
  <2>1. thread[h].pc = "check" /\ (Goto(h, "write") \/ Return(h))
    BY <1>1 DEF Check
  <2> QED
    BY <2>1, <1>i, <1>g
<1>2. ASSUME NEW h \in Thread, Write(h) PROVE ThreadsAgree'
  <2>1. thread[h].pc = "write" /\ AfterWrite(h)
    BY <1>2 DEF Write
  <2>2. CASE \E goal \in {"waiting_approval", "ready", "deciding"} : Transition(h, goal)
    BY <2>1, <2>2, <1>t
  <2>3. CASE \E pc \in {"decide", "execute", "trace"} : Goto(h, pc)
    BY <2>1, <2>3, <1>g
  <2>4. CASE /\ Goto(h, "complete")
             /\ ~\E pc \in {"decide", "execute", "trace"} : Goto(h, pc)
             /\ ~\E goal \in {"waiting_approval", "ready", "deciding"} : Transition(h, goal)
             /\ ~Return(h)
    <3>1. thread[h].goal = "evaluating" /\ thread[h].success
      BY <2>1, <2>4, Zenon DEF AfterWrite
    <3>2. TRUE \in results[thread[h].task]
      BY <2>1, <3>1, <1>w DEF ThreadAgrees, Moves
    <3>3. Backed(thread[h].task)'
      <4>1. PICK t \in Task : t = thread[h].task
        BY <2>1, <1>w
      <4>2. TRUE \in results'[t]
        BY <1>0, <3>2, <4>1 DEF Adds
      <4>3. Backed(t)'
        BY <4>2 DEF Backed
      <4>4. thread'[h].task = t
        BY <1>0, <2>1, <2>4, <4>1, GoIs DEF Same
      <4> QED
        BY <4>3, <4>4
    <3> QED
      BY <2>1, <2>4, <3>3, <1>g
  <2>5. CASE Return(h)
    BY <2>5, <1>i
  <2> QED
    BY <2>1, <2>2, <2>3, <2>4, <2>5, AfterWriteIs
<1>3. ASSUME NEW h \in Thread, Gate(h) PROVE ThreadsAgree'
  BY <1>3, <1>i, <1>t DEF Gate
<1>4. ASSUME NEW h \in Thread, Decide(h) PROVE ThreadsAgree'
  <2>1. PICK t \in Task : t = thread[h].task
    BY <1>4, <1>w DEF Decide
  <2>2. PICK x : x = thread'[h]
    OBVIOUS
  <2>3. /\ OnlyMoves(h) /\ x.task = t /\ x.pc \in {"trace", "complete", "check"}
        /\ x.goal \in {"waiting_approval", "executing"}
        /\ x.pc = "complete" => spec[t].mode = "dry_run"
    BY <1>0, <1>4, <2>1, <2>2, DecideIs DEF Same
  <2>4. x.pc = "complete" => Backed(t)'
    <3>1. spec[t].mode = "dry_run" => Backed(t)
      BY RunIsNoDryRun DEF Backed, AgreeInv
    <3>2. status[t] # "absent"
      BY <1>4, <1>w, <2>1 DEF Decide
    <3> QED
      BY <1>0, <2>3, <3>1, <3>2 DEF Adds
  <2>5. ThreadAgrees(x)'
    BY <2>3, <2>4 DEF ThreadAgrees, Moves
  <2> QED
    BY <1>0, <2>2, <2>3, <2>5, AgreesStay
<1>5. ASSUME NEW h \in Thread, Execute(h) PROVE ThreadsAgree'
  <2>1. OnlyMoves(h) /\ thread'[h].pc = "result"
    BY <1>0, <1>5, ExecuteIs
  <2>2. ThreadAgrees(thread[h])'
    BY <2>1 DEF ThreadAgrees, Moves
  <2> QED
    BY <1>0, <2>1, <2>2, AgreesStay
<1>6. ASSUME NEW h \in Thread, RecordResult(h) PROVE ThreadsAgree'
  <2>1. thread[h].pc = "result" /\ Transition(h, "evaluating")
        /\ results' = [results EXCEPT ![thread[h].task] = @ \cup {thread[h].success}]
    BY <1>6 DEF RecordResult
  <2>2. thread[h].success \in results'[thread[h].task]
    BY <1>0, <1>w, <2>1 DEF TypeOK
  <2>3. thread[h].success \in BOOLEAN
    BY <1>0, ThreadTyped
  <2> QED
    BY <2>1, <2>2, <2>3, <1>t
<1>7. ASSUME NEW h \in Thread, Complete(h) \/ Fail(h) PROVE ThreadsAgree'
  BY <1>7, <1>i DEF Complete, Fail
<1>8. ASSUME NEW h \in Thread, AddTrace(h) PROVE ThreadsAgree'
  BY <1>8, <1>g DEF AddTrace
<1>9. ASSUME NEW h \in Thread, ReadStatus(h) PROVE ThreadsAgree'
  <2>1. thread[h].pc = "read_status" /\ approvals' = approvals
    BY <1>9 DEF ReadStatus, tables
  <2>2. thread[h].op # "approve" => "rejected" \in approvals[thread[h].task]
    BY <1>w, <2>1 DEF ThreadAgrees
  <2> QED
    BY <1>9, <2>1, <2>2, <1>i, <1>t DEF ReadStatus
<1>10. ASSUME NEW h \in Thread, NEW t \in Task, NEW s \in Specs, CreateTask(h, t, s)
       PROVE  ThreadsAgree'
  BY <1>10, <1>r DEF CreateTask
<1>11. ASSUME NEW h \in Thread, NEW t \in Task, DryRun(h, t) PROVE ThreadsAgree'
  BY <1>11, <1>r DEF DryRun
<1>12. ASSUME NEW h \in Thread, NEW t \in Task, RunTask(h, t) PROVE ThreadsAgree'
  BY <1>12, <1>r DEF RunTask
<1>13. ASSUME NEW h \in Thread, NEW t \in Task, NEW op \in {"approve", "reject"},
              Answer(h, op, t)
       PROVE  ThreadsAgree'
  <2>1. op # "approve" => "rejected" \in approvals'[t]
    BY <1>0, <1>13 DEF Answer, Verdict, TypeOK
  <2> QED
    BY <1>13, <2>1, <1>r DEF Answer
<1>14. CASE Restart
  BY <1>14 DEF Restart, NoRequest, ThreadsAgree, ThreadAgrees
<1>15. CASE UNCHANGED vars
  BY <1>0, <1>15, OtherAgrees DEF vars, ThreadsAgree
<1> QED
  BY <1>1, <1>2, <1>3, <1>4, <1>5, <1>6, <1>7, <1>8, <1>9, <1>10, <1>11, <1>12,
     <1>13, <1>14, <1>15 DEF Next, Begin, Continue

\* An execution leaves its action behind, in the same step.
LEMMA NextStarts == AgreeInv /\ [Next]_vars => StartsAreRun'
<1> SUFFICES ASSUME AgreeInv, [Next]_vars PROVE StartsAreRun'
  OBVIOUS
<1>0. TypeOK /\ StartsAreRun
  BY DEF AgreeInv, TaskInv
<1>1. ASSUME NEW h \in Thread, Execute(h) PROVE StartsAreRun'
  BY <1>0, <1>1 DEF Execute, StartsAreRun, TypeOK
<1>2. (\E h \in Thread : Execute(h)) \/ UNCHANGED <<started, ran>>
  BY DEF Next, Begin, Continue, Check, Write, Gate, Decide, RecordResult, Complete,
         AddTrace, Fail, ReadStatus, CreateTask, DryRun, RunTask, Answer, Restart,
         vars
<1> QED
  BY <1>0, <1>1, <1>2 DEF StartsAreRun

\* What the tables say of a task after its status was set.
LEMMA SetStatusTells ==
  ASSUME TypeOK, LogTellsStatus, NEW t \in Task, NEW s \in TaskState, SetStatus(t, s)
  PROVE  LogTellsStatus'
<1> SUFFICES ASSUME NEW u \in Task
             PROVE  \/ StatusEvents(u)' = {} /\ status'[u] = "absent"
                    \/ \E n \in StatusEvents(u)' :
                          /\ status'[u] = events'[u][n]
                          /\ \A m \in StatusEvents(u)' : m =< n
  BY DEF LogTellsStatus
<1>1. CASE u = t
  <2>1. PICK log \in Seq(Event) : log = events[t]
    BY DEF TypeOK
  <2>2. events'[t] = Append(log, s) /\ status'[t] = s
    BY <2>1 DEF SetStatus, AddEvent, TypeOK
  <2>3. /\ DOMAIN Append(log, s) = 1..(Len(log) + 1)
        /\ Append(log, s)[Len(log) + 1] = s /\ Len(log) \in Nat
    BY DEF Event, TaskState
  <2>4. Len(log) + 1 \in StatusEvents(t)'
    BY <2>2, <2>3 DEF StatusEvents
  <2>5. \A m \in StatusEvents(t)' : m =< Len(log) + 1
    BY <2>2, <2>3 DEF StatusEvents
  <2> QED
    BY <1>1, <2>2, <2>3, <2>4, <2>5
<1>2. CASE u # t
  <2>1. events'[u] = events[u] /\ status'[u] = status[u]
    BY <1>2 DEF SetStatus, AddEvent, TypeOK
  <2> QED
    BY <2>1 DEF LogTellsStatus, StatusEvents
<1> QED
  BY <1>1, <1>2

\* An entry that tells no status changes nothing.
LEMMA OtherEventTells ==
  ASSUME TypeOK, LogTellsStatus, NEW t \in Task, NEW e, e \notin TaskState,
         AddEvent(t, e), status' = status
  PROVE  LogTellsStatus'
<1>1. ASSUME NEW u \in Task
      PROVE  /\ StatusEvents(u)' = StatusEvents(u)
             /\ \A n \in StatusEvents(u) : events'[u][n] = events[u][n]
  <2>1. PICK log \in Seq(Event) : log = events[u]
    BY DEF TypeOK
  <2>2. CASE u = t
    <3>1. events'[u] = Append(log, e)
      BY <2>1, <2>2 DEF AddEvent, TypeOK
    <3>2. /\ DOMAIN Append(log, e) = 1..(Len(log) + 1)
          /\ Append(log, e)[Len(log) + 1] = e /\ Len(log) \in Nat
          /\ DOMAIN log = 1..Len(log)
          /\ \A n \in 1..Len(log) : Append(log, e)[n] = log[n]
      OBVIOUS
    <3> QED
      BY <2>1, <3>1, <3>2 DEF StatusEvents
  <2>3. CASE u # t
    <3>1. events'[u] = events[u]
      BY <2>3 DEF AddEvent, TypeOK
    <3> QED
      BY <3>1 DEF StatusEvents
  <2> QED
    BY <2>2, <2>3
<1> QED
  BY <1>1 DEF LogTellsStatus

\* The log goes on telling the status: every write of a status writes its event.
LEMMA NextTells == AgreeInv /\ [Next]_vars => LogTellsStatus'
<1> SUFFICES ASSUME AgreeInv, [Next]_vars PROVE LogTellsStatus'
  OBVIOUS
<1>0. TypeOK /\ TaskInv /\ LogTellsStatus
  BY DEF AgreeInv, TaskInv
<1>1. ASSUME NEW h \in Thread, Write(h) PROVE LogTellsStatus'
  BY <1>0, <1>1, AtWork, SetStatusTells DEF Write
<1>2. ASSUME NEW h \in Thread, Complete(h) \/ Fail(h) PROVE LogTellsStatus'
  BY <1>0, <1>2, AtWork, SetStatusTells DEF Complete, Fail, TaskState
<1>3. ASSUME NEW h \in Thread, NEW t \in Task, NEW s \in Specs, CreateTask(h, t, s)
      PROVE  LogTellsStatus'
  BY <1>0, <1>3, SetStatusTells DEF CreateTask, TaskState
<1>4. ASSUME NEW h \in Thread, NEW t \in Task, NEW op \in {"approve", "reject"},
             Answer(h, op, t)
      PROVE  LogTellsStatus'
  <2>1. \E e \in {"approval_approved", "approval_rejected"} :
          AddEvent(t, e) /\ status' = status
    BY <1>4 DEF Answer
  <2> QED
    BY <1>0, <2>1, OtherEventTells DEF TaskState
<1>5. ASSUME UNCHANGED <<status, events>> PROVE LogTellsStatus'
  BY <1>0, <1>5 DEF LogTellsStatus, StatusEvents
<1>6. \/ UNCHANGED <<status, events>>
      \/ \E h \in Thread : Write(h) \/ Complete(h) \/ Fail(h)
      \/ \E h \in Thread, t \in Task, s \in Specs : CreateTask(h, t, s)
      \/ \E h \in Thread, t \in Task, op \in {"approve", "reject"} : Answer(h, op, t)
  BY DEF Next, Begin, Continue, Check, Gate, Decide, Execute, RecordResult, AddTrace,
         ReadStatus, DryRun, RunTask, Restart, vars, tables
<1> QED
  BY <1>1, <1>2, <1>3, <1>4, <1>5, <1>6

\* A task is called completed or failed by a thread that can say why.
LEMMA NextBacked == AgreeInv /\ [Next]_vars => CompletedIsBacked' /\ FailedIsExplained'
<1> SUFFICES ASSUME AgreeInv, [Next]_vars
             PROVE  CompletedIsBacked' /\ FailedIsExplained'
  OBVIOUS
<1>0. /\ TypeOK /\ TaskInv /\ Grows /\ Adds /\ ThreadsAgree
      /\ CompletedIsBacked /\ FailedIsExplained
  BY NextGrows, NextAdds DEF AgreeInv, TaskInv
<1>1. ASSUME \A t \in Task :
               \/ status'[t] = status[t]
               \/ status'[t] = "completed" /\ status[t] # "absent" /\ Backed(t)
               \/ status'[t] = "failed" /\ (t \in traced \/ "rejected" \in approvals[t])
               \/ status'[t] \notin {"completed", "failed"}
      PROVE  CompletedIsBacked' /\ FailedIsExplained'
  <2>1. ASSUME NEW t \in Task, status'[t] = "completed" PROVE Backed(t)'
    <3>1. status[t] # "absent" /\ Backed(t)
      BY <1>0, <1>1, <2>1 DEF CompletedIsBacked, Backed
    <3> QED
      BY <1>0, <3>1 DEF Adds
  <2>2. ASSUME NEW t \in Task, status'[t] = "failed"
        PROVE  t \in traced' \/ "rejected" \in approvals'[t]
    BY <1>0, <1>1, <2>2 DEF FailedIsExplained, Adds
  <2> QED
    BY <2>1, <2>2 DEF CompletedIsBacked, FailedIsExplained, Backed
<1>w. ASSUME NEW h \in Thread, thread[h].pc # "idle"
      PROVE  /\ thread[h].task \in Task /\ status[thread[h].task] # "absent"
             /\ ThreadAgrees(thread[h])
  BY <1>0, <1>w, AtWork DEF ThreadsAgree
<1>2. ASSUME NEW h \in Thread, Write(h) PROVE CompletedIsBacked' /\ FailedIsExplained'
  <2>1. thread[h].pc = "write" /\ SetStatus(thread[h].task, thread[h].goal)
    BY <1>2 DEF Write
  <2>2. /\ thread[h].goal # "completed"
        /\ thread[h].goal = "failed" => "rejected" \in approvals[thread[h].task]
    BY <1>w, <2>1 DEF ThreadAgrees, Moves
  <2> QED
    BY <1>0, <1>1, <1>w, <2>1, <2>2 DEF SetStatus, TypeOK
<1>3. ASSUME NEW h \in Thread, Complete(h) PROVE CompletedIsBacked' /\ FailedIsExplained'
  <2>1. thread[h].pc = "complete" /\ SetStatus(thread[h].task, "completed")
    BY <1>3 DEF Complete
  <2>2. Backed(thread[h].task)
    BY <1>w, <2>1 DEF ThreadAgrees
  <2> QED
    BY <1>0, <1>1, <1>w, <2>1, <2>2 DEF SetStatus, TypeOK
<1>4. ASSUME NEW h \in Thread, Fail(h) PROVE CompletedIsBacked' /\ FailedIsExplained'
  <2>1. thread[h].pc = "fail" /\ SetStatus(thread[h].task, "failed")
    BY <1>4 DEF Fail
  <2>2. thread[h].task \in traced
    BY <1>w, <2>1 DEF ThreadAgrees
  <2> QED
    BY <1>0, <1>1, <1>w, <2>1, <2>2 DEF SetStatus, TypeOK
<1>5. ASSUME NEW h \in Thread, NEW t \in Task, NEW s \in Specs, CreateTask(h, t, s)
      PROVE  CompletedIsBacked' /\ FailedIsExplained'
  BY <1>0, <1>1, <1>5 DEF CreateTask, SetStatus, TypeOK
<1>6. \/ status' = status
      \/ \E h \in Thread : Write(h) \/ Complete(h) \/ Fail(h)
      \/ \E h \in Thread, t \in Task, s \in Specs : CreateTask(h, t, s)
  BY DEF Next, Begin, Continue, Check, Gate, Decide, Execute, RecordResult, AddTrace,
         ReadStatus, DryRun, RunTask, Answer, Restart, vars, tables
<1> QED
  BY <1>1, <1>2, <1>3, <1>4, <1>5, <1>6

\* An empty database agrees with itself.
LEMMA InitAgree == Init => AgreeInv
<1> SUFFICES ASSUME Init PROVE AgreeInv
  OBVIOUS
<1>1. ThreadsAgree /\ StartsAreRun /\ CompletedIsBacked /\ FailedIsExplained
  BY DEF Init, ThreadsAgree, ThreadAgrees, NoRequest, StartsAreRun, CompletedIsBacked,
         FailedIsExplained
<1>2. LogTellsStatus
  BY DEF Init, LogTellsStatus, StatusEvents
<1> QED
  BY <1>1, <1>2, InitTask DEF AgreeInv

\* The tables go on agreeing.
LEMMA NextAgreeInv == AgreeInv /\ [Next]_vars => AgreeInv'
<1> SUFFICES ASSUME AgreeInv, [Next]_vars PROVE AgreeInv'
  OBVIOUS
<1>1. TaskInv'
  BY NextTaskType, NextThreads, NextRuns, NextPast DEF TaskInv, AgreeInv
<1> QED
  BY <1>1, NextAgree, NextStarts, NextTells, NextBacked DEF AgreeInv

\* The row, the log, the results, the answers and the traces of a task agree after every
\* commit of every interleaving (harness/memory.py, harness/service.py).
THEOREM TablesAlwaysAgree == Spec => []TablesAgree
<1>1. AgreeInv => TablesAgree
  BY DEF AgreeInv, TaskInv, TablesAgree
<1> QED
  BY <1>1, InitAgree, NextAgreeInv, PTL DEF Spec

-----------------------------------------------------------------------------
(* While requests for one task do not overlap.                             *)

\* Nothing can be executed for the task.
NoCandidates(t) == CandidateActions(spec[t]) = {}

\* Where a creation, a run and an answer stand, and the status their task then has.
Creates(x) ==
    /\ x.pc \in {"check", "write"}
    /\ \/ x.goal = "validated" /\ status[x.task] = "created"
       \/ x.goal \in {"ready", "waiting_approval"} /\ status[x.task] = "validated"

Runs(x) ==
    \/ x.pc = "gate"
    \/ x.pc = "check" /\ x.goal = "running" /\ status[x.task] \in {"ready", "validated"}
    \/ x.pc = "write" /\ x.goal = "running" /\ status[x.task] = "ready"
    \/ Moves(x, "deciding") /\ status[x.task] = "running"
    \/ /\ \/ x.pc = "decide"
          \/ x.pc = "check" /\ x.goal = "waiting_approval"
          \/ Moves(x, "executing")
       /\ status[x.task] = "deciding"
    \/ x.pc = "execute" /\ status[x.task] = "executing" /\ started[x.task] = 0
    \/ (x.pc = "result" \/ Moves(x, "evaluating")) /\ status[x.task] = "executing"
    \/ x.pc \in {"complete", "trace", "fail"} /\ status[x.task] \in {"deciding", "evaluating"}
    \/ x.pc \in {"trace", "fail"} /\ NoCandidates(x.task)

\* A run that has nothing to execute may fail the task while an answer is on its way.
Waits(t) == status[t] = "waiting_approval" \/ (status[t] = "failed" /\ NoCandidates(t))

Settles(x) ==
    \/ x.pc = "read_status"
    \/ x.pc \in {"check", "write"} /\ x.goal \in {"ready", "failed"} /\ Waits(x.task)

SerialThread(x) ==
    x.pc # "idle" => \/ x.op = "create" /\ Creates(x)
                     \/ x.op = "run" /\ Runs(x)
                     \/ x.op \in {"approve", "reject"} /\ Settles(x)

\* One thread works at a task, and one answers for it.
Exclusive ==
    \A g, h \in Thread :
        /\ thread[g].task = thread[h].task
        /\ \/ Works(thread[g]) /\ Works(thread[h])
           \/ Answers(thread[g]) /\ Answers(thread[h])
        => g = h

\* What has been executed is past the point from which it could be run again.
Once(t) ==
    /\ started[t] =< 1
    /\ started[t] = 1 => status[t] \in {"executing", "evaluating", "completed", "failed"}

Serial ==
    /\ Exclusive
    /\ \A t \in Task : Once(t)
    /\ \A h \in Thread : SerialThread(thread[h])

SerialInv == AgreeInv /\ (~overlapped => Serial)

\* What has nothing to execute was not executed.
LEMMA NothingRuns ==
  ASSUME AgreeInv, NEW t \in Task, NoCandidates(t)
  PROVE  started[t] = 0
<1>1. ASSUME NEW a \in ran[t] PROVE FALSE
  <2>1. a \in Elements(spec[t].allowed) /\ a \notin spec[t].blocked
    BY <1>1 DEF AgreeInv, TaskInv, RunsAreDecided, Decided, Harmless
  <2> QED
    BY <2>1 DEF Elements, NoCandidates, CandidateActions
<1> QED
  BY <1>1 DEF AgreeInv, StartsAreRun

\* The step is about one task.
Confined(t) ==
    \A u \in Task \ {t} : status'[u] = status[u] /\ started'[u] = started[u]

\* The steps of a thread that leave the threads of other tasks, and the one other
\* thread there may be about its own, where they may stand.
LEMMA SerialStep ==
  ASSUME AgreeInv, Grows, Serial, Exclusive', NEW h \in Thread, NEW t \in Task,
         Confined(t), OnlyMoves(h), SerialThread(thread[h])', Once(t)',
         thread[h].pc # "idle" => thread[h].task = t,
         \/ status'[t] = status[t] /\ started'[t] = started[t]
         \/ /\ thread[h].pc # "idle" /\ Works(thread[h])
            /\ Waits(t) => Waits(t)'
         \/ thread[h].pc # "idle" /\ Answers(thread[h]) /\ Waits(t)
         \/ thread[h].pc = "idle" /\ status[t] = "absent"
  PROVE  Serial'
<1>0. TypeOK /\ ThreadsAreSound
  BY DEF AgreeInv, TaskInv
<1>1. ASSUME NEW u \in Task PROVE Once(u)'
  BY <1>1 DEF Confined, Serial, Once
<1>2. ASSUME NEW g \in Thread, g # h PROVE SerialThread(thread[g])'
  <2>1. thread'[g] = thread[g]
    BY <1>0, <1>2 DEF TypeOK, OnlyMoves
  <2>2. PICK x : x = thread[g]
    OBVIOUS
  <2>3. SUFFICES ASSUME x.pc # "idle" PROVE SerialThread(x)'
    BY <2>1, <2>2 DEF SerialThread
  <2>4. PICK u \in Task : u = x.task /\ status[u] # "absent"
    BY <1>0, <2>2, <2>3 DEF ThreadsAreSound, ThreadIsSound
  <2>5. spec'[u] = spec[u] /\ SerialThread(x)
    BY <2>2, <2>4 DEF Grows, Serial
  <2>6. CASE status'[u] = status[u] /\ started'[u] = started[u]
    BY <2>4, <2>5, <2>6
       DEF SerialThread, Creates, Runs, Settles, Waits, NoCandidates, Moves
  <2>7. CASE /\ u = t /\ thread[h].pc # "idle" /\ Works(thread[h])
             /\ Waits(t) => Waits(t)'
    <3>1. ~Works(x)
      BY <1>2, <2>2, <2>4, <2>7 DEF Serial, Exclusive
    <3>2. x.op \in {"approve", "reject"} /\ Settles(x)
      BY <2>3, <2>5, <3>1 DEF SerialThread, Works
    <3> QED
      BY <2>4, <2>7, <3>2 DEF SerialThread, Settles
  <2>8. CASE u = t /\ thread[h].pc # "idle" /\ Answers(thread[h]) /\ Waits(t)
    <3>1. ~Answers(x)
      BY <1>2, <2>2, <2>4, <2>8 DEF Serial, Exclusive
    <3>2. \/ x.op = "create" /\ Creates(x)
          \/ x.op = "run" /\ Runs(x)
      BY <2>3, <2>5, <3>1 DEF SerialThread, Answers
    <3>3. status[x.task] \in {"waiting_approval", "failed"}
      BY <2>4, <2>8 DEF Waits
    <3>4. x.op = "run" /\ (x.pc = "gate" \/ (x.pc \in {"trace", "fail"} /\ NoCandidates(x.task)))
      BY <3>2, <3>3 DEF Creates, Runs
    <3> QED
      BY <2>4, <2>5, <3>4 DEF SerialThread, Runs, NoCandidates
  <2> QED
    BY <2>4, <2>6, <2>7, <2>8 DEF Confined
<1>3. \A g \in Thread : SerialThread(thread[g])'
  BY <1>2
<1> QED
  BY <1>1, <1>3 DEF Serial

\* A thread at work, and where it stands.
LEMMA AtSerialWork ==
  ASSUME AgreeInv, Serial, NEW h \in Thread, thread[h].pc # "idle"
  PROVE  /\ thread[h].task \in Task /\ status[thread[h].task] # "absent"
         /\ \/ thread[h].op = "create" /\ Works(thread[h]) /\ Creates(thread[h])
            \/ thread[h].op = "run" /\ Works(thread[h]) /\ Runs(thread[h])
            \/ /\ thread[h].op \in {"approve", "reject"} /\ Answers(thread[h])
               /\ Settles(thread[h])
BY AtWork DEF AgreeInv, Serial, SerialThread, Works, Answers

\* A step that changes no status and executes nothing.
LEMMA QuietStep ==
  ASSUME AgreeInv, Grows, Serial, Exclusive', NEW h \in Thread, NEW t \in Task,
         UNCHANGED <<status, started>>, OnlyMoves(h),
         thread[h].pc # "idle" => thread[h].task = t, SerialThread(thread[h])'
  PROVE  Serial'
<1>1. Confined(t) /\ Once(t)'
  BY DEF Confined, Serial, Once
<1> QED
  BY <1>1, SerialStep

\* The steps that read, decide and record.
LEMMA SerialReads ==
  ASSUME AgreeInv, Grows, Serial, Exclusive', NEW h \in Thread,
         Check(h) \/ Gate(h) \/ Decide(h) \/ RecordResult(h) \/ AddTrace(h) \/ ReadStatus(h)
  PROVE  Serial'
<1>0. TypeOK /\ TaskInv /\ thread[h].pc # "idle"
  BY DEF AgreeInv, TaskInv, Check, Gate, Decide, RecordResult, AddTrace, ReadStatus
<1>1. PICK t \in Task : t = thread[h].task
  BY <1>0, AtSerialWork
<1>2. PICK x : x = thread[h]
  OBVIOUS
<1>3. PICK y : y = thread'[h]
  OBVIOUS
<1>4. \/ x.op = "create" /\ Creates(x)
      \/ x.op = "run" /\ Runs(x)
      \/ x.op \in {"approve", "reject"} /\ Settles(x)
  BY <1>0, <1>2, AtSerialWork
<1>5. UNCHANGED <<status, started, spec>>
  BY DEF Check, Gate, Decide, RecordResult, AddTrace, ReadStatus, tables
<1>6. x.task = t
  BY <1>1, <1>2
<1>i. ASSUME Return(h) PROVE OnlyMoves(h) /\ SerialThread(y)'
  BY <1>0, <1>3, <1>i, GoIs DEF SerialThread
<1>g. ASSUME NEW pc, Goto(h, pc)
      PROVE  OnlyMoves(h) /\ y.pc = pc /\ y.goal = x.goal /\ y.task = t /\ y.op = x.op
  BY <1>0, <1>1, <1>2, <1>3, <1>g, GoIs DEF Same
<1>t. ASSUME NEW goal, Transition(h, goal)
      PROVE  OnlyMoves(h) /\ y.pc = "check" /\ y.goal = goal /\ y.task = t /\ y.op = x.op
  BY <1>0, <1>1, <1>2, <1>3, <1>t, GoIs DEF Same
<1>s. Waits(t)' <=> Waits(t)
  BY <1>5 DEF Waits, NoCandidates
<1> USE <1>5, <1>6
<1>7. CASE Check(h)
  <2>1. x.pc = "check" /\ (Return(h) \/ (Goto(h, "write") /\ x.goal \in ALLOWED_TRANSITIONS(status[t])))
    BY <1>1, <1>2, <1>7 DEF Check
  <2>2. CASE Goto(h, "write") /\ x.goal \in ALLOWED_TRANSITIONS(status[t])
    <3>1. x.op = "create" /\ Creates(x) => Creates(y)'
      BY <2>1, <2>2, <1>g DEF Creates
    <3>2. x.op = "run" /\ Runs(x) => Runs(y)'
      BY <2>1, <2>2, <1>g DEF Runs, Moves, ALLOWED_TRANSITIONS
    <3>3. Settles(x) => Settles(y)'
      BY <2>1, <2>2, <1>g, <1>s DEF Settles
    <3>4. SerialThread(y)'
      BY <2>2, <3>1, <3>2, <3>3, <1>4, <1>g DEF SerialThread
    <3> QED
      BY <2>2, <3>4, <1>g, <1>0, <1>1, <1>3, QuietStep
  <2> QED
    BY <2>1, <2>2, <1>i, <1>0, <1>1, <1>3, QuietStep
<1>8. CASE Gate(h)
  <2>1. x.pc = "gate"
        /\ (Return(h) \/ (Transition(h, "running") /\ status[t] \in {"ready", "validated"}))
    BY <1>1, <1>2, <1>8 DEF Gate
  <2>2. CASE Transition(h, "running") /\ status[t] \in {"ready", "validated"}
    <3>1. x.op = "run"
      BY <2>1, <1>4 DEF Creates, Settles
    <3>2. SerialThread(y)'
      BY <2>2, <3>1, <1>t DEF SerialThread, Runs
    <3> QED
      BY <2>2, <3>2, <1>t, <1>0, <1>1, <1>3, QuietStep
  <2> QED
    BY <2>1, <2>2, <1>i, <1>0, <1>1, <1>3, QuietStep
<1>9. CASE Decide(h)
  <2>1. x.pc = "decide"
    BY <1>2, <1>9 DEF Decide
  <2>2. x.op = "run" /\ status[t] = "deciding"
    BY <2>1, <1>4 DEF Creates, Settles, Runs, Moves
  <2>3. OnlyMoves(h) /\ y.op = "run" /\ y.task = t
        /\ y.pc \in {"trace", "complete", "check"}
        /\ y.goal \in {"waiting_approval", "executing"}
    BY <1>0, <1>1, <1>2, <1>3, <1>9, <2>2, DecideIs DEF Same
  <2>4. SerialThread(y)'
    BY <2>2, <2>3 DEF SerialThread, Runs, Moves
  <2> QED
    BY <2>3, <2>4, <1>0, <1>1, <1>3, QuietStep
<1>10. CASE RecordResult(h)
  <2>1. x.pc = "result" /\ Transition(h, "evaluating")
    BY <1>2, <1>10 DEF RecordResult
  <2>2. x.op = "run" /\ status[t] = "executing"
    BY <2>1, <1>4 DEF Creates, Settles, Runs, Moves
  <2>3. SerialThread(y)'
    BY <2>1, <2>2, <1>t DEF SerialThread, Runs, Moves
  <2> QED
    BY <2>1, <2>3, <1>t, <1>0, <1>1, <1>3, QuietStep
<1>11. CASE AddTrace(h)
  <2>1. x.pc = "trace" /\ Goto(h, "fail")
    BY <1>2, <1>11 DEF AddTrace
  <2>2. x.op = "run" /\ (status[t] \in {"deciding", "evaluating"} \/ NoCandidates(t))
    BY <2>1, <1>4 DEF Creates, Settles, Runs, Moves
  <2>3. SerialThread(y)'
    BY <2>1, <2>2, <1>g DEF SerialThread, Runs, NoCandidates
  <2> QED
    BY <2>1, <2>3, <1>g, <1>0, <1>1, <1>3, QuietStep
<1>12. CASE ReadStatus(h)
  <2>1. x.pc = "read_status"
        /\ (Return(h) \/ (/\ status[t] = "waiting_approval"
                          /\ \E goal \in {"ready", "failed"} : Transition(h, goal)))
    BY <1>1, <1>2, <1>12 DEF ReadStatus
  <2>2. x.op \in {"approve", "reject"}
    BY <2>1, <1>4 DEF Creates, Runs, Moves
  <2>3. CASE /\ status[t] = "waiting_approval"
             /\ \E goal \in {"ready", "failed"} : Transition(h, goal)
    <3>1. Waits(t)'
      BY <2>3 DEF Waits
    <3>2. SerialThread(y)'
      BY <2>2, <2>3, <3>1, <1>t DEF SerialThread, Settles
    <3> QED
      BY <2>3, <3>2, <1>t, <1>0, <1>1, <1>3, QuietStep
  <2> QED
    BY <2>1, <2>3, <1>i, <1>t, <1>0, <1>1, <1>3, QuietStep
<1> QED
  BY <1>7, <1>8, <1>9, <1>10, <1>11, <1>12

\* The steps that write a status, or execute.
LEMMA SerialWrites ==
  ASSUME AgreeInv, Grows, Serial, Exclusive', NEW h \in Thread,
         Write(h) \/ Complete(h) \/ Fail(h) \/ Execute(h)
  PROVE  Serial'
<1>0. TypeOK /\ TaskInv /\ thread[h].pc # "idle"
  BY DEF AgreeInv, TaskInv, Write, Complete, Fail, Execute
<1>1. PICK t \in Task : t = thread[h].task /\ status[t] # "absent"
  BY <1>0, AtSerialWork
<1>2. PICK x : x = thread[h]
  OBVIOUS
<1>3. PICK y : y = thread'[h]
  OBVIOUS
<1>4. \/ x.op = "create" /\ Works(x) /\ Creates(x)
      \/ x.op = "run" /\ Works(x) /\ Runs(x)
      \/ x.op \in {"approve", "reject"} /\ Answers(x) /\ Settles(x)
  BY <1>0, <1>2, AtSerialWork
<1>5. x.task = t /\ spec'[t] = spec[t] /\ Once(t)
  BY <1>1, <1>2 DEF Grows, Serial
<1>6. started[t] = 0 \/ status[t] \in {"executing", "evaluating", "completed", "failed"}
  BY <1>0, <1>5 DEF Once, TypeOK
<1>7. NoCandidates(t) => started[t] = 0
  BY NothingRuns
<1>i. ASSUME Return(h) PROVE OnlyMoves(h) /\ SerialThread(y)'
  BY <1>0, <1>3, <1>i, GoIs DEF SerialThread
<1>g. ASSUME NEW pc, Goto(h, pc)
      PROVE  OnlyMoves(h) /\ y.pc = pc /\ y.goal = x.goal /\ y.task = t /\ y.op = x.op
  BY <1>0, <1>1, <1>2, <1>3, <1>g, GoIs DEF Same
<1>t. ASSUME NEW goal, Transition(h, goal)
      PROVE  OnlyMoves(h) /\ y.pc = "check" /\ y.goal = goal /\ y.task = t /\ y.op = x.op
  BY <1>0, <1>1, <1>2, <1>3, <1>t, GoIs DEF Same
<1>s. ASSUME NEW s, SetStatus(t, s), started' = started
      PROVE  /\ Confined(t) /\ status'[t] = s /\ started'[t] = started[t]
             /\ (started[t] = 0 \/ s \in {"executing", "evaluating", "completed", "failed"})
                  => Once(t)'
  BY <1>0, <1>5, <1>s DEF SetStatus, Confined, Once, TypeOK
<1>8. CASE Write(h)
  <2>1. x.pc = "write" /\ SetStatus(t, x.goal) /\ AfterWrite(h) /\ started' = started
    BY <1>1, <1>2, <1>8 DEF Write
  <2>2. Confined(t) /\ status'[t] = x.goal /\ started'[t] = started[t]
        /\ ((started[t] = 0 \/ x.goal \in {"executing", "evaluating", "completed", "failed"})
              => Once(t)')
    BY <2>1, <1>s
  <2>3. CASE x.op = "create" /\ Creates(x)
    <3>1. Once(t)' /\ ~Waits(t)
      BY <2>2, <2>3, <1>5, <1>6 DEF Creates, Waits
    <3>2. OnlyMoves(h) /\ SerialThread(y)'
      <4>1. CASE x.goal = "validated"
        <5>1. \E goal \in {"waiting_approval", "ready"} : Transition(h, goal)
          BY <2>1, <4>1, <1>2, Zenon DEF AfterWrite
        <5> QED
          BY <2>2, <2>3, <4>1, <5>1, <1>t DEF SerialThread, Creates
      <4>2. CASE x.goal \in {"ready", "waiting_approval"}
        <5>1. Return(h)
          BY <2>1, <4>2, <1>2, Zenon DEF AfterWrite
        <5> QED
          BY <5>1, <1>i
      <4> QED
        BY <2>3, <4>1, <4>2 DEF Creates
    <3> QED
      BY <2>2, <2>3, <3>1, <3>2, <1>0, <1>1, <1>2, <1>3, <1>4, SerialStep DEF Works
  <2>4. CASE x.op = "run" /\ Runs(x)
    <3>1. \/ x.goal = "running" /\ status[t] = "ready"
          \/ x.goal = "deciding" /\ status[t] = "running"
          \/ x.goal = "executing" /\ status[t] = "deciding"
          \/ x.goal = "evaluating" /\ status[t] = "executing"
      BY <2>1, <2>4, <1>5 DEF Runs, Moves
    <3>2. Once(t)' /\ ~Waits(t)
      BY <2>2, <3>1, <1>6 DEF Waits
    <3>3. OnlyMoves(h) /\ SerialThread(y)'
      <4>1. CASE x.goal = "running"
        <5>1. Transition(h, "deciding")
          BY <2>1, <4>1, <1>2, Zenon DEF AfterWrite
        <5> QED
          BY <2>2, <2>4, <4>1, <5>1, <1>t DEF SerialThread, Runs, Moves
      <4>2. CASE x.goal = "deciding"
        <5>1. Goto(h, "decide")
          BY <2>1, <4>2, <1>2, Zenon DEF AfterWrite
        <5> QED
          BY <2>2, <2>4, <4>2, <5>1, <1>g DEF SerialThread, Runs
      <4>3. CASE x.goal = "executing"
        <5>1. Goto(h, "execute")
          BY <2>1, <4>3, <1>2, Zenon DEF AfterWrite
        <5>2. started'[t] = 0
          BY <2>2, <3>1, <4>3, <1>6
        <5> QED
          BY <2>2, <2>4, <4>3, <5>1, <5>2, <1>g DEF SerialThread, Runs
      <4>4. CASE x.goal = "evaluating"
        <5>1. \E pc \in {"complete", "trace"} : Goto(h, pc)
          BY <2>1, <4>4, <1>2, Zenon DEF AfterWrite
        <5> QED
          BY <2>2, <2>4, <4>4, <5>1, <1>g DEF SerialThread, Runs
      <4> QED
        BY <3>1, <4>1, <4>2, <4>3, <4>4
    <3> QED
      BY <2>2, <2>4, <3>2, <3>3, <1>0, <1>1, <1>2, <1>3, <1>4, SerialStep DEF Works
  <2>5. CASE x.op \in {"approve", "reject"} /\ Settles(x)
    <3>1. x.goal \in {"ready", "failed"} /\ Waits(t)
      BY <2>1, <2>5, <1>5 DEF Settles
    <3>2. started[t] = 0
      BY <3>1, <1>6, <1>7 DEF Waits
    <3>3. Return(h)
      BY <2>1, <3>1, <1>2, Zenon DEF AfterWrite
    <3> QED
      BY <2>2, <2>5, <3>1, <3>2, <3>3, <1>i, <1>0, <1>1, <1>2, <1>3, <1>4, SerialStep
         DEF Answers
  <2> QED
    BY <1>4, <2>3, <2>4, <2>5
<1>9. CASE Complete(h) \/ Fail(h)
  <2>1. PICK s \in {"completed", "failed"} :
          /\ SetStatus(t, s) /\ Return(h) /\ started' = started
          /\ s = "completed" => x.pc = "complete"
          /\ s = "failed" => x.pc = "fail"
    BY <1>1, <1>2, <1>9 DEF Complete, Fail
  <2>2. x.op = "run" /\ Works(x)
        /\ (status[t] \in {"deciding", "evaluating"} \/ (s = "failed" /\ NoCandidates(t)))
    BY <2>1, <1>4, <1>5 DEF Creates, Settles, Runs, Moves
  <2>3. Confined(t) /\ status'[t] = s /\ Once(t)'
    BY <2>1, <1>s
  <2>4. Waits(t) => Waits(t)'
    BY <2>2, <2>3, <1>5 DEF Waits, NoCandidates
  <2> QED
    BY <2>1, <2>2, <2>3, <2>4, <1>i, <1>0, <1>1, <1>2, <1>3, SerialStep
<1>10. CASE Execute(h)
  <2>1. x.pc = "execute" /\ started' = [started EXCEPT ![t] = @ + 1] /\ status' = status
    BY <1>1, <1>2, <1>10 DEF Execute, tables
  <2>2. x.op = "run" /\ Works(x) /\ status[t] = "executing" /\ started[t] = 0
    BY <2>1, <1>4, <1>5 DEF Creates, Settles, Runs, Moves
  <2>3. Confined(t) /\ started'[t] = 1 /\ status'[t] = "executing"
    BY <2>1, <2>2, <1>0 DEF Confined, TypeOK
  <2>4. OnlyMoves(h) /\ y.pc = "result" /\ y.task = t /\ y.op = "run"
    BY <2>2, <1>0, <1>1, <1>2, <1>3, <1>10, ExecuteIs DEF Same
  <2>5. SerialThread(y)' /\ Once(t)' /\ ~Waits(t)
    BY <2>2, <2>3, <2>4 DEF SerialThread, Runs, Once, Waits
  <2> QED
    BY <2>2, <2>3, <2>4, <2>5, <1>0, <1>1, <1>2, <1>3, SerialStep
<1> QED
  BY <1>8, <1>9, <1>10

\* The requests that are received.
LEMMA SerialBegins ==
  ASSUME AgreeInv, Grows, Serial, Exclusive', NEW h \in Thread, Begin(h)
  PROVE  Serial'
<1>0. TypeOK
  BY DEF AgreeInv, TaskInv
<1>1. PICK y : y = thread'[h]
  OBVIOUS
<1>r. ASSUME NEW op, NEW t \in Task, NEW pc, NEW goal, Receive(h, op, t, pc, goal)
      PROVE  /\ thread[h].pc = "idle" /\ OnlyMoves(h) /\ y.pc = pc /\ y.op = op
             /\ y.task = t /\ y.goal = goal
  BY <1>0, <1>1, <1>r, ReceiveIs DEF Receive
<1>2. ASSUME NEW t \in Task, NEW s \in Specs, CreateTask(h, t, s) PROVE Serial'
  <2>1. /\ status[t] = "absent" /\ SetStatus(t, "created") /\ started' = started
        /\ Receive(h, "create", t, "check", "validated")
    BY <1>2 DEF CreateTask
  <2>2. Confined(t) /\ status'[t] = "created"
    BY <2>1, <1>0 DEF Confined, SetStatus, TypeOK
  <2>3. Once(t)'
    BY <2>1 DEF Serial, Once
  <2>4. SerialThread(y)'
    BY <2>1, <2>2, <1>r DEF SerialThread, Creates
  <2> QED
    BY <2>1, <2>2, <2>3, <2>4, <1>1, <1>r, SerialStep
<1>3. ASSUME NEW t \in Task, DryRun(h, t) PROVE Serial'
  <2>1. Receive(h, "dry_run", t, "idle", "none") /\ UNCHANGED <<status, started>>
    BY <1>3 DEF DryRun
  <2>2. SerialThread(y)'
    BY <2>1, <1>r DEF SerialThread
  <2> QED
    BY <2>1, <2>2, <1>1, <1>r, QuietStep
<1>4. ASSUME NEW t \in Task, RunTask(h, t) PROVE Serial'
  <2>1. /\ UNCHANGED <<status, started, spec>>
        /\ \/ Receive(h, "run", t, "gate", "none")
           \/ Receive(h, "run", t, "trace", "none") /\ NoCandidates(t)
    BY <1>4 DEF RunTask, tables, NoCandidates
  <2>2. SerialThread(y)'
    BY <2>1, <1>r DEF SerialThread, Runs, NoCandidates
  <2> QED
    BY <2>1, <2>2, <1>1, <1>r, QuietStep
<1>5. ASSUME NEW t \in Task, NEW op \in {"approve", "reject"}, Answer(h, op, t)
      PROVE  Serial'
  <2>1. Receive(h, op, t, "read_status", "none") /\ UNCHANGED <<status, started>>
    BY <1>5 DEF Answer
  <2>2. SerialThread(y)'
    BY <2>1, <1>r DEF SerialThread, Settles
  <2> QED
    BY <2>1, <2>2, <1>1, <1>r, QuietStep
<1> QED
  BY <1>2, <1>3, <1>4, <1>5 DEF Begin

\* The invariant is kept while requests do not overlap.
LEMMA NextSerial ==
  AgreeInv /\ Serial /\ [Next]_vars /\ Exclusive' => Serial'
<1> SUFFICES ASSUME AgreeInv, Serial, [Next]_vars, Exclusive' PROVE Serial'
  OBVIOUS
<1>1. Grows
  BY NextGrows DEF AgreeInv
<1>2. ASSUME NEW h \in Thread, Continue(h) PROVE Serial'
  BY <1>1, <1>2, SerialReads, SerialWrites DEF Continue
<1>3. ASSUME NEW h \in Thread, Begin(h) PROVE Serial'
  BY <1>1, <1>3, SerialBegins
<1>4. CASE Restart
  <2>1. /\ \A h \in Thread : thread'[h].pc = "idle"
        /\ status' = status /\ started' = started
    BY <1>4 DEF Restart, tables, NoRequest
  <2> QED
    BY <2>1 DEF Serial, SerialThread, Once
<1>5. CASE UNCHANGED vars
  BY <1>5 DEF vars, tables, Serial, SerialThread, Creates, Runs, Settles, Waits, Moves,
              NoCandidates, Once
<1> QED
  BY <1>2, <1>3, <1>4, <1>5 DEF Next

\* The instance with its history takes the steps of the specification.
THEOREM HistoryImplementsSpec == HistorySpec => Spec
<1>1. HistoryInit => Init
  BY DEF HistoryInit
<1>2. [HistoryNext]_<<vars, overlapped>> => [Next]_vars
  BY DEF HistoryNext
<1> QED
  BY <1>1, <1>2, PTL DEF HistorySpec, Spec

\* A task's action is executed once at most, however often it is run and wherever a
\* restart cuts a run short, while requests for the task do not overlap (service.py run).
THEOREM ExecutedOnce == HistorySpec => []ExecutedOnceWhenSerial
<1>1. HistoryInit => SerialInv
  <2> SUFFICES ASSUME Init PROVE AgreeInv /\ Serial
    BY DEF HistoryInit, SerialInv
  <2>1. \A h \in Thread : thread[h].pc = "idle" /\ thread[h].op = "none"
    BY DEF Init, NoRequest
  <2>2. \A t \in Task : started[t] = 0
    BY DEF Init
  <2> QED
    BY <2>1, <2>2, InitAgree DEF Serial, Exclusive, SerialThread, Once, Works, Answers
<1>2. SerialInv /\ [HistoryNext]_<<vars, overlapped>> => SerialInv'
  <2> SUFFICES ASSUME SerialInv, [HistoryNext]_<<vars, overlapped>> PROVE SerialInv'
    OBVIOUS
  <2>1. AgreeInv /\ [Next]_vars
    BY DEF SerialInv, HistoryNext
  <2>2. AgreeInv'
    BY <2>1, NextAgreeInv
  <2>3. ASSUME ~overlapped' PROVE Serial /\ Exclusive'
    <3>1. CASE HistoryNext
      <4>1. ~overlapped /\ ~Overlapping
        BY <2>3, <3>1 DEF HistoryNext
      <4> QED
        BY <4>1 DEF SerialInv, Overlapping, Exclusive
    <3>2. CASE UNCHANGED <<vars, overlapped>>
      BY <2>3, <3>2 DEF SerialInv, Serial, Exclusive, vars
    <3> QED
      BY <3>1, <3>2
  <2> QED
    BY <2>1, <2>2, <2>3, NextSerial DEF SerialInv
<1>3. SerialInv => ExecutedOnceWhenSerial
  BY DEF SerialInv, Serial, Once, ExecutedOnceWhenSerial, ExecutedAtMostOnce
<1> QED
  BY <1>1, <1>2, <1>3, PTL DEF HistorySpec
=============================================================================
