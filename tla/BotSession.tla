----------------------------- MODULE BotSession -----------------------------
(***************************************************************************)
(* A conversation of one user with the Discord bot (discord_bot/), and     *)
(* what the bot has the core do for it (api/server.py, harness/service.py, *)
(* harness/memory.py).                                                     *)
(*                                                                         *)
(* on_message is a coroutine per message, and every call of the core runs  *)
(* in a thread of its own, so the handlers of two messages interleave at   *)
(* each call.  A step of a handler is one call: the core does it and       *)
(* answers; or it fails before it has changed anything; or the client      *)
(* gives up after its 60 seconds and the core does it later, or never      *)
(* (late).  Every error but those of the memory's bookkeeping ends the     *)
(* command and is told to the user.                                        *)
(*                                                                         *)
(* A call is one step of the core here, but a run of a task that is ready  *)
(* is many: other calls come in between, and other runs of the same task.  *)
(* What is inside create, run and the proposal of a capability,            *)
(* TaskRuntime and CapabilityProposals model.                              *)
(***************************************************************************)
EXTENDS LanguageOrgan

CONSTANTS
    Message,            \* messages of the user
    None,
    Prefix,             \* the bot has a command prefix
    ReplyWithoutPrefix, \* it answers what does not start with it
    AllowDms,
    AutoDo,             \* auto_do_low_risk
    Preset,             \* tasks that `run` and `benchmark` ask for, in Asked
    Commands,           \* commands of the messages of an instance
    Content,            \* sets of words a message may hold
    ContextLimit,       \* messages of the memory context (12 in the code)
    MaxTimeouts         \* bound on calls the client gives up on

\* The names handle_command knows.
AllCommands == {"auto", "ask", "plan", "do", "run", "task", "run-task", "approve", "reject",
            "set", "delete", "reset", "read", "status", "help"}

ASSUME BotAssumption ==
    /\ Preset \subseteq Asked
    /\ Content \subseteq SUBSET Word
    /\ Commands \subseteq AllCommands
    /\ ContextLimit \in Nat \ {0} /\ MaxTimeouts \in Nat

VARIABLES
    at,       \* the call the handler of a message is at
    ask,      \* what the message says
    got,      \* what its handler has in hand
    answer,   \* what the user is told
    saved,    \* rows that were set for the message, in order
    lost,     \* messages whose own record failed or timed out
    late,     \* calls given up on that the core may still do
    timeouts, \* how often that happened
    prefs,    \* user_preferences: row -> message that set it last
    tasks,    \* tasks, with whether two runs of one overlapped (a history)
    busy,     \* runs the core is at
    refs,     \* task_references
    made,     \* work items and proposals, with the message they are from
    log       \* conversation_messages

core == <<saved, prefs, tasks, busy, refs, made, log>>
vars == <<at, ask, got, answer, saved, lost, late, timeouts,
          prefs, tasks, busy, refs, made, log>>

Row == Key \X {"global", "channel"}

-----------------------------------------------------------------------------
(* What the core does for a call.                                          *)

Request == [by : Message, op : {"save", "delete", "reset", "create", "run", "approve",
                                "reject", "remember", "make", "record", "read"},
            row : Row \cup {<<>>}, what : STRING, id : Nat]

Ask(m, op) == [by |-> m, op |-> op, row |-> <<>>, what |-> "", id |-> 0]

\* set_preference: one row per key and scope, the last one wins.
SetPreference(r) ==
    /\ prefs' = [prefs EXCEPT ![r.row] = r.by]
    /\ saved' = [saved EXCEPT ![r.by] = Append(@, r.row)]
    /\ UNCHANGED <<tasks, busy, refs, made, log>>

\* delete_preference: a key in every scope, or all of them.
DeletePreference(r) ==
    /\ prefs' = [w \in Row |->
                    IF r.op = "reset" \/ w[1] = r.what THEN None ELSE prefs[w]]
    /\ UNCHANGED <<saved, tasks, busy, refs, made, log>>

CreateTask(r) ==
    /\ tasks' = Append(tasks, [by |-> r.by, spec |-> r.what, runs |-> 0,
                   overlapped |-> FALSE,
                   state |-> IF SpecOf[r.what].requires_approval
                             THEN "waiting_approval" ELSE "ready"])
    /\ UNCHANGED <<saved, prefs, busy, refs, made, log>>

TaskActions(t) == CandidateActions(SpecOf[t.spec])

\* A run begins: without candidates the task fails, and one that is not ready is
\* left to whoever has it; both answer at once.
Run(r) ==
    LET t == tasks[r.id] IN
    /\ \/ /\ TaskActions(t) = {}
          /\ tasks' = [tasks EXCEPT ![r.id].state = "failed", ![r.id].runs = @ + 1]
          /\ UNCHANGED busy
       \/ /\ TaskActions(t) # {} /\ t.state # "ready"
          /\ tasks' = [tasks EXCEPT ![r.id].runs = @ + 1]
          /\ UNCHANGED busy
       \/ /\ TaskActions(t) # {} /\ t.state = "ready"
          /\ tasks' = [tasks EXCEPT ![r.id].overlapped =
                          @ \/ \E q \in busy : q.id = r.id]
          /\ busy' = busy \cup {r}
    /\ UNCHANGED <<saved, prefs, refs, made, log>>

\* It goes from running over deciding and executing to evaluating, "running" here;
\* each is written whatever the status is by then.
GoOn(r) ==
    /\ tasks' = [tasks EXCEPT ![r.id].state = "running"]
    /\ UNCHANGED <<saved, prefs, busy, refs, made, log>>

\* The ends it may come to.  An action that needs approval has none: no state may
\* be left for waiting_approval, so the run raises.
RunEnds(t) ==
    LET d == ChooseFirstAllowed(SpecOf[t.spec], TaskActions(t)).decision IN
    CASE d = "allow"             -> {"completed", "failed"}
      [] d = "dry_run_only"      -> {"completed"}
      [] d = "requires_approval" -> {}
      [] OTHER                   -> {"failed"}

\* The end is written over whatever another run has left.
Finish(r) ==
    /\ \E s \in RunEnds(tasks[r.id]) :
          tasks' = [tasks EXCEPT ![r.id].state = s, ![r.id].runs = @ + 1]
    /\ busy' = busy \ {r}
    /\ UNCHANGED <<saved, prefs, refs, made, log>>

\* A transition is refused, by the table or after another run's, or the ledger
\* cannot be written: the task stays where it is.
Raise(r) ==
    /\ busy' = busy \ {r}
    /\ UNCHANGED <<saved, prefs, tasks, refs, made, log>>

\* Mutant: a verdict moves any task.
DecideAnyway(r) ==
    /\ tasks' = [tasks EXCEPT ![r.id].state =
                    IF r.op = "approve" THEN "ready" ELSE "failed"]
    /\ UNCHANGED <<saved, prefs, busy, refs, made, log>>

\* approve and reject only move a task that is waiting.
Decide(r) ==
    /\ tasks' = [tasks EXCEPT ![r.id].state =
                    IF @ # "waiting_approval" THEN @
                    ELSE IF r.op = "approve" THEN "ready" ELSE "failed"]
    /\ UNCHANGED <<saved, prefs, busy, refs, made, log>>

AddTaskReference(r) ==
    /\ refs' = Append(refs, [by |-> r.by, id |-> r.id, state |-> r.what])
    /\ UNCHANGED <<saved, prefs, tasks, busy, made, log>>

Make(r) ==
    /\ made' = made \cup {[by |-> r.by, what |-> r.what]}
    /\ UNCHANGED <<saved, prefs, tasks, busy, refs, log>>

AddConversationMessage(r) ==
    /\ log' = Append(log, <<r.by, r.what>>)
    /\ UNCHANGED <<saved, prefs, tasks, busy, refs, made>>

Perform(r) ==
    \/ r.op = "save" /\ SetPreference(r)
    \/ r.op \in {"delete", "reset"} /\ DeletePreference(r)
    \/ r.op = "create" /\ CreateTask(r)
    \/ r.op = "run" /\ Run(r)
    \/ r.op \in {"approve", "reject"} /\ Decide(r)
    \/ r.op = "remember" /\ AddTaskReference(r)
    \/ r.op = "make" /\ Make(r)
    \/ r.op = "record" /\ AddConversationMessage(r)
    \/ r.op = "read" /\ UNCHANGED core

-----------------------------------------------------------------------------
(* Steps of a handler.                                                     *)

\* What is not used of a saying is fixed: one saying for each thing said.
Plain == [command |-> "help", words |-> {}, task |-> CHOOSE t \in Asked : TRUE,
          row |-> <<CHOOSE k \in Key : TRUE, "global">>]

Nothing == [rows |-> <<>>, task |-> "null", id |-> 0, state |-> "none"]

\* The command returns or raises: only the answer is left of it.
Tell(m, what) ==
    /\ at' = [at EXCEPT ![m] = "log"] /\ answer' = [answer EXCEPT ![m] = what]
    /\ ask' = [ask EXCEPT ![m] = Plain]

Go(m, where) == at' = [at EXCEPT ![m] = where] /\ UNCHANGED <<answer, ask>>

Answered == UNCHANGED <<late, timeouts>>

\* CoreClient: an HTTP error, no connection, or no answer in time.
Refused == UNCHANGED <<core, late, timeouts>>
TimedOut(r) ==
    /\ timeouts < MaxTimeouts /\ r.op # "read"
    /\ timeouts' = timeouts + 1
    /\ late' = late \cup {r} /\ UNCHANGED core

NoAnswer(r) == Refused \/ TimedOut(r)

\* An exception of the command: the bot tells it.
Fails(m, r) ==
    /\ NoAnswer(r) /\ Tell(m, "failure")
    /\ got' = [got EXCEPT ![m] = Nothing] /\ UNCHANGED lost

\* _request: the call is done and handled by Then, or it raises.
Call(m, r, Then) ==
    \/ Perform(r) /\ Answered /\ Then /\ UNCHANGED lost
    \/ Fails(m, r)

-----------------------------------------------------------------------------
(* on_message                                                              *)

Envelope == [bot : BOOLEAN, allowed : BOOLEAN, guild : BOOLEAN, here : BOOLEAN,
             prefixed : BOOLEAN, named : BOOLEAN, empty : BOOLEAN]

MessageAllowed(e) ==
    /\ e.allowed
    /\ IF e.guild THEN e.here ELSE AllowDms

\* Nothing, help, a command by its name, or text for auto.
CommandLine(e) ==
    IF e.empty THEN "help"
    ELSE IF Prefix /\ e.prefixed THEN "command"
    ELSE IF ~ReplyWithoutPrefix THEN "none"
    ELSE IF ~Prefix /\ e.named THEN "command"
    ELSE "auto"

Sayings(command) ==
    CASE command \in {"auto", "ask", "plan", "do"} ->
           {[Plain EXCEPT !.command = command, !.words = w] : w \in Content}
      [] command = "run" -> {[Plain EXCEPT !.command = "run", !.task = t] : t \in Preset}
      [] command = "task" -> {[Plain EXCEPT !.command = "task", !.task = t] : t \in Asked}
      [] command \in {"set", "delete"} ->
           {[Plain EXCEPT !.command = command, !.row = <<k, "global">>] : k \in Key}
      [] OTHER -> {[Plain EXCEPT !.command = command]}

Arrive(m) ==
    /\ at[m] = "away"
    /\ \E e \in Envelope :
        /\ ~e.bot /\ MessageAllowed(e) /\ CommandLine(e) \in {"command", "auto"}
        /\ \E c \in (IF CommandLine(e) = "auto" THEN {"auto"} ELSE Commands) :
              \E s \in Sayings(c) : ask' = [ask EXCEPT ![m] = s]
    /\ at' = [at EXCEPT ![m] = "record"]
    /\ UNCHANGED <<got, answer, lost, late, timeouts, core>>

\* Help for an empty command line is sent without a word in the memory.
SendHelp(m) ==
    /\ at[m] = "away"
    /\ \E e \in Envelope : ~e.bot /\ MessageAllowed(e) /\ CommandLine(e) = "help"
    /\ at' = [at EXCEPT ![m] = "reply"]
    /\ answer' = [answer EXCEPT ![m] = "help"]
    /\ UNCHANGED <<ask, got, lost, late, timeouts, core>>

FirstCall(command) ==
    CASE command = "auto"                          -> "preferences"
      [] command \in {"ask", "plan", "do"}         -> "to_core"
      [] command \in {"run", "task"}               -> "create"
      [] command = "run-task"                      -> "run-task"
      [] command \in {"approve", "reject"}         -> "verdict"
      [] command = "set"                           -> "save"
      [] command \in {"delete", "reset"}           -> "delete"
      [] command \in {"read", "status"}            -> "read"
      [] command = "help"                          -> "log"

\* Mutant: the record is sent off and not waited for.
RecordMessageAside(m) ==
    /\ at[m] = "record"
    /\ late' = late \cup {[Ask(m, "record") EXCEPT !.what = "user"]}
    /\ at' = [at EXCEPT ![m] = FirstCall(ask[m].command)]
    /\ UNCHANGED <<ask, got, answer, lost, timeouts, core>>

\* record_message, before the command; its errors are swallowed.
RecordMessage(m) ==
    /\ at[m] = "record"
    /\ LET r == [Ask(m, "record") EXCEPT !.what = "user"] IN
          \/ Perform(r) /\ Answered /\ UNCHANGED lost
          \/ NoAnswer(r) /\ lost' = lost \cup {m}
    /\ at' = [at EXCEPT ![m] = FirstCall(ask[m].command)]
    /\ answer' = [answer EXCEPT ![m] =
                     IF ask[m].command = "help" THEN "help" ELSE @]
    /\ UNCHANGED ask
    /\ got' = [got EXCEPT ![m] =
                  CASE ask[m].command = "set" -> [@ EXCEPT !.rows = <<ask[m].row>>]
                    [] ask[m].command \in {"run", "task"} ->
                         [@ EXCEPT !.task = ask[m].task]
                    [] OTHER -> @]

-----------------------------------------------------------------------------
(* prefs and the preferences a conversation carries                        *)

\* maybe_save_conversational_preferences: the user is told, or auto goes on.
ReadPreferences(m) ==
    /\ at[m] = "preferences"
    /\ Call(m, Ask(m, "read"),
          \E p \in PreferenceIntents :
             \/ /\ p.kind = "preference_update" /\ p.candidates # <<>>
                /\ Go(m, "save")
                /\ got' = [got EXCEPT ![m].rows = p.candidates]
             \/ p.kind = "reject" /\ Tell(m, "question") /\ UNCHANGED got
             \/ /\ \/ p.kind \in {"none", "question"}
                   \/ p.kind = "preference_update" /\ p.candidates = <<>>
                /\ Go(m, "to_core") /\ UNCHANGED got)

\* Mutant: the answer is given after the first of the candidates.
SavePreferenceOnce(m) ==
    /\ at[m] = "save"
    /\ Call(m, [Ask(m, "save") EXCEPT !.row = Head(got[m].rows)],
            Tell(m, "saved") /\ UNCHANGED got)

\* One post for each candidate, in their order.
SavePreference(m) ==
    /\ at[m] = "save"
    /\ LET done == Len(saved[m]) + 1 IN
       Call(m, [Ask(m, "save") EXCEPT !.row = got[m].rows[done]],
            /\ IF done = Len(got[m].rows) THEN Tell(m, "saved") ELSE Go(m, "save")
            /\ UNCHANGED got)

ForgetPreference(m) ==
    /\ at[m] = "delete"
    /\ Call(m, [Ask(m, ask[m].command) EXCEPT !.what = ask[m].row[1]],
            Tell(m, "forgot") /\ UNCHANGED got)

-----------------------------------------------------------------------------
(* auto, ask, plan and do                                                  *)

RecentMessages ==
    {log[n] : n \in {k \in DOMAIN log : k > Len(log) - ContextLimit}}

\* language_to_core; the core reads the memory context first.
LanguageToCore(m) ==
    /\ at[m] = "to_core"
    /\ Call(m, Ask(m, "read"),
          \E i \in ToCore(ask[m].words) :
               /\ got' = [got EXCEPT ![m].task = i.task]
               /\ CASE ask[m].command = "auto" -> Go(m, "route")
                    [] ask[m].command = "ask"  -> Tell(m, "talk")
                    [] OTHER -> IF i.task = "null" THEN Tell(m, "question")
                                ELSE Go(m, "create"))

CatalogAutoSafe(a) ==
    /\ Catalog[a].status = "active"
    /\ Catalog[a].risk \in {"none", "low"}
    /\ ~Catalog[a].side_effect /\ ~Catalog[a].requires_approval
    /\ Executor[a] \in {"readonly_system", "readonly_command"}

IsAutoExecutableTask(t) ==
    /\ t # "null"
    /\ LET s == SpecOf[t] IN
        /\ s.risk \in {"none", "low"} /\ ~s.requires_approval /\ s.mode = "readonly"
        /\ s.allowed # <<>>
        /\ \A a \in Elements(s.allowed) : CatalogAutoSafe(a)

\* The end of handle_auto, when no route has answered.
AutoRun(m) ==
    IF AutoDo /\ IsAutoExecutableTask(got[m].task)
    THEN Go(m, "create")
    ELSE Tell(m, IF got[m].task # "null" /\ ~AutoDo THEN "hint" ELSE "question")

\* create_capability_proposal_from_intent: the kind of its answer.
CapabilityKind(c) ==
    CASE c.kind # "gap"          -> c.kind
      [] c.action_id \in Action  -> "existing_action"
      [] \E w \in made : w.what = "proposal" -> "duplicate"
      [] OTHER                   -> "gap"

\* Mutant: a work item that was created is not told, and auto goes on.
MaybeRouteWorkSilent(m) ==
    /\ at[m] = "route"
    /\ \E d \in WorkRouteDecisions :
        Call(m, [Ask(m, IF d.route = "external_work" THEN "make" ELSE "read")
                    EXCEPT !.what = "work"],
             /\ IF d.route = "unsafe" THEN Tell(m, "question") ELSE AutoRun(m)
             /\ UNCHANGED got)

\* maybe_route_work: the core decides the route and makes what it asks for.
MaybeRouteWork(m) ==
    /\ at[m] = "route"
    /\ \E d \in WorkRouteDecisions :
        \/ /\ d.route \in {"runtime_task", "work_status", "unsafe", "clarify"}
           /\ Call(m, Ask(m, "read"),
                   /\ CASE d.route = "work_status" -> Go(m, "read")
                        [] d.route = "unsafe" \/ (d.route = "clarify" /\ d.question) ->
                             Tell(m, "question")
                        [] OTHER -> AutoRun(m)
                   /\ UNCHANGED got)
        \/ /\ d.route = "external_work"
           /\ Call(m, [Ask(m, "make") EXCEPT !.what = "work"],
                   Tell(m, "work") /\ UNCHANGED got)
        \/ /\ d.route = "self_patch"
           /\ \E c \in CapabilityIntents :
                LET kind == CapabilityKind(c) IN
                Call(m, [Ask(m, IF kind = "gap" THEN "make" ELSE "read")
                            EXCEPT !.what = "proposal"],
                     /\ CASE kind \in {"gap", "duplicate"} -> Tell(m, "proposal")
                          [] kind \in {"ambiguous", "forbidden"} -> Tell(m, "question")
                          [] OTHER -> AutoRun(m)
                     /\ UNCHANGED got)

-----------------------------------------------------------------------------
(* Tasks                                                                   *)

\* POST /tasks of create_and_run, handle_plan and task.
PostTask(m) ==
    /\ at[m] = "create"
    /\ \/ ~AcceptsTaskSpec(SpecOf[got[m].task]) /\ Fails(m, Ask(m, "read"))
       \/ AcceptsTaskSpec(SpecOf[got[m].task]) /\
          Call(m, [Ask(m, "create") EXCEPT !.what = got[m].task],
               /\ got' = [got EXCEPT ![m] = [Nothing EXCEPT !.id = Len(tasks')]]
               /\ Go(m, IF ask[m].command \in {"plan", "task"} THEN "dry-run" ELSE "run"))

DryRunTask(m) ==
    /\ at[m] = "dry-run"
    /\ Call(m, Ask(m, "read"), Tell(m, "checked") /\ UNCHANGED got)

\* Mutant: the reference is written before the run.
RunOwnTaskLast(m) ==
    /\ at[m] = "run"
    /\ got' = [got EXCEPT ![m].state = "completed"]
    /\ Go(m, "remember")
    /\ UNCHANGED <<lost, late, timeouts, core>>

RunOf(m, id) == [Ask(m, "run") EXCEPT !.id = id]

\* create_and_run runs its own task, ...
RunOwnTask(m) ==
    /\ at[m] = "run"
    /\ LET r == RunOf(m, got[m].id) IN
       Call(m, r, IF r \in busy' THEN Go(m, "running") /\ UNCHANGED got
                  ELSE /\ got' = [got EXCEPT ![m].state = tasks'[r.id].state]
                       /\ Go(m, "remember"))

\* ... and waits for its end.
EndOwnRun(m) ==
    LET r == RunOf(m, got[m].id) IN
    /\ at[m] = "running" /\ r \in busy
    /\ Finish(r) /\ Answered
    /\ got' = [got EXCEPT ![m].state = tasks'[r.id].state]
    /\ Go(m, "remember") /\ UNCHANGED lost

\* remember_task_reference; its errors are swallowed.
RememberTask(m) ==
    /\ at[m] = "remember"
    /\ LET r == [Ask(m, "remember") EXCEPT !.id = got[m].id, !.what = got[m].state] IN
          (Perform(r) /\ Answered) \/ NoAnswer(r)
    /\ Go(m, "humanize") /\ UNCHANGED <<got, lost>>

\* to-human of what was run or read: without it the command fails.
Humanize(m) ==
    /\ at[m] = "humanize"
    /\ Call(m, Ask(m, "read"), Tell(m, "result") /\ UNCHANGED got)

\* run-task, on a task somebody has heard of.
RunKnownTask(m) ==
    /\ at[m] = "run-task"
    /\ \E n \in DOMAIN tasks :
        LET r == RunOf(m, n) IN
        Call(m, r, /\ got' = [got EXCEPT ![m].id = n]
                   /\ Go(m, IF r \in busy' THEN "running-task" ELSE "humanize"))

EndKnownRun(m) ==
    LET r == RunOf(m, got[m].id) IN
    /\ at[m] = "running-task" /\ r \in busy
    /\ Finish(r) /\ Answered
    /\ Go(m, "humanize") /\ UNCHANGED <<got, lost>>

\* The run raises, or the client gives up on it and the core goes on.
RunFails(m) ==
    LET r == RunOf(m, got[m].id) IN
    /\ at[m] \in {"running", "running-task"} /\ r \in busy
    /\ \/ Raise(r) /\ Answered
       \/ /\ timeouts < MaxTimeouts
          /\ timeouts' = timeouts + 1
          /\ UNCHANGED <<core, late>>
    /\ Tell(m, "failure")
    /\ got' = [got EXCEPT ![m] = Nothing] /\ UNCHANGED lost

GiveVerdict(m) ==
    /\ at[m] = "verdict"
    /\ \E n \in DOMAIN tasks :
        Call(m, [Ask(m, ask[m].command) EXCEPT !.id = n],
             Tell(m, "done") /\ UNCHANGED got)

\* The core knows no task of that id.
UnknownTask(m) ==
    /\ at[m] \in {"run-task", "verdict"}
    /\ Fails(m, Ask(m, "read"))

\* actions, trace, prefs show and memory tell what they read; ping, status and
\* work list have the organ tell it.
ReadOnly(m) ==
    /\ at[m] = "read"
    /\ Call(m, Ask(m, "read"),
            /\ IF ask[m].command = "read" THEN Tell(m, "seen") ELSE Go(m, "humanize")
            /\ UNCHANGED got)

-----------------------------------------------------------------------------
\* The answer is recorded, then sent; only the sending may raise, and nothing
\* comes after it.
LogAnswer(m) ==
    /\ at[m] = "log"
    /\ LET r == [Ask(m, "record") EXCEPT !.what = "assistant"] IN
          (Perform(r) /\ Answered) \/ NoAnswer(r)
    /\ at' = [at EXCEPT ![m] = "reply"]
    /\ UNCHANGED <<answer, ask, got, lost>>

\* What has been set for the message is forgotten (a history) once nothing of it
\* can come any more.
Reply(m) ==
    /\ at[m] = "reply"
    /\ at' = [at EXCEPT ![m] = "ended"]
    /\ got' = [got EXCEPT ![m] = Nothing]
    /\ answer' = [answer EXCEPT ![m] = "none"]
    /\ saved' = IF \E r \in late : r.by = m THEN saved ELSE [saved EXCEPT ![m] = <<>>]
    /\ UNCHANGED <<ask, lost, late, timeouts, prefs, tasks, busy, refs, made, log>>

\* The core gets to a call nobody waits for, or drops it with its connection.
LateCall ==
    /\ \E r \in late :
        /\ late' = late \ {r}
        /\ Perform(r) \/ UNCHANGED core
    /\ UNCHANGED <<at, ask, got, answer, lost, timeouts>>

Awaited(r) == at[r.by] \in {"running", "running-task"}

\* A run that the core is at goes on, and ends also when nobody waits for it.
CoreRuns ==
    /\ \E r \in busy :
        \/ GoOn(r)
        \/ ~Awaited(r) /\ (Finish(r) \/ Raise(r))
    /\ UNCHANGED <<at, ask, got, answer, lost, late, timeouts>>

Handle(m) ==
    \/ RecordMessage(m) \/ ReadPreferences(m) \/ SavePreference(m)
    \/ ForgetPreference(m) \/ LanguageToCore(m) \/ MaybeRouteWork(m)
    \/ PostTask(m) \/ DryRunTask(m) \/ RunOwnTask(m) \/ RememberTask(m)
    \/ Humanize(m) \/ RunKnownTask(m) \/ GiveVerdict(m) \/ UnknownTask(m)
    \/ ReadOnly(m) \/ LogAnswer(m) \/ Reply(m)
    \/ EndOwnRun(m) \/ EndKnownRun(m) \/ RunFails(m)

Next ==
    \/ \E m \in Message : Arrive(m) \/ SendHelp(m) \/ Handle(m)
    \/ LateCall \/ CoreRuns

Init ==
    /\ at = [m \in Message |-> "away"]
    /\ ask = [m \in Message |-> Plain]
    /\ got = [m \in Message |-> Nothing]
    /\ answer = [m \in Message |-> "none"]
    /\ saved = [m \in Message |-> <<>>]
    /\ lost = {} /\ late = {} /\ timeouts = 0
    /\ prefs = [w \in Row |-> None]
    /\ tasks = <<>> /\ busy = {} /\ refs = <<>> /\ made = {} /\ log = <<>>

Spec == Init /\ [][Next]_vars

-----------------------------------------------------------------------------
(* Properties.                                                             *)

Saves(m) == saved[m] # <<>>
Creates(m) == {n \in DOMAIN tasks : tasks[n].by = m}
Makes(m) == {w \in made : w.by = m}

\* One message does one kind of thing: it sets preferences, or it creates one
\* task, or it makes one work item or proposal, whatever the organ answered to
\* the three questions auto asks it and whatever the core did after the bot had
\* given up on it.
OneEffect ==
    \A m \in Message :
        /\ Cardinality(Creates(m)) + Cardinality(Makes(m)) =< 1
        /\ Saves(m) => Creates(m) \cup Makes(m) = {}

\* What the user is told has happened has: all preferences of the message are
\* set (and never one out of turn), its task has been run or checked, its work
\* item is there; and after a question, a hint or mere talk nothing has.
SuccessIsBacked ==
    \A m \in Message :
        /\ got[m].rows # <<>> =>
              \E n \in 0 .. Len(got[m].rows) : saved[m] = SubSeq(got[m].rows, 1, n)
        /\ answer[m] = "saved" => saved[m] = got[m].rows
        /\ answer[m] = "result" /\ got[m].id # 0 => tasks[got[m].id].runs > 0
        /\ answer[m] = "checked" => got[m].id \in Creates(m)
        /\ answer[m] = "work" => [by |-> m, what |-> "work"] \in made
        /\ answer[m] = "proposal" => \E w \in made : w.what = "proposal"
        /\ answer[m] \in {"question", "talk", "hint", "seen", "help"} =>
              ~Saves(m) /\ Creates(m) \cup Makes(m) = {}

\* The tasks the memory offers for "that one from before" have all been run,
\* each is there once, and an end it reports is the end the task has, whatever
\* other messages have approved, rejected or run since; only runs of one task that
\* overlapped may have written over each other's end.
RefsNameRunTasks ==
    \A n \in DOMAIN refs :
        LET r == refs[n]  t == tasks[refs[n].id] IN
        /\ t.by = r.by /\ t.runs > 0
        /\ r.state # "ready"
        /\ r.state \in {"completed", "failed"} => t.overlapped \/ t.state = r.state
        /\ \A k \in DOMAIN refs \ {n} : refs[k].id # r.id

\* The memory of a conversation holds an answer only after its question, and
\* the organ reads a message with that message in view, or with newer ones that
\* have pushed it out; unless the record of the message itself failed.
DialogueInOrder ==
    \A m \in Message \ lost :
        /\ \A n \in DOMAIN log : log[n] = <<m, "assistant">> =>
              \E k \in 1 .. n - 1 : log[k] = <<m, "user">>
        /\ at[m] = "to_core" =>
              \/ <<m, "user">> \in RecentMessages
              \/ \E k \in 1 .. Len(log) - ContextLimit : log[k] = <<m, "user">>
=============================================================================
