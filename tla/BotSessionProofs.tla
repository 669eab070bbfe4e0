--------------------------- MODULE BotSessionProofs ---------------------------
(***************************************************************************)
(* Proofs about BotSession: whatever the language organ answers, however   *)
(* the handlers of any number of messages interleave, and whichever calls  *)
(* of the core are refused or done after the bot has given up on them, a   *)
(* message has one effect, what the user is told has happened, and the     *)
(* memory of the conversation is in order.                                 *)
(***************************************************************************)
EXTENDS BotSession, SequenceTheorems, FiniteSetTheorems, TLAPS

-----------------------------------------------------------------------------
(* The types.                                                              *)

Place == {"away", "record", "preferences", "to_core", "route", "create", "read",
          "run-task", "verdict", "delete", "save", "run", "running", "running-task",
          "dry-run", "remember", "humanize", "log", "reply", "ended"}

\* What a task can be made from; Plain.task is nobody's choice.
Named == Asked \cup {"null", Plain.task}

TaskStates == {"ready", "waiting_approval", "running", "completed", "failed"}
Ends       == {"completed", "failed"}

Hand     == [rows : Seq(Row), task : Named, id : Nat, state : TaskStates \cup {"none"}]
TaskRow  == [by : Message, spec : Named, runs : Nat, overlapped : BOOLEAN,
             state : TaskStates]
RefRow   == [by : Message, id : Nat, state : TaskStates \cup {"none"}]
MadeRow  == [by : Message, what : {"work", "proposal"}]
LogRow   == Message \X {"user", "assistant"}

\* A call that the core can do, by its operation.
CallSound(r) ==
    /\ r.by \in Message
    /\ r.op = "save" => r.row \in Row
    /\ r.op = "create" => r.what \in Named
    /\ r.op \in {"run", "approve", "reject"} => r.id \in DOMAIN tasks
    /\ r.op = "make" => r.what \in {"work", "proposal"}
    /\ r.op = "record" => r.what \in {"user", "assistant"}

\* What a message of a command holds, where somebody reads it.
SayingSound(s) ==
    /\ s.command \in AllCommands
    /\ s.command = "set" => s.row \in Row
    /\ s.command \in {"run", "task"} => s.task \in Named

HandTypes ==
    /\ at \in [Message -> Place]
    /\ DOMAIN ask = Message /\ \A m \in Message : SayingSound(ask[m])
    /\ \A m \in Message :
          /\ at[m] = "delete" => ask[m].command \in {"delete", "reset"}
          /\ at[m] = "verdict" => ask[m].command \in {"approve", "reject"}
    /\ got \in [Message -> Hand]
    /\ DOMAIN answer = Message

CoreTypes ==
    /\ saved \in [Message -> Seq(Row)]
    /\ tasks \in Seq(TaskRow) /\ refs \in Seq(RefRow)
    /\ made \subseteq MadeRow /\ log \in Seq(LogRow)

BotTypes == HandTypes /\ CoreTypes /\ \A r \in late : CallSound(r)

-----------------------------------------------------------------------------
(* The invariant.                                                          *)

\* A task that was completed had something to do.
CompletedSound ==
    \A n \in DOMAIN tasks :
        tasks[n].state = "completed" => CandidateActions(SpecOf[tasks[n].spec]) # {}

\* So has one that is run, and a run that no other overlapped has it to itself.
BusySound ==
    \A r \in busy :
        /\ r.op = "run" /\ r.by \in Message /\ r.id \in DOMAIN tasks
        /\ CandidateActions(SpecOf[tasks[r.id].spec]) # {}
        /\ ~tasks[r.id].overlapped =>
              /\ tasks[r.id].state \in {"ready", "running"}
              /\ \A q \in busy : q.id = r.id => q = r

TasksSound == CompletedSound /\ BusySound

\* Calls of message m that nobody waits for any more.
LateOf(m, ops) == {r \in late : r.by = m /\ r.op \in ops}

\* Nothing has been done for the message, and nothing is under way.
Untouched(m) ==
    /\ Creates(m) = {} /\ Makes(m) = {} /\ saved[m] = <<>>
    /\ LateOf(m, {"create", "make", "save"}) = {}

\* One effect of a message has been had, or is to come.
OneAtMost(m) ==
    /\ \A n, k \in Creates(m) : n = k
    /\ \A v, w \in Makes(m) : v = w
    /\ \A r, s \in LateOf(m, {"create", "make"}) : r = s
    /\ Creates(m) = {} \/ Makes(m) = {}
    /\ LateOf(m, {"create", "make"}) # {} => Creates(m) = {} /\ Makes(m) = {}
    /\ saved[m] # <<>> \/ LateOf(m, {"save"}) # {} =>
          /\ Creates(m) = {} /\ Makes(m) = {}
          /\ LateOf(m, {"create", "make"}) = {}

\* The rows that were set are the first of those that are asked for.
InTurn(m) ==
    /\ Len(saved[m]) =< Len(got[m].rows)
    /\ \A n \in 1 .. Len(saved[m]) : saved[m][n] = got[m].rows[n]

\* A task of the message, and an end that it has for good, unless runs of it
\* overlapped.
OwnTask(m, id) == id \in DOMAIN tasks /\ tasks[id].by = m
RanTo(id, s) ==
    /\ tasks[id].runs > 0
    /\ s \in TaskStates \ {"ready"}
    /\ s \in Ends => tasks[id].overlapped \/ tasks[id].state = s

Early == {"away", "record", "preferences", "to_core", "route", "create", "read",
          "run-task", "verdict", "delete"}

\* Where a handler stands, and what has been done for its message by then.
Stands(m) ==
    /\ at[m] \notin {"log", "reply"} => answer[m] = "none"
    /\ at[m] \in Early => Untouched(m) /\ got[m].rows = <<>> /\ got[m].id = 0
    /\ at[m] = "save" =>
          /\ InTurn(m) /\ Len(saved[m]) < Len(got[m].rows) /\ got[m].id = 0
          /\ Creates(m) = {} /\ Makes(m) = {}
          /\ LateOf(m, {"create", "make", "save"}) = {}
    /\ at[m] \in {"run", "running", "dry-run", "remember"} =>
          OwnTask(m, got[m].id) /\ got[m].rows = <<>>
    /\ at[m] = "running-task" =>
          Untouched(m) /\ got[m].rows = <<>> /\ got[m].id \in DOMAIN tasks
    /\ at[m] = "remember" => RanTo(got[m].id, got[m].state)
    /\ at[m] = "humanize" =>
          /\ got[m].rows = <<>> /\ LateOf(m, {"save"}) = {}
          /\ got[m].id # 0 => got[m].id \in DOMAIN tasks /\ tasks[got[m].id].runs > 0
    /\ at[m] = "ended" => got[m].rows = <<>>

\* What is told.
Told(m) ==
    /\ got[m].rows # <<>> => InTurn(m)
    /\ LateOf(m, {"save"}) # {} => answer[m] \in {"failure", "none"} /\ got[m].rows = <<>>
    /\ answer[m] = "saved" => Len(saved[m]) = Len(got[m].rows) /\ InTurn(m)
    /\ answer[m] = "result" /\ got[m].id # 0 =>
          got[m].id \in DOMAIN tasks /\ tasks[got[m].id].runs > 0
    /\ answer[m] = "checked" => OwnTask(m, got[m].id)
    /\ answer[m] = "work" => [by |-> m, what |-> "work"] \in made
    /\ answer[m] = "proposal" => \E w \in made : w.what = "proposal"
    /\ answer[m] \in {"question", "talk", "hint", "seen", "help"} => Untouched(m)

\* A message refers to one task, its own, and once.
RefersOnce(m) ==
    LET mine == {n \in DOMAIN refs : refs[n].by = m} IN
    /\ \A n, k \in mine : n = k
    /\ \A r, s \in LateOf(m, {"remember"}) : r = s
    /\ mine = {} \/ LateOf(m, {"remember"}) = {}
    /\ at[m] \notin {"humanize", "log", "reply", "ended"} =>
          mine = {} /\ LateOf(m, {"remember"}) = {}

RefSound(m, id, s) == OwnTask(m, id) /\ RanTo(id, s)

RefsSound ==
    /\ \A n \in DOMAIN refs : RefSound(refs[n].by, refs[n].id, refs[n].state)
    /\ \A r \in late : r.op = "remember" => RefSound(r.by, r.id, r.what)

\* The message is in the memory.
Kept(m) == \E k \in DOMAIN log : log[k] = <<m, "user">>

InOrder(m) ==
    m \notin lost =>
        /\ at[m] \notin {"away", "record", "reply", "ended"} => Kept(m)
        /\ \A r \in LateOf(m, {"record"}) : r.what = "assistant" /\ Kept(m)
        /\ \A n \in DOMAIN log : log[n] = <<m, "assistant">> =>
              \E k \in 1 .. n - 1 : log[k] = <<m, "user">>

MessageInv(m) == OneAtMost(m) /\ Stands(m) /\ Told(m) /\ RefersOnce(m) /\ InOrder(m)

BotInv ==
    /\ BotTypes /\ TasksSound /\ RefsSound
    /\ \A m \in Message : MessageInv(m)

-----------------------------------------------------------------------------
(* What a step about message m may do.                                     *)

\* The core's tables only grow, by rows of m, and what has ended stays, unless
\* runs of it overlapped.
Grows(m) ==
    /\ \A n \in DOMAIN tasks :
          /\ n \in DOMAIN tasks' /\ tasks'[n].by = tasks[n].by
          /\ tasks[n].runs > 0 => tasks'[n].runs > 0
          /\ tasks[n].overlapped => tasks'[n].overlapped
          /\ tasks[n].state \in Ends =>
                tasks'[n].overlapped \/ tasks'[n].state = tasks[n].state
    /\ \A n \in DOMAIN tasks' \ DOMAIN tasks : tasks'[n].by = m
    /\ made \subseteq made' /\ \A w \in made' \ made : w.by = m
    /\ \A n \in DOMAIN refs : n \in DOMAIN refs' /\ refs'[n] = refs[n]
    /\ \A n \in DOMAIN refs' \ DOMAIN refs : refs'[n].by = m
    /\ Len(log) =< Len(log') /\ \A n \in DOMAIN log : log'[n] = log[n]
    /\ \A n \in DOMAIN log' \ DOMAIN log : log'[n][1] = m

\* Nothing is different for the other messages.
Apart(m) ==
    /\ \A g \in Message \ {m} :
          /\ at'[g] = at[g] /\ got'[g] = got[g] /\ answer'[g] = answer[g]
          /\ saved'[g] = saved[g] /\ (g \in lost' <=> g \in lost)
    /\ \A r \in late : r \in late' \/ r.by = m
    /\ \A r \in late' : r \in late \/ r.by = m
    /\ Grows(m)

\* What is a message's own stays as it is.
LEMMA OwnStays ==
  ASSUME NEW m, NEW g, g # m, Apart(m)
  PROVE  /\ Creates(g)' = Creates(g) /\ Makes(g)' = Makes(g)
         /\ \A ops : LateOf(g, ops)' = LateOf(g, ops)
         /\ {n \in DOMAIN refs : refs[n].by = g}' = {n \in DOMAIN refs : refs[n].by = g}
<1>1. Creates(g)' = Creates(g)
  BY DEF Apart, Grows, Creates
<1>2. Makes(g)' = Makes(g)
  BY DEF Apart, Grows, Makes
<1>3. ASSUME NEW ops PROVE LateOf(g, ops)' = LateOf(g, ops)
  BY DEF Apart, LateOf
<1>4. {n \in DOMAIN refs : refs[n].by = g}' = {n \in DOMAIN refs : refs[n].by = g}
  BY DEF Apart, Grows
<1> QED
  BY <1>1, <1>2, <1>3, <1>4

\* What is true of a task that exists stays true.
LEMMA GrowsKeeps ==
  ASSUME NEW m, Grows(m), NEW id \in DOMAIN tasks
  PROVE  /\ id \in DOMAIN tasks' /\ tasks'[id].by = tasks[id].by
         /\ tasks[id].runs > 0 => tasks'[id].runs > 0
         /\ \A s : RanTo(id, s) => RanTo(id, s)'
<1>1. /\ id \in DOMAIN tasks' /\ tasks'[id].by = tasks[id].by
      /\ tasks[id].runs > 0 => tasks'[id].runs > 0
      /\ tasks[id].overlapped => tasks'[id].overlapped
      /\ tasks[id].state \in Ends =>
            tasks'[id].overlapped \/ tasks'[id].state = tasks[id].state
  BY DEF Grows
<1>2. ASSUME NEW s, RanTo(id, s) PROVE RanTo(id, s)'
  BY <1>1, <1>2 DEF RanTo
<1> QED
  BY <1>1, <1>2

\* The memory keeps what it has.
LEMMA LogKeeps ==
  ASSUME BotTypes, BotTypes', NEW m, Grows(m), NEW g
  PROVE  /\ Kept(g) => Kept(g)'
         /\ g # m /\ InOrder(g) =>
              \A n \in DOMAIN log' : log'[n] = <<g, "assistant">> =>
                 g \in lost \/ \E k \in 1 .. n - 1 : log'[k] = <<g, "user">>
<1>1. DOMAIN log = 1 .. Len(log) /\ DOMAIN log' = 1 .. Len(log')
      /\ Len(log) \in Nat /\ Len(log') \in Nat
  BY DEF BotTypes, CoreTypes
<1>2. Len(log) =< Len(log') /\ (\A n \in DOMAIN log : log'[n] = log[n])
      /\ (\A n \in DOMAIN log' \ DOMAIN log : log'[n][1] = m)
  BY DEF Grows
<1>3. Kept(g) => Kept(g)'
  BY <1>1, <1>2 DEF Kept
<1>4. ASSUME g # m, InOrder(g), g \notin lost,
             NEW n \in DOMAIN log', log'[n] = <<g, "assistant">>
      PROVE  \E k \in 1 .. n - 1 : log'[k] = <<g, "user">>
  <2>1. n \in DOMAIN log /\ log[n] = <<g, "assistant">>
    BY <1>2, <1>4
  <2>2. PICK k \in 1 .. n - 1 : log[k] = <<g, "user">>
    BY <1>4, <2>1 DEF InOrder
  <2>3. k \in DOMAIN log
    BY <1>1, <2>1, <2>2
  <2> QED
    BY <1>2, <2>2, <2>3
<1> QED
  BY <1>3, <1>4

\* The invariant of the other messages.
LEMMA OthersStay ==
  ASSUME BotTypes, BotTypes', NEW m, Apart(m),
         NEW g \in Message, g # m, MessageInv(g)
  PROVE  MessageInv(g)'
<1>0. Grows(m)
  BY DEF Apart
<1>1. /\ at'[g] = at[g] /\ got'[g] = got[g] /\ answer'[g] = answer[g]
      /\ saved'[g] = saved[g] /\ (g \in lost' <=> g \in lost)
  BY DEF Apart
<1>2. /\ Creates(g)' = Creates(g) /\ Makes(g)' = Makes(g)
      /\ \A ops : LateOf(g, ops)' = LateOf(g, ops)
      /\ {n \in DOMAIN refs : refs[n].by = g}' = {n \in DOMAIN refs : refs[n].by = g}
  BY OwnStays
<1>3. OneAtMost(g)'
  BY <1>1, <1>2 DEF MessageInv, OneAtMost
<1>4. Untouched(g) => Untouched(g)'
  BY <1>1, <1>2 DEF Untouched
<1>5. InTurn(g) => InTurn(g)'
  BY <1>1 DEF InTurn
<1>6. ASSUME NEW id \in DOMAIN tasks
      PROVE  /\ id \in DOMAIN tasks' /\ tasks'[id].by = tasks[id].by
             /\ tasks[id].runs > 0 => tasks'[id].runs > 0
             /\ \A s : RanTo(id, s) => RanTo(id, s)'
  BY <1>0, GrowsKeeps
<1>7. Stands(g)'
  BY <1>1, <1>2, <1>4, <1>5, <1>6 DEF MessageInv, Stands, OwnTask
<1>8. Told(g)'
  <2>1. made \subseteq made'
    BY <1>0 DEF Grows
  <2> QED
    BY <1>1, <1>2, <1>4, <1>5, <1>6, <2>1 DEF MessageInv, Told, OwnTask
<1>9. RefersOnce(g)'
  BY <1>1, <1>2 DEF MessageInv, RefersOnce
<1>10. InOrder(g)'
  BY <1>0, <1>1, <1>2, LogKeeps DEF MessageInv, InOrder
<1> QED
  BY <1>3, <1>7, <1>8, <1>9, <1>10 DEF MessageInv

-----------------------------------------------------------------------------
(* What the core does for one call.                                        *)

\* What a task may become.
Became(t, u) ==
    /\ u \in TaskRow /\ u.by = t.by /\ u.spec = t.spec
    /\ t.runs > 0 => u.runs > 0
    /\ t.overlapped => u.overlapped
    /\ t.state \in Ends => u.overlapped \/ u.state = t.state
    /\ u.state = "completed" => CandidateActions(SpecOf[u.spec]) # {}

\* The row of one task is written.
LEMMA OneBecame ==
  ASSUME CoreTypes, TasksSound, NEW n \in DOMAIN tasks, NEW u, Became(tasks[n], u),
         tasks' = [tasks EXCEPT ![n] = u]
  PROVE  /\ tasks' \in Seq(TaskRow) /\ DOMAIN tasks' = DOMAIN tasks /\ CompletedSound'
         /\ \A k \in DOMAIN tasks : Became(tasks[k], tasks'[k])
         /\ tasks'[n] = u /\ \A k \in DOMAIN tasks \ {n} : tasks'[k] = tasks[k]
<1>1. u \in TaskRow /\ \A k \in DOMAIN tasks : tasks[k] \in TaskRow
  BY DEF CoreTypes, Became
<1>2. /\ tasks' \in Seq(TaskRow) /\ DOMAIN tasks' = DOMAIN tasks
      /\ tasks'[n] = u /\ \A k \in DOMAIN tasks \ {n} : tasks'[k] = tasks[k]
  BY <1>1 DEF CoreTypes
<1>3. \A k \in DOMAIN tasks : Became(tasks[k], tasks[k])
  BY <1>1 DEF Became, TasksSound, CompletedSound
<1>4. \A k \in DOMAIN tasks : Became(tasks[k], tasks'[k])
  BY <1>2, <1>3
<1>5. CompletedSound'
  BY <1>2, <1>4 DEF CompletedSound, Became
<1> QED
  BY <1>2, <1>4, <1>5

\* The runs that are left still have their tasks to themselves, or share them.
LEMMA BusyStays ==
  ASSUME BusySound, busy' \subseteq busy,
         \A q \in busy' :
            /\ q.id \in DOMAIN tasks' /\ tasks'[q.id].spec = tasks[q.id].spec
            /\ ~tasks'[q.id].overlapped =>
                  /\ ~tasks[q.id].overlapped
                  /\ tasks[q.id].state \in {"ready", "running"} =>
                        tasks'[q.id].state \in {"ready", "running"}
  PROVE  BusySound'
BY DEF BusySound

LEMMA RunTask ==
  ASSUME CoreTypes, TasksSound, NEW r, r.op = "run", r.by \in Message,
         r.id \in DOMAIN tasks, Run(r)
  PROVE  /\ tasks' \in Seq(TaskRow) /\ DOMAIN tasks' = DOMAIN tasks /\ TasksSound'
         /\ \A n \in DOMAIN tasks : Became(tasks[n], tasks'[n])
         /\ r \notin busy' =>
               tasks'[r.id].runs > 0 /\ tasks'[r.id].state \in TaskStates \ {"ready"}
<1>1. PICK t : t = tasks[r.id]
  OBVIOUS
<1>2. PICK c : c = CandidateActions(SpecOf[t.spec])
  OBVIOUS
<1>3. /\ t \in TaskRow /\ t.runs \in Nat /\ t.runs + 1 \in Nat /\ t.runs + 1 > 0
      /\ t.state \in TaskStates
      /\ t.state = "completed" => c # {}
      /\ BusySound
  <2>1. t \in TaskRow
    BY <1>1 DEF CoreTypes
  <2>2. t.runs \in Nat /\ t.state \in TaskStates
    BY <2>1 DEF TaskRow
  <2>3. t.runs + 1 \in Nat /\ t.runs + 1 > 0
    BY <2>2
  <2> QED
    BY <1>1, <1>2, <2>1, <2>2, <2>3 DEF TasksSound, CompletedSound
<1>4. CASE /\ c = {} /\ busy' = busy
           /\ tasks' = [tasks EXCEPT ![r.id].state = "failed", ![r.id].runs = @ + 1]
  <2>1. PICK u : u = [t EXCEPT !.state = "failed", !.runs = t.runs + 1]
    OBVIOUS
  <2>2. /\ u \in TaskRow /\ u.by = t.by /\ u.spec = t.spec /\ u.state = "failed"
        /\ u.runs = t.runs + 1 /\ u.overlapped = t.overlapped
    BY <1>3, <2>1 DEF TaskRow, TaskStates
  <2>3. tasks' = [tasks EXCEPT ![r.id] = u]
    BY <1>1, <1>4, <2>1
  <2>4. Became(t, u)
    BY <1>3, <1>4, <2>2 DEF Became, Ends
  <2>5. /\ tasks' \in Seq(TaskRow) /\ DOMAIN tasks' = DOMAIN tasks /\ CompletedSound'
        /\ \A k \in DOMAIN tasks : Became(tasks[k], tasks'[k])
        /\ tasks'[r.id] = u /\ \A k \in DOMAIN tasks \ {r.id} : tasks'[k] = tasks[k]
    BY <1>1, <2>3, <2>4, OneBecame
  <2>6. \A q \in busy : q.id \in DOMAIN tasks /\ q.id # r.id
    BY <1>1, <1>2, <1>3, <1>4 DEF BusySound
  <2>7. BusySound'
    BY <1>3, <1>4, <2>5, <2>6, BusyStays
  <2> QED
    BY <1>3, <2>2, <2>5, <2>7 DEF TasksSound, TaskStates
<1>5. CASE /\ t.state # "ready" /\ busy' = busy
           /\ tasks' = [tasks EXCEPT ![r.id].runs = @ + 1]
  <2>1. PICK u : u = [t EXCEPT !.runs = t.runs + 1]
    OBVIOUS
  <2>2. /\ u \in TaskRow /\ u.by = t.by /\ u.spec = t.spec /\ u.state = t.state
        /\ u.runs = t.runs + 1 /\ u.overlapped = t.overlapped
    BY <1>3, <2>1 DEF TaskRow
  <2>3. tasks' = [tasks EXCEPT ![r.id] = u]
    BY <1>1, <1>5, <2>1
  <2>4. Became(t, u)
    BY <1>2, <1>3, <2>2 DEF Became
  <2>5. /\ tasks' \in Seq(TaskRow) /\ DOMAIN tasks' = DOMAIN tasks /\ CompletedSound'
        /\ \A k \in DOMAIN tasks : Became(tasks[k], tasks'[k])
        /\ tasks'[r.id] = u /\ \A k \in DOMAIN tasks \ {r.id} : tasks'[k] = tasks[k]
    BY <1>1, <2>3, <2>4, OneBecame
  <2>6. \A k \in DOMAIN tasks :
          /\ tasks'[k].spec = tasks[k].spec /\ tasks'[k].state = tasks[k].state
          /\ tasks'[k].overlapped = tasks[k].overlapped
    BY <1>1, <2>2, <2>5
  <2>7. \A q \in busy : q.id \in DOMAIN tasks
    BY <1>3 DEF BusySound
  <2>8. BusySound'
    BY <1>3, <1>5, <2>5, <2>6, <2>7, BusyStays
  <2> QED
    BY <1>3, <1>5, <2>2, <2>5, <2>8 DEF TasksSound
<1>6. CASE /\ c # {} /\ t.state = "ready" /\ busy' = busy \cup {r}
           /\ tasks' = [tasks EXCEPT ![r.id].overlapped =
                           @ \/ \E q \in busy : q.id = r.id]
  <2>1. PICK o \in BOOLEAN : o = (t.overlapped \/ \E q \in busy : q.id = r.id)
    BY <1>3 DEF TaskRow
  <2>2. PICK u : u = [t EXCEPT !.overlapped = o]
    OBVIOUS
  <2>3. /\ u \in TaskRow /\ u.by = t.by /\ u.spec = t.spec /\ u.state = t.state
        /\ u.runs = t.runs /\ u.overlapped = o
    BY <1>3, <2>2 DEF TaskRow
  <2>4. tasks' = [tasks EXCEPT ![r.id] = u]
    BY <1>1, <1>6, <2>1, <2>2
  <2>5. Became(t, u)
    BY <1>6, <2>1, <2>3 DEF Became, Ends
  <2>6. /\ tasks' \in Seq(TaskRow) /\ DOMAIN tasks' = DOMAIN tasks /\ CompletedSound'
        /\ \A k \in DOMAIN tasks : Became(tasks[k], tasks'[k])
        /\ tasks'[r.id] = u /\ \A k \in DOMAIN tasks \ {r.id} : tasks'[k] = tasks[k]
    BY <1>1, <2>4, <2>5, OneBecame
  <2>7. ASSUME NEW q \in busy'
        PROVE  /\ q.op = "run" /\ q.by \in Message /\ q.id \in DOMAIN tasks'
               /\ CandidateActions(SpecOf[tasks'[q.id].spec]) # {}
               /\ ~tasks'[q.id].overlapped =>
                     /\ tasks'[q.id].state \in {"ready", "running"}
                     /\ \A p \in busy' : p.id = q.id => p = q
    <3>1. CASE q.id = r.id
      <4>1. q = r \/ o
        BY <1>6, <2>1, <2>7, <3>1
      <4>2. \A p \in busy' : p.id = r.id => p = r \/ o
        BY <1>6, <2>1
      <4>3. q.op = "run" /\ q.by \in Message
        BY <1>3, <1>6, <2>7 DEF BusySound
      <4> QED
        BY <1>1, <1>2, <1>6, <2>3, <2>6, <3>1, <4>1, <4>2, <4>3
    <3>2. CASE q.id # r.id
      <4>1. q \in busy
        BY <1>6, <2>7, <3>2
      <4>2. tasks'[q.id] = tasks[q.id] /\ q.id \in DOMAIN tasks
        BY <1>3, <2>6, <3>2, <4>1 DEF BusySound
      <4> QED
        BY <1>3, <1>6, <2>6, <3>2, <4>1, <4>2 DEF BusySound
    <3> QED
      BY <3>1, <3>2
  <2>8. BusySound'
    BY <2>7 DEF BusySound
  <2> QED
    BY <1>6, <2>6, <2>8 DEF TasksSound
<1> QED
  BY <1>1, <1>2, <1>4, <1>5, <1>6, Zenon DEF Run, TaskActions

\* A run that the core is at goes on, ends or raises.
Advance(r) == r \in busy /\ (GoOn(r) \/ Finish(r) \/ Raise(r))

LEMMA AdvanceTask ==
  ASSUME CoreTypes, TasksSound, NEW r, Advance(r)
  PROVE  /\ tasks' \in Seq(TaskRow) /\ DOMAIN tasks' = DOMAIN tasks /\ TasksSound'
         /\ \A n \in DOMAIN tasks : Became(tasks[n], tasks'[n])
         /\ Finish(r) => tasks'[r.id].runs > 0 /\ tasks'[r.id].state \in Ends
         /\ UNCHANGED <<saved, refs, made, log>>
<1>1. PICK t : t = tasks[r.id]
  OBVIOUS
<1>2. /\ r \in busy /\ r.id \in DOMAIN tasks /\ BusySound
      /\ CandidateActions(SpecOf[t.spec]) # {}
      /\ ~t.overlapped =>
            t.state \in {"ready", "running"} /\ \A q \in busy : q.id = r.id => q = r
  BY <1>1 DEF Advance, TasksSound, BusySound
<1>3. t \in TaskRow /\ t.runs \in Nat /\ t.runs + 1 \in Nat /\ t.runs + 1 > 0
  <2>1. t \in TaskRow
    BY <1>1, <1>2 DEF CoreTypes
  <2>2. t.runs \in Nat
    BY <2>1 DEF TaskRow
  <2> QED
    BY <2>1, <2>2
<1>4. t.state \in Ends => t.overlapped
  BY <1>2, <1>3 DEF Ends, TaskRow
<1>5. \A q \in busy : q.id \in DOMAIN tasks
  BY <1>2 DEF BusySound
<1>6. CASE GoOn(r)
  <2>1. PICK u : u = [t EXCEPT !.state = "running"]
    OBVIOUS
  <2>2. /\ u \in TaskRow /\ u.by = t.by /\ u.spec = t.spec /\ u.state = "running"
        /\ u.runs = t.runs /\ u.overlapped = t.overlapped
    BY <1>3, <2>1 DEF TaskRow, TaskStates
  <2>3. tasks' = [tasks EXCEPT ![r.id] = u] /\ busy' = busy
    BY <1>1, <1>6, <2>1 DEF GoOn
  <2>4. Became(t, u)
    BY <1>4, <2>2 DEF Became
  <2>5. /\ tasks' \in Seq(TaskRow) /\ DOMAIN tasks' = DOMAIN tasks /\ CompletedSound'
        /\ \A k \in DOMAIN tasks : Became(tasks[k], tasks'[k])
        /\ tasks'[r.id] = u /\ \A k \in DOMAIN tasks \ {r.id} : tasks'[k] = tasks[k]
    BY <1>1, <1>2, <2>3, <2>4, OneBecame
  <2>6. \A k \in DOMAIN tasks :
          /\ tasks'[k].spec = tasks[k].spec /\ tasks'[k].overlapped = tasks[k].overlapped
          /\ tasks'[k].state \in {tasks[k].state, "running"}
    BY <1>1, <2>2, <2>5
  <2>7. BusySound'
    BY <1>2, <1>5, <2>3, <2>5, <2>6, BusyStays
  <2>8. ~Finish(r)
    BY <1>2, <2>3 DEF Finish
  <2> QED
    BY <1>6, <2>5, <2>7, <2>8 DEF TasksSound, GoOn
<1>7. CASE Finish(r)
  <2>1. PICK s \in Ends :
          tasks' = [tasks EXCEPT ![r.id].state = s, ![r.id].runs = @ + 1]
    <3>1. PICK s \in RunEnds(tasks[r.id]) :
            tasks' = [tasks EXCEPT ![r.id].state = s, ![r.id].runs = @ + 1]
      BY <1>7, Zenon DEF Finish
    <3>2. s \in Ends
      BY DEF RunEnds, Ends
    <3> QED
      BY <3>1, <3>2
  <2>2. PICK u : u = [t EXCEPT !.state = s, !.runs = t.runs + 1]
    OBVIOUS
  <2>3. /\ u \in TaskRow /\ u.by = t.by /\ u.spec = t.spec /\ u.state = s
        /\ u.runs = t.runs + 1 /\ u.overlapped = t.overlapped
    BY <1>3, <2>1, <2>2 DEF TaskRow, TaskStates, Ends
  <2>4. tasks' = [tasks EXCEPT ![r.id] = u] /\ busy' = busy \ {r}
    BY <1>1, <1>7, <2>1, <2>2 DEF Finish
  <2>5. Became(t, u)
    BY <1>2, <1>3, <1>4, <2>3 DEF Became
  <2>6. /\ tasks' \in Seq(TaskRow) /\ DOMAIN tasks' = DOMAIN tasks /\ CompletedSound'
        /\ \A k \in DOMAIN tasks : Became(tasks[k], tasks'[k])
        /\ tasks'[r.id] = u /\ \A k \in DOMAIN tasks \ {r.id} : tasks'[k] = tasks[k]
    BY <1>1, <1>2, <2>4, <2>5, OneBecame
  <2>7. \A q \in busy' : q \in busy /\ (q.id = r.id => u.overlapped)
    BY <1>2, <2>3, <2>4
  <2>8. \A k \in DOMAIN tasks : tasks'[k].spec = tasks[k].spec
    BY <1>1, <2>3, <2>6
  <2>9. BusySound'
    BY <1>2, <1>5, <2>6, <2>7, <2>8, BusyStays
  <2>10. UNCHANGED <<saved, refs, made, log>>
    BY <1>7 DEF Finish
  <2>11. tasks'[r.id].runs > 0 /\ tasks'[r.id].state \in Ends
    BY <1>3, <2>1, <2>3, <2>6
  <2> QED
    BY <2>6, <2>9, <2>10, <2>11 DEF TasksSound
<1>8. CASE Raise(r)
  <2>1. busy' \subseteq busy /\ tasks' = tasks /\ UNCHANGED <<saved, refs, made, log>>
    BY <1>8 DEF Raise
  <2>2. \A n \in DOMAIN tasks : tasks[n] \in TaskRow
    BY DEF CoreTypes
  <2>3. \A n \in DOMAIN tasks : Became(tasks[n], tasks[n])
    BY <2>2 DEF Became, TasksSound, CompletedSound
  <2>4. BusySound'
    BY <1>2, <1>5, <2>1, BusyStays
  <2>5. CompletedSound'
    BY <2>1 DEF CompletedSound, TasksSound
  <2>6. ~Finish(r)
    <3>1. ASSUME NEW s \in RunEnds(tasks[r.id]),
                 tasks' = [tasks EXCEPT ![r.id].state = s, ![r.id].runs = @ + 1]
          PROVE  FALSE
      <4>1. PICK u : u = [t EXCEPT !.state = s, !.runs = t.runs + 1]
        OBVIOUS
      <4>2. tasks' = [tasks EXCEPT ![r.id] = u]
        BY <1>1, <3>1, <4>1
      <4>3. u.runs = t.runs + 1 /\ tasks'[r.id] = u
        BY <1>2, <1>3, <4>1, <4>2 DEF TaskRow
      <4> QED
        BY <1>1, <1>3, <2>1, <4>3
    <3> QED
      BY <3>1, Zenon DEF Finish
  <2> QED
    BY <2>1, <2>3, <2>4, <2>5, <2>6 DEF TasksSound, CoreTypes
<1> QED
  BY <1>6, <1>7, <1>8 DEF Advance

LEMMA DecideTask ==
  ASSUME CoreTypes, TasksSound, NEW r, r.id \in DOMAIN tasks, Decide(r)
  PROVE  /\ tasks' \in Seq(TaskRow) /\ DOMAIN tasks' = DOMAIN tasks /\ TasksSound'
         /\ \A n \in DOMAIN tasks : Became(tasks[n], tasks'[n])
<1>2. PICK t : t = tasks[r.id]
  OBVIOUS
<1>3. t \in TaskRow /\ \A n \in DOMAIN tasks : tasks[n] \in TaskRow
  BY <1>2 DEF CoreTypes
<1>4. PICK s : s = IF t.state # "waiting_approval" THEN t.state
                   ELSE IF r.op = "approve" THEN "ready" ELSE "failed"
  OBVIOUS
<1>5. PICK u : u = [t EXCEPT !.state = s]
  OBVIOUS
<1>6. s \in TaskStates /\ (t.state \in Ends => s = t.state) /\ (s = "completed" => t.state = s)
  BY <1>3, <1>4 DEF TaskRow, TaskStates, Ends
<1>7. /\ u \in TaskRow /\ u.by = t.by /\ u.spec = t.spec /\ u.state = s /\ u.runs = t.runs
      /\ u.overlapped = t.overlapped
  BY <1>3, <1>5, <1>6 DEF TaskRow
<1>8. t.state = "completed" => CandidateActions(SpecOf[t.spec]) # {}
  BY <1>2 DEF TasksSound, CompletedSound
<1>9. Became(t, u)
  BY <1>6, <1>7, <1>8 DEF Became
<1>10. tasks' = [tasks EXCEPT ![r.id] = u] /\ busy' = busy
  BY <1>2, <1>4, <1>5 DEF Decide
<1>11. /\ tasks' \in Seq(TaskRow) /\ DOMAIN tasks' = DOMAIN tasks /\ CompletedSound'
       /\ \A k \in DOMAIN tasks : Became(tasks[k], tasks'[k])
       /\ tasks'[r.id] = u /\ \A k \in DOMAIN tasks \ {r.id} : tasks'[k] = tasks[k]
  BY <1>2, <1>9, <1>10, OneBecame
<1>12. \A k \in DOMAIN tasks :
         /\ tasks'[k].spec = tasks[k].spec /\ tasks'[k].overlapped = tasks[k].overlapped
         /\ tasks[k].state \in {"ready", "running"} => tasks'[k].state = tasks[k].state
  BY <1>2, <1>4, <1>7, <1>11
<1>13. BusySound /\ \A q \in busy : q.id \in DOMAIN tasks
  BY DEF TasksSound, BusySound
<1>14. BusySound'
  BY <1>10, <1>11, <1>12, <1>13, BusyStays
<1> QED
  BY <1>11, <1>14 DEF TasksSound

LEMMA PostedTask ==
  ASSUME CoreTypes, TasksSound, NEW r, r.by \in Message, r.what \in Named, CreateTask(r)
  PROVE  /\ tasks' \in Seq(TaskRow)
         /\ DOMAIN tasks' = DOMAIN tasks \cup {Len(tasks')} /\ Len(tasks') \notin DOMAIN tasks
         /\ \A n \in DOMAIN tasks : Became(tasks[n], tasks'[n])
         /\ TasksSound'
         /\ tasks'[Len(tasks')].by = r.by /\ tasks'[Len(tasks')].state # "completed"
<1>1. PICK u : u = [by |-> r.by, spec |-> r.what, runs |-> 0,
                    overlapped |-> FALSE,
                    state |-> IF SpecOf[r.what].requires_approval
                              THEN "waiting_approval" ELSE "ready"]
  OBVIOUS
<1>2. u \in TaskRow /\ u.by = r.by /\ u.state # "completed"
  BY <1>1 DEF TaskRow, TaskStates
<1>3. tasks' = Append(tasks, u) /\ tasks \in Seq(TaskRow)
  BY <1>1 DEF CreateTask, CoreTypes
<1>4. /\ tasks' \in Seq(TaskRow) /\ Len(tasks') = Len(tasks) + 1 /\ Len(tasks) \in Nat
      /\ DOMAIN tasks = 1 .. Len(tasks) /\ DOMAIN tasks' = 1 .. Len(tasks')
      /\ tasks'[Len(tasks')] = u
      /\ \A n \in 1 .. Len(tasks) : tasks'[n] = tasks[n]
  BY <1>2, <1>3
<1>5. \A n \in DOMAIN tasks : Became(tasks[n], tasks[n])
  <2>1. \A n \in DOMAIN tasks : tasks[n] \in TaskRow
    BY DEF CoreTypes
  <2> QED
    BY <2>1 DEF Became, TasksSound, CompletedSound
<1>6. DOMAIN tasks' = DOMAIN tasks \cup {Len(tasks')} /\ Len(tasks') \notin DOMAIN tasks
  BY <1>4
<1>7. CompletedSound'
  BY <1>2, <1>4, <1>5 DEF CompletedSound, Became
<1>8. BusySound /\ busy' = busy /\ \A x \in busy : x.id \in DOMAIN tasks
  BY DEF TasksSound, BusySound, CreateTask
<1>9. BusySound'
  BY <1>4, <1>6, <1>8, BusyStays
<1> QED
  BY <1>2, <1>4, <1>5, <1>6, <1>7, <1>9 DEF TasksSound

\* The tables, each with what a call may do to it.
LEMMA PerformTasks ==
  ASSUME CoreTypes, TasksSound, NEW r, CallSound(r), Perform(r)
  PROVE  /\ tasks' \in Seq(TaskRow) /\ TasksSound'
         /\ \A n \in DOMAIN tasks : n \in DOMAIN tasks' /\ Became(tasks[n], tasks'[n])
         /\ r.op # "create" => DOMAIN tasks' = DOMAIN tasks
         /\ r.op = "create" =>
              /\ DOMAIN tasks' = DOMAIN tasks \cup {Len(tasks')}
              /\ Len(tasks') \notin DOMAIN tasks /\ tasks'[Len(tasks')].by = r.by
         /\ r.op = "run" /\ r \notin busy' =>
              tasks'[r.id].runs > 0 /\ tasks'[r.id].state \in TaskStates \ {"ready"}
<1>1. CASE r.op = "create"
  <2>1. CreateTask(r) /\ r.by \in Message /\ r.what \in Named
    BY <1>1 DEF Perform, CallSound
  <2>2. /\ tasks' \in Seq(TaskRow)
        /\ DOMAIN tasks' = DOMAIN tasks \cup {Len(tasks')} /\ Len(tasks') \notin DOMAIN tasks
        /\ \A n \in DOMAIN tasks : Became(tasks[n], tasks'[n])
        /\ TasksSound' /\ tasks'[Len(tasks')].by = r.by
    BY <2>1, PostedTask
  <2> QED
    BY <1>1, <2>2
<1>2. CASE r.op = "run"
  <2>1. Run(r) /\ r.by \in Message /\ r.id \in DOMAIN tasks
    BY <1>2 DEF Perform, CallSound
  <2>2. /\ tasks' \in Seq(TaskRow) /\ DOMAIN tasks' = DOMAIN tasks /\ TasksSound'
        /\ \A n \in DOMAIN tasks : Became(tasks[n], tasks'[n])
        /\ r \notin busy' =>
              tasks'[r.id].runs > 0 /\ tasks'[r.id].state \in TaskStates \ {"ready"}
    BY <1>2, <2>1, RunTask
  <2> QED
    BY <1>2, <2>2
<1>3. CASE r.op \in {"approve", "reject"}
  <2>1. Decide(r) /\ r.id \in DOMAIN tasks
    BY <1>3 DEF Perform, CallSound
  <2>2. /\ tasks' \in Seq(TaskRow) /\ DOMAIN tasks' = DOMAIN tasks /\ TasksSound'
        /\ \A n \in DOMAIN tasks : Became(tasks[n], tasks'[n])
    BY <2>1, DecideTask
  <2> QED
    BY <1>3, <2>2
<1>4. CASE r.op \notin {"create", "run", "approve", "reject"}
  <2>1. tasks' = tasks /\ busy' = busy
    BY <1>4 DEF Perform, SetPreference, DeletePreference, AddTaskReference, Make,
                AddConversationMessage, core
  <2>2. \A n \in DOMAIN tasks : tasks[n] \in TaskRow
    BY DEF CoreTypes
  <2>3. \A n \in DOMAIN tasks : Became(tasks[n], tasks[n])
    BY <2>2 DEF Became, TasksSound, CompletedSound
  <2>4. TasksSound'
    BY <2>1 DEF TasksSound, CompletedSound, BusySound
  <2> QED
    BY <1>4, <2>1, <2>3, <2>4 DEF CoreTypes
<1> QED
  BY <1>1, <1>2, <1>3, <1>4

LEMMA PerformTables ==
  ASSUME CoreTypes, NEW r, r.by \in Message, Perform(r)
  PROVE  /\ r.op # "save" => saved' = saved
         /\ r.op = "save" => saved' = [saved EXCEPT ![r.by] = Append(@, r.row)]
         /\ r.op # "remember" => refs' = refs
         /\ r.op = "remember" =>
              refs' = Append(refs, [by |-> r.by, id |-> r.id, state |-> r.what])
         /\ r.op # "make" => made' = made
         /\ r.op = "make" => made' = made \cup {[by |-> r.by, what |-> r.what]}
         /\ r.op # "record" => log' = log
         /\ r.op = "record" => log' = Append(log, <<r.by, r.what>>)
<1>1. CASE r.op = "save"
  BY <1>1, Zenon DEF Perform, SetPreference
<1>2. CASE r.op \in {"delete", "reset"}
  BY <1>2 DEF Perform, DeletePreference
<1>3. CASE r.op = "create"
  BY <1>3 DEF Perform, CreateTask
<1>4. CASE r.op = "run"
  BY <1>4 DEF Perform, Run
<1>5. CASE r.op \in {"approve", "reject"}
  BY <1>5 DEF Perform, Decide
<1>6. CASE r.op = "remember"
  BY <1>6 DEF Perform, AddTaskReference
<1>7. CASE r.op = "make"
  BY <1>7 DEF Perform, Make
<1>8. CASE r.op = "record"
  BY <1>8 DEF Perform, AddConversationMessage
<1>9. CASE r.op = "read"
  BY <1>9 DEF Perform, core
<1> QED
  BY <1>1, <1>2, <1>3, <1>4, <1>5, <1>6, <1>7, <1>8, <1>9 DEF Perform

\* A call that may be done: the task it remembers is the message's own, and run.
Ready(r) == CallSound(r) /\ (r.op = "remember" => RefSound(r.by, r.id, r.what))

LEMMA PerformTypes ==
  ASSUME CoreTypes, TasksSound, NEW r, Ready(r), Perform(r)
  PROVE  CoreTypes' /\ Grows(r.by)
<1>0. CallSound(r) /\ r.by \in Message
  BY DEF Ready, CallSound
<1>1. /\ tasks' \in Seq(TaskRow)
      /\ \A n \in DOMAIN tasks : n \in DOMAIN tasks' /\ Became(tasks[n], tasks'[n])
      /\ \A n \in DOMAIN tasks' \ DOMAIN tasks : tasks'[n].by = r.by
  BY <1>0, PerformTasks
<1>2. /\ saved' \in [Message -> Seq(Row)]
      /\ refs' \in Seq(RefRow) /\ \A n \in DOMAIN refs : n \in DOMAIN refs' /\ refs'[n] = refs[n]
      /\ \A n \in DOMAIN refs' \ DOMAIN refs : refs'[n].by = r.by
      /\ made \subseteq made' /\ made' \subseteq MadeRow /\ \A w \in made' \ made : w.by = r.by
      /\ log' \in Seq(LogRow)
      /\ Len(log) =< Len(log') /\ \A n \in DOMAIN log : log'[n] = log[n]
      /\ \A n \in DOMAIN log' \ DOMAIN log : log'[n][1] = r.by
  <2>1. saved' \in [Message -> Seq(Row)]
    <3>1. CASE r.op = "save"
      <4>1. r.row \in Row /\ saved' = [saved EXCEPT ![r.by] = Append(@, r.row)]
        BY <1>0, <3>1, PerformTables DEF CallSound
      <4>2. Append(saved[r.by], r.row) \in Seq(Row)
        BY <1>0, <4>1 DEF CoreTypes
      <4> QED
        BY <1>0, <4>1, <4>2 DEF CoreTypes
    <3> QED
      BY <1>0, <3>1, PerformTables DEF CoreTypes
  <2>2. /\ refs' \in Seq(RefRow)
        /\ \A n \in DOMAIN refs : n \in DOMAIN refs' /\ refs'[n] = refs[n]
        /\ \A n \in DOMAIN refs' \ DOMAIN refs : refs'[n].by = r.by
    <3>1. CASE r.op = "remember"
      <4>1. PICK u : u = [by |-> r.by, id |-> r.id, state |-> r.what]
        OBVIOUS
      <4>2. r.id \in DOMAIN tasks /\ r.what \in TaskStates
        BY <3>1 DEF Ready, RefSound, OwnTask, RanTo, TaskStates
      <4>3. u \in RefRow /\ u.by = r.by
        BY <1>0, <4>1, <4>2 DEF RefRow, CoreTypes
      <4>4. refs' = Append(refs, u) /\ refs \in Seq(RefRow)
        BY <1>0, <3>1, <4>1, PerformTables DEF CoreTypes
      <4> QED
        BY <4>3, <4>4
    <3> QED
      BY <1>0, <3>1, PerformTables DEF CoreTypes
  <2>3. made \subseteq made' /\ made' \subseteq MadeRow /\ \A w \in made' \ made : w.by = r.by
    <3>1. CASE r.op = "make"
      <4>1. PICK u : u = [by |-> r.by, what |-> r.what]
        OBVIOUS
      <4>2. u \in MadeRow /\ u.by = r.by
        BY <1>0, <3>1, <4>1 DEF CallSound, MadeRow
      <4>3. made' = made \cup {u}
        BY <1>0, <3>1, <4>1, PerformTables
      <4> QED
        BY <4>2, <4>3 DEF CoreTypes
    <3> QED
      BY <1>0, <3>1, PerformTables DEF CoreTypes
  <2>4. /\ log' \in Seq(LogRow)
        /\ Len(log) =< Len(log') /\ \A n \in DOMAIN log : log'[n] = log[n]
        /\ \A n \in DOMAIN log' \ DOMAIN log : log'[n][1] = r.by
    <3>1. CASE r.op = "record"
      <4>1. <<r.by, r.what>> \in LogRow /\ log' = Append(log, <<r.by, r.what>>)
        BY <1>0, <3>1, PerformTables DEF CallSound, LogRow
      <4>2. PICK u : u = <<r.by, r.what>>
        OBVIOUS
      <4>3. u \in LogRow /\ u[1] = r.by /\ log' = Append(log, u) /\ log \in Seq(LogRow)
        BY <4>1, <4>2 DEF CoreTypes
      <4> QED
        BY <4>3
    <3>2. CASE r.op # "record"
      <4>1. log' = log /\ log \in Seq(LogRow)
        BY <1>0, <3>2, PerformTables DEF CoreTypes
      <4> QED
        BY <4>1
    <3> QED
      BY <3>1, <3>2
  <2> QED
    BY <2>1, <2>2, <2>3, <2>4
<1>3. CoreTypes'
  BY <1>1, <1>2 DEF CoreTypes
<1>4. Grows(r.by)
  BY <1>1, <1>2 DEF Grows, Became
<1> QED
  BY <1>3, <1>4

\* What may become of call r, when it is made or later; a run goes on after it.
Outcome(r) ==
    \/ Perform(r) /\ late' \in {late, late \ {r}}
    \/ UNCHANGED core /\ late' \in {late, late \cup {r}, late \ {r}}
    \/ Advance(r) /\ late' = late

\* The handlers of the other messages stay where they are.
HandApart(m) ==
    \A g \in Message \ {m} :
        /\ at'[g] = at[g] /\ got'[g] = got[g] /\ answer'[g] = answer[g]
        /\ (g \in lost' <=> g \in lost)

LEMMA StaysReady ==
  ASSUME NEW m, Grows(m), NEW r, Ready(r)
  PROVE  Ready(r)'
<1>1. CallSound(r)'
  BY DEF Ready, CallSound, Grows
<1>2. ASSUME r.op = "remember" PROVE RefSound(r.by, r.id, r.what)'
  <2>1. r.id \in DOMAIN tasks /\ tasks[r.id].by = r.by /\ RanTo(r.id, r.what)
    BY <1>2 DEF Ready, RefSound, OwnTask
  <2>2. r.id \in DOMAIN tasks' /\ tasks'[r.id].by = r.by /\ RanTo(r.id, r.what)'
    BY <2>1, GrowsKeeps
  <2> QED
    BY <2>2 DEF RefSound, OwnTask
<1> QED
  BY <1>1, <1>2 DEF Ready

LEMMA OneCall ==
  ASSUME BotTypes, TasksSound, RefsSound, NEW m \in Message, NEW r, r.by = m,
         Ready(r), Outcome(r), HandTypes', HandApart(m)
  PROVE  BotTypes' /\ TasksSound' /\ RefsSound' /\ Apart(m)
<1>1. CoreTypes /\ HandTypes /\ \A x \in late : Ready(x)
  BY DEF BotTypes, RefsSound, Ready
<1>2. CoreTypes' /\ Grows(m) /\ TasksSound'
  <2>1. CASE Perform(r)
    BY <1>1, <2>1, PerformTypes, PerformTasks DEF Ready
  <2>2. CASE UNCHANGED core
    <3>1. /\ saved' = saved /\ tasks' = tasks /\ refs' = refs /\ made' = made /\ log' = log
          /\ busy' = busy
      BY <2>2 DEF core
    <3>2. Len(log) =< Len(log)
      BY <1>1 DEF CoreTypes
    <3>3. TasksSound'
      BY <3>1 DEF TasksSound, CompletedSound, BusySound
    <3> QED
      BY <1>1, <3>1, <3>2, <3>3 DEF CoreTypes, Grows
  <2>3. CASE Advance(r)
    <3>1. /\ tasks' \in Seq(TaskRow) /\ DOMAIN tasks' = DOMAIN tasks /\ TasksSound'
          /\ \A n \in DOMAIN tasks : Became(tasks[n], tasks'[n])
          /\ saved' = saved /\ refs' = refs /\ made' = made /\ log' = log
      BY <1>1, <2>3, AdvanceTask
    <3>2. Len(log) =< Len(log)
      BY <1>1 DEF CoreTypes
    <3>3. Grows(m)
      BY <3>1, <3>2 DEF Grows, Became
    <3> QED
      BY <1>1, <3>1, <3>3 DEF CoreTypes
  <2> QED
    BY <2>1, <2>2, <2>3 DEF Outcome
<1>3. late' \subseteq late \cup {r}
  BY DEF Outcome
<1>4. \A x \in late' : Ready(x)'
  BY <1>1, <1>2, <1>3, StaysReady
<1>5. \A n \in DOMAIN refs' : RefSound(refs[n].by, refs[n].id, refs[n].state)'
  <2> SUFFICES ASSUME NEW n \in DOMAIN refs'
               PROVE  RefSound(refs[n].by, refs[n].id, refs[n].state)'
    OBVIOUS
  <2>1. PICK u : u = refs'[n]
    OBVIOUS
  <2>2. RefSound(u.by, u.id, u.state)
    <3>1. CASE n \in DOMAIN refs
      BY <1>2, <2>1, <3>1 DEF Grows, RefsSound
    <3>2. CASE n \notin DOMAIN refs
      <4>1. Perform(r) /\ r.op = "remember"
        BY <1>1, <3>2, PerformTables, AdvanceTask DEF Outcome, core
      <4>2. refs' = Append(refs, [by |-> r.by, id |-> r.id, state |-> r.what])
            /\ refs \in Seq(RefRow)
        BY <1>1, <4>1, PerformTables DEF CoreTypes
      <4>3. u = [by |-> r.by, id |-> r.id, state |-> r.what]
        BY <2>1, <3>2, <4>2
      <4> QED
        BY <4>1, <4>3 DEF Ready
    <3> QED
      BY <3>1, <3>2
  <2>3. u.id \in DOMAIN tasks /\ tasks[u.id].by = u.by /\ RanTo(u.id, u.state)
    BY <2>2 DEF RefSound, OwnTask
  <2>4. u.id \in DOMAIN tasks' /\ tasks'[u.id].by = u.by /\ RanTo(u.id, u.state)'
    BY <1>2, <2>3, GrowsKeeps
  <2> QED
    BY <2>1, <2>4 DEF RefSound, OwnTask, RanTo
<1>6. \A g \in Message \ {m} : saved'[g] = saved[g]
  BY <1>1, PerformTables, AdvanceTask DEF Outcome, core, CoreTypes
<1>7. Apart(m)
  BY <1>2, <1>6 DEF Apart, HandApart, Outcome
<1> QED
  BY <1>2, <1>4, <1>5, <1>7 DEF BotTypes, RefsSound, Ready

-----------------------------------------------------------------------------
(* Calls that leave nothing of the message's own.                          *)

Effects == {"create", "make", "save", "remember", "record"}

Quiet(m) ==
    /\ Creates(m)' = Creates(m) /\ Makes(m)' = Makes(m) /\ saved'[m] = saved[m]
    /\ refs' = refs /\ log' = log
    /\ \A ops \in SUBSET Effects : LateOf(m, ops)' = LateOf(m, ops)

LEMMA QuietCall ==
  ASSUME BotTypes, TasksSound, NEW m \in Message, NEW r, r.by = m, CallSound(r),
         Outcome(r), r.op \notin Effects
  PROVE  Quiet(m)
<1>1. saved' = saved /\ refs' = refs /\ made' = made /\ log' = log
  BY PerformTables, AdvanceTask DEF BotTypes, Outcome, core, Effects
<1>2. DOMAIN tasks' = DOMAIN tasks /\ \A n \in DOMAIN tasks : tasks'[n].by = tasks[n].by
  <2>1. CASE Perform(r)
    BY <2>1, PerformTasks DEF BotTypes, Became, Effects
  <2>2. CASE UNCHANGED core
    BY <2>2 DEF core
  <2>3. CASE Advance(r)
    BY <2>3, AdvanceTask DEF BotTypes, Became
  <2> QED
    BY <2>1, <2>2, <2>3 DEF Outcome
<1>3. \A ops \in SUBSET Effects : LateOf(m, ops)' = LateOf(m, ops)
  BY DEF Outcome, LateOf
<1>4. Creates(m)' = Creates(m) /\ Makes(m)' = Makes(m)
  BY <1>1, <1>2 DEF Creates, Makes
<1> QED
  BY <1>1, <1>3, <1>4 DEF Quiet

LEMMA QuietLate ==
  ASSUME NEW m, Quiet(m)
  PROVE  /\ LateOf(m, {"create", "make"})' = LateOf(m, {"create", "make"})
         /\ LateOf(m, {"create", "make", "save"})' = LateOf(m, {"create", "make", "save"})
         /\ LateOf(m, {"save"})' = LateOf(m, {"save"})
         /\ LateOf(m, {"remember"})' = LateOf(m, {"remember"})
         /\ LateOf(m, {"record"})' = LateOf(m, {"record"})
<1>1. {"create", "make"} \in SUBSET Effects /\ {"create", "make", "save"} \in SUBSET Effects
      /\ {"save"} \in SUBSET Effects /\ {"remember"} \in SUBSET Effects
      /\ {"record"} \in SUBSET Effects
  BY DEF Effects
<1> QED
  BY <1>1 DEF Quiet

LEMMA QuietKeeps ==
  ASSUME NEW m, MessageInv(m), Quiet(m), lost' = lost
  PROVE  /\ OneAtMost(m)'
         /\ Untouched(m) => Untouched(m)'
         /\ (at'[m] \in {"humanize", "log", "reply", "ended"}
               \/ at[m] \notin {"humanize", "log", "reply", "ended"}) => RefersOnce(m)'
         /\ (at'[m] \in {"away", "record", "reply", "ended"}
               \/ at[m] \notin {"away", "record", "reply", "ended"}) => InOrder(m)'
<1>1. /\ Creates(m)' = Creates(m) /\ Makes(m)' = Makes(m) /\ saved'[m] = saved[m]
      /\ refs' = refs /\ log' = log
  BY DEF Quiet
<1>2. OneAtMost(m)'
  BY <1>1, QuietLate DEF MessageInv, OneAtMost
<1>3. Untouched(m) => Untouched(m)'
  BY <1>1, QuietLate DEF Untouched
<1>4. (at'[m] \in {"humanize", "log", "reply", "ended"}
               \/ at[m] \notin {"humanize", "log", "reply", "ended"}) => RefersOnce(m)'
  BY <1>1, QuietLate DEF MessageInv, RefersOnce
<1>5. (at'[m] \in {"away", "record", "reply", "ended"}
               \/ at[m] \notin {"away", "record", "reply", "ended"}) => InOrder(m)'
  BY <1>1, QuietLate DEF MessageInv, InOrder, Kept
<1> QED
  BY <1>2, <1>3, <1>4, <1>5

-----------------------------------------------------------------------------
(* Where a handler goes.                                                   *)

Moves(m, p, h, w) ==
    /\ HandTypes' /\ HandApart(m) /\ lost' = lost
    /\ at'[m] = p /\ got'[m] = h /\ answer'[m] = w

\* The handler holds h from now on.
Holds(m, h) == \/ got' = [got EXCEPT ![m] = h]
               \/ got' = got /\ h = got[m]

LEMMA PlainSound == SayingSound(Plain)
  BY DEF SayingSound, Plain, AllCommands

LEMMA NothingHeld == Nothing \in Hand /\ Nothing.rows = <<>> /\ Nothing.id = 0
<1>1. <<>> \in Seq(Row) /\ "null" \in Named /\ 0 \in Nat
  BY DEF Named
<1> QED
  BY <1>1 DEF Nothing, Hand

LEMMA TellMoves ==
  ASSUME HandTypes, NEW m \in Message, NEW h \in Hand, NEW w,
         Tell(m, w), Holds(m, h), lost' = lost
  PROVE  Moves(m, "log", h, w)
<1>1. at' = [at EXCEPT ![m] = "log"] /\ answer' = [answer EXCEPT ![m] = w]
      /\ ask' = [ask EXCEPT ![m] = Plain]
  BY DEF Tell
<1>2. at' \in [Message -> Place] /\ at'[m] = "log" /\ \A g \in Message \ {m} : at'[g] = at[g]
  BY <1>1 DEF HandTypes, Place
<1>3. DOMAIN ask' = Message /\ \A g \in Message : SayingSound(ask'[g])
  BY <1>1, PlainSound DEF HandTypes
<1>4. got' \in [Message -> Hand] /\ got'[m] = h /\ \A g \in Message \ {m} : got'[g] = got[g]
  BY DEF Holds, HandTypes
<1>5. DOMAIN answer' = Message /\ answer'[m] = w
      /\ \A g \in Message \ {m} : answer'[g] = answer[g]
  BY <1>1 DEF HandTypes
<1>6. (\A g \in Message : SayingSound(ask[g]))'
  BY <1>3 DEF SayingSound
<1>7. (\A g \in Message :
          /\ at[g] = "delete" => ask[g].command \in {"delete", "reset"}
          /\ at[g] = "verdict" => ask[g].command \in {"approve", "reject"})'
  BY <1>1, <1>2 DEF HandTypes
<1> QED
  BY <1>2, <1>3, <1>4, <1>5, <1>6, <1>7 DEF Moves, HandApart, HandTypes

LEMMA GoMoves ==
  ASSUME HandTypes, NEW m \in Message, NEW h \in Hand,
         NEW p \in Place \ {"delete", "verdict"}, Go(m, p),
         Holds(m, h), lost' = lost
  PROVE  Moves(m, p, h, answer[m])
<1>1. at' = [at EXCEPT ![m] = p] /\ answer' = answer /\ ask' = ask
  BY DEF Go
<1>2. at' \in [Message -> Place] /\ at'[m] = p /\ \A g \in Message \ {m} : at'[g] = at[g]
  BY <1>1 DEF HandTypes
<1>4. got' \in [Message -> Hand] /\ got'[m] = h /\ \A g \in Message \ {m} : got'[g] = got[g]
  BY DEF Holds, HandTypes
<1> QED
  BY <1>1, <1>2, <1>4 DEF Moves, HandApart, HandTypes

\* The invariant holds again once it does for the message the step is about.
LEMMA BotInvAgain ==
  ASSUME BotInv, NEW m \in Message, Apart(m), BotTypes', TasksSound', RefsSound',
         MessageInv(m)'
  PROVE  BotInv'
<1>1. \A g \in Message \ {m} : MessageInv(g)'
  BY OthersStay DEF BotInv
<1> QED
  BY <1>1 DEF BotInv

\* A call of the message itself.
LEMMA CallAgain ==
  ASSUME BotInv, NEW m \in Message, NEW r, r.by = m, Ready(r), Outcome(r),
         HandTypes', HandApart(m),
         BotTypes' /\ Apart(m) => MessageInv(m)'
  PROVE  BotInv'
<1>1. BotTypes' /\ TasksSound' /\ RefsSound' /\ Apart(m)
  BY OneCall DEF BotInv
<1> QED
  BY <1>1, BotInvAgain

\* Before a message has had its effect, a call that has none changes nothing
\* for it, and its handler goes on or says so.
LEMMA EarlyCall ==
  ASSUME BotInv, NEW m \in Message, NEW r, r.by = m, CallSound(r), Outcome(r),
         r.op \notin Effects, at[m] \in Early \ {"away", "record"},
         NEW p, NEW h, NEW w, Moves(m, p, h, w), h.rows = <<>>, h.id = 0,
         \/ p \in (Early \ {"away", "record"}) \cup {"humanize"} /\ w = "none"
         \/ p = "log" /\ w \in {"question", "talk", "hint", "seen", "forgot", "done"}
         \/ p = "log" /\ w = "proposal" /\ \E v \in made : v.what = "proposal"
  PROVE  BotInv'
<1>1. Ready(r)
  BY DEF Ready, Effects
<1>2. Quiet(m)
  BY QuietCall DEF BotInv
<1>3. MessageInv(m) /\ Untouched(m) /\ Untouched(m)'
  BY <1>2, QuietKeeps DEF BotInv, MessageInv, Stands, Moves
<1>4. LateOf(m, {"save"})' = {}
  BY <1>3 DEF Untouched, LateOf
<1>5. at'[m] = p /\ got'[m].rows = <<>> /\ got'[m].id = 0 /\ answer'[m] = w /\ lost' = lost
  BY DEF Moves
<1>6. OneAtMost(m)' /\ RefersOnce(m)' /\ InOrder(m)'
  BY <1>2, <1>3, <1>5, QuietKeeps DEF Early
<1>7. Stands(m)'
  BY <1>3, <1>4, <1>5 DEF Stands, Early
<1>8. Told(m)'
  <2>1. made' = made
    BY PerformTables, AdvanceTask DEF BotInv, BotTypes, Outcome, core, Effects
  <2> QED
    BY <1>3, <1>4, <1>5, <2>1 DEF Told
<1>9. MessageInv(m)'
  BY <1>6, <1>7, <1>8 DEF MessageInv
<1> QED
  BY <1>1, <1>9, CallAgain DEF Moves

\* The message has neither had its effect nor has it to come.
Unspent(m) ==
    /\ Creates(m) = {} /\ Makes(m) = {}
    /\ LateOf(m, {"create", "make", "save"}) = {}

\* A command that fails, with its call perhaps still to be done.
LEMMA FailAgain ==
  ASSUME BotInv, NEW m \in Message, NEW r, r.by = m, CallSound(r), Fails(m, r),
         r.op \notin {"remember", "record"},
         at[m] \notin {"away", "record", "reply", "ended"},
         r.op \in {"create", "make", "save"} => Unspent(m),
         r.op \in {"create", "make"} => saved[m] = <<>>
  PROVE  BotInv'
<1>1. UNCHANGED core /\ late' \in {late, late \cup {r}}
  BY DEF Fails, NoAnswer, Refused, TimedOut
<1>2. Outcome(r) /\ Ready(r)
  BY <1>1 DEF Outcome, Ready
<1>3. Moves(m, "log", Nothing, "failure")
  BY NothingHeld, TellMoves DEF BotInv, BotTypes, Fails, Holds
<1>4. /\ at'[m] = "log" /\ got'[m].rows = <<>> /\ got'[m].id = 0 /\ answer'[m] = "failure"
      /\ lost' = lost /\ HandTypes' /\ HandApart(m)
  BY <1>3, NothingHeld DEF Moves
<1>5. saved' = saved /\ tasks' = tasks /\ made' = made /\ refs' = refs /\ log' = log
  BY <1>1 DEF core
<1>6. /\ Creates(m)' = Creates(m) /\ Makes(m)' = Makes(m)
      /\ LateOf(m, {"remember"})' = LateOf(m, {"remember"})
      /\ LateOf(m, {"record"})' = LateOf(m, {"record"})
  BY <1>1, <1>5 DEF Creates, Makes, LateOf
<1>7. OneAtMost(m) /\ RefersOnce(m) /\ InOrder(m)
  BY DEF BotInv, MessageInv
<1>8. OneAtMost(m)'
  <2>1. CASE r.op \notin {"create", "make", "save"} \/ late' = late
    <3>1. LateOf(m, {"create", "make"})' = LateOf(m, {"create", "make"})
          /\ LateOf(m, {"save"})' = LateOf(m, {"save"})
      BY <1>1, <2>1 DEF LateOf
    <3> QED
      BY <1>5, <1>6, <1>7, <3>1 DEF OneAtMost
  <2>2. CASE r.op = "save" /\ late' = late \cup {r}
    <3>1. Creates(m) = {} /\ Makes(m) = {} /\ LateOf(m, {"create", "make"})' = {}
      BY <2>2 DEF Unspent, LateOf
    <3> QED
      BY <1>6, <3>1 DEF OneAtMost
  <2>3. CASE r.op \in {"create", "make"} /\ late' = late \cup {r}
    <3>1. /\ Creates(m) = {} /\ Makes(m) = {} /\ saved[m] = <<>>
          /\ LateOf(m, {"create", "make"})' = {r} /\ LateOf(m, {"save"})' = {}
      BY <2>3 DEF Unspent, LateOf
    <3> QED
      BY <1>5, <1>6, <3>1 DEF OneAtMost
  <2> QED
    BY <1>1, <2>1, <2>2, <2>3
<1>9. Stands(m)'
  BY <1>4 DEF Stands, Early
<1>10. Told(m)'
  BY <1>4 DEF Told
<1>11. RefersOnce(m)'
  BY <1>4, <1>5, <1>6, <1>7 DEF RefersOnce
<1>12. InOrder(m)'
  BY <1>4, <1>5, <1>6, <1>7 DEF InOrder, Kept
<1>13. MessageInv(m)'
  BY <1>8, <1>9, <1>10, <1>11, <1>12 DEF MessageInv
<1> QED
  BY <1>2, <1>4, <1>13, CallAgain

LEMMA EarlyPlace ==
  ASSUME BotInv, NEW m \in Message, at[m] \in Early
  PROVE  Untouched(m) /\ Unspent(m) /\ got[m] \in Hand /\ got[m].rows = <<>> /\ got[m].id = 0
         /\ answer[m] = "none" /\ saved[m] = <<>>
  BY DEF BotInv, BotTypes, HandTypes, MessageInv, Stands, Untouched, Unspent, Early

-----------------------------------------------------------------------------
(* The commands that have no effect of the message's own.                  *)

LEMMA ForgetStep ==
  ASSUME BotInv, NEW m \in Message, ForgetPreference(m)
  PROVE  BotInv'
<1> DEFINE r == [Ask(m, ask[m].command) EXCEPT !.what = ask[m].row[1]]
<1>1. r.by = m /\ r.op \notin Effects /\ CallSound(r)
  BY DEF ForgetPreference, BotInv, BotTypes, HandTypes, Ask, CallSound, Effects
<1>2. at[m] = "delete" /\ Call(m, r, Tell(m, "forgot") /\ UNCHANGED got)
  BY DEF ForgetPreference
<1> HIDE DEF r
<1>3. at[m] \in Early \ {"away", "record"}
  BY <1>2 DEF Early
<1>4. CASE Fails(m, r)
  BY <1>1, <1>2, <1>4, FailAgain DEF Effects
<1>5. CASE Outcome(r) /\ Tell(m, "forgot") /\ got' = got /\ lost' = lost
  <2>1. Moves(m, "log", got[m], "forgot") /\ got[m].rows = <<>> /\ got[m].id = 0
    BY <1>3, <1>5, EarlyPlace, TellMoves DEF Holds, BotInv, BotTypes
  <2> QED
    BY <1>1, <1>3, <1>5, <2>1, EarlyCall
<1> QED
  BY <1>2, <1>4, <1>5 DEF Call, Answered, Outcome

LEMMA GiveVerdictStep ==
  ASSUME BotInv, NEW m \in Message, GiveVerdict(m)
  PROVE  BotInv'
<1>1. PICK n \in DOMAIN tasks :
         Call(m, [Ask(m, ask[m].command) EXCEPT !.id = n], Tell(m, "done") /\ UNCHANGED got)
  BY DEF GiveVerdict
<1> DEFINE r == [Ask(m, ask[m].command) EXCEPT !.id = n]
<1>2. r.by = m /\ r.op \notin Effects /\ CallSound(r)
  BY DEF GiveVerdict, BotInv, BotTypes, HandTypes, Ask, CallSound, Effects
<1>3. at[m] \in Early \ {"away", "record"}
  BY DEF GiveVerdict, Early
<1> HIDE DEF r
<1>4. CASE Fails(m, r)
  BY <1>2, <1>3, <1>4, FailAgain DEF Effects, Early
<1>5. CASE Outcome(r) /\ Tell(m, "done") /\ got' = got /\ lost' = lost
  <2>1. Moves(m, "log", got[m], "done") /\ got[m].rows = <<>> /\ got[m].id = 0
    BY <1>3, <1>5, EarlyPlace, TellMoves DEF Holds, BotInv, BotTypes
  <2> QED
    BY <1>2, <1>3, <1>5, <2>1, EarlyCall
<1> QED
  BY <1>1, <1>4, <1>5 DEF Call, Answered, Outcome, r

\* What a read leaves: nothing of the core.
LEMMA ReadCall ==
  ASSUME NEW m \in Message
  PROVE  /\ CallSound(Ask(m, "read")) /\ Ask(m, "read").by = m
         /\ Ask(m, "read").op = "read" /\ Ask(m, "read").op \notin Effects
  BY DEF Ask, CallSound, Effects

LEMMA UnknownTaskStep ==
  ASSUME BotInv, NEW m \in Message, UnknownTask(m)
  PROVE  BotInv'
  BY ReadCall, FailAgain DEF UnknownTask, Effects

LEMMA ReadOnlyStep ==
  ASSUME BotInv, NEW m \in Message, ReadOnly(m)
  PROVE  BotInv'
<1>1. PICK r : r = Ask(m, "read")
  OBVIOUS
<1>2. CallSound(r) /\ r.by = m /\ r.op = "read" /\ r.op \notin Effects
  BY <1>1, ReadCall
<1>3. at[m] \in Early \ {"away", "record"}
  BY DEF ReadOnly, Early
<1>4. CASE Fails(m, r)
  BY <1>2, <1>3, <1>4, FailAgain DEF Effects, Early
<1>5. ASSUME Outcome(r), lost' = lost, got' = got,
             IF ask[m].command = "read" THEN Tell(m, "seen") ELSE Go(m, "humanize")
      PROVE  BotInv'
  <2>1. got[m] \in Hand /\ got[m].rows = <<>> /\ got[m].id = 0 /\ answer[m] = "none"
    BY <1>3, EarlyPlace
  <2>2. CASE Tell(m, "seen")
    <3>1. Moves(m, "log", got[m], "seen")
      BY <1>5, <2>1, <2>2, TellMoves DEF Holds, BotInv, BotTypes
    <3> QED
      BY <1>2, <1>3, <1>5, <2>1, <3>1, EarlyCall
  <2>3. CASE Go(m, "humanize")
    <3>1. Moves(m, "humanize", got[m], answer[m])
      BY <1>5, <2>1, <2>3, GoMoves DEF Holds, BotInv, BotTypes, Place
    <3> QED
      BY <1>2, <1>3, <1>5, <2>1, <3>1, EarlyCall
  <2> QED
    BY <1>5, <2>2, <2>3
<1> QED
  BY <1>1, <1>4, <1>5 DEF ReadOnly, Call, Answered, Outcome

\* What the organ can answer, where somebody reads it.
LEMMA IntentTask ==
  ASSUME NEW words, NEW i \in ToCore(words)
  PROVE  i.task \in Named
<1>1. CASE CatalogMatches(words) = {}
  <2>1. PICK x \in RawIntent : i = [task |-> x.task, question |-> x.question]
                               /\ ValidateLanguageIntent(x)
    BY <1>1 DEF ToCore, LanguageIntents
  <2> QED
    BY <2>1 DEF RawIntent, ValidateLanguageIntent, Named
<1>2. CASE CatalogMatches(words) # {}
  <2>1. PICK t \in Asked : i = [task |-> t, question |-> FALSE]
    BY <1>2 DEF ToCore
  <2> QED
    BY <2>1 DEF Named
<1> QED
  BY <1>1, <1>2

LEMMA IntentRows ==
  ASSUME NEW p \in PreferenceIntents
  PROVE  p.candidates \in Seq(Row)
<1>1. PICK x \in RawPreference : p = [kind |-> x.kind, candidates |-> x.candidates]
  BY DEF PreferenceIntents
<1>2. Candidates \subseteq Row
  <2> SUFFICES ASSUME NEW c \in Candidates PROVE c \in Row
    OBVIOUS
  <2>1. PICK x2 \in RawCandidate : c = <<x2.key, x2.scope>> /\ ValidatePreferenceCandidate(x2)
    BY DEF Candidates
  <2> QED
    BY <2>1 DEF RawCandidate, ValidatePreferenceCandidate, Row
<1>3. x.candidates \in {<<>>} \cup {<<c>> : c \in Candidates}
                       \cup {<<c, d>> : c \in Candidates, d \in Candidates}
  BY <1>1 DEF RawPreference
<1>4. x.candidates \in Seq(Candidates)
  <2>1. CASE x.candidates = <<>>
    BY <2>1
  <2>2. ASSUME NEW c \in Candidates, x.candidates = <<c>> PROVE x.candidates \in Seq(Candidates)
    BY <2>2
  <2>3. ASSUME NEW c \in Candidates, NEW d \in Candidates, x.candidates = <<c, d>>
        PROVE  x.candidates \in Seq(Candidates)
    BY <2>3
  <2> QED
    BY <1>3, <2>1, <2>2, <2>3
<1> QED
  BY <1>1, <1>2, <1>4, SeqDef

\* A conversation that asks for preferences goes on to save them.
LEMMA ReadPreferencesStep ==
  ASSUME BotInv, NEW m \in Message, ReadPreferences(m)
  PROVE  BotInv'
<1>1. PICK r : r = Ask(m, "read")
  OBVIOUS
<1>2. CallSound(r) /\ r.by = m /\ r.op = "read" /\ r.op \notin Effects
  BY <1>1, ReadCall
<1>3. at[m] \in Early \ {"away", "record"}
  BY DEF ReadPreferences, Early
<1>4. /\ got[m] \in Hand /\ got[m].rows = <<>> /\ got[m].id = 0 /\ answer[m] = "none"
      /\ Untouched(m)
  BY <1>3, EarlyPlace
<1>5. CASE Fails(m, r)
  BY <1>2, <1>3, <1>5, FailAgain DEF Effects, Early
<1>6. ASSUME Outcome(r), lost' = lost, NEW p \in PreferenceIntents, p.candidates # <<>>,
             Go(m, "save"), got' = [got EXCEPT ![m].rows = p.candidates]
      PROVE  BotInv'
  <2>1. PICK h : h = [got[m] EXCEPT !.rows = p.candidates]
    OBVIOUS
  <2>2. p.candidates \in Seq(Row)
    BY IntentRows
  <2>3. h \in Hand /\ h.rows = p.candidates /\ h.id = 0
    BY <1>4, <2>1, <2>2 DEF Hand
  <2>4. got' = [got EXCEPT ![m] = h]
    BY <1>6, <2>1
  <2>5. Moves(m, "save", h, "none")
    BY <1>4, <1>6, <2>3, <2>4, GoMoves DEF Holds, BotInv, BotTypes, Place
  <2>6. /\ at'[m] = "save" /\ got'[m] = h /\ answer'[m] = "none" /\ lost' = lost
        /\ HandTypes' /\ HandApart(m)
    BY <2>5 DEF Moves
  <2>7. Quiet(m)
    BY <1>2, <1>6, QuietCall DEF BotInv
  <2>8. OneAtMost(m)' /\ RefersOnce(m)' /\ InOrder(m)' /\ Untouched(m)'
    BY <1>3, <1>4, <1>6, <2>6, <2>7, QuietKeeps DEF BotInv, Early
  <2>9. Len(h.rows) \in Nat /\ Len(h.rows) > 0
    BY <1>6, <2>2, <2>3
  <2>10. saved'[m] = <<>> /\ InTurn(m)' /\ LateOf(m, {"save"})' = {}
    BY <2>6, <2>8, <2>9 DEF Untouched, InTurn, LateOf
  <2>11. Stands(m)'
    BY <2>3, <2>6, <2>8, <2>9, <2>10 DEF Stands, Untouched, Early
  <2>12. Told(m)'
    BY <2>6, <2>10 DEF Told
  <2>13. MessageInv(m)'
    BY <2>8, <2>11, <2>12 DEF MessageInv
  <2> QED
    BY <1>2, <1>6, <2>6, <2>13, CallAgain DEF Ready
<1>7. ASSUME Outcome(r), lost' = lost, Tell(m, "question"), got' = got
      PROVE  BotInv'
  <2>1. Moves(m, "log", got[m], "question")
    BY <1>4, <1>7, TellMoves DEF Holds, BotInv, BotTypes
  <2> QED
    BY <1>2, <1>3, <1>4, <1>7, <2>1, EarlyCall
<1>8. ASSUME Outcome(r), lost' = lost, Go(m, "to_core"), got' = got
      PROVE  BotInv'
  <2>1. Moves(m, "to_core", got[m], "none")
    BY <1>4, <1>8, GoMoves DEF Holds, BotInv, BotTypes, Place
  <2> QED
    BY <1>2, <1>3, <1>4, <1>8, <2>1, EarlyCall DEF Early
<1> QED
  BY <1>1, <1>5, <1>6, <1>7, <1>8 DEF ReadPreferences, Call, Answered, Outcome

LEMMA LanguageToCoreStep ==
  ASSUME BotInv, NEW m \in Message, LanguageToCore(m)
  PROVE  BotInv'
<1>1. PICK r : r = Ask(m, "read")
  OBVIOUS
<1>2. CallSound(r) /\ r.by = m /\ r.op = "read" /\ r.op \notin Effects
  BY <1>1, ReadCall
<1>3. at[m] \in Early \ {"away", "record"}
  BY DEF LanguageToCore, Early
<1>4. got[m] \in Hand /\ got[m].rows = <<>> /\ got[m].id = 0 /\ answer[m] = "none"
  BY <1>3, EarlyPlace
<1>5. CASE Fails(m, r)
  BY <1>2, <1>3, <1>5, FailAgain DEF Effects, Early
<1>6. ASSUME Outcome(r), lost' = lost, NEW i \in ToCore(ask[m].words),
             got' = [got EXCEPT ![m].task = i.task],
             CASE ask[m].command = "auto" -> Go(m, "route")
               [] ask[m].command = "ask"  -> Tell(m, "talk")
               [] OTHER -> IF i.task = "null" THEN Tell(m, "question")
                           ELSE Go(m, "create")
      PROVE  BotInv'
  <2>1. PICK h : h = [got[m] EXCEPT !.task = i.task]
    OBVIOUS
  <2>2. i.task \in Named
    BY IntentTask
  <2>3. h \in Hand /\ h.rows = <<>> /\ h.id = 0
    BY <1>4, <2>1, <2>2 DEF Hand
  <2>4. got' = [got EXCEPT ![m] = h]
    BY <1>6, <2>1
  <2>5. \/ Go(m, "route") \/ Go(m, "create") \/ Tell(m, "talk") \/ Tell(m, "question")
    BY <1>6
  <2>6. \/ Moves(m, "route", h, "none") \/ Moves(m, "create", h, "none")
        \/ Moves(m, "log", h, "talk") \/ Moves(m, "log", h, "question")
    <3>1. HandTypes /\ Holds(m, h) /\ {"route", "create"} \subseteq Place \ {"delete", "verdict"}
      BY <2>4 DEF Holds, BotInv, BotTypes, Place
    <3>2. Go(m, "route") \/ Go(m, "create") =>
            Moves(m, "route", h, "none") \/ Moves(m, "create", h, "none")
      BY <1>4, <1>6, <2>3, <3>1, GoMoves
    <3>3. Tell(m, "talk") \/ Tell(m, "question") =>
            Moves(m, "log", h, "talk") \/ Moves(m, "log", h, "question")
      BY <1>6, <2>3, <3>1, TellMoves
    <3> QED
      BY <2>5, <3>2, <3>3
  <2> QED
    BY <1>2, <1>3, <1>6, <2>3, <2>6, EarlyCall DEF Early
<1> QED
  BY <1>1, <1>5, <1>6 DEF LanguageToCore, Call, Answered, Outcome

LEMMA AutoRunMoves ==
  ASSUME BotInv, NEW m \in Message, at[m] \in Early, AutoRun(m), got' = got, lost' = lost
  PROVE  \/ Moves(m, "create", got[m], "none")
         \/ Moves(m, "log", got[m], "hint") \/ Moves(m, "log", got[m], "question")
<1>1. got[m] \in Hand /\ answer[m] = "none"
  BY EarlyPlace
<1>2. Go(m, "create") \/ Tell(m, "hint") \/ Tell(m, "question")
  BY DEF AutoRun
<1> QED
  BY <1>1, <1>2, GoMoves, TellMoves DEF Holds, BotInv, BotTypes, Place

-----------------------------------------------------------------------------
(* The calls that are the effect of a message.                             *)

\* A work item or a proposal is made of the message.
LEMMA MakeStep ==
  ASSUME BotInv, NEW m \in Message, at[m] = "route", NEW w \in {"work", "proposal"},
         NEW r, r.by = m, r.op = "make", r.what = w,
         Perform(r), late' = late, lost' = lost, got' = got, Tell(m, w)
  PROVE  BotInv'
<1>1. Ready(r) /\ Outcome(r)
  BY DEF Ready, CallSound, Outcome
<1>2. /\ got[m] \in Hand /\ got[m].rows = <<>> /\ got[m].id = 0 /\ Untouched(m)
  BY EarlyPlace DEF Early
<1>3. Moves(m, "log", got[m], w)
  BY <1>2, TellMoves DEF Holds, BotInv, BotTypes
<1>4. /\ at'[m] = "log" /\ got'[m].rows = <<>> /\ got'[m].id = 0 /\ answer'[m] = w
      /\ HandTypes' /\ HandApart(m)
  BY <1>2, <1>3 DEF Moves
<1>5. /\ saved' = saved /\ refs' = refs /\ log' = log /\ DOMAIN tasks' = DOMAIN tasks
      /\ \A n \in DOMAIN tasks : tasks'[n].by = tasks[n].by
  BY <1>1, PerformTables, PerformTasks DEF BotInv, BotTypes, Became, Ready
<1>6. PICK v : v = [by |-> m, what |-> w]
  OBVIOUS
<1>7. made' = made \cup {v} /\ v.by = m /\ v.what = w
  BY <1>1, <1>6, PerformTables DEF BotInv, BotTypes
<1>8. Creates(m)' = {} /\ Makes(m)' = {v} /\ saved'[m] = <<>>
  BY <1>2, <1>5, <1>7 DEF Creates, Makes, Untouched
<1>9. /\ LateOf(m, {"create", "make"})' = {} /\ LateOf(m, {"save"})' = {}
      /\ LateOf(m, {"remember"})' = LateOf(m, {"remember"})
      /\ LateOf(m, {"record"})' = LateOf(m, {"record"})
  BY <1>2 DEF Untouched, LateOf
<1>10. OneAtMost(m)'
  BY <1>8, <1>9 DEF OneAtMost
<1>11. Stands(m)'
  BY <1>4 DEF Stands, Early
<1>12. Told(m)'
  BY <1>4, <1>6, <1>7, <1>9 DEF Told
<1>13. RefersOnce(m)' /\ InOrder(m)'
  <2>1. RefersOnce(m) /\ InOrder(m)
    BY DEF BotInv, MessageInv
  <2>2. RefersOnce(m)'
    BY <1>4, <1>5, <1>9, <2>1 DEF RefersOnce
  <2>3. InOrder(m)'
    BY <1>4, <1>5, <1>9, <2>1 DEF InOrder, Kept
  <2> QED
    BY <2>2, <2>3
<1>14. MessageInv(m)'
  BY <1>10, <1>11, <1>12, <1>13 DEF MessageInv
<1> QED
  BY <1>1, <1>4, <1>14, CallAgain

\* Which call the route makes, and where it goes.
RouteFails(m) ==
    \E r : r.op \in {"read", "make"} /\ r.by = m /\ CallSound(r) /\ Fails(m, r)

RouteReads(m) ==
    \E r : /\ r.op = "read" /\ r.by = m /\ CallSound(r)
           /\ Perform(r) /\ late' = late /\ lost' = lost /\ got' = got
           /\ \/ Go(m, "read") \/ Tell(m, "question") \/ AutoRun(m)
              \/ Tell(m, "proposal") /\ \E w \in made : w.what = "proposal"

RouteMakes(m) ==
    \E r : /\ r.op = "make" /\ r.by = m /\ r.what \in {"work", "proposal"}
           /\ Perform(r) /\ late' = late /\ lost' = lost /\ got' = got
           /\ Tell(m, r.what)

LEMMA RouteCases ==
  ASSUME NEW m \in Message, MaybeRouteWork(m)
  PROVE  RouteFails(m) \/ RouteReads(m) \/ RouteMakes(m)
<1>1. PICK d \in WorkRouteDecisions :
        \/ /\ d.route \in {"runtime_task", "work_status", "unsafe", "clarify"}
           /\ Call(m, Ask(m, "read"),
                   /\ CASE d.route = "work_status" -> Go(m, "read")
                        [] d.route = "unsafe" \/ (d.route = "clarify" /\ d.question) ->
                             Tell(m, "question")
                        [] OTHER -> AutoRun(m)
                   /\ UNCHANGED got)
        \/ /\ d.route = "external_work"
           /\ Call(m, [Ask(m, "make") EXCEPT !.what = "work"],
                   Tell(m, "work") /\ UNCHANGED got)
        \/ /\ d.route = "self_patch"
           /\ \E c \in CapabilityIntents :
                LET kind == CapabilityKind(c) IN
                Call(m, [Ask(m, IF kind = "gap" THEN "make" ELSE "read")
                            EXCEPT !.what = "proposal"],
                     /\ CASE kind \in {"gap", "duplicate"} -> Tell(m, "proposal")
                          [] kind \in {"ambiguous", "forbidden"} -> Tell(m, "question")
                          [] OTHER -> AutoRun(m)
                     /\ UNCHANGED got)
  BY DEF MaybeRouteWork
<1>2. CASE /\ d.route \in {"runtime_task", "work_status", "unsafe", "clarify"}
           /\ Call(m, Ask(m, "read"),
                   /\ CASE d.route = "work_status" -> Go(m, "read")
                        [] d.route = "unsafe" \/ (d.route = "clarify" /\ d.question) ->
                             Tell(m, "question")
                        [] OTHER -> AutoRun(m)
                   /\ UNCHANGED got)
  <2>1. PICK r : r = Ask(m, "read")
    OBVIOUS
  <2>2. CallSound(r) /\ r.by = m /\ r.op = "read"
    BY <2>1, ReadCall
  <2>3. CASE Fails(m, r)
    BY <2>2, <2>3 DEF RouteFails
  <2>4. CASE /\ Perform(r) /\ late' = late /\ lost' = lost /\ got' = got
             /\ Go(m, "read") \/ Tell(m, "question") \/ AutoRun(m)
    BY <2>2, <2>4 DEF RouteReads
  <2> QED
    BY <1>2, <2>1, <2>3, <2>4 DEF Call, Answered
<1>3. CASE Call(m, [Ask(m, "make") EXCEPT !.what = "work"], Tell(m, "work") /\ UNCHANGED got)
  <2>1. PICK r : r = [Ask(m, "make") EXCEPT !.what = "work"]
    OBVIOUS
  <2>2. CallSound(r) /\ r.by = m /\ r.op = "make" /\ r.what = "work"
    BY <2>1 DEF Ask, CallSound
  <2>3. CASE Fails(m, r)
    BY <2>2, <2>3 DEF RouteFails
  <2>4. CASE Perform(r) /\ late' = late /\ lost' = lost /\ got' = got /\ Tell(m, "work")
    BY <2>2, <2>4 DEF RouteMakes
  <2> QED
    BY <1>3, <2>1, <2>3, <2>4 DEF Call, Answered
<1>4. ASSUME NEW c \in CapabilityIntents, NEW kind, kind = CapabilityKind(c),
             Call(m, [Ask(m, IF kind = "gap" THEN "make" ELSE "read")
                            EXCEPT !.what = "proposal"],
                     /\ CASE kind \in {"gap", "duplicate"} -> Tell(m, "proposal")
                          [] kind \in {"ambiguous", "forbidden"} -> Tell(m, "question")
                          [] OTHER -> AutoRun(m)
                     /\ UNCHANGED got)
      PROVE  RouteFails(m) \/ RouteReads(m) \/ RouteMakes(m)
  <2>1. PICK r : r = [Ask(m, IF kind = "gap" THEN "make" ELSE "read")
                         EXCEPT !.what = "proposal"]
    OBVIOUS
  <2>2. CallSound(r) /\ r.by = m /\ r.op = (IF kind = "gap" THEN "make" ELSE "read")
        /\ r.what = "proposal"
    BY <2>1 DEF Ask, CallSound
  <2>3. CASE Fails(m, r)
    BY <2>2, <2>3 DEF RouteFails
  <2>4. ASSUME kind = "duplicate" PROVE \E w \in made : w.what = "proposal"
    <3>1. c.kind \in {"none", "ambiguous", "forbidden", "gap"}
      BY DEF CapabilityIntents
    <3> QED
      BY <1>4, <2>4, <3>1 DEF CapabilityKind
  <2>5. ASSUME /\ Perform(r) /\ late' = late /\ lost' = lost /\ got' = got
               /\ CASE kind \in {"gap", "duplicate"} -> Tell(m, "proposal")
                    [] kind \in {"ambiguous", "forbidden"} -> Tell(m, "question")
                    [] OTHER -> AutoRun(m)
        PROVE  \/ r.op = "read" /\ \/ Tell(m, "question") \/ AutoRun(m)
                                   \/ Tell(m, "proposal") /\ \E w \in made : w.what = "proposal"
               \/ r.op = "make" /\ Tell(m, r.what)
    <3>1. CASE kind = "gap"
      BY <2>2, <2>5, <3>1
    <3>2. CASE kind = "duplicate"
      BY <2>2, <2>4, <2>5, <3>2
    <3>3. CASE kind \notin {"gap", "duplicate"}
      BY <2>2, <2>5, <3>3
    <3> QED
      BY <3>1, <3>2, <3>3
  <2>6. CASE /\ Perform(r) /\ late' = late /\ lost' = lost /\ got' = got
             /\ CASE kind \in {"gap", "duplicate"} -> Tell(m, "proposal")
                  [] kind \in {"ambiguous", "forbidden"} -> Tell(m, "question")
                  [] OTHER -> AutoRun(m)
    BY <2>2, <2>5, <2>6 DEF RouteReads, RouteMakes
  <2> QED
    BY <1>4, <2>1, <2>3, <2>6 DEF Call, Answered
<1> QED
  BY <1>1, <1>2, <1>3, <1>4

LEMMA MaybeRouteWorkStep ==
  ASSUME BotInv, NEW m \in Message, MaybeRouteWork(m)
  PROVE  BotInv'
<1>1. at[m] = "route" /\ at[m] \in Early \ {"away", "record"}
  BY DEF MaybeRouteWork, Early
<1>2. /\ got[m] \in Hand /\ got[m].rows = <<>> /\ got[m].id = 0 /\ answer[m] = "none"
      /\ Unspent(m) /\ saved[m] = <<>>
  BY <1>1, EarlyPlace
<1>3. CASE RouteFails(m)
  <2>1. PICK r : r.op \in {"read", "make"} /\ r.by = m /\ CallSound(r) /\ Fails(m, r)
    BY <1>3 DEF RouteFails
  <2> QED
    BY <1>1, <1>2, <2>1, FailAgain
<1>4. CASE RouteReads(m)
  <2>1. PICK r : /\ r.op = "read" /\ r.by = m /\ CallSound(r)
                 /\ Perform(r) /\ late' = late /\ lost' = lost /\ got' = got
                 /\ \/ Go(m, "read") \/ Tell(m, "question") \/ AutoRun(m)
                    \/ Tell(m, "proposal") /\ \E w \in made : w.what = "proposal"
    BY <1>4 DEF RouteReads
  <2>2. Outcome(r) /\ r.op \notin Effects
    BY <2>1 DEF Outcome, Effects
  <2>3. \/ Moves(m, "read", got[m], "none") \/ Moves(m, "create", got[m], "none")
        \/ Moves(m, "log", got[m], "question") \/ Moves(m, "log", got[m], "hint")
        \/ Moves(m, "log", got[m], "proposal") /\ \E w \in made : w.what = "proposal"
    BY <1>1, <1>2, <2>1, AutoRunMoves, GoMoves, TellMoves
       DEF Holds, BotInv, BotTypes, Place
  <2> QED
    BY <1>1, <1>2, <2>1, <2>2, <2>3, EarlyCall DEF Early
<1>5. CASE RouteMakes(m)
  BY <1>1, <1>5, MakeStep DEF RouteMakes
<1> QED
  BY <1>3, <1>4, <1>5, RouteCases

\* A message gets its one task.
LEMMA PostTaskStep ==
  ASSUME BotInv, NEW m \in Message, PostTask(m)
  PROVE  BotInv'
<1>1. at[m] = "create" /\ at[m] \in Early \ {"away", "record"}
  BY DEF PostTask, Early
<1>2. /\ got[m] \in Hand /\ got[m].rows = <<>> /\ got[m].id = 0 /\ answer[m] = "none"
      /\ Untouched(m) /\ Unspent(m) /\ saved[m] = <<>>
  BY <1>1, EarlyPlace
<1>3. CASE Fails(m, Ask(m, "read"))
  BY <1>1, <1>3, ReadCall, FailAgain
<1>4. ASSUME Call(m, [Ask(m, "create") EXCEPT !.what = got[m].task],
                  /\ got' = [got EXCEPT ![m] = [Nothing EXCEPT !.id = Len(tasks')]]
                  /\ Go(m, IF ask[m].command \in {"plan", "task"} THEN "dry-run" ELSE "run"))
      PROVE  BotInv'
  <2>1. PICK r : r = [Ask(m, "create") EXCEPT !.what = got[m].task]
    OBVIOUS
  <2>2. r.by = m /\ r.op = "create" /\ r.what \in Named /\ Ready(r)
    BY <1>2, <2>1 DEF Ask, CallSound, Ready, Hand
  <2>3. CASE Fails(m, r)
    BY <1>1, <1>2, <2>2, <2>3, FailAgain DEF Ready
  <2>4. CASE /\ Perform(r) /\ late' = late /\ lost' = lost
             /\ got' = [got EXCEPT ![m] = [Nothing EXCEPT !.id = Len(tasks')]]
             /\ Go(m, IF ask[m].command \in {"plan", "task"} THEN "dry-run" ELSE "run")
    <3>1. Outcome(r)
      BY <2>4 DEF Outcome
    <3>2. /\ tasks' \in Seq(TaskRow)
          /\ DOMAIN tasks' = DOMAIN tasks \cup {Len(tasks')} /\ Len(tasks') \notin DOMAIN tasks
          /\ tasks'[Len(tasks')].by = m
          /\ \A n \in DOMAIN tasks : tasks'[n].by = tasks[n].by
      BY <2>2, <2>4, PerformTasks DEF BotInv, BotTypes, Became, Ready
    <3>3. PICK h : h = [Nothing EXCEPT !.id = Len(tasks')]
      OBVIOUS
    <3>4. Len(tasks') \in Nat
      BY <3>2
    <3>5. h \in Hand /\ h.rows = <<>> /\ h.id = Len(tasks')
      BY <3>3, <3>4, NothingHeld DEF Hand, Nothing
    <3>6. got' = [got EXCEPT ![m] = h]
      BY <2>4, <3>3
    <3>7. PICK p \in {"dry-run", "run"} : Go(m, p)
      BY <2>4
    <3>8. Moves(m, p, h, "none")
      BY <1>2, <2>4, <3>5, <3>6, <3>7, GoMoves DEF Holds, BotInv, BotTypes, Place
    <3>9. /\ at'[m] \in {"dry-run", "run"} /\ got'[m] = h /\ answer'[m] = "none"
          /\ HandTypes' /\ HandApart(m) /\ lost' = lost
      BY <3>8 DEF Moves
    <3>10. saved' = saved /\ refs' = refs /\ log' = log /\ made' = made
      BY <2>2, <2>4, PerformTables DEF BotInv, BotTypes
    <3>11. Creates(m)' = {Len(tasks')} /\ Makes(m)' = {} /\ saved'[m] = <<>>
      BY <1>2, <3>2, <3>10 DEF Creates, Makes, Untouched
    <3>12. /\ LateOf(m, {"create", "make"})' = {} /\ LateOf(m, {"save"})' = {}
           /\ LateOf(m, {"remember"})' = LateOf(m, {"remember"})
           /\ LateOf(m, {"record"})' = LateOf(m, {"record"})
      BY <1>2, <2>4 DEF Untouched, LateOf
    <3>13. OneAtMost(m)'
      BY <3>11, <3>12 DEF OneAtMost
    <3>14. OwnTask(m, got[m].id)'
      BY <3>2, <3>5, <3>9 DEF OwnTask
    <3>15. Stands(m)'
      BY <3>5, <3>9, <3>14 DEF Stands, Early
    <3>16. Told(m)'
      BY <3>5, <3>9, <3>12 DEF Told
    <3>17. RefersOnce(m)' /\ InOrder(m)'
      <4>1. RefersOnce(m) /\ InOrder(m)
        BY DEF BotInv, MessageInv
      <4>2. RefersOnce(m)'
        BY <1>1, <3>9, <3>10, <3>12, <4>1 DEF RefersOnce
      <4>3. InOrder(m)'
        BY <1>1, <3>9, <3>10, <3>12, <4>1 DEF InOrder, Kept
      <4> QED
        BY <4>2, <4>3
    <3>18. MessageInv(m)'
      BY <3>13, <3>15, <3>16, <3>17 DEF MessageInv
    <3> QED
      BY <2>2, <3>1, <3>9, <3>18, CallAgain
  <2> QED
    BY <1>4, <2>1, <2>3, <2>4 DEF Call, Answered
<1> QED
  BY <1>3, <1>4 DEF PostTask

\* The rows are set one after the other.
LEMMA SavePreferenceStep ==
  ASSUME BotInv, NEW m \in Message, SavePreference(m)
  PROVE  BotInv'
<1> DEFINE done == Len(saved[m]) + 1
<1>1. PICK r : r = [Ask(m, "save") EXCEPT !.row = got[m].rows[done]]
  OBVIOUS
<1>2. /\ at[m] = "save"
      /\ Call(m, r, /\ IF done = Len(got[m].rows) THEN Tell(m, "saved") ELSE Go(m, "save")
                    /\ UNCHANGED got)
  BY <1>1 DEF SavePreference
<1>3. /\ InTurn(m) /\ Len(saved[m]) < Len(got[m].rows) /\ got[m].id = 0
      /\ Unspent(m) /\ answer[m] = "none"
  BY <1>2 DEF BotInv, MessageInv, Stands, Unspent
<1>4. got[m] \in Hand /\ got[m].rows \in Seq(Row) /\ saved[m] \in Seq(Row)
  BY DEF BotInv, BotTypes, HandTypes, CoreTypes, Hand
<1>5. Len(saved[m]) \in Nat /\ Len(got[m].rows) \in Nat /\ done \in 1 .. Len(got[m].rows)
  BY <1>3, <1>4
<1>6. got[m].rows[done] \in Row
  BY <1>4, <1>5
<1>7. r.by = m /\ r.op = "save" /\ r.row = got[m].rows[done] /\ Ready(r)
  BY <1>1, <1>6 DEF Ask, CallSound, Ready
<1>8. CASE Fails(m, r)
  BY <1>2, <1>3, <1>7, <1>8, FailAgain DEF Ready
<1>9. CASE /\ Perform(r) /\ late' = late /\ lost' = lost /\ got' = got
           /\ IF done = Len(got[m].rows) THEN Tell(m, "saved") ELSE Go(m, "save")
  <2>1. Outcome(r)
    BY <1>9 DEF Outcome
  <2>2. \/ Moves(m, "log", got[m], "saved") /\ done = Len(got[m].rows)
        \/ Moves(m, "save", got[m], "none") /\ done # Len(got[m].rows)
    BY <1>3, <1>4, <1>9, TellMoves, GoMoves DEF Holds, BotInv, BotTypes, Place
  <2>3. /\ \/ at'[m] = "log" /\ answer'[m] = "saved" /\ done = Len(got[m].rows)
           \/ at'[m] = "save" /\ answer'[m] = "none" /\ done # Len(got[m].rows)
        /\ got'[m] = got[m] /\ HandTypes' /\ HandApart(m)
    BY <2>2 DEF Moves
  <2>4. /\ refs' = refs /\ log' = log /\ made' = made /\ DOMAIN tasks' = DOMAIN tasks
        /\ \A n \in DOMAIN tasks : tasks'[n].by = tasks[n].by
        /\ saved' = [saved EXCEPT ![m] = Append(@, r.row)]
    BY <1>7, <1>9, PerformTables, PerformTasks DEF BotInv, BotTypes, Became, Ready
  <2>5. saved'[m] = Append(saved[m], got[m].rows[done])
    BY <1>7, <2>4 DEF BotInv, BotTypes, CoreTypes
  <2>6. /\ Len(saved'[m]) = done
        /\ \A n \in 1 .. done : saved'[m][n] = got[m].rows[n]
    BY <1>3, <1>4, <1>5, <1>6, <2>5 DEF InTurn
  <2>7. InTurn(m)' /\ Len(saved'[m]) = done
    BY <1>5, <2>3, <2>6 DEF InTurn
  <2>8. Creates(m)' = {} /\ Makes(m)' = {}
    BY <1>3, <2>4 DEF Unspent, Creates, Makes
  <2>9. /\ LateOf(m, {"create", "make", "save"})' = {} /\ LateOf(m, {"save"})' = {}
        /\ LateOf(m, {"create", "make"})' = {}
        /\ LateOf(m, {"remember"})' = LateOf(m, {"remember"})
        /\ LateOf(m, {"record"})' = LateOf(m, {"record"})
    BY <1>3, <1>9 DEF Unspent, LateOf
  <2>10. OneAtMost(m)'
    BY <2>8, <2>9 DEF OneAtMost
  <2>11. Stands(m)'
    BY <1>3, <1>5, <2>3, <2>7, <2>8, <2>9 DEF Stands, Early
  <2>12. Told(m)'
    BY <2>3, <2>7, <2>9 DEF Told
  <2>13. RefersOnce(m)' /\ InOrder(m)'
    <3>1. RefersOnce(m) /\ InOrder(m)
      BY DEF BotInv, MessageInv
    <3>2. RefersOnce(m)'
      BY <1>2, <2>3, <2>4, <2>9, <3>1 DEF RefersOnce
    <3>3. InOrder(m)'
      BY <1>2, <1>9, <2>3, <2>4, <2>9, <3>1 DEF InOrder, Kept
    <3> QED
      BY <3>2, <3>3
  <2>14. MessageInv(m)'
    BY <2>10, <2>11, <2>12, <2>13 DEF MessageInv
  <2> QED
    BY <1>7, <2>1, <2>3, <2>14, CallAgain
<1> QED
  BY <1>2, <1>8, <1>9 DEF Call, Answered

-----------------------------------------------------------------------------
(* A message and its task.                                                 *)

LEMMA OwnPlace ==
  ASSUME BotInv, NEW m \in Message, at[m] \in {"run", "running", "dry-run", "remember"}
  PROVE  /\ got[m] \in Hand /\ got[m].rows = <<>> /\ OwnTask(m, got[m].id)
         /\ got[m].id \in DOMAIN tasks /\ answer[m] = "none" /\ LateOf(m, {"save"}) = {}
<1>1. got[m] \in Hand /\ got[m].rows = <<>> /\ OwnTask(m, got[m].id) /\ answer[m] = "none"
  BY DEF BotInv, BotTypes, HandTypes, MessageInv, Stands
<1>2. got[m].id \in DOMAIN tasks /\ got[m].id \in Creates(m)
  BY <1>1 DEF OwnTask, Creates
<1>3. LateOf(m, {"save"}) = {}
  BY <1>2 DEF BotInv, MessageInv, OneAtMost
<1> QED
  BY <1>1, <1>2, <1>3

LEMMA DryRunTaskStep ==
  ASSUME BotInv, NEW m \in Message, DryRunTask(m)
  PROVE  BotInv'
<1>1. PICK r : r = Ask(m, "read")
  OBVIOUS
<1>2. CallSound(r) /\ r.by = m /\ r.op = "read" /\ r.op \notin Effects
  BY <1>1, ReadCall
<1>3. at[m] = "dry-run" /\ Call(m, r, Tell(m, "checked") /\ UNCHANGED got)
  BY <1>1 DEF DryRunTask
<1>4. CASE Fails(m, r)
  BY <1>2, <1>3, <1>4, FailAgain
<1>5. CASE Outcome(r) /\ Tell(m, "checked") /\ got' = got /\ lost' = lost
  <2>1. /\ got[m] \in Hand /\ got[m].rows = <<>> /\ OwnTask(m, got[m].id)
        /\ LateOf(m, {"save"}) = {}
    BY <1>3, OwnPlace
  <2>2. Moves(m, "log", got[m], "checked")
    BY <1>5, <2>1, TellMoves DEF Holds, BotInv, BotTypes
  <2>3. /\ at'[m] = "log" /\ got'[m] = got[m] /\ answer'[m] = "checked"
        /\ HandTypes' /\ HandApart(m)
    BY <2>2 DEF Moves
  <2>4. Quiet(m)
    BY <1>2, <1>5, QuietCall DEF BotInv
  <2>5. OneAtMost(m)' /\ RefersOnce(m)' /\ InOrder(m)'
    BY <1>3, <1>5, <2>3, <2>4, QuietKeeps DEF BotInv
  <2>6. OwnTask(m, got[m].id)' /\ LateOf(m, {"save"})' = {}
    <3>1. PICK id : id = got[m].id
      OBVIOUS
    <3>2. id \in Creates(m)'
      BY <2>1, <2>4, <3>1 DEF OwnTask, Creates, Quiet
    <3> QED
      BY <2>1, <2>3, <2>4, <3>1, <3>2, QuietLate DEF Creates, OwnTask
  <2>7. Stands(m)' /\ Told(m)'
    BY <2>1, <2>3, <2>6 DEF Stands, Told, Early
  <2>8. MessageInv(m)'
    BY <2>5, <2>7 DEF MessageInv
  <2> QED
    BY <1>2, <1>5, <2>3, <2>8, CallAgain DEF Ready
<1> QED
  BY <1>3, <1>4, <1>5 DEF Call, Answered, Outcome

\* The request of a run, and that it leaves nothing of the message's own.
LEMMA RunCall ==
  ASSUME NEW m \in Message, NEW id \in DOMAIN tasks
  PROVE  /\ CallSound(RunOf(m, id)) /\ RunOf(m, id).by = m /\ RunOf(m, id).id = id
         /\ RunOf(m, id).op = "run" /\ RunOf(m, id).op \notin Effects
  BY DEF RunOf, Ask, CallSound, Effects

\* The run of the message's own task has ended, and its reference is to be written.
LEMMA OwnRunEnded ==
  ASSUME BotInv, NEW m \in Message, at[m] \in {"run", "running"},
         NEW r, r = RunOf(m, got[m].id), Outcome(r), lost' = lost,
         tasks'[r.id].runs > 0, tasks'[r.id].state \in TaskStates \ {"ready"},
         got' = [got EXCEPT ![m].state = tasks'[r.id].state], Go(m, "remember")
  PROVE  BotInv'
<1>1. /\ got[m] \in Hand /\ got[m].rows = <<>> /\ OwnTask(m, got[m].id)
      /\ got[m].id \in DOMAIN tasks /\ answer[m] = "none" /\ LateOf(m, {"save"}) = {}
  BY OwnPlace
<1>2. /\ CallSound(r) /\ r.by = m /\ r.id = got[m].id /\ r.op = "run" /\ r.op \notin Effects
  BY <1>1, RunCall
<1>3. PICK s \in TaskStates \ {"ready"} : s = tasks'[r.id].state
  OBVIOUS
<1>4. PICK h : h = [got[m] EXCEPT !.state = s]
  OBVIOUS
<1>5. h \in Hand /\ h.rows = <<>> /\ h.id = got[m].id /\ h.state = s
  BY <1>1, <1>4 DEF Hand
<1>6. got' = [got EXCEPT ![m] = h]
  BY <1>3, <1>4
<1>7. Moves(m, "remember", h, "none")
  <2>1. "remember" \in Place \ {"delete", "verdict"} /\ Holds(m, h) /\ HandTypes
    BY <1>6 DEF Holds, BotInv, BotTypes, Place
  <2> QED
    BY <1>1, <1>5, <2>1, GoMoves
<1>8. /\ at'[m] = "remember" /\ got'[m] = h /\ answer'[m] = "none"
      /\ HandTypes' /\ HandApart(m)
  BY <1>7 DEF Moves
<1>9. Quiet(m)
  BY <1>2, QuietCall DEF BotInv
<1>10. OneAtMost(m)' /\ RefersOnce(m)' /\ InOrder(m)'
  BY <1>8, <1>9, QuietKeeps DEF BotInv
<1>11. OwnTask(m, got[m].id)' /\ RanTo(got[m].id, got[m].state)'
  <2>1. got[m].id \in Creates(m)
    BY <1>1 DEF OwnTask, Creates
  <2>2. r.id \in Creates(m)'
    BY <1>2, <1>9, <2>1 DEF Quiet
  <2>3. got'[m].id = r.id /\ got'[m].state = s
    BY <1>2, <1>5, <1>8
  <2> QED
    BY <1>3, <2>2, <2>3 DEF Creates, OwnTask, RanTo
<1>12. LateOf(m, {"save"})' = {}
  BY <1>1, <1>9, QuietLate
<1>13. Stands(m)' /\ Told(m)'
  BY <1>5, <1>8, <1>11, <1>12 DEF Stands, Told, Early
<1>14. MessageInv(m)'
  BY <1>10, <1>13 DEF MessageInv
<1> QED
  BY <1>2, <1>8, <1>14, CallAgain DEF Ready, Effects

LEMMA RunOwnTaskStep ==
  ASSUME BotInv, NEW m \in Message, RunOwnTask(m)
  PROVE  BotInv'
<1>1. PICK r : r = RunOf(m, got[m].id)
  OBVIOUS
<1>2. /\ at[m] = "run"
      /\ Call(m, r, IF r \in busy' THEN Go(m, "running") /\ UNCHANGED got
                    ELSE /\ got' = [got EXCEPT ![m].state = tasks'[r.id].state]
                         /\ Go(m, "remember"))
  BY <1>1 DEF RunOwnTask
<1>3. /\ got[m] \in Hand /\ got[m].rows = <<>> /\ OwnTask(m, got[m].id)
      /\ got[m].id \in DOMAIN tasks /\ answer[m] = "none" /\ LateOf(m, {"save"}) = {}
  BY <1>2, OwnPlace
<1>4. /\ CallSound(r) /\ r.by = m /\ r.id = got[m].id /\ r.op = "run" /\ r.op \notin Effects
  BY <1>1, <1>3, RunCall
<1>5. CASE Fails(m, r)
  BY <1>2, <1>4, <1>5, FailAgain
<1>6. CASE /\ Perform(r) /\ late' = late /\ lost' = lost /\ r \notin busy'
           /\ got' = [got EXCEPT ![m].state = tasks'[r.id].state] /\ Go(m, "remember")
  <2>1. tasks'[r.id].runs > 0 /\ tasks'[r.id].state \in TaskStates \ {"ready"}
    BY <1>4, <1>6, PerformTasks DEF BotInv, BotTypes
  <2> QED
    BY <1>1, <1>2, <1>6, <2>1, OwnRunEnded DEF Outcome
<1>7. CASE /\ Perform(r) /\ late' = late /\ lost' = lost
           /\ Go(m, "running") /\ got' = got
  <2>1. Moves(m, "running", got[m], "none")
    BY <1>3, <1>7, GoMoves DEF Holds, BotInv, BotTypes, Place
  <2>2. /\ at'[m] = "running" /\ got'[m] = got[m] /\ answer'[m] = "none"
        /\ HandTypes' /\ HandApart(m)
    BY <2>1 DEF Moves
  <2>3. Outcome(r) /\ Quiet(m)
    BY <1>4, <1>7, QuietCall DEF BotInv, Outcome
  <2>4. OneAtMost(m)' /\ RefersOnce(m)' /\ InOrder(m)'
    BY <1>2, <1>7, <2>2, <2>3, QuietKeeps DEF BotInv
  <2>5. OwnTask(m, got[m].id)' /\ LateOf(m, {"save"})' = {}
    <3>1. PICK id : id = got[m].id
      OBVIOUS
    <3>2. id \in Creates(m)'
      BY <1>3, <2>3, <3>1 DEF OwnTask, Creates, Quiet
    <3> QED
      BY <1>3, <2>2, <2>3, <3>1, <3>2, QuietLate DEF Creates, OwnTask
  <2>6. Stands(m)' /\ Told(m)'
    BY <1>3, <2>2, <2>5 DEF Stands, Told, Early
  <2>7. MessageInv(m)'
    BY <2>4, <2>6 DEF MessageInv
  <2> QED
    BY <1>4, <2>2, <2>3, <2>7, CallAgain DEF Ready, Effects
<1> QED
  BY <1>2, <1>5, <1>6, <1>7 DEF Call, Answered

LEMMA EndOwnRunStep ==
  ASSUME BotInv, NEW m \in Message, EndOwnRun(m)
  PROVE  BotInv'
<1>1. PICK r : r = RunOf(m, got[m].id)
  OBVIOUS
<1>2. /\ at[m] = "running" /\ r \in busy /\ Finish(r) /\ late' = late /\ lost' = lost
      /\ got' = [got EXCEPT ![m].state = tasks'[r.id].state] /\ Go(m, "remember")
  BY <1>1 DEF EndOwnRun, Answered
<1>3. Advance(r)
  BY <1>2 DEF Advance
<1>4. tasks'[r.id].runs > 0 /\ tasks'[r.id].state \in TaskStates \ {"ready"}
  BY <1>2, <1>3, AdvanceTask DEF BotInv, BotTypes, Ends, TaskStates
<1> QED
  BY <1>1, <1>2, <1>3, <1>4, OwnRunEnded DEF Outcome

\* The run of a task that a message only knows begins, answers or ends.
LEMMA KnownRun ==
  ASSUME BotInv, NEW m \in Message, at[m] \in {"run-task", "running-task"},
         NEW n \in DOMAIN tasks, NEW r, r = RunOf(m, n), Outcome(r), lost' = lost,
         NEW h, h = [got[m] EXCEPT !.id = n], got' = [got EXCEPT ![m] = h],
         NEW p \in {"running-task", "humanize"}, Go(m, p),
         p = "humanize" => tasks'[n].runs > 0
  PROVE  BotInv'
<1>1. /\ got[m] \in Hand /\ got[m].rows = <<>> /\ answer[m] = "none" /\ Untouched(m)
  BY DEF BotInv, BotTypes, HandTypes, MessageInv, Stands, Early
<1>2. /\ CallSound(r) /\ r.by = m /\ r.id = n /\ r.op = "run" /\ r.op \notin Effects
  BY RunCall
<1>3. n \in Nat
  BY DEF BotInv, BotTypes, CoreTypes
<1>4. h \in Hand /\ h.rows = <<>> /\ h.id = n
  BY <1>1, <1>3 DEF Hand
<1>5. Moves(m, p, h, "none")
  <2>1. p \in Place \ {"delete", "verdict"} /\ Holds(m, h) /\ HandTypes
    BY DEF Holds, BotInv, BotTypes, Place
  <2> QED
    BY <1>1, <1>4, <2>1, GoMoves
<1>6. /\ at'[m] = p /\ got'[m] = h /\ answer'[m] = "none"
      /\ HandTypes' /\ HandApart(m)
  BY <1>5 DEF Moves
<1>7. Quiet(m)
  BY <1>2, QuietCall DEF BotInv
<1>8. OneAtMost(m)' /\ RefersOnce(m)' /\ InOrder(m)' /\ Untouched(m)'
  BY <1>1, <1>6, <1>7, QuietKeeps DEF BotInv
<1>9. LateOf(m, {"save"})' = {}
  BY <1>8 DEF Untouched, LateOf
<1>10. ASSUME Apart(m) PROVE MessageInv(m)'
  <2>1. n \in DOMAIN tasks'
    BY <1>10, GrowsKeeps DEF Apart
  <2>2. Stands(m)' /\ Told(m)'
    BY <1>4, <1>6, <1>8, <1>9, <2>1 DEF Stands, Told, Early
  <2> QED
    BY <1>8, <2>2 DEF MessageInv
<1> QED
  BY <1>2, <1>6, <1>10, CallAgain DEF Ready, Effects

LEMMA RunKnownTaskStep ==
  ASSUME BotInv, NEW m \in Message, RunKnownTask(m)
  PROVE  BotInv'
<1>1. PICK n \in DOMAIN tasks :
         Call(m, RunOf(m, n),
              /\ got' = [got EXCEPT ![m].id = n]
              /\ Go(m, IF RunOf(m, n) \in busy' THEN "running-task" ELSE "humanize"))
  BY DEF RunKnownTask
<1>2. PICK r : r = RunOf(m, n)
  OBVIOUS
<1>3. at[m] = "run-task"
  BY DEF RunKnownTask
<1>4. CallSound(r) /\ r.by = m /\ r.id = n /\ r.op = "run"
  BY <1>2, RunCall
<1>5. CASE Fails(m, r)
  BY <1>3, <1>4, <1>5, FailAgain
<1>6. CASE /\ Perform(r) /\ late' = late /\ lost' = lost
           /\ got' = [got EXCEPT ![m].id = n]
           /\ Go(m, IF r \in busy' THEN "running-task" ELSE "humanize")
  <2>1. PICK h : h = [got[m] EXCEPT !.id = n]
    OBVIOUS
  <2>2. got' = [got EXCEPT ![m] = h]
    BY <1>6, <2>1
  <2>3. PICK p \in {"running-task", "humanize"} :
           Go(m, p) /\ (p = "humanize" => r \notin busy')
    BY <1>6
  <2>4. p = "humanize" => tasks'[n].runs > 0
    BY <1>4, <1>6, <2>3, PerformTasks DEF BotInv, BotTypes
  <2> QED
    BY <1>2, <1>3, <1>6, <2>1, <2>2, <2>3, <2>4, KnownRun DEF Outcome
<1> QED
  BY <1>1, <1>2, <1>5, <1>6 DEF Call, Answered

LEMMA EndKnownRunStep ==
  ASSUME BotInv, NEW m \in Message, EndKnownRun(m)
  PROVE  BotInv'
<1>1. PICK n : n = got[m].id
  OBVIOUS
<1>2. PICK r : r = RunOf(m, n)
  OBVIOUS
<1>3. /\ at[m] = "running-task" /\ r \in busy /\ Finish(r) /\ late' = late
      /\ Go(m, "humanize") /\ got' = got /\ lost' = lost
  BY <1>1, <1>2 DEF EndKnownRun, Answered
<1>4. n \in DOMAIN tasks /\ got \in [Message -> Hand]
  BY <1>1, <1>3 DEF BotInv, BotTypes, HandTypes, MessageInv, Stands
<1>5. Advance(r) /\ r.id = n
  BY <1>2, <1>3, <1>4, RunCall DEF Advance
<1>6. tasks'[n].runs > 0
  BY <1>3, <1>5, AdvanceTask DEF BotInv, BotTypes
<1>7. PICK h : h = [got[m] EXCEPT !.id = n]
  OBVIOUS
<1>8. h = got[m] /\ got' = [got EXCEPT ![m] = h]
  BY <1>1, <1>3, <1>4, <1>7 DEF Hand
<1> QED
  BY <1>2, <1>3, <1>4, <1>5, <1>6, <1>7, <1>8, KnownRun DEF Outcome

\* Where a run is waited for.
LEMMA RunFailsStep ==
  ASSUME BotInv, NEW m \in Message, RunFails(m)
  PROVE  BotInv'
<1>1. PICK r : r = RunOf(m, got[m].id)
  OBVIOUS
<1>2. /\ at[m] \in {"running", "running-task"} /\ r \in busy
      /\ Raise(r) \/ UNCHANGED core
      /\ late' = late /\ lost' = lost /\ Tell(m, "failure")
      /\ got' = [got EXCEPT ![m] = Nothing]
  BY <1>1 DEF RunFails, Answered
<1>3. got[m].id \in DOMAIN tasks
  BY <1>2 DEF BotInv, MessageInv, Stands, OwnTask
<1>4. CallSound(r) /\ r.by = m /\ r.op = "run" /\ r.op \notin Effects
  BY <1>1, <1>3, RunCall
<1>5. Outcome(r)
  BY <1>2 DEF Outcome, Advance
<1>6. Moves(m, "log", Nothing, "failure")
  BY <1>2, NothingHeld, TellMoves DEF BotInv, BotTypes, Holds
<1>7. /\ at'[m] = "log" /\ got'[m].rows = <<>> /\ got'[m].id = 0 /\ answer'[m] = "failure"
      /\ HandTypes' /\ HandApart(m)
  BY <1>6, NothingHeld DEF Moves
<1>8. Quiet(m)
  BY <1>4, <1>5, QuietCall DEF BotInv
<1>9. OneAtMost(m)' /\ RefersOnce(m)' /\ InOrder(m)'
  BY <1>2, <1>7, <1>8, QuietKeeps DEF BotInv
<1>10. Stands(m)' /\ Told(m)'
  BY <1>7 DEF Stands, Told, Early
<1>11. MessageInv(m)'
  BY <1>9, <1>10 DEF MessageInv
<1> QED
  BY <1>4, <1>5, <1>7, <1>11, CallAgain DEF Ready, Effects

LEMMA HumanizeStep ==
  ASSUME BotInv, NEW m \in Message, Humanize(m)
  PROVE  BotInv'
<1>1. PICK r : r = Ask(m, "read")
  OBVIOUS
<1>2. CallSound(r) /\ r.by = m /\ r.op = "read" /\ r.op \notin Effects
  BY <1>1, ReadCall
<1>3. at[m] = "humanize" /\ Call(m, r, Tell(m, "result") /\ UNCHANGED got)
  BY <1>1 DEF Humanize
<1>4. CASE Fails(m, r)
  BY <1>2, <1>3, <1>4, FailAgain
<1>5. CASE Outcome(r) /\ Tell(m, "result") /\ got' = got /\ lost' = lost
  <2>1. /\ got[m] \in Hand /\ got[m].rows = <<>> /\ LateOf(m, {"save"}) = {}
        /\ got[m].id # 0 => got[m].id \in DOMAIN tasks /\ tasks[got[m].id].runs > 0
    BY <1>3 DEF BotInv, BotTypes, HandTypes, MessageInv, Stands
  <2>2. Moves(m, "log", got[m], "result")
    BY <1>5, <2>1, TellMoves DEF Holds, BotInv, BotTypes
  <2>3. /\ at'[m] = "log" /\ got'[m] = got[m] /\ answer'[m] = "result"
        /\ HandTypes' /\ HandApart(m)
    BY <2>2 DEF Moves
  <2>4. Quiet(m)
    BY <1>2, <1>5, QuietCall DEF BotInv
  <2>5. OneAtMost(m)' /\ RefersOnce(m)' /\ InOrder(m)'
    BY <1>3, <1>5, <2>3, <2>4, QuietKeeps DEF BotInv
  <2>6. ASSUME Apart(m) PROVE MessageInv(m)'
    <3>1. PICK id : id = got[m].id
      OBVIOUS
    <3>2. id # 0 => id \in DOMAIN tasks' /\ tasks'[id].runs > 0
      BY <2>1, <2>6, <3>1, GrowsKeeps DEF Apart
    <3>3. LateOf(m, {"save"})' = {}
      BY <2>1, <2>4, QuietLate
    <3>4. Stands(m)' /\ Told(m)'
      BY <2>1, <2>3, <3>1, <3>2, <3>3 DEF Stands, Told, Early
    <3> QED
      BY <2>5, <3>4 DEF MessageInv
  <2> QED
    BY <1>2, <1>5, <2>3, <2>6, CallAgain DEF Ready, Effects
<1> QED
  BY <1>3, <1>4, <1>5 DEF Call, Answered, Outcome

\* The memory gets its reference, now or late or never, and the command goes on.
LEMMA RememberTaskStep ==
  ASSUME BotInv, NEW m \in Message, RememberTask(m)
  PROVE  BotInv'
<1>1. PICK r : r = [Ask(m, "remember") EXCEPT !.id = got[m].id, !.what = got[m].state]
  OBVIOUS
<1>2. /\ at[m] = "remember" /\ ((Perform(r) /\ Answered) \/ NoAnswer(r))
      /\ Go(m, "humanize") /\ got' = got /\ lost' = lost
  BY <1>1 DEF RememberTask
<1>3. /\ got[m] \in Hand /\ got[m].rows = <<>> /\ OwnTask(m, got[m].id)
      /\ got[m].id \in DOMAIN tasks /\ answer[m] = "none" /\ LateOf(m, {"save"}) = {}
      /\ RanTo(got[m].id, got[m].state)
  BY <1>2, OwnPlace DEF BotInv, MessageInv, Stands
<1>4. r.by = m /\ r.op = "remember" /\ r.id = got[m].id /\ r.what = got[m].state
  BY <1>1 DEF Ask
<1>5. CallSound(r) /\ Ready(r)
  BY <1>3, <1>4 DEF CallSound, Ready, RefSound
<1>6. \/ Perform(r) /\ late' = late
      \/ UNCHANGED core /\ late' \in {late, late \cup {r}}
  BY <1>2 DEF Answered, NoAnswer, Refused, TimedOut
<1>7. Moves(m, "humanize", got[m], "none")
  BY <1>2, <1>3, GoMoves DEF Holds, BotInv, BotTypes, Place
<1>8. /\ at'[m] = "humanize" /\ got'[m] = got[m] /\ answer'[m] = "none" /\ lost' = lost
      /\ HandTypes' /\ HandApart(m)
  BY <1>7 DEF Moves
<1>9. /\ saved' = saved /\ log' = log /\ made' = made /\ DOMAIN tasks' = DOMAIN tasks
      /\ \A n \in DOMAIN tasks : tasks'[n].by = tasks[n].by
  <2>1. CASE Perform(r)
    BY <1>4, <1>5, <2>1, PerformTables, PerformTasks DEF BotInv, BotTypes, Became
  <2>2. CASE UNCHANGED core
    BY <2>2 DEF core
  <2> QED
    BY <1>6, <2>1, <2>2
<1>10. Creates(m)' = Creates(m) /\ Makes(m)' = Makes(m)
  BY <1>9 DEF Creates, Makes
<1>11. /\ LateOf(m, {"create", "make"})' = LateOf(m, {"create", "make"})
       /\ LateOf(m, {"save"})' = LateOf(m, {"save"})
       /\ LateOf(m, {"record"})' = LateOf(m, {"record"})
  BY <1>4, <1>6 DEF LateOf
<1>12. OneAtMost(m)' /\ InOrder(m)'
  <2>1. OneAtMost(m) /\ InOrder(m)
    BY DEF BotInv, MessageInv
  <2>2. OneAtMost(m)'
    BY <1>9, <1>10, <1>11, <2>1 DEF OneAtMost
  <2>3. InOrder(m)'
    BY <1>2, <1>8, <1>9, <1>11, <2>1 DEF InOrder, Kept
  <2> QED
    BY <2>2, <2>3
<1>13. RefersOnce(m)'
  <2>1. {n \in DOMAIN refs : refs[n].by = m} = {} /\ LateOf(m, {"remember"}) = {}
    BY <1>2 DEF BotInv, MessageInv, RefersOnce
  <2>2. CASE Perform(r) /\ late' = late
    <3>1. PICK u : u = [by |-> r.by, id |-> r.id, state |-> r.what]
      OBVIOUS
    <3>2. refs' = Append(refs, u) /\ refs \in Seq(RefRow) /\ u.by = m
      BY <1>4, <2>2, <3>1, PerformTables DEF BotInv, BotTypes, CoreTypes
    <3>3. {n \in DOMAIN refs' : refs'[n].by = m} = {Len(refs) + 1}
      BY <2>1, <3>2
    <3>4. LateOf(m, {"remember"})' = {}
      BY <2>1, <2>2 DEF LateOf
    <3> QED
      BY <1>8, <3>3, <3>4 DEF RefersOnce
  <2>3. CASE UNCHANGED core /\ late' \in {late, late \cup {r}}
    <3>1. refs' = refs
      BY <2>3 DEF core
    <3>2. LateOf(m, {"remember"})' \subseteq {r}
      BY <2>1, <2>3 DEF LateOf
    <3> QED
      BY <1>8, <2>1, <3>1, <3>2 DEF RefersOnce
  <2> QED
    BY <1>6, <2>2, <2>3
<1>14. ASSUME Apart(m) PROVE MessageInv(m)'
  <2>1. PICK id : id = got[m].id
    OBVIOUS
  <2>2. id \in DOMAIN tasks' /\ tasks'[id].runs > 0
    BY <1>3, <1>14, <2>1, GrowsKeeps DEF Apart, RanTo
  <2>3. Stands(m)' /\ Told(m)'
    BY <1>3, <1>8, <1>11, <2>1, <2>2 DEF Stands, Told, Early
  <2> QED
    BY <1>12, <1>13, <2>3 DEF MessageInv
<1> QED
  BY <1>4, <1>5, <1>6, <1>8, <1>14, CallAgain DEF Outcome

-----------------------------------------------------------------------------
(* The conversation is recorded.                                           *)

LEMMA FirstCallPlace ==
  ASSUME NEW c \in AllCommands
  PROVE  /\ FirstCall(c) \in {"preferences", "to_core", "create", "run-task", "verdict",
                              "save", "delete", "read", "log"}
         /\ FirstCall(c) = "delete" => c \in {"delete", "reset"}
         /\ FirstCall(c) = "verdict" => c \in {"approve", "reject"}
         /\ FirstCall(c) = "save" <=> c = "set"
         /\ FirstCall(c) = "log" <=> c = "help"
<1>1. CASE c \in {"auto", "ask", "plan", "do"}
  BY <1>1 DEF FirstCall
<1>2. CASE c \in {"run", "task", "run-task", "approve", "reject"}
  BY <1>2 DEF FirstCall
<1>3. CASE c \in {"set", "delete", "reset", "read", "status", "help"}
  BY <1>3 DEF FirstCall
<1> QED
  BY <1>1, <1>2, <1>3 DEF AllCommands

\* A record, made or lost or late, is all that its call is.
LEMMA RecordCall ==
  ASSUME BotInv, NEW m \in Message, NEW r, r.by = m, r.op = "record", CallSound(r),
         \/ Perform(r) /\ late' = late
         \/ UNCHANGED core /\ late' \in {late, late \cup {r}}
  PROVE  /\ OneAtMost(m)' /\ (Untouched(m) => Untouched(m)') /\ saved'[m] = saved[m]
         /\ refs' = refs /\ made' = made /\ Creates(m)' = Creates(m)
         /\ LateOf(m, {"save"})' = LateOf(m, {"save"})
         /\ LateOf(m, {"remember"})' = LateOf(m, {"remember"})
         /\ log \in Seq(LogRow) /\ <<m, r.what>> \in LogRow
         /\ \/ log' = Append(log, <<m, r.what>>) /\ late' = late
            \/ log' = log
<1>1. /\ saved' = saved /\ refs' = refs /\ made' = made /\ DOMAIN tasks' = DOMAIN tasks
      /\ \A n \in DOMAIN tasks : tasks'[n].by = tasks[n].by
  <2>1. CASE Perform(r)
    BY <2>1, PerformTables, PerformTasks DEF BotInv, BotTypes, Became
  <2>2. CASE UNCHANGED core
    BY <2>2 DEF core
  <2> QED
    BY <2>1, <2>2
<1>2. Creates(m)' = Creates(m) /\ Makes(m)' = Makes(m)
  BY <1>1 DEF Creates, Makes
<1>3. /\ LateOf(m, {"create", "make"})' = LateOf(m, {"create", "make"})
      /\ LateOf(m, {"create", "make", "save"})' = LateOf(m, {"create", "make", "save"})
      /\ LateOf(m, {"save"})' = LateOf(m, {"save"})
      /\ LateOf(m, {"remember"})' = LateOf(m, {"remember"})
  BY DEF LateOf
<1>4. OneAtMost(m)'
  BY <1>1, <1>2, <1>3 DEF BotInv, MessageInv, OneAtMost
<1>5. Untouched(m) => Untouched(m)'
  BY <1>1, <1>2, <1>3 DEF Untouched
<1>6. log \in Seq(LogRow) /\ <<m, r.what>> \in LogRow
  BY DEF BotInv, BotTypes, CoreTypes, CallSound, LogRow
<1>7. \/ log' = Append(log, <<m, r.what>>) /\ late' = late
      \/ log' = log
  <2>1. CASE Perform(r) /\ late' = late
    BY <2>1, PerformTables DEF BotInv, BotTypes
  <2>2. CASE UNCHANGED core
    BY <2>2 DEF core
  <2> QED
    BY <2>1, <2>2
<1> QED
  BY <1>1, <1>2, <1>3, <1>4, <1>5, <1>6, <1>7

LEMMA Appended ==
  ASSUME log \in Seq(LogRow), NEW e \in LogRow, log' = Append(log, e)
  PROVE  /\ Len(log) \in Nat /\ DOMAIN log = 1 .. Len(log)
         /\ DOMAIN log' = 1 .. Len(log) + 1 /\ log'[Len(log) + 1] = e
         /\ \A n \in 1 .. Len(log) : log'[n] = log[n]
  OBVIOUS

\* The hand of a command that has arrived.
LEMMA RecordHand ==
  ASSUME BotInv, NEW m \in Message, RecordMessage(m)
  PROVE  /\ HandTypes' /\ HandApart(m) /\ got'[m].id = 0
         /\ \/ ask[m].command # "set" /\ got'[m].rows = <<>>
            \/ ask[m].command = "set" /\ \E w \in Row : got'[m].rows = <<w>>
         /\ at'[m] = FirstCall(ask[m].command)
         /\ answer'[m] = IF ask[m].command = "help" THEN "help" ELSE "none"
<1>1. /\ got[m] \in Hand /\ got[m].rows = <<>> /\ got[m].id = 0 /\ answer[m] = "none"
  BY EarlyPlace DEF RecordMessage, Early
<1>2. PICK s : s = ask[m]
  OBVIOUS
<1>3. SayingSound(s)
  BY <1>2 DEF BotInv, BotTypes, HandTypes
<1>4. PICK h : h = CASE s.command = "set" -> [got[m] EXCEPT !.rows = <<s.row>>]
                     [] s.command \in {"run", "task"} -> [got[m] EXCEPT !.task = s.task]
                     [] OTHER -> got[m]
  OBVIOUS
<1>5. /\ h \in Hand /\ h.id = 0
      /\ \/ s.command # "set" /\ h.rows = <<>>
         \/ s.command = "set" /\ \E w \in Row : h.rows = <<w>>
  <2>1. CASE s.command = "set"
    <3>1. s.row \in Row /\ <<s.row>> \in Seq(Row)
      BY <1>3, <2>1 DEF SayingSound
    <3>2. h = [got[m] EXCEPT !.rows = <<s.row>>]
      BY <1>4, <2>1
    <3> QED
      BY <1>1, <2>1, <3>1, <3>2 DEF Hand
  <2>2. CASE s.command \in {"run", "task"}
    <3>1. s.task \in Named /\ h = [got[m] EXCEPT !.task = s.task]
      BY <1>3, <1>4, <2>2 DEF SayingSound
    <3> QED
      BY <1>1, <2>2, <3>1 DEF Hand
  <2>3. CASE s.command \notin {"set", "run", "task"}
    BY <1>1, <1>4, <2>3
  <2> QED
    BY <2>1, <2>2, <2>3
<1>6. got' = [got EXCEPT ![m] = h]
  BY <1>2, <1>4 DEF RecordMessage
<1>7. got' \in [Message -> Hand] /\ got'[m] = h /\ \A g \in Message \ {m} : got'[g] = got[g]
  BY <1>5, <1>6 DEF BotInv, BotTypes, HandTypes
<1>8. /\ FirstCall(s.command) \in Place
      /\ FirstCall(s.command) = "delete" => s.command \in {"delete", "reset"}
      /\ FirstCall(s.command) = "verdict" => s.command \in {"approve", "reject"}
  BY <1>3, FirstCallPlace DEF SayingSound, Place
<1>9. at' = [at EXCEPT ![m] = FirstCall(s.command)] /\ ask' = ask
      /\ answer' = [answer EXCEPT ![m] = IF s.command = "help" THEN "help" ELSE answer[m]]
  BY <1>2 DEF RecordMessage
<1>10. /\ at' \in [Message -> Place] /\ at'[m] = FirstCall(s.command)
       /\ \A g \in Message \ {m} : at'[g] = at[g]
       /\ DOMAIN answer' = Message /\ answer'[m] = IF s.command = "help" THEN "help" ELSE "none"
       /\ \A g \in Message \ {m} : answer'[g] = answer[g]
  BY <1>1, <1>8, <1>9 DEF BotInv, BotTypes, HandTypes
<1>11. \A g \in Message \ {m} : g \in lost' <=> g \in lost
  BY DEF RecordMessage
<1>12. HandTypes'
  <2>1. \A g \in Message : SayingSound(ask[g])'
    BY <1>9 DEF BotInv, BotTypes, HandTypes, SayingSound
  <2>2. \A g \in Message :
          /\ at'[g] = "delete" => ask'[g].command \in {"delete", "reset"}
          /\ at'[g] = "verdict" => ask'[g].command \in {"approve", "reject"}
    BY <1>2, <1>8, <1>9, <1>10 DEF BotInv, BotTypes, HandTypes
  <2>3. DOMAIN ask' = Message
    BY <1>9 DEF BotInv, BotTypes, HandTypes
  <2> QED
    BY <1>7, <1>10, <2>1, <2>2, <2>3 DEF HandTypes
<1> QED
  BY <1>2, <1>5, <1>7, <1>10, <1>11, <1>12 DEF HandApart

LEMMA RecordMessageStep ==
  ASSUME BotInv, NEW m \in Message, RecordMessage(m)
  PROVE  BotInv'
<1>1. PICK r : r = [Ask(m, "record") EXCEPT !.what = "user"]
  OBVIOUS
<1>2. /\ at[m] = "record"
      /\ \/ Perform(r) /\ late' = late /\ lost' = lost
         \/ NoAnswer(r) /\ lost' = lost \cup {m}
  BY <1>1 DEF RecordMessage, Answered
<1>3. r.by = m /\ r.op = "record" /\ r.what = "user" /\ CallSound(r) /\ Ready(r)
  BY <1>1 DEF Ask, CallSound, Ready
<1>4. \/ Perform(r) /\ late' = late /\ lost' = lost
      \/ UNCHANGED core /\ late' \in {late, late \cup {r}} /\ lost' = lost \cup {m}
  BY <1>2 DEF NoAnswer, Refused, TimedOut
<1>5. /\ HandTypes' /\ HandApart(m) /\ got'[m].id = 0
      /\ \/ ask[m].command # "set" /\ got'[m].rows = <<>>
         \/ ask[m].command = "set" /\ \E w \in Row : got'[m].rows = <<w>>
      /\ at'[m] = FirstCall(ask[m].command)
      /\ answer'[m] = IF ask[m].command = "help" THEN "help" ELSE "none"
  BY RecordHand
<1>6. /\ OneAtMost(m)' /\ (Untouched(m) => Untouched(m)') /\ saved'[m] = saved[m]
      /\ refs' = refs /\ made' = made /\ Creates(m)' = Creates(m)
      /\ LateOf(m, {"save"})' = LateOf(m, {"save"})
      /\ LateOf(m, {"remember"})' = LateOf(m, {"remember"})
      /\ log \in Seq(LogRow) /\ <<m, r.what>> \in LogRow
      /\ \/ log' = Append(log, <<m, r.what>>) /\ late' = late
         \/ log' = log
  BY <1>3, <1>4, RecordCall
<1>7. Untouched(m)' /\ saved'[m] = <<>> /\ LateOf(m, {"save"})' = {}
  BY <1>2, <1>6, EarlyPlace DEF Early, Untouched, LateOf
<1>8. ask[m].command \in AllCommands
  BY DEF BotInv, BotTypes, HandTypes, SayingSound
<1>9. PICK c : c = ask[m].command
  OBVIOUS
<1>10. /\ at'[m] \in {"preferences", "to_core", "create", "run-task", "verdict",
                      "save", "delete", "read", "log"}
       /\ at'[m] = "save" <=> c = "set"
       /\ at'[m] = "log" <=> c = "help"
  BY <1>5, <1>8, <1>9, FirstCallPlace
<1>11. ASSUME c = "set"
       PROVE  InTurn(m)' /\ Len(saved'[m]) < Len(got'[m].rows)
  <2>1. Len(saved'[m]) = 0 /\ Len(got'[m].rows) = 1
    BY <1>5, <1>7, <1>9, <1>11
  <2> QED
    BY <2>1 DEF InTurn
<1>12. Stands(m)'
  <2>1. CASE at'[m] = "save"
    BY <1>5, <1>7, <1>9, <1>10, <1>11, <2>1 DEF Stands, Untouched, Early
  <2>2. CASE at'[m] = "log"
    BY <2>2 DEF Stands, Early
  <2>3. CASE at'[m] \notin {"save", "log"}
    BY <1>5, <1>7, <1>9, <1>10, <2>3 DEF Stands, Early
  <2> QED
    BY <2>1, <2>2, <2>3
<1>13. Told(m)'
  <2>1. got'[m].rows # <<>> => InTurn(m)'
    BY <1>5, <1>9, <1>11
  <2> QED
    BY <1>5, <1>7, <2>1 DEF Told
<1>14. RefersOnce(m)'
  BY <1>2, <1>6 DEF BotInv, MessageInv, RefersOnce
<1>15. InOrder(m)'
  <2> SUFFICES ASSUME m \notin lost' PROVE InOrder(m)'
    BY DEF InOrder
  <2>1. Perform(r) /\ late' = late /\ lost' = lost
    BY <1>4
  <2>2. PICK e \in LogRow : e = <<m, "user">>
    BY <1>3, <1>6
  <2>3. log' = Append(log, e)
    BY <1>3, <2>1, <2>2, PerformTables DEF BotInv, BotTypes
  <2>4. /\ Len(log) \in Nat /\ DOMAIN log = 1 .. Len(log)
        /\ DOMAIN log' = 1 .. Len(log) + 1 /\ log'[Len(log) + 1] = e
        /\ \A n \in 1 .. Len(log) : log'[n] = log[n]
    BY <1>6, <2>3, Appended
  <2>5. Kept(m)'
    BY <2>2, <2>4 DEF Kept
  <2>6. \A x \in LateOf(m, {"record"})' : x.what = "assistant"
    BY <2>1 DEF BotInv, MessageInv, InOrder, LateOf
  <2>7. \A n \in DOMAIN log' : log'[n] = <<m, "assistant">> =>
           \E k \in 1 .. n - 1 : log'[k] = <<m, "user">>
    <3> SUFFICES ASSUME NEW n \in DOMAIN log', log'[n] = <<m, "assistant">>
                 PROVE  \E k \in 1 .. n - 1 : log'[k] = <<m, "user">>
      OBVIOUS
    <3>1. n \in 1 .. Len(log)
      BY <2>2, <2>4
    <3>2. PICK k \in 1 .. n - 1 : log[k] = <<m, "user">>
      BY <2>1, <2>4, <3>1 DEF BotInv, MessageInv, InOrder
    <3>3. k \in 1 .. Len(log)
      BY <2>4, <3>1
    <3> QED
      BY <2>4, <3>2, <3>3
  <2> QED
    BY <2>5, <2>6, <2>7 DEF InOrder
<1>16. MessageInv(m)'
  BY <1>6, <1>12, <1>13, <1>14, <1>15 DEF MessageInv
<1> QED
  BY <1>3, <1>4, <1>5, <1>16, CallAgain DEF Outcome

\* An answer comes after its message.
LEMMA AnswerLogged ==
  ASSUME BotInv, NEW m \in Message, m \notin lost, Kept(m), log' = Append(log, <<m, "assistant">>)
  PROVE  /\ Kept(m)'
         /\ \A n \in DOMAIN log' : log'[n] = <<m, "assistant">> =>
              \E k \in 1 .. n - 1 : log'[k] = <<m, "user">>
<1>1. PICK e \in LogRow : e = <<m, "assistant">>
  BY DEF LogRow
<1>2. log \in Seq(LogRow) /\ log' = Append(log, e)
  BY <1>1 DEF BotInv, BotTypes, CoreTypes
<1>3. /\ Len(log) \in Nat /\ DOMAIN log = 1 .. Len(log)
      /\ DOMAIN log' = 1 .. Len(log) + 1 /\ log'[Len(log) + 1] = e
      /\ \A n \in 1 .. Len(log) : log'[n] = log[n]
  BY <1>2, Appended
<1>4. PICK q \in 1 .. Len(log) : log[q] = <<m, "user">>
  BY <1>3 DEF Kept
<1>5. Kept(m)'
  BY <1>3, <1>4 DEF Kept
<1>6. ASSUME NEW n \in DOMAIN log', log'[n] = <<m, "assistant">>
      PROVE  \E k \in 1 .. n - 1 : log'[k] = <<m, "user">>
  <2>1. CASE n = Len(log) + 1
    BY <1>3, <1>4, <2>1
  <2>2. CASE n \in 1 .. Len(log)
    <3>1. PICK k \in 1 .. n - 1 : log[k] = <<m, "user">>
      BY <1>3, <1>6, <2>2 DEF BotInv, MessageInv, InOrder
    <3>2. k \in 1 .. Len(log)
      BY <1>3, <2>2
    <3> QED
      BY <1>3, <3>1, <3>2
  <2>3. n = Len(log) + 1 \/ n \in 1 .. Len(log)
    BY <1>3, <1>6
  <2> QED
    BY <2>1, <2>2, <2>3
<1> QED
  BY <1>5, <1>6

LEMMA LogAnswerStep ==
  ASSUME BotInv, NEW m \in Message, LogAnswer(m)
  PROVE  BotInv'
<1>1. PICK r : r = [Ask(m, "record") EXCEPT !.what = "assistant"]
  OBVIOUS
<1>2. /\ at[m] = "log" /\ ((Perform(r) /\ Answered) \/ NoAnswer(r))
      /\ at' = [at EXCEPT ![m] = "reply"] /\ UNCHANGED <<answer, ask, got, lost>>
  BY <1>1 DEF LogAnswer
<1>3. r.by = m /\ r.op = "record" /\ r.what = "assistant" /\ CallSound(r) /\ Ready(r)
  BY <1>1 DEF Ask, CallSound, Ready
<1>4. \/ Perform(r) /\ late' = late
      \/ UNCHANGED core /\ late' \in {late, late \cup {r}}
  BY <1>2 DEF Answered, NoAnswer, Refused, TimedOut
<1>5. HandTypes' /\ HandApart(m) /\ at'[m] = "reply" /\ got' = got /\ answer' = answer
      /\ lost' = lost
  <2>1. at' \in [Message -> Place] /\ at'[m] = "reply" /\ \A g \in Message \ {m} : at'[g] = at[g]
    BY <1>2 DEF BotInv, BotTypes, HandTypes, Place
  <2>2. ask' = ask /\ got' = got /\ answer' = answer /\ lost' = lost
    BY <1>2
  <2>3. \A g \in Message : SayingSound(ask[g])'
    BY <2>2 DEF BotInv, BotTypes, HandTypes, SayingSound
  <2> QED
    BY <2>1, <2>2, <2>3 DEF BotInv, BotTypes, HandTypes, HandApart
<1>6. /\ OneAtMost(m)' /\ (Untouched(m) => Untouched(m)') /\ saved'[m] = saved[m]
      /\ refs' = refs /\ made' = made /\ Creates(m)' = Creates(m)
      /\ LateOf(m, {"save"})' = LateOf(m, {"save"})
      /\ LateOf(m, {"remember"})' = LateOf(m, {"remember"})
      /\ log \in Seq(LogRow) /\ <<m, r.what>> \in LogRow
      /\ \/ log' = Append(log, <<m, r.what>>) /\ late' = late
         \/ log' = log
  BY <1>3, <1>4, RecordCall
<1>7. Stands(m)'
  BY <1>5 DEF Stands, Early
<1>8. RefersOnce(m)'
  BY <1>5, <1>6 DEF BotInv, MessageInv, RefersOnce
<1>9. InOrder(m)'
  <2> SUFFICES ASSUME m \notin lost PROVE InOrder(m)'
    BY <1>5 DEF InOrder
  <2>1. Kept(m) /\ \A x \in LateOf(m, {"record"}) : x.what = "assistant"
    BY <1>2 DEF BotInv, MessageInv, InOrder
  <2>2. \A x \in LateOf(m, {"record"})' : x.what = "assistant"
    BY <1>3, <1>4, <2>1 DEF LateOf
  <2>3. CASE log' = Append(log, <<m, r.what>>)
    BY <1>3, <1>5, <2>1, <2>2, <2>3, AnswerLogged DEF InOrder
  <2>4. CASE log' = log
    BY <1>5, <2>1, <2>2, <2>4 DEF BotInv, MessageInv, InOrder, Kept
  <2> QED
    BY <1>6, <2>3, <2>4
<1>10. ASSUME Apart(m) PROVE MessageInv(m)'
  <2>1. Told(m) /\ got'[m] = got[m] /\ answer'[m] = answer[m]
    BY <1>5 DEF BotInv, MessageInv
  <2>2. PICK id : id = got[m].id
    OBVIOUS
  <2>3. /\ id \in DOMAIN tasks /\ tasks[id].runs > 0 =>
             id \in DOMAIN tasks' /\ tasks'[id].runs > 0
        /\ id \in DOMAIN tasks /\ tasks[id].by = m =>
             id \in DOMAIN tasks' /\ tasks'[id].by = m
    BY <1>10, GrowsKeeps DEF Apart
  <2>4. InTurn(m) => InTurn(m)'
    BY <1>6, <2>1 DEF InTurn
  <2>5. Told(m)'
    BY <1>6, <2>1, <2>2, <2>3, <2>4 DEF Told, OwnTask
  <2> QED
    BY <1>6, <1>7, <1>8, <1>9, <2>5 DEF MessageInv
<1> QED
  BY <1>3, <1>4, <1>5, <1>10, CallAgain DEF Outcome

\* A message that has been answered leaves the core as it is.
LEMMA ReplyStep ==
  ASSUME BotInv, NEW m \in Message, Reply(m)
  PROVE  BotInv'
<1>1. /\ at[m] = "reply" /\ at' = [at EXCEPT ![m] = "ended"]
      /\ got' = [got EXCEPT ![m] = Nothing] /\ answer' = [answer EXCEPT ![m] = "none"]
      /\ saved' = saved \/ saved' = [saved EXCEPT ![m] = <<>>]
      /\ ask' = ask /\ lost' = lost /\ late' = late
      /\ tasks' = tasks /\ refs' = refs /\ made' = made /\ log' = log /\ busy' = busy
  BY DEF Reply
<1>2. HandTypes /\ CoreTypes
  BY DEF BotInv, BotTypes
<1>3. /\ at' \in [Message -> Place] /\ at'[m] = "ended"
      /\ \A g \in Message \ {m} : at'[g] = at[g]
  BY <1>1, <1>2 DEF HandTypes, Place
<1>4. /\ got' \in [Message -> Hand] /\ got'[m].rows = <<>> /\ got'[m].id = 0
      /\ \A g \in Message \ {m} : got'[g] = got[g]
  BY <1>1, <1>2, NothingHeld DEF HandTypes
<1>5. DOMAIN answer' = Message /\ answer'[m] = "none"
      /\ \A g \in Message \ {m} : answer'[g] = answer[g]
  BY <1>1, <1>2 DEF HandTypes
<1>6. /\ saved' \in [Message -> Seq(Row)] /\ saved'[m] \in {saved[m], <<>>}
      /\ \A g \in Message \ {m} : saved'[g] = saved[g]
  <2>1. <<>> \in Seq(Row)
    OBVIOUS
  <2> QED
    BY <1>1, <1>2, <2>1 DEF CoreTypes
<1>7. BotTypes'
  <2>1. \A g \in Message : SayingSound(ask[g])'
    BY <1>1, <1>2 DEF HandTypes, SayingSound
  <2>2. \A g \in Message :
          /\ at'[g] = "delete" => ask'[g].command \in {"delete", "reset"}
          /\ at'[g] = "verdict" => ask'[g].command \in {"approve", "reject"}
    BY <1>1, <1>2, <1>3 DEF HandTypes
  <2>3. HandTypes'
    BY <1>1, <1>2, <1>3, <1>4, <1>5, <2>1, <2>2 DEF HandTypes
  <2>4. CoreTypes'
    BY <1>1, <1>2, <1>6 DEF CoreTypes
  <2>5. \A r \in late' : CallSound(r)'
    BY <1>1 DEF BotInv, BotTypes, CallSound
  <2> QED
    BY <2>3, <2>4, <2>5 DEF BotTypes
<1>8. TasksSound' /\ RefsSound'
  <2>1. TasksSound'
    BY <1>1 DEF BotInv, TasksSound, CompletedSound, BusySound
  <2>2. RefsSound'
    BY <1>1 DEF BotInv, RefsSound, RefSound, OwnTask, RanTo
  <2> QED
    BY <2>1, <2>2
<1>9. Apart(m)
  <2>1. Len(log) =< Len(log)
    BY <1>2 DEF CoreTypes
  <2>2. Grows(m)
    BY <1>1, <2>1 DEF Grows
  <2> QED
    BY <1>1, <1>3, <1>4, <1>5, <1>6, <2>2 DEF Apart
<1>10. /\ Creates(m)' = Creates(m) /\ Makes(m)' = Makes(m)
       /\ \A ops : LateOf(m, ops)' = LateOf(m, ops)
  BY <1>1 DEF Creates, Makes, LateOf
<1>11. OneAtMost(m)'
  BY <1>6, <1>10 DEF BotInv, MessageInv, OneAtMost
<1>12. Stands(m)' /\ Told(m)'
  BY <1>3, <1>4, <1>5 DEF Stands, Told, Early
<1>13. RefersOnce(m)'
  BY <1>1, <1>3, <1>10 DEF BotInv, MessageInv, RefersOnce
<1>14. InOrder(m)'
  <2>1. log' = log /\ lost' = lost /\ LateOf(m, {"record"})' = LateOf(m, {"record"})
    BY <1>1, <1>10
  <2>2. Kept(m)' <=> Kept(m)
    BY <2>1 DEF Kept
  <2>3. InOrder(m)
    BY <1>1 DEF BotInv, MessageInv
  <2> QED
    BY <1>3, <2>1, <2>2, <2>3 DEF InOrder
<1>15. MessageInv(m)'
  BY <1>11, <1>12, <1>13, <1>14 DEF MessageInv
<1> QED
  BY <1>7, <1>8, <1>9, <1>15, BotInvAgain

-----------------------------------------------------------------------------
(* Messages come, and late calls are done or dropped.                      *)

LEMMA SaidSoundly ==
  ASSUME NEW c \in AllCommands, NEW s \in Sayings(c)
  PROVE  SayingSound(s)
<1>1. CASE c \in {"auto", "ask", "plan", "do"}
  <2>1. PICK w \in Content : s = [[Plain EXCEPT !.command = c] EXCEPT !.words = w]
    BY <1>1, Zenon DEF Sayings
  <2> QED
    BY <1>1, <2>1 DEF SayingSound, Plain
<1>2. CASE c = "run"
  <2>1. PICK t \in Preset : s = [[Plain EXCEPT !.command = "run"] EXCEPT !.task = t]
    BY <1>2 DEF Sayings
  <2> QED
    BY <2>1, BotAssumption DEF SayingSound, Plain, AllCommands, Named
<1>3. CASE c = "task"
  <2>1. PICK t \in Asked : s = [[Plain EXCEPT !.command = "task"] EXCEPT !.task = t]
    BY <1>3 DEF Sayings
  <2> QED
    BY <2>1 DEF SayingSound, Plain, AllCommands, Named
<1>4. CASE c \in {"set", "delete"}
  <2>1. PICK k \in Key : s = [[Plain EXCEPT !.command = c] EXCEPT !.row = <<k, "global">>]
    BY <1>4 DEF Sayings
  <2> QED
    BY <1>4, <2>1 DEF SayingSound, Plain, AllCommands, Row
<1>5. CASE c \notin {"auto", "ask", "plan", "do", "run", "task", "set", "delete"}
  <2>1. s = [Plain EXCEPT !.command = c]
    BY <1>5 DEF Sayings
  <2> QED
    BY <1>5, <2>1 DEF SayingSound, Plain
<1> QED
  BY <1>1, <1>2, <1>3, <1>4, <1>5

\* A message that comes has nothing done for it.
LEMMA ComesIn ==
  ASSUME BotInv, NEW m \in Message, at[m] = "away", HandTypes', HandApart(m),
         UNCHANGED core, late' = late, lost' = lost, got' = got,
         \/ at'[m] = "record" /\ answer' = answer
         \/ at'[m] = "reply" /\ answer'[m] = "help"
  PROVE  BotInv'
<1>1. PICK r : r = Ask(m, "read")
  OBVIOUS
<1>2. CallSound(r) /\ r.by = m /\ r.op = "read" /\ r.op \notin Effects
  BY <1>1, ReadCall
<1>3. Outcome(r) /\ Ready(r)
  BY <1>2 DEF Outcome, Ready
<1>4. Quiet(m)
  BY <1>2, <1>3, QuietCall DEF BotInv
<1>5. /\ got[m].rows = <<>> /\ got[m].id = 0 /\ answer[m] = "none"
      /\ Untouched(m)
  BY EarlyPlace DEF Early
<1>6. OneAtMost(m)' /\ RefersOnce(m)' /\ InOrder(m)' /\ Untouched(m)'
  BY <1>4, <1>5, QuietKeeps DEF BotInv
<1>7. LateOf(m, {"save"})' = {}
  BY <1>6 DEF Untouched, LateOf
<1>8. Stands(m)' /\ Told(m)'
  BY <1>5, <1>6, <1>7 DEF Stands, Told, Early
<1>9. MessageInv(m)'
  BY <1>6, <1>8 DEF MessageInv
<1> QED
  BY <1>2, <1>3, <1>9, CallAgain

LEMMA ArriveStep ==
  ASSUME BotInv, NEW m \in Message, Arrive(m)
  PROVE  BotInv'
<1>1. /\ at[m] = "away" /\ at' = [at EXCEPT ![m] = "record"]
      /\ got' = got /\ answer' = answer /\ lost' = lost /\ late' = late /\ UNCHANGED core
  BY DEF Arrive
<1>2. PICK c \in Commands \cup {"auto"} : \E s \in Sayings(c) : ask' = [ask EXCEPT ![m] = s]
  BY DEF Arrive
<1>3. PICK s \in Sayings(c) : ask' = [ask EXCEPT ![m] = s]
  BY <1>2
<1>4. SayingSound(s)
  BY <1>3, SaidSoundly, BotAssumption DEF AllCommands
<1>5. /\ at' \in [Message -> Place] /\ at'[m] = "record"
      /\ \A g \in Message \ {m} : at'[g] = at[g]
  BY <1>1 DEF BotInv, BotTypes, HandTypes, Place
<1>6. HandTypes'
  <2>1. DOMAIN ask' = Message /\ \A g \in Message \ {m} : ask'[g] = ask[g]
    BY <1>3 DEF BotInv, BotTypes, HandTypes
  <2>2. ask'[m] = s
    BY <1>3 DEF BotInv, BotTypes, HandTypes
  <2>3. \A g \in Message : SayingSound(ask[g])'
    BY <1>4, <2>1, <2>2 DEF BotInv, BotTypes, HandTypes, SayingSound
  <2>4. \A g \in Message :
          /\ at'[g] = "delete" => ask'[g].command \in {"delete", "reset"}
          /\ at'[g] = "verdict" => ask'[g].command \in {"approve", "reject"}
    BY <1>5, <2>1 DEF BotInv, BotTypes, HandTypes
  <2> QED
    BY <1>1, <1>5, <2>1, <2>3, <2>4 DEF BotInv, BotTypes, HandTypes
<1>7. HandApart(m)
  BY <1>1, <1>5 DEF HandApart
<1> QED
  BY <1>1, <1>5, <1>6, <1>7, ComesIn

LEMMA SendHelpStep ==
  ASSUME BotInv, NEW m \in Message, SendHelp(m)
  PROVE  BotInv'
<1>1. /\ at[m] = "away" /\ at' = [at EXCEPT ![m] = "reply"]
      /\ answer' = [answer EXCEPT ![m] = "help"] /\ ask' = ask
      /\ got' = got /\ lost' = lost /\ late' = late /\ UNCHANGED core
  BY DEF SendHelp
<1>2. /\ at' \in [Message -> Place] /\ at'[m] = "reply"
      /\ \A g \in Message \ {m} : at'[g] = at[g]
      /\ DOMAIN answer' = Message /\ answer'[m] = "help"
      /\ \A g \in Message \ {m} : answer'[g] = answer[g]
  BY <1>1 DEF BotInv, BotTypes, HandTypes, Place
<1>3. HandTypes'
  <2>1. \A g \in Message : SayingSound(ask[g])'
    BY <1>1 DEF BotInv, BotTypes, HandTypes, SayingSound
  <2> QED
    BY <1>1, <1>2, <2>1 DEF BotInv, BotTypes, HandTypes
<1>4. HandApart(m)
  BY <1>1, <1>2 DEF HandApart
<1> QED
  BY <1>1, <1>2, <1>3, <1>4, ComesIn

\* What is left of the late calls once r has been taken.
LEMMA LateLess ==
  ASSUME NEW m, NEW r \in late, r.by = m, late' = late \ {r}
  PROVE  /\ \A ops : LateOf(m, ops)' \subseteq LateOf(m, ops)
         /\ \A ops : r.op \in ops => r \in LateOf(m, ops)
  BY DEF LateOf

\* A late call of a message: what it was told and where its handler stands are
\* as they were.
LEMMA LateHand ==
  ASSUME BotInv, NEW m \in Message, NEW r \in late, r.by = m, late' = late \ {r},
         at' = at, got' = got, answer' = answer, Apart(m),
         r.op # "save" => saved'[m] = saved[m],
         r.op \notin {"create", "make"} => Creates(m)' = Creates(m) /\ Makes(m)' = Makes(m)
  PROVE  Stands(m)' /\ Told(m)'
<1>1. Stands(m) /\ Told(m) /\ OneAtMost(m)
  BY DEF BotInv, MessageInv
<1>2. /\ \A ops : LateOf(m, ops)' \subseteq LateOf(m, ops)
      /\ \A ops : r.op \in ops => r \in LateOf(m, ops)
  BY LateLess
<1>3. /\ LateOf(m, {"save"})' \subseteq LateOf(m, {"save"})
      /\ LateOf(m, {"create", "make", "save"})' \subseteq LateOf(m, {"create", "make", "save"})
      /\ r.op \in {"create", "make", "save"} => LateOf(m, {"create", "make", "save"}) # {}
      /\ r.op = "save" => LateOf(m, {"save"}) # {}
  BY <1>2
<1>4. PICK id : id = got[m].id
  OBVIOUS
<1>5. /\ id \in DOMAIN tasks /\ tasks[id].runs > 0 =>
           id \in DOMAIN tasks' /\ tasks'[id].runs > 0
      /\ id \in DOMAIN tasks /\ tasks[id].by = m =>
           id \in DOMAIN tasks' /\ tasks'[id].by = m
      /\ id \in DOMAIN tasks => \A s : RanTo(id, s) => RanTo(id, s)'
  BY GrowsKeeps DEF Apart
<1>6. made \subseteq made'
  BY DEF Apart, Grows
<1>7. Untouched(m) => Untouched(m)'
  BY <1>3 DEF Untouched
<1>8. r.op # "save" /\ InTurn(m) => InTurn(m)'
  BY DEF InTurn
<1>9. OwnTask(m, id) => OwnTask(m, id)'
  BY <1>5 DEF OwnTask
<1>10. PICK s : s = got[m].state
  OBVIOUS
<1>11. RanTo(id, s) /\ OwnTask(m, id) => RanTo(id, s)'
  BY <1>5 DEF OwnTask
<1>12. r.op = "save" => got[m].rows = <<>> /\ answer[m] \in {"failure", "none"}
  BY <1>1, <1>3 DEF Told
<1>13. Stands(m)'
  <2>1. CASE at[m] = "save"
    <3>1. r.op \notin {"create", "make", "save"}
          /\ LateOf(m, {"create", "make", "save"})' = {}
      BY <1>1, <1>3, <2>1 DEF Stands
    <3>2. saved'[m] = saved[m] /\ Creates(m)' = Creates(m) /\ Makes(m)' = Makes(m)
      BY <3>1
    <3> QED
      BY <1>1, <1>8, <2>1, <3>1, <3>2 DEF Stands, Early
  <2>2. CASE at[m] \in {"run", "running", "dry-run", "remember"}
    BY <1>1, <1>4, <1>9, <1>10, <1>11, <2>2 DEF Stands, Early
  <2>3. CASE at[m] = "running-task"
    <3>1. id \in DOMAIN tasks'
      BY <1>1, <1>4, <2>3, GrowsKeeps DEF Stands, Apart
    <3> QED
      BY <1>1, <1>4, <1>7, <2>3, <3>1 DEF Stands, Early
  <2>4. CASE at[m] \notin {"save", "run", "running", "running-task", "dry-run", "remember"}
    BY <1>1, <1>3, <1>4, <1>5, <1>7, <2>4 DEF Stands
  <2> QED
    BY <2>1, <2>2, <2>3, <2>4
<1>14. Told(m)'
  <2>1. got[m].rows # <<>> \/ answer[m] = "saved" => r.op # "save"
    BY <1>12
  <2> QED
    BY <1>1, <1>3, <1>4, <1>5, <1>6, <1>7, <1>8, <1>9, <2>1 DEF Told
<1> QED
  BY <1>13, <1>14

\* Its one effect, had now, is no longer to come.
LEMMA LateEffect ==
  ASSUME BotInv, NEW m \in Message, NEW r \in late, r.by = m, late' = late \ {r},
         \/ UNCHANGED core
         \/ Perform(r)
  PROVE  /\ OneAtMost(m)'
         /\ r.op # "save" => saved'[m] = saved[m]
         /\ r.op \notin {"create", "make"} => Creates(m)' = Creates(m) /\ Makes(m)' = Makes(m)
<1>1. OneAtMost(m)
  BY DEF BotInv, MessageInv
<1>2. CallSound(r) /\ CoreTypes /\ TasksSound
  BY DEF BotInv, BotTypes
<1>3. /\ LateOf(m, {"create", "make"})' \subseteq LateOf(m, {"create", "make"})
      /\ LateOf(m, {"save"})' \subseteq LateOf(m, {"save"})
      /\ r.op \in {"create", "make"} =>
            r \in LateOf(m, {"create", "make"}) /\ LateOf(m, {"create", "make"})' = {}
      /\ r.op = "save" => r \in LateOf(m, {"save"})
  <2>1. /\ \A ops : LateOf(m, ops)' \subseteq LateOf(m, ops)
        /\ \A ops : r.op \in ops => r \in LateOf(m, ops)
    BY LateLess
  <2>2. \A x, y \in LateOf(m, {"create", "make"}) : x = y
    BY <1>1 DEF OneAtMost
  <2>3. r.op \in {"create", "make"} => LateOf(m, {"create", "make"})' = {}
    BY <2>2 DEF LateOf
  <2> QED
    BY <2>1, <2>3
<1>4. CASE UNCHANGED core
  <2>1. Creates(m)' = Creates(m) /\ Makes(m)' = Makes(m) /\ saved' = saved
    BY <1>4 DEF core, Creates, Makes
  <2> QED
    BY <1>1, <1>3, <2>1 DEF OneAtMost
<1>5. CASE Perform(r) /\ r.op = "create"
  <2>1. /\ Creates(m) = {} /\ Makes(m) = {} /\ saved[m] = <<>> /\ LateOf(m, {"save"}) = {}
    BY <1>1, <1>3, <1>5 DEF OneAtMost
  <2>2. /\ DOMAIN tasks' = DOMAIN tasks \cup {Len(tasks')}
        /\ \A n \in DOMAIN tasks : tasks'[n].by = tasks[n].by
        /\ saved' = saved /\ made' = made
    BY <1>2, <1>5, PerformTasks, PerformTables DEF Became
  <2>3. Creates(m)' \subseteq {Len(tasks')} /\ Makes(m)' = {}
    BY <2>1, <2>2 DEF Creates, Makes
  <2> QED
    BY <1>3, <1>5, <2>1, <2>2, <2>3 DEF OneAtMost
<1>6. CASE Perform(r) /\ r.op = "make"
  <2>1. /\ Creates(m) = {} /\ Makes(m) = {} /\ saved[m] = <<>> /\ LateOf(m, {"save"}) = {}
    BY <1>1, <1>3, <1>6 DEF OneAtMost
  <2>2. PICK v : v = [by |-> r.by, what |-> r.what]
    OBVIOUS
  <2>3. /\ DOMAIN tasks' = DOMAIN tasks
        /\ \A n \in DOMAIN tasks : tasks'[n].by = tasks[n].by
        /\ saved' = saved /\ made' = made \cup {v}
    BY <1>2, <1>6, <2>2, PerformTasks, PerformTables DEF Became
  <2>4. Creates(m)' = {} /\ Makes(m)' \subseteq {v}
    BY <2>1, <2>3 DEF Creates, Makes
  <2> QED
    BY <1>3, <1>6, <2>1, <2>3, <2>4 DEF OneAtMost
<1>7. CASE Perform(r) /\ r.op \notin {"create", "make"}
  <2>1. /\ DOMAIN tasks' = DOMAIN tasks
        /\ \A n \in DOMAIN tasks : tasks'[n].by = tasks[n].by
        /\ made' = made
    BY <1>2, <1>7, PerformTasks, PerformTables DEF Became
  <2>2. Creates(m)' = Creates(m) /\ Makes(m)' = Makes(m)
    BY <2>1 DEF Creates, Makes
  <2>3. CASE r.op = "save"
    BY <1>1, <1>3, <1>7, <2>2, <2>3 DEF OneAtMost
  <2>4. CASE r.op # "save"
    <3>1. saved' = saved
      BY <1>2, <1>7, <2>4, PerformTables
    <3> QED
      BY <1>1, <1>3, <1>7, <2>2, <2>4, <3>1 DEF OneAtMost
  <2> QED
    BY <2>3, <2>4
<1> QED
  BY <1>4, <1>5, <1>6, <1>7

LEMMA LateMemory ==
  ASSUME BotInv, NEW m \in Message, NEW r \in late, r.by = m, late' = late \ {r},
         \/ UNCHANGED core
         \/ Perform(r),
         at' = at, lost' = lost
  PROVE  RefersOnce(m)' /\ InOrder(m)'
<1>1. RefersOnce(m) /\ InOrder(m)
  BY DEF BotInv, MessageInv
<1>2. CallSound(r) /\ CoreTypes
  BY DEF BotInv, BotTypes
<1>3. /\ LateOf(m, {"remember"})' \subseteq LateOf(m, {"remember"})
      /\ LateOf(m, {"record"})' \subseteq LateOf(m, {"record"})
      /\ r.op = "remember" =>
            r \in LateOf(m, {"remember"}) /\ LateOf(m, {"remember"})' = {}
      /\ r.op = "record" => r \in LateOf(m, {"record"})
  <2>1. /\ \A ops : LateOf(m, ops)' \subseteq LateOf(m, ops)
        /\ \A ops : r.op \in ops => r \in LateOf(m, ops)
    BY LateLess
  <2>2. \A x, y \in LateOf(m, {"remember"}) : x = y
    BY <1>1 DEF RefersOnce
  <2>3. r.op \in {"remember"} => LateOf(m, {"remember"})' = {}
    BY <2>2 DEF LateOf
  <2> QED
    BY <2>1, <2>3
<1>4. RefersOnce(m)'
  <2>1. CASE refs' = refs
    BY <1>1, <1>3, <2>1 DEF RefersOnce
  <2>2. CASE Perform(r) /\ r.op = "remember"
    <3>1. PICK u : u = [by |-> r.by, id |-> r.id, state |-> r.what]
      OBVIOUS
    <3>2. refs' = Append(refs, u) /\ refs \in Seq(RefRow)
      BY <1>2, <2>2, <3>1, PerformTables DEF CoreTypes
    <3>3. {n \in DOMAIN refs : refs[n].by = m} = {}
      BY <1>1, <1>3, <2>2 DEF RefersOnce
    <3>4. {n \in DOMAIN refs' : refs'[n].by = m} \subseteq {Len(refs) + 1}
      BY <3>2, <3>3
    <3>5. at[m] \in {"humanize", "log", "reply", "ended"}
      BY <1>1, <1>3, <2>2 DEF RefersOnce
    <3> QED
      BY <1>3, <2>2, <3>4, <3>5 DEF RefersOnce
  <2> QED
    BY <1>2, <2>1, <2>2, PerformTables DEF core
<1>5. InOrder(m)'
  <2> SUFFICES ASSUME m \notin lost PROVE InOrder(m)'
    BY DEF InOrder
  <2>1. CASE log' = log
    BY <1>1, <1>3, <2>1 DEF InOrder, Kept
  <2>2. CASE Perform(r) /\ r.op = "record"
    <3>1. r.what = "assistant" /\ Kept(m)
      BY <1>1, <1>3, <2>2 DEF InOrder
    <3>2. log' = Append(log, <<m, "assistant">>)
      BY <1>2, <2>2, <3>1, PerformTables
    <3> QED
      BY <1>1, <1>3, <3>1, <3>2, AnswerLogged DEF InOrder
  <2> QED
    BY <1>2, <2>1, <2>2, PerformTables DEF core
<1> QED
  BY <1>4, <1>5

LEMMA LateCallStep ==
  ASSUME BotInv, LateCall
  PROVE  BotInv'
<1>1. PICK r \in late : late' = late \ {r} /\ (Perform(r) \/ UNCHANGED core)
  BY DEF LateCall
<1>2. UNCHANGED <<at, ask, got, answer, lost, timeouts>>
  BY DEF LateCall
<1>3. PICK m \in Message : r.by = m
  BY DEF BotInv, BotTypes, CallSound
<1>4. Ready(r) /\ Outcome(r)
  BY <1>1 DEF BotInv, BotTypes, RefsSound, Ready, Outcome
<1>5. HandTypes' /\ HandApart(m)
  <2>1. \A g \in Message : SayingSound(ask[g])'
    BY <1>2 DEF BotInv, BotTypes, HandTypes, SayingSound
  <2> QED
    BY <1>2, <2>1 DEF BotInv, BotTypes, HandTypes, HandApart
<1>6. ASSUME Apart(m) PROVE MessageInv(m)'
  BY <1>1, <1>2, <1>3, <1>6, LateEffect, LateHand, LateMemory DEF MessageInv
<1> QED
  BY <1>3, <1>4, <1>5, <1>6, CallAgain

\* A run the core is at goes on or ends: the handler of its message has what it had.
LEMMA RunHand ==
  ASSUME BotInv, NEW m \in Message, Quiet(m), Apart(m),
         at' = at, got' = got, answer' = answer
  PROVE  Stands(m)' /\ Told(m)'
<1>1. Stands(m) /\ Told(m)
  BY DEF BotInv, MessageInv
<1>2. /\ Creates(m)' = Creates(m) /\ Makes(m)' = Makes(m) /\ saved'[m] = saved[m]
      /\ LateOf(m, {"create", "make", "save"})' = LateOf(m, {"create", "make", "save"})
      /\ LateOf(m, {"save"})' = LateOf(m, {"save"})
  BY QuietLate DEF Quiet
<1>3. (Untouched(m) => Untouched(m)') /\ (InTurn(m) => InTurn(m)')
  BY <1>2 DEF Untouched, InTurn
<1>4. PICK id : id = got[m].id
  OBVIOUS
<1>5. id \in DOMAIN tasks =>
         /\ id \in DOMAIN tasks' /\ tasks'[id].by = tasks[id].by
         /\ tasks[id].runs > 0 => tasks'[id].runs > 0
         /\ \A s : RanTo(id, s) => RanTo(id, s)'
  BY GrowsKeeps DEF Apart
<1>6. made \subseteq made'
  BY DEF Apart, Grows
<1>7. OwnTask(m, id) => OwnTask(m, id)'
  BY <1>5 DEF OwnTask
<1>8. PICK s : s = got[m].state
  OBVIOUS
<1>9. RanTo(id, s) /\ OwnTask(m, id) => RanTo(id, s)'
  BY <1>5 DEF OwnTask
<1>10. Stands(m)'
  BY <1>1, <1>2, <1>3, <1>4, <1>5, <1>7, <1>8, <1>9 DEF Stands
<1>11. Told(m)'
  BY <1>1, <1>2, <1>3, <1>4, <1>5, <1>6, <1>7 DEF Told
<1> QED
  BY <1>10, <1>11

LEMMA CoreRunsStep ==
  ASSUME BotInv, CoreRuns
  PROVE  BotInv'
<1>1. PICK r \in busy : GoOn(r) \/ Finish(r) \/ Raise(r)
  BY DEF CoreRuns
<1>2. UNCHANGED <<at, ask, got, answer, lost, late, timeouts>>
  BY DEF CoreRuns
<1>3. r.op = "run" /\ r.by \in Message /\ r.id \in DOMAIN tasks
  BY DEF BotInv, TasksSound, BusySound
<1>4. PICK m \in Message : r.by = m
  BY <1>3
<1>5. r.op \notin Effects /\ Ready(r)
  BY <1>3 DEF Effects, Ready, CallSound
<1>6. Outcome(r)
  BY <1>1, <1>2 DEF Outcome, Advance
<1>7. HandTypes' /\ HandApart(m)
  <2>1. \A g \in Message : SayingSound(ask[g])'
    BY <1>2 DEF BotInv, BotTypes, HandTypes, SayingSound
  <2> QED
    BY <1>2, <2>1 DEF BotInv, BotTypes, HandTypes, HandApart
<1>8. Quiet(m)
  BY <1>4, <1>5, <1>6, QuietCall DEF BotInv, Ready
<1>9. OneAtMost(m)' /\ RefersOnce(m)' /\ InOrder(m)'
  BY <1>2, <1>8, QuietKeeps DEF BotInv
<1>10. ASSUME Apart(m) PROVE MessageInv(m)'
  BY <1>2, <1>8, <1>9, <1>10, RunHand DEF MessageInv
<1> QED
  BY <1>4, <1>5, <1>6, <1>7, <1>10, CallAgain

-----------------------------------------------------------------------------
(* The invariant holds.                                                    *)

LEMMA InitBot == Init => BotInv
<1> SUFFICES ASSUME Init PROVE BotInv
  OBVIOUS
<1> USE DEF Init
<1>1. HandTypes
  <2>1. ask = [m \in Message |-> Plain] /\ SayingSound(Plain)
    BY PlainSound
  <2>2. at \in [Message -> Place] /\ \A m \in Message : at[m] = "away"
    BY DEF Place
  <2>3. got \in [Message -> Hand]
    BY NothingHeld
  <2> QED
    BY <2>1, <2>2, <2>3 DEF HandTypes
<1>2. BotTypes /\ TasksSound /\ RefsSound
  BY <1>1 DEF BotTypes, CoreTypes, TasksSound, CompletedSound, BusySound, RefsSound
<1>3. ASSUME NEW m \in Message PROVE MessageInv(m)
  <2>1. Creates(m) = {} /\ Makes(m) = {} /\ saved[m] = <<>> /\ \A ops : LateOf(m, ops) = {}
    BY DEF Creates, Makes, LateOf
  <2>2. at[m] = "away" /\ answer[m] = "none" /\ got[m].rows = <<>> /\ got[m].id = 0
        /\ refs = <<>> /\ log = <<>>
    BY NothingHeld
  <2>3. Untouched(m) /\ OneAtMost(m)
    BY <2>1 DEF Untouched, OneAtMost
  <2>4. Stands(m) /\ Told(m)
    BY <2>1, <2>2, <2>3 DEF Stands, Told, Early
  <2>5. RefersOnce(m) /\ InOrder(m)
    BY <2>1, <2>2 DEF RefersOnce, InOrder
  <2> QED
    BY <2>3, <2>4, <2>5 DEF MessageInv
<1> QED
  BY <1>2, <1>3 DEF BotInv

LEMMA StillBot == ASSUME BotInv, UNCHANGED vars PROVE BotInv'
<1> USE DEF vars
<1>1. BotTypes' /\ TasksSound' /\ RefsSound'
  <2>1. BotTypes'
    BY DEF BotInv, BotTypes, HandTypes, CoreTypes, SayingSound, CallSound
  <2>2. TasksSound'
    BY DEF BotInv, TasksSound, CompletedSound, BusySound
  <2>3. RefsSound'
    BY DEF BotInv, RefsSound, RefSound, OwnTask, RanTo
  <2> QED
    BY <2>1, <2>2, <2>3
<1>2. ASSUME NEW m \in Message PROVE MessageInv(m)'
  <2>1. /\ Creates(m)' = Creates(m) /\ Makes(m)' = Makes(m)
        /\ \A ops : LateOf(m, ops)' = LateOf(m, ops)
    BY DEF Creates, Makes, LateOf
  <2>2. (Untouched(m) <=> Untouched(m)') /\ (InTurn(m) <=> InTurn(m)')
    BY <2>1 DEF Untouched, InTurn
  <2>3. OneAtMost(m)'
    BY <2>1 DEF BotInv, MessageInv, OneAtMost
  <2>4. Stands(m)'
    BY <2>1, <2>2 DEF BotInv, MessageInv, Stands, OwnTask, RanTo
  <2>5. Told(m)'
    BY <2>1, <2>2 DEF BotInv, MessageInv, Told, OwnTask
  <2>6. RefersOnce(m)' /\ InOrder(m)'
    BY <2>1 DEF BotInv, MessageInv, RefersOnce, InOrder, Kept
  <2> QED
    BY <2>3, <2>4, <2>5, <2>6 DEF MessageInv
<1> QED
  BY <1>1, <1>2 DEF BotInv

LEMMA NextBot == BotInv /\ [Next]_vars => BotInv'
<1> SUFFICES ASSUME BotInv, [Next]_vars PROVE BotInv'
  OBVIOUS
<1>1. ASSUME NEW m \in Message, Handle(m) PROVE BotInv'
  BY <1>1, RecordMessageStep, ReadPreferencesStep, SavePreferenceStep, ForgetStep,
     LanguageToCoreStep, MaybeRouteWorkStep, PostTaskStep, DryRunTaskStep, RunOwnTaskStep,
     RememberTaskStep, HumanizeStep, RunKnownTaskStep, GiveVerdictStep, UnknownTaskStep,
     ReadOnlyStep, LogAnswerStep, ReplyStep, EndOwnRunStep, EndKnownRunStep, RunFailsStep
     DEF Handle
<1> QED
  BY <1>1, ArriveStep, SendHelpStep, LateCallStep, CoreRunsStep, StillBot DEF Next

\* Whatever interleaving of handlers and late calls: the types, and for each
\* message what has been done for it, what it was told and what the memory holds
\* of it, as its handler's place in the code says.
THEOREM BotInvariant == Spec => []BotInv
<1>1. Init => BotInv
  BY InitBot
<1>2. BotInv /\ [Next]_vars => BotInv'
  BY NextBot
<1> QED
  BY <1>1, <1>2, PTL DEF Spec

-----------------------------------------------------------------------------
(* What follows from it.                                                   *)

\* A set of which any two members are one is empty or a singleton.
LEMMA AtMostOne ==
  ASSUME NEW S, \A x, y \in S : x = y
  PROVE  \/ S = {} /\ Cardinality(S) = 0
         \/ S # {} /\ Cardinality(S) = 1
<1>1. CASE S = {}
  <2>1. Cardinality({}) = 0
    BY FS_EmptySet
  <2> QED
    BY <1>1, <2>1
<1>2. CASE S # {}
  <2>1. PICK x : S = {x}
    BY <1>2
  <2> QED
    BY <1>2, <2>1, FS_Singleton
<1> QED
  BY <1>1, <1>2

\* A message sets preferences, or creates one task, or makes one thing: of the
\* handlers of discord_bot/, with what the core does after the bot gave up.
THEOREM OneEffectHolds == Spec => []OneEffect
<1>1. BotInv => OneEffect
  <2> SUFFICES ASSUME BotInv, NEW m \in Message
               PROVE  /\ Cardinality(Creates(m)) + Cardinality(Makes(m)) =< 1
                      /\ Saves(m) => Creates(m) \cup Makes(m) = {}
    BY DEF OneEffect
  <2>1. OneAtMost(m)
    BY DEF BotInv, MessageInv
  <2>2. /\ Cardinality(Creates(m)) = 0 \/ Cardinality(Creates(m)) = 1
        /\ Cardinality(Makes(m)) = 0 \/ Cardinality(Makes(m)) = 1
        /\ Cardinality(Creates(m)) = 0 \/ Cardinality(Makes(m)) = 0
    BY <2>1, AtMostOne DEF OneAtMost
  <2> QED
    BY <2>1, <2>2 DEF OneAtMost, Saves
<1> QED
  BY <1>1, BotInvariant, PTL

\* What the bot tells has happened has, and after a question nothing has.
THEOREM SuccessIsBackedHolds == Spec => []SuccessIsBacked
<1>1. BotInv => SuccessIsBacked
  <2> SUFFICES ASSUME BotInv PROVE SuccessIsBacked
    OBVIOUS
  <2>1. ASSUME NEW m \in Message
        PROVE  /\ Told(m) /\ got[m].rows \in Seq(Row) /\ saved[m] \in Seq(Row)
               /\ Len(saved[m]) \in Nat /\ Len(got[m].rows) \in Nat
    BY DEF BotInv, MessageInv, BotTypes, HandTypes, CoreTypes, Hand
  <2>2. ASSUME NEW m \in Message, InTurn(m)
        PROVE  \E n \in 0 .. Len(got[m].rows) : saved[m] = SubSeq(got[m].rows, 1, n)
    <3>1. PICK n \in 0 .. Len(got[m].rows) : n = Len(saved[m])
      BY <2>1, <2>2 DEF InTurn
    <3>2. \A i \in 1 .. n : got[m].rows[i] \in Row
      BY <2>1
    <3>3. PICK t : t = SubSeq(got[m].rows, 1, n)
      OBVIOUS
    <3>4. t \in Seq(Row) /\ Len(t) = n /\ \A i \in 1 .. n : t[i] = got[m].rows[i]
      BY <2>1, <3>2, <3>3
    <3>5. saved[m] = t
      <4>1. /\ saved[m] \in Seq(Row) /\ t \in Seq(Row) /\ Len(saved[m]) = Len(t)
            /\ \A i \in 1 .. Len(saved[m]) : saved[m][i] = t[i]
        BY <2>1, <2>2, <3>1, <3>4 DEF InTurn
      <4> QED
        BY <4>1, SeqEqual
    <3> QED
      BY <3>3, <3>5
  <2>3. ASSUME NEW m \in Message, answer[m] = "saved"
        PROVE  saved[m] = got[m].rows
    BY <2>1, <2>3, SeqEqual DEF Told, InTurn
  <2>4. ASSUME NEW m \in Message
        PROVE  /\ got[m].rows # <<>> => InTurn(m)
               /\ answer[m] = "result" /\ got[m].id # 0 => tasks[got[m].id].runs > 0
               /\ answer[m] = "checked" => got[m].id \in Creates(m)
               /\ answer[m] = "work" => [by |-> m, what |-> "work"] \in made
               /\ answer[m] = "proposal" => \E w \in made : w.what = "proposal"
               /\ answer[m] \in {"question", "talk", "hint", "seen", "help"} =>
                     ~Saves(m) /\ Creates(m) \cup Makes(m) = {}
    BY <2>1 DEF Told, OwnTask, Creates, Saves, Untouched
  <2> QED
    BY <2>2, <2>3, <2>4 DEF SuccessIsBacked
<1> QED
  BY <1>1, BotInvariant, PTL

\* task_references names tasks that have been run, each once, with the end that
\* run_task has left them for good, unless two runs of one overlapped.
THEOREM RefsHold == Spec => []RefsNameRunTasks
<1>1. BotInv => RefsNameRunTasks
  <2> SUFFICES ASSUME BotInv, NEW n \in DOMAIN refs
               PROVE  LET r == refs[n]  t == tasks[refs[n].id] IN
                      /\ t.by = r.by /\ t.runs > 0
                      /\ r.state # "ready"
                      /\ r.state \in {"completed", "failed"} =>
                            t.overlapped \/ t.state = r.state
                      /\ \A k \in DOMAIN refs \ {n} : refs[k].id # r.id
    BY DEF RefsNameRunTasks
  <2>1. \A k \in DOMAIN refs : RefSound(refs[k].by, refs[k].id, refs[k].state)
    BY DEF BotInv, RefsSound
  <2>2. refs[n].by \in Message
    <3>1. refs[n] \in RefRow
      BY DEF BotInv, BotTypes, CoreTypes
    <3> QED
      BY <3>1 DEF RefRow
  <2>3. ASSUME NEW k \in DOMAIN refs \ {n} PROVE refs[k].id # refs[n].id
    <3>1. refs[k].by # refs[n].by
      BY <2>2 DEF BotInv, MessageInv, RefersOnce
    <3> QED
      BY <2>1, <3>1 DEF RefSound, OwnTask
  <2> QED
    BY <2>1, <2>3 DEF RefSound, OwnTask, RanTo, Ends
<1> QED
  BY <1>1, BotInvariant, PTL

\* conversation_messages has an answer after its question, and a message that is
\* with the organ in view or pushed out by newer ones.
THEOREM DialogueHolds == Spec => []DialogueInOrder
<1>1. BotInv => DialogueInOrder
  <2> SUFFICES ASSUME BotInv, NEW m \in Message \ lost
               PROVE  /\ \A n \in DOMAIN log : log[n] = <<m, "assistant">> =>
                           \E k \in 1 .. n - 1 : log[k] = <<m, "user">>
                      /\ at[m] = "to_core" =>
                           \/ <<m, "user">> \in RecentMessages
                           \/ \E k \in 1 .. Len(log) - ContextLimit : log[k] = <<m, "user">>
    BY DEF DialogueInOrder
  <2>1. InOrder(m)
    BY DEF BotInv, MessageInv
  <2>2. ASSUME at[m] = "to_core"
        PROVE  \/ <<m, "user">> \in RecentMessages
               \/ \E k \in 1 .. Len(log) - ContextLimit : log[k] = <<m, "user">>
    <3>1. PICK k \in DOMAIN log : log[k] = <<m, "user">>
      BY <2>1, <2>2 DEF InOrder, Kept
    <3>2. k \in 1 .. Len(log) /\ Len(log) \in Nat /\ ContextLimit \in Nat
      BY BotAssumption DEF BotInv, BotTypes, CoreTypes
    <3>3. CASE k > Len(log) - ContextLimit
      BY <3>1, <3>3 DEF RecentMessages
    <3>4. CASE k =< Len(log) - ContextLimit
      BY <3>1, <3>2, <3>4
    <3> QED
      BY <3>2, <3>3, <3>4
  <2> QED
    BY <2>1, <2>2 DEF InOrder
<1> QED
  BY <1>1, BotInvariant, PTL
=============================================================================
