# A TLA+ model of the NeuroKernel AGI Seed

NeuroKernel AGI Seed is an agent runtime for a small board: a Core API
(FastAPI), a Discord bot in front of it, background workers fed by Redis
streams, an SQLite ledger that all of them write, a development worker that lets
Codex build patches, an activation pipeline that puts patches into the live
repository, and a set of micro worlds in which action gates and world models are
evaluated. This directory holds TLA+ specifications of the parts whose
correctness depends on the order in which things happen, TLC configurations that
check them on small instances, and TLAPS proofs of what matters most for
instances of any size. Paths below are relative to `src/neurokernel_seed/`
unless they begin with `docs/`, `tests/` or `README.md`.

Contents: 1 inventory, 2 modules, 3 runs, 4 bounds and fairness, 5 proofs,
6 where code and documents disagree, 7 what is not modelled, 8 plan.

## 1. Inventory

| part | state it keeps | operations | who it talks to |
|---|---|---|---|
| work items and jobs: `harness/work_service.py`, `harness/memory.py` | rows of `work_items`, `work_jobs`, `work_events` | create, change status, enqueue, retry, promote | threads of the API call it; it sends jobs to Redis |
| work queue: `harness/work_queue.py` | a Redis stream per queue, one consumer group, a dead-letter stream | XADD, XREADGROUP, XACK | the API adds, workers read |
| workers: `harness/worker.py` | where they are in `_process_message` | read, start, run, record, acknowledge, bury | ledger, Redis, self-patch runner |
| self-patch runner: `harness/self_patch.py` | a run directory, a git workspace, the child process | prepare, Codex session, tests, diff, artifacts; the watchdog loop around every command | run by a worker |
| activation: `harness/activation.py` | HEAD, index and tree of the live repository; rows of items and proposals | apply, test, roll back, verify, commit, reload, record | API and command line start it; git, the test command, the ledger |
| task runtime: `harness/service.py`, `harness/state_machine.py` | rows of `tasks`, `task_events`, `action_decisions`, `execution_results`, `approvals`, `failure_traces` | create, dry-run, run, approve, reject | threads of the API; safety gate, executors |
| safety gate: `harness/safety_gate.py`, `harness/task_spec.py` | none | decide on an action of a task | called by the task runtime |
| capability proposals: `harness/capability_service.py` | rows of gaps and proposals | record a gap, find a duplicate, propose, approve, reject, defer | the language organ's intents; it creates and moves work items |
| micro worlds: `envs/` | progress, revealed slots, an armed trap, hazard or missing precondition | reset, step, candidates, expert | agents, through the evaluator |
| action gate: `core/gate.py`, `predictors/` | none | score the candidates, choose | agents |
| evaluator: `eval/evaluator.py` | the current episode | run | a world and an agent |
| Discord bot: `discord_bot/` | a coroutine per message; through the Core API, preferences, conversation, task references | listen, `auto` and its routes, every command | the language organ, the Core API (in threads, with a time limit) |
| agent memory: `harness/memory.py`, `harness/preferences.py` | preferences, conversation, task references, agent events | set, forget, append, recall | the bot, over the Core API |
| language organ: `language/` | none | prompt a subprocess, validate what it answers | the bot |
| belief view: `core/belief.py` | none | what a model may see of a state | learned predictors, training data |
| replay and training data: `replay/` | files | snapshot, try candidates, score rows, write curricula, pick groups | worlds, belief view |
| training and release: `model/`, `nk_cli.py` | local run directories; releases and links on the edge machine | train, deploy, use, benchmark | operators' terminals; remote shell scripts over ssh |

What is hard in this code, part by part, and what makes each part correct:

* **Work pipeline.** Every handler opens its own connection and commits after
  every write, so handlers of two API threads and of workers interleave at each
  commit; Redis is a second store that no transaction covers. A message can be
  read before its row says queued, a worker can die with a message in hand, the
  reply to an XADD or an XREADGROUP can be lost, XACK can fail after the job is
  completed. Correct means: a job is run at most once, no message vanishes
  without a trace in the ledger or in the dead letters, a user is only asked to
  approve a patch that exists, one item has one job.
* **Task runtime.** `run` is four state changes, a decision, an execution and a
  result, each its own commit, and several requests for one task may be served
  at once or cut short by a restart. Correct means: nothing runs that needs an
  approval, tables agree with each other, a task is executed once and settles.
* **Activation.** A repository, a test command that takes minutes, and a ledger
  have to move together without a transaction. Correct means: HEAD was tested,
  the tree is clean at rest, the ledger claims no more than HEAD holds.
* **Proposals.** Three rows are created by three commits, verdicts come from
  buttons that several users may press, and a verdict moves two rows with two
  different transition tables.
* **Self-patch runner.** A watchdog with four clocks watches a process that may
  do anything; the tests see the workspace and the patch what git tracks of it.
* **Worlds and gate.** The rules of six worlds exist twice (in the worlds and in
  the symbolic predictor), and what a gate blocks decides whether an agent can
  reach the goal at all.
* **Replay data.** Rows are made in worlds rebuilt from snapshots, curricula
  write states down that nobody played, and features must not give a hidden
  slot away. Correct means: a rebuilt world behaves like the played one, what is
  taught is what the expert does, what is written down can be reached.
* **Model release.** Several terminals run multi-step commands against one edge
  machine; a remote script goes on when its client is gone. Correct means: a
  release is whole and never replaced, what is current can be loaded.
* **Bot.** Handlers of messages interleave at every call of the core, a call may
  be given up while the core still does it, and the language organ may answer
  anything its contracts let through. Correct means: a message has one effect,
  what the user is told has happened, memory is in order.

The hazards that follow from this are listed in `PROJECT.json`, each at its line
with the properties that would notice it going wrong.

## 2. Modules

| module | models | extends or instantiates |
|---|---|---|
| `WorkStates` | the two transition tables of `harness/work_states.py` | |
| `WorkPipeline` | items, jobs, streams, API threads and workers | `WorkStates`, `JobDelivery` |
| `JobDelivery` | abstract: at-most-once delivery of messages | |
| `WorkPipelineInv` | the inductive invariant of the message properties | `WorkPipeline` |
| `WorkPipelineHistory` | what raised a doubt so far, the properties that hold until then, their invariants | `WorkPipelineInv` |
| `WorkPipelineProofs` | proofs: types; messages and refinement; approvals; one job; one child | `WorkPipelineHistory` |
| `SafetyGate` | `check_action_safety` and the choice of an action | |
| `TaskRuntime`, `TaskRuntimeProofs` | tasks and the threads that serve requests for them | `SafetyGate` |
| `Activation`, `ActivationProofs` | activations, the repository, a user in between | `WorkStates` |
| `CapabilityProposals`, `CapabilityProposalsProofs` | gaps, proposals, their items and verdicts | `WorkStates` |
| `Watchdog` | `_run_command`: loop, clocks, child process | |
| `SelfPatchRun` | one run of the self-patch worker | |
| `SelfPatchRunProofs` | proofs: the run; the loop | `SelfPatchRun`, `Watchdog` |
| `MicroWorlds` | the six worlds: reset, step, candidates, expert | |
| `ActionGate` | scores, blocks, veto; the symbolic predictor | `MicroWorlds` |
| `Episode` | the evaluator's loop with every kind of agent | `ActionGate` |
| `Belief` | belief view and the encoder's features | `ActionGate` |
| `Counterfactual` | snapshots, restore, rows and scores, the search of a world | `Belief` |
| `SlotDataset` | flags and priority of a group of rows | `Counterfactual` |
| `Curriculum` | the states that curricula write down | `Counterfactual` |
| `EpisodeReplay` | properties of episodes in terms of the replay data | `Episode`, `Curriculum`, `SlotDataset` |
| `EpisodeProofs` | proofs: the worlds, the gate, the shortest way, the replay data | `EpisodeReplay` |
| `ModelRelease`, `ModelReleaseProofs` | training runs, releases, remote scripts | |
| `LanguageOrgan` | which answers the contracts let through | `SafetyGate` |
| `BotSession`, `BotSessionProofs` | handlers of messages, the memory, the core's calls | `LanguageOrgan` |
| `MC...` | instances for TLC, and history variables | the module named |

A module of proofs extends the module it is about; those of `TaskRuntime`,
`Activation` and `CapabilityProposals` extend its `MC` module, where the history
variables are.

### How state and actions correspond to the code

**WorkPipeline.** `status`, `parent`, `jobStatus`, `jobItem`, `attempts` are
columns; `result` and `recorded` stand for the events `job_completed` and the
result of the last run; `stream`, `pending`, `acked`, `dead` are Redis: what is
unread, the group's pending entries, what was acknowledged, the dead letters.
`req[r]` is an API thread with the local variables of its handler, `wk[w]` a
worker with those of `_process_message`. An action is one SQLite transaction or
one Redis command together with the local control flow up to the next one, so
every interleaving the two stores allow is one of the model's. A worker is
replaced after a crash by one with another id, as systemd and `worker.py:24` do.
`retry_wait` is a status of the code in which nothing retries the job; the model
has it for external work.

**TaskRuntime.** One action per commit of `service.py`'s handlers.
`thread[h].pc` says which statement comes next, `goal` the target of the
transition under way (checked in one step, written in another, as
`memory.py:61-66` does). `started` counts executions and `ran` collects executed
actions; neither is in the code, both exist for properties.

**Activation.** `head`, `index`, `tree` are sets of patches; `tested` is the set
of trees the test command has passed on, `verified` the patches whose smoke run
passed. One action per external command and per ledger transaction; the archive
after the commit is one. `Work` are the self-patch items, `Proposed` those made
for a proposal, `Promoted` those promoted from a parent, `Broken` those whose
patch fails the tests; preflight and verification may go either way each time.
An exception that no handler catches is a step too (`Raise`): it ends the
activation where it stands, with the item and the tree as they are.

**CapabilityProposals.** `gap`, `proposal`, `work`, `jobs`: rows, keyed by the
request that made them. One action per commit. Users also write statuses of
work items, and `accepted` queues a job, as the endpoint does; they enqueue and
retry an item by its name, whatever its proposal says. `Queuers(i)` are the
threads whose next step queues a job for item `i`.

**Watchdog.** Clocks `now`, `wake`, `activity`, `lastScan` as in the loop;
`changed` is whether the workspace signature differs from the last scan;
`progress` (history) is when the process last did anything. The child process
is the adversary: it reads its prompt or not, writes, touches files, exits, or
does nothing at all, at any tick.

**SelfPatchRun.** Which files the session edited and added, what the tests ran
on, what the patch holds, which artifacts are written. One action per command
and per written file. A worktree that cannot be made, a `git diff` that fails and
a command that cannot be started end the run (`Raise`).

**MicroWorlds, ActionGate, Episode.** A world is a record (what it was built
with), its state another; `StepWorld`, `ResetWorld`, `Candidates`,
`ExpertAction` are the methods. Scores are the code's floats times 300, which
makes every weight and every fraction an integer. The definitions were also
compared with the Python classes themselves, state by state, on every state of
the run: effects, candidates, expert actions, all scores of four modes and two
predictors, and choices agree. A predictor called `any` stands for learned
ones: of the candidates that a mode does not block it may prefer any.

**Belief, Counterfactual, SlotDataset, Curriculum.** Pure definitions over a
world and a state: `BeliefOf` and `Encode`; `Snapshot` and `Restore`, the scores
of rows in whole units; the flags of a group; the states of each curriculum.
They keep no state, so `EpisodeReplay` states properties of them in every state
that `Episode` passes through.

**ModelRelease.** `op[c]` is the command a terminal runs, with its position;
`sh[c]` the remote script it waits for, as the list of commands that are left;
`orphan` a script whose client is gone and which goes on. `run` are the local
run directories, `pkg` the directories on the edge machine, each artifact as
the number of the training that wrote it; `pointer` is `current.json` and the
two links. `hist` is history.

**LanguageOrgan, BotSession.** The organ is a subprocess that may write
anything: a kind of answer is the set of raw answers filtered by its validator
and cut down to what somebody reads. `at[m]` is where the handler of message
`m` stands, `got[m]` its local variables; each action is one call of the core,
which is done, refused, or given up by the client and done later or never
(`late`). `tasks`, `prefs`, `log`, `refs`, `made` are the core's rows;
`answer[m]` is what the user was told. What is inside a call is the business
of `TaskRuntime` and `CapabilityProposals`; here a call is one step, with one
exception. A run of a ready task is many: it begins (`Run`), writes statuses
(`GoOn`), and completes or fails the task (`Finish`) or raises (`Raise`, which an
action that needs an approval does as well, see `risky_run_strands`). `busy` are
the runs the core is at. Other calls come in between, and other runs of the same
task: those find it running and return at once, or, if they read its status
early enough, execute it as well and overwrite each other's end.
That two runs of a task overlapped is history, kept with the task.

## 3. Runs

Every property of a passing run has a mutant: a change to a definition, of the
kind a programmer might make, under which TLC finds the property violated. The
mutated definitions stand beside the originals and begin with "Mutant:".

| run | what it asks | what it shows |
|---|---|---|
| `pipeline` | one self-patch item, two API threads, two workers, two jobs, one fault of any of the kinds | `DeliveredOnce`, `AckedIsAccounted`, `ApprovalHasPatch` always; `OneJobWhenSerial` as long as requests do not overlap, no XADD reply is lost and no XACK of external work fails |
| `pipeline_live` | an external item and two children, both streams, fair thread and worker | `ImplementsDelivery` (refinement of `JobDelivery`), `PromotedGetsJob`, `DeliveredIsAcked`, `OneChildWhenSerial` |
| `tasks` | two threads, every request on one task of five kinds, a restart | `TablesAgree`, `RunsAreAuthorised` always; `ExecutedOnceWhenSerial`, `RunSettlesWhenSerial` while requests do not overlap |
| `risky_run_strands` | a task with a writing action is run | violation: it stays in `deciding` and never waits for an approval |
| `activation` | two activators, three work items (one whose patch fails the tests, one with a proposal, one promoted), a user, one fault of any kind: a command fails, the commit fails after it moved HEAD, an exception before or after the commit, a test timeout, a crash | `LedgerIsTrue` always; `LiveWasTestedWhenSerial` while activations do not overlap, `LiveIsCompletedUnlessCut` unless one is cut after the commit, `DecidesUnlessRaised` unless an exception that nothing catches, or a crash, ends one |
| `test_timeout_leaves_patch` | the tests time out | violation: the patch stays in the tree |
| `proposals` | two threads, two requests, two abilities, up to two faults; users ask for five statuses, enqueue and retry | `RowsBelongTogether` always; while requests about one thing do not overlap, `OneOpenWhenSerial`, and `VerdictsHold`: a verdict queues only approved proposals, a change of status only accepted items, any other job was asked for by name, and a rejection is final |
| `watchdog` | a process that does anything | `StalledMeansSilent`: stopped as stalled only after silence; `StallIsNoticed` within two idle periods; `CommandEnds` |
| `self_patch` | every session, test outcome, failure and death | `PatchHasTestedFiles`: a patch has the tested changes of tracked files; `OnlyGoodPatchesWait`: only tidy and tested patches wait for approval, and the analysis agrees |
| `worlds` | two episodes of every agent in 33 worlds | `WhoSolvesWhat`: which agents solve which worlds and which need the veto; `PredictionIsExact`: where the predictor is wrong, exactly; `ProbeLeavesNothingOut`, `TrainingPrefersExperts`, `CurriculumIsReachable`, `HiddenSlotsStayHidden`, `BeliefAgreesWithGate`: what the replay data makes of every state on the way, with each exception named |
| `release` | two terminals, two names, a training after an earlier one, two deployments, one use, benchmark, lost connection or kill | `ReleaseStands`, `OwnTrainingUnlessShared`, `PointersResolveUnlessLost`, `OneReleaseIsCurrentUnlessRaced`, `StagesAreCleanedUnlessLost` |
| `bot` | two messages of one user at once, every answer of the organ, refused calls, one call given up, runs that other calls and runs come in between | `OneEffect`, `SuccessIsBacked`, `DialogueInOrder` always; `RefsNameRunTasks`, whose clause about the end of a task excepts runs of it that overlapped |

Several properties carry "WhenSerial" or "Unless..." in their name: without the
condition the code does not keep them (see section 6). They are checked together
with the disturbance, so that what a disturbance may not break is seen too.

`CHECK_DEADLOCK FALSE` is in every configuration because every one of these
systems may rightly stop: users need not ask for anything, ids run out by the
bounds, and a command, a run and the last episode come to an end.

## 4. Bounds and fairness

* Two API threads and two workers are what an interleaving of check and write,
  or of two deliveries, takes; a third actor repeats the second. One fault at a
  time, at every place; faults in pairs were also tried for `pipeline` with one
  thread and hold, but take too long to keep as a run.
* Jobs: two, so that an item can have a second job (enqueue, retry). Items: one
  where interleavings of threads matter; a family of three where promotion does.
* `MaxAttempts` is 2 and 1: the code compares attempts with it, and
  `DeliveredOnce` shows that attempts never exceeds 1.
* `tasks`: one task is enough, because no handler reads the rows of another
  task; `MaxRequests` 3 allows an answer, a run and a second one; one restart.
* `activation`: three items cover what the code tells apart. Two activators,
  because API and command line are not excluded from each other. The user only
  rejects the item with a proposal (`UserWork`), which passes every step; what a
  changed status does to an activation is the same for the others, and the
  proofs are about any.
* `proposals`: two requests are what a duplicate and an overlap take, and an
  item each is enough for the enqueue paths, which read no other item. Two
  faults, because a crash between commits and a queue that is down may meet.
* `watchdog`: `Idle` 4, `Scan` 3, `Poll` 2, `Timeout` 20: no two are equal,
  so the loop meets its clocks in different orders. The
  proofs drop these numbers.
* `self_patch`: two tracked files, one of which the tests write, and a new one.
* `worlds`: the worlds of `envs/registry.py` and of `eval/hard_heldout.py`, nine
  with the steps that the generators of curricula give, and five on which agents
  run out of steps or of actions; the proofs need none of these numbers. Two
  episodes, because the second starts from what the first left in the world object.
* `release`: two terminals and two deployments, since what goes wrong takes one
  command between two steps of another; runs of an earlier training may be there
  at the start, so that one more training is a second one. `MaxExtras` 1 makes
  the uses, benchmarks, lost connections and kills come one at a time.
* `bot`: two messages, because handlers only meet in the rows they share and two
  runs of one task are what it takes to overlap; three
  actions (one that auto may run, one that only `do` runs, one that the gate
  holds back); one preference key; a context of 3 messages where the code has
  12, so that the window is overrun; one call that the client gives up.
  `Commands` leaves out `read` and `help`, which change nothing, and `task`,
  which begins like `run` and goes on like `plan`.

Fairness is only assumed of code that is already running: an API thread
finishes the handler it is in (`WF` on its steps), a running worker keeps
going, an activation or the watchdog loop goes on, time passes. Nobody has to
send a request, no process owes output, and faults never have to happen. Weak
fairness is enough because no step of one actor disables another's next one for
good. A crash ends a worker's obligation, and so does a restart a thread's.

## 5. Proofs

Every safety property of every passing run is a theorem: TLC checks it on a
small instance, TLAPS for every value of the constants. The assumptions are the named `ASSUME`s of the modules (`SelfPatch` is a set of
items, `None` is no item and no job, bounds are numbers, and the like) and the
hypotheses that a theorem states. The invariants were checked by TLC before they
were proved. The files follow one pattern: types, then an inductive invariant in
named parts, lemmas about what one step may touch, one step per action, and the
property as a consequence.

### WorkPipelineProofs

For any sets of items, jobs, threads, workers, any `MaxAttempts` and any number
of faults of any kind:

* `TypeCorrect`: `[]TypeInv`, the types together with what a position says about
  its own fields (a request about to write has a goal, a worker with a message
  has a job).
* `InductiveInvariant`: `[]IInv`. `DeliveredOnce` alone is not inductive: that a
  job is started once needs that its message was handed to one worker
  (`HolderInv`), hence that it was at one place of one stream (`StreamInv`),
  hence that it was sent once (`SenderInv`), hence that a job belongs to one
  request. `AttemptInv` counts starts along that chain, `SettleInv` says what is
  in the ledger before XACK is sent.
* `MessageStartedOnce`, `NothingLost`, `RunningRecoverable`: the safety
  properties as corollaries (`DeliveredOnce`, `AckedIsAccounted`,
  `RunningIsPending`).
* `DeliveryRefinement`: `Spec => Delivery!Spec`. The place of a message is read
  off the streams and the group; every step of the pipeline moves it as
  `JobDelivery` allows, or not at all.
* `ApprovalsHavePatches`: `[]ApprovalHasPatch`, if `waiting_approval` is not among
  the statuses that callers of the status endpoint ask for. That a status is
  written long after it was decided makes the property far from inductive:
  `WorkerGoals` and `RequestGoals` say which goals may be carried from a check to
  a write (a retry that is undone puts back what it found, which was no
  approval), `ResultInv` that a job which is under way has no result yet. That a
  result, once there, is never replaced rests on `IInv`: a job is started once
  and by one worker.
* `OneJobAlways`: `[]OneJobWhenSerial`. `JobInv` adds to `IInv` that a message
  which was not dealt with belongs to a job that is to be done (`MessagesToDo`:
  so no worker brings a finished job back), and that what a request has found
  out about jobs still holds when it writes (`RequestAlone`: no active job at
  `create`; none but its own until it has marked it queued, although a worker
  may complete it before). The proof says what a worker may do to jobs at all
  (`Works`) and derives the rest from that.
* `OneChildAlways`: `[]OneChildWhenSerial`, if users ask for no status that gives
  an item up. `ChildInv`: no goal that is carried from a check to a write gives
  an item up either (`NobodyGivesUp`), so a promotion that found no child to
  reuse found no child.

### TaskRuntimeProofs

For every catalog, every set of tasks and threads and any number of requests and
restarts:

* `RunsAuthorisedAlways` (`[]RunsAreAuthorised`). What a thread decided is used
  several commits later, while another thread may write the status: `TaskInv`
  ties what each thread is about to do to the decision or the approval that
  stands behind it (`Starts`, `Advances`). It uses that decisions and approvals
  are only ever added. The lemmas on `SafetyGate` (what the first suitable
  candidate is, that a task with an action that needs an approval never gets
  `allow` for it) come first.
* `TablesAlwaysAgree` (`[]TablesAgree`). `AgreeInv` adds what a thread that is
  about to complete or fail its task can show for it (`ThreadAgrees`, `Backed`),
  and that an execution leaves its action behind (`StartsAreRun`), because a
  completed dry run is one in which nothing was started.
* `ExecutedOnce` (`[]ExecutedOnceWhenSerial`). `SerialInv` follows the one thread
  that works at a task: `Creates`, `Runs`, `Settles` give the status that each
  position may find, `Exclusive` says that no other thread works or answers,
  `Once` that what was started cannot become ready again. A task with nothing to
  execute may fail while an answer is on its way (`Waits`), which is why an
  answer may find two statuses.
* `HistoryImplementsSpec`: `HistorySpec => Spec`, so what is proved of `Spec` holds
  with the history variable too.

### ActivationProofs

For any sets of patches, activators and users and every fault:

* `LedgerAlwaysTrue` (`[]LedgerIsTrue`) under two hypotheses: `CommitAfterApply`
  (with the setting off, what is called active was never committed) and that no
  user says `completed`. `ActInv` says that a patch under test is in the tree, so
  that no second activation of it applies (`OneTries`), hence that nobody rolls
  back what another published (`Settled`).
* `SerialLiveWasTested` (`[]LiveWasTestedWhenSerial`), without a hypothesis.
  `SerialInv`: what is verified and staged is the tree that the tests passed on,
  what is committed the index made of it. That two activations overlap is
  noticed by counting those under way; the proof turns the count into "all
  others are idle".
* `LiveIsCompletedAlways` (`[]LiveIsCompletedUnlessCut`) with `CommitAfterApply`
  and `RequireCleanGit` (a dirty tree would be committed along). `CompletedInv`
  relates HEAD, index and tree at every position: before the commit they differ
  by the one patch at most (`Pending`), after it by nothing (`Live`).
* `ActivationDecides` (`DecidesUnlessRaised`, an action property), if no user may
  put an item back to `waiting_approval`. `DecidedInv`: whoever has recorded its
  item has decided it. That the exceptions
  of the property are the only ones in the code is what the model says of each
  command: `_fail_activation` or `Raise` (section 6).

### CapabilityProposalsProofs

For any requests, abilities, threads and crashes:

* `RowsAlwaysBelongTogether` (`[]RowsBelongTogether`). `RowsInv` adds what a
  thread between two of the three commits has made (`ThreadsAreSound`), that two
  threads never make the rows of one request (`OneMakes`), and that a duplicate
  is not being made any more (`DuplicatesAreOver`).
* `OneProposalIsOpen` (`[]OneOpenWhenSerial`) and `VerdictsAlwaysHold`
  (`VerdictsHold`, an action property, for whatever statuses users ask for).
  `Steady` is the point: what a request has found out (no open proposal; a
  verdict that the table allows; an approval that stands; a work item that is
  accepted, by a verdict or by a change of status) still holds at each later
  commit. Jobs asked for by name have no such condition in the code; the property
  tells them apart and claims nothing of them.

### SelfPatchRunProofs

Of `SelfPatchRun` it proves for any sets of files `GoodPatchesWait`
(`[]OnlyGoodPatchesWait`), `PatchWasTested` (`[]PatchHasTestedFiles`) and
`WellFormedAlways` (`[]RunIsWellFormed`: types, and that a directory with a
summary is complete). `RunInv` follows what of the tested files is still the same
from the tests to the patch, and the artifacts from step to step.

Of `Watchdog` it proves for every `Timeout`, `Idle`, `Scan`, `Poll` and `Grace`
that the clocks stay ordered (`TypeAlways`), that a process which does nothing
is noticed within two idle periods and two polls (`StallAlwaysNoticed`: a
touched file before the last output counts once more, which is why it is two),
that a command is stopped within a poll of its timeout (`TimeoutAlwaysHolds`),
and that a process stopped as stalled was silent, if scans are no rarer than the
idle timeout (`StalledIsSilent`; without that assumption it is false, and the
code does not enforce it: `self_patch.py:593`). The invariant `Near` bounds how
far each clock runs ahead of the next.

### ModelReleaseProofs

For any terminals, names, trainings and deployments. The assumption on the
constants is that "none" is no name and "orphan" no terminal. `ReleaseInvariant`
(`[]ReleaseInv`) has six parts, since the properties have different conditions:

* `StructureInv` holds always: types; a deployment number belongs to one command
  (`CommandInv`); a terminal waits for the script it started (`ScriptInv`); a
  script that nobody waits for works at a deployment that was given up, if it is
  anyone's (`OrphanInv`); a directory that was not uploaded is empty, and a
  script moves the directory of its own name (`PackageInv`); a name is released
  once. The last is what `ReleasesStand` (`ReleaseStands`, an action property)
  rests on: `mv` onto a name that is taken nests.
* `UncutInv`, until a connection is lost: where the directory of a deployment is
  at each position of its command. `StagesAreCleaned` follows.
* `PointerInv`: what the pointers name, and what a script is about to link, was
  released. With `UncutInv`, a release is whole: `PointersResolve`.
* `RaceInv`, until activations race or are cut: how far the three pointers have
  got. `OneReleaseIsCurrent` follows, for benchmarks too.
* `OwnNumbers` and `OwnInv`, until somebody trains into a directory in use: what
  the directory of a training holds at each position of its command, up to the
  upload. `OwnTraining` follows.

### BotSessionProofs

For any messages, commands, tasks and every answer that the contracts of the
language organ let through. `BotInvariant` (`[]BotInv`): types; tasks, their runs
and references point at what exists (`TasksSound`, `RefsSound`; a run that nobody
overlapped has its task to itself, and a task that nobody overlapped keeps its
end); and for every message five facts: it has had one effect at most and what is
late counts (`OneAtMost`), what has been done by each position (`Stands`), what
the user is told and why it is so (`Told`), one reference (`RefersOnce`), the
user's line before the assistant's (`InOrder`). `OneEffectHolds`,
`SuccessIsBackedHolds`, `RefsHold` and
`DialogueHolds` are its consequences.

The argument is modular. A step is about one message: it leaves the others
`Apart`, and the core's tables only grow (`Grows`), which keeps what is known of
the others. Most calls have no effect that a property is about (`Quiet`,
`EarlyCall`, `FailAgain`); each that has one (create, save, make, run, verdict,
remember, log) has a lemma of its own, and a call that is done after the bot has
given up on it has one by kind (`LateEffect`, `LateHand`, `LateMemory`). A run has
one per step of the core (`RunTask`, `AdvanceTask`, `OwnRunEnded`, `KnownRun`,
`RunFailsStep`), put together in `CoreRunsStep`.

### EpisodeProofs

For every set of worlds that can be built (`IsWorld`, which `EpisodeAssumption`
asks of the constant `World`): codes, chains and doors of any length, any number
of steps, every agent, any number of episodes. The facts about single states
rest on one invariant, `EpisodeInv` (`StateSound`: types, when an episode is over,
what stays revealed, and that an armed world has no progress); what an action
does is written as one lemma per family of worlds (`LockEffectIs`,
`MazeEffectIs`, `ToolEffectIs`), and what is offered as `CandidatesAre`, for which
the chain's "each tool once" needs that the n-th member of a finite set of
numbers exists (`NthMember`).

* `EpisodeType` (`[]TypeOK`).
* `PredictorIsExact` (`[]PredictionIsExact`), `BeliefIsTheGates`
  (`[]BeliefAgreesWithGate`), `ProbesAreFaithful` (`[]ProbeLeavesNothingOut`) and
  `FeaturesKeepSecrets` (`[]HiddenSlotsStayHidden`) follow from `EpisodeInv`, case
  by case. Where the code has exceptions the properties are equivalences, so
  that the proof shows that there are no others.
* `BaselinesSolveWorlds` (`[]WhoSolvesWhat`) under one hypothesis: no world is
  `Blind`, a hidden tool chain of `summarize` alone. That one is solved by a guess,
  a step earlier than the property says; no generator makes it. `WhoInv` is the
  inductive invariant. That a baseline is `OnTheWay` (steps taken, slots left and
  things left to prepare add up to the length of the shortest way) is kept by
  every `Good` action, one that prepares what is pending and otherwise does what
  is wanted (`GoodStep`). The rest of the proof is that agents choose good
  actions. For the expert this is its definition. For the gate it takes bounds on
  scores, which are fractions of goals of unknown length: what the prior gives to
  what is wanted and to anything else (`WantedPrior`, `OtherPrior`,
  `HiddenPrior`), what the model can add or take away (`LockModel`, `MazeModel`,
  `ToolModel`), and when the veto lets an action escape its block
  (`ArmedIsSetUp`). That a gate without a veto is `Stuck` in an armed world whose
  next action it knows is another part of the invariant (`WithoutVeto`, and
  `WithoutVetoOfAny` for predictors of which nothing is known).
* `RowsTeachTheExpert` (`[]TrainingPrefersExperts`). `LockRows`, `MazeRows` and
  `ToolRows` say what each candidate scores, in terms of the length of the goal
  and of what is known; which is the best is then arithmetic (`LockTops`,
  `MazeTops`, `ToolTops`), and so is where a guess wins.
* `CurriculaAreReachable` (`[]CurriculumIsReachable`). The search of
  `Counterfactual` is a recursive function over layers; that it exists is shown
  by a least counterexample (`LayersExist`), not by an induction theorem. All
  that is used of it after that: it starts at the start and goes on by every
  candidate (`SearchStarts`, `SearchGoesOn`), and what is closed under both
  contains it (`FoundWithin`). `FoundInv` says that episodes stay within it. That
  a state of one of the four impossible kinds is not found is an invariant of the
  search (`ComesUp`); that every other state of a curriculum is found is a path
  to it: idle at the start until the rest of the way fits (`FoundIdles`), do what
  is right (`FoundRights`), reveal (`FoundRevealed`) or stay armed
  (`FoundStillArmed`).

Definitions were given the form that these proofs need, without saying anything
else of the code: goals and worlds got names (`GoalActions`, `IsWorld`), the
candidates of a chain and the first of the best are chosen instead of folded
(`FirstUses`, `FirstBest`). Three things came out of the proofs: `Blind`; that
`CurriculumIsReachable` needs what the generators of tool chains guarantee, that
they end with `summarize` after something else (`Chain`; for a chain of one tool,
which nobody generates, it is false); and that a condition which
`TrainingPrefersExperts` once had was idle, so that it is gone.

### Only model-checked

* Liveness (`PromotedGetsJob`, `DeliveredIsAcked`, `RunSettlesWhenSerial`,
  `CommandEnds`): arguments with ENABLED are outside this prover's reach.
* The two violations, which are behaviours, not theorems.

## 6. Where code and documents disagree

Two disagreements are runs: `risky_run_strands` (README.md:10 sends dangerous
work to an approval flow) and `test_timeout_leaves_patch`
(`docs/09_agi_seed_harness_v0.md`:129 takes a patch back when its tests fail).

Four more contradict a document and are exceptions of a passing run:

* README.md:11 calls the queue durable. The message of a worker that died stays
  in the group's pending entries and nothing claims it (`work_queue.py:74`);
  `DeliveredIsAcked` is therefore claimed of workers without faults.
* README.md:134 makes `proposal.patch` of what Codex changed. `git diff`
  (`self_patch.py:141`) leaves out files that git does not track yet, although
  the tests saw them; `PatchHasTestedFiles` is about tracked files.
* `docs/07_vnext_implementation_checklist.md`:83 has known slots represented
  without leaking hidden answers. A maze's features hold its target door before
  its hint was seen (`slot_dataset.py:700`); `HiddenSlotsStayHidden` says so.
* `docs/09_agi_seed_harness_v0.md`:131 puts the work item back to `reviewing` when
  an activation fails. Some failures raise past `_fail_activation` and leave it
  in `waiting_approval`: no `patch_ready` result, or its patch missing or outside
  the root (`activation.py:56`, `:58`); `git rev-parse` or `git status` failing
  (`:63`, `:65`); a timeout of the tests (`:91`) or of a rollback (`:94`, `:106`,
  `:120`); an exception of the smoke run (`:210`); and after the commit, when the
  patch is live, a timeout of the reload (`:132`), `git rev-parse` (`:143`) and the
  archive (`:159`). `DecidesUnlessRaised` excepts them. A
  commit that times out (`:229`) is caught, but HEAD may have moved: the item is
  then in `reviewing` and its patch live, which `LiveIsCompletedUnlessCut` excepts.

Others were seen while modelling. They are what the conditional properties
exclude, or what a map entry had to say; each can be reproduced by dropping the
condition or widening the instance:

* `work_service.py:107`: the message is readable before the row says queued; a
  fast worker completes the job and the late update puts `queued` back over it,
  and the item then counts as having an active job for ever.
* `work_service.py:85`, `capability_service.py:75`: look, then create, in two
  transactions: two requests at a time create two jobs, two open proposals.
* `memory.py:524`, `memory.py:62`, `memory.py:866`: the transition table is asked
  about one status and the UPDATE overwrites whatever is there then. A rejected
  task can become ready again, a cancelled item can wait for an approval, a
  rejected proposal can be approved.
* `work_service.py:181`: a child that a user gave up while its job runs is not
  reused, and its worker's late write makes it live beside its successor.
* `work_service.py:155`: `retry` creates its job before a transition that may be
  refused; the job stays `created` and counts as active.
* `worker.py:41`: an exception from XREADGROUP other than a timeout ends the
  loop. External work that fails is put to `retry_wait`, which nothing reads.
* `worker.py:94`, `memory.py:694`: when the XACK of external work fails, the
  except clause puts the job, completed by then, to `retry_wait`, where it counts
  as active for ever: the item never gets another job by itself, and a job that
  was made in between is a second active one. `OneJobWhenSerial` ends its claim
  there. (It came up when the proof of it did not go through.)
* `work_queue.py:185`: jobs of type `runtime_task` go to a queue that no worker
  is configured to read.
* `safety_gate.py:54` and `service.py:327`: an action with a side effect asks for
  an approval even in a task that was approved, because `run` never passes the
  approval on; such a task can be approved but not run.
* `service.py:207`: a dry-run mode skips statuses that the transition table has.
* `service.py:173`: the event of a dry run is inserted after the last commit and
  is rolled back when the connection closes.
* `activation.py:227`: `git add -A` takes what another activation has put into
  the tree; two activations at once can commit a patch that no test saw.
* `activation.py:53`: an item that is rejected while its tests run goes live.
* `activation.py:161`: after a crash between commit and ledger the patch is live
  and the item still waits for an approval.
* `capability_service.py:106`: the proposal's table lets a deferred proposal be
  approved, the work item's table does not; the refusal is swallowed and nothing
  is queued. The other way round, a rejection after an approval leaves the item
  accepted and its job queued.
* `work_service.py:78`, `:82`, `:114`: setting a work item to `accepted`, the
  enqueue endpoint and retry queue a job whatever the proposal of the item says;
  only verdicts on proposals ask for an approval.
* `service.py:186`, `memory.py:62`: two runs of one task may both find it ready and
  execute it, and the statuses are written whatever is there: `completed` is
  overwritten by `failed`, or the other way round, while the answer and the task
  reference of the first keep what it saw. A run that finds the task `running`
  answers so at once, and the reference says `running` for good.
* `capability_service.py:66`: the catalog is loaded when the service starts, so an
  ability that was activated since is proposed again.
* `capability_service.py:194`: a proposal without a name is refused after its work
  item was created.
* `self_patch.py:593`: with scans rarer than the idle timeout a process that
  only writes files is stopped as stalled.
* `self_patch.py:566`: a prompt larger than the pipe blocks the worker before the
  watchdog loop begins, if the process does not read it.
* `core/gate.py:306`: `docs/06_benchmark_protocol.md`:123 says "If the current
  required action is known, incompatible actions are hard-blocked in `hybrid`
  mode.", but actions that are terminal only are blocked by `can_finish` alone:
  once the hint is seen, every door of a maze is open to the gate. What
  keeps a gate from the others is only that they score less.
* `envs/tool_world.py:106`: the expert reveals a hidden slot with `search`, which
  a sequence need not contain; the evaluator then raises a ContractError. The
  curricula of `replay/slot_dataset.py` make such sequences.
* `envs/model_needed.py:31`, `:335`: `reset` arms the trap and forgets the
  precondition whatever the world was built with; `restore` at `:234` leaves
  `initial_hazard_active` as it was.
* `predictors/symbolic.py:46`, `:66`, `:88`: three rules differ from the worlds',
  listed in `PredictorErrs`: a reset arms the trap again, `search` costs no stage
  once the tools are set up, and a maze without hazard opens without a hint.
* `release.py:309`: `docs/10_training_pipeline.md`:130 has a deployment fail if its
  name is taken. Two deployments of one name at a time may both find it free;
  the second `mv` then puts its stage inside the first release and succeeds. The
  first release keeps its files, which is what `ReleaseStands` says.
* `release.py:470`: after a lost connection the client removes the stage that the
  script it takes for failed is about to move; the release can end up empty.
* `release.py:488`: `current.json` and the two links are three commands; activations
  at the same time, or cut short, leave them naming different releases.
* `counterfactual.py:553`: the score of a row prefers a lucky guess to looking for
  the last slot and in codes of two (`GuessPays`); `counterfactual.py:326`: four
  kinds of states that the curricula write down cannot be reached (`Impossible`).
* `discord_bot/commands.py:98`: the help says that `do` only runs safe lookups;
  `handle_do` runs whatever the gate allows, a benchmark for instance.
* `discord_bot/command_handlers.py:216`: a route `clarify` without a question falls
  through to the automatic run of a task.
* `discord_bot/task_commands.py:29`: when the run is over and only its wording
  fails, the user is told that the command failed. `SuccessIsBacked` goes one way
  for that reason: a success told is one, a failure told need not be.
* `discord_bot/core_client.py:46`: the client gives up after 60 seconds; what it
  asked for may happen all the same, and the user was told that it failed.
* `harness/preferences.py:12`: of a global preference and one of the channel, the
  one that was listed last wins, whichever is more specific.
* `core/belief.py:151`: `int(... or -1)` turns an observation of slot 0 into -1,
  where `tests/test_slot_dataset.py`:184 has slot 0; and for mazes the required
  value of a belief is taken from the list of doors, not from the target.

## 7. What is not modelled

Listed with the reason per component in `PROJECT.json`. In short: input and
output without state (executors, reports, command line parsing, formatting of
messages), numeric code (training, ONNX and RKNN inference, benchmarks), what the
language model answers, and the wording of prompts, notes and artifacts.
Authentication, HTTP codes and work notes are left out of the handlers that are
modelled, since no state change depends on them. The Redis client's group
creation is left out; streams are never trimmed in the code nor here. A commit
of SQLite is atomic and durable, and `git` commands are atomic except where the
code reacts to their failure.

Of the bot, the notification loop, the buttons and the changing subcommands of
`work` are left out: the calls they make of the core are actions of
`WorkPipeline`, `CapabilityProposals` and `Activation`, and the loop itself keeps
only a set of what it has announced. Agent events are an audit log on which no
code path decides. Of the replay side, the splits between training and test, the
random tie break and the ratios of the dataset gates are left out, and so is the
older flat dataset.

## 8. Plan

Done, in this order: `WorkStates`, `WorkPipeline` with `JobDelivery` and its
proofs; `SafetyGate`, `TaskRuntime`; `Activation`; `CapabilityProposals`;
`Watchdog`, `SelfPatchRun`; `MicroWorlds`, `ActionGate`, `Episode`;
`ModelRelease`; `Belief`, `Counterfactual`, `SlotDataset`, `Curriculum`,
`EpisodeReplay`; `LanguageOrgan`, `BotSession`; the proofs of `TaskRuntime`,
`Activation`, `CapabilityProposals`, `SelfPatchRun`, `ModelRelease`, `BotSession`,
of the pipeline's approvals, jobs and children, and of the worlds, the gate and
the replay data for worlds of any size. Every safety property that a passing run
checks is a theorem now.

What is left, most important first:

1. `Notifier`: the bot's polling of work items (`seen` is set before the message
   is sent; the listing holds 30 items; status and detail are two calls). A state
   that waits for the user is announced, or a later one is; never twice.
2. Composition: `SelfPatchRun` whose commands run through `Watchdog`, as the
   runner of `WorkPipeline`, and `Activation` after it: from an accepted item to
   a completed one.
3. Agent events: the append that ignores a key it has, as an abstract
   append-once log.
