------------------------------ MODULE Watchdog ------------------------------
(***************************************************************************)
(* How a self-patch run executes a command (_run_command in                *)
(* harness/self_patch.py): the prompt is written to the process, and then  *)
(* a loop polls it, stops it after Timeout, and stops it as stalled when   *)
(* it has neither written output nor changed the workspace for Idle.  A    *)
(* reader thread notes the time of each line of output; the workspace is   *)
(* scanned only when the output alone would make the process stalled.      *)
(*                                                                         *)
(* Time is a number of ticks since the loop began.  The loop wakes when it *)
(* is due; a scan takes no time.  Left out: the text of the output, and    *)
(* what follows the end of the process (joining the reader threads).       *)
(***************************************************************************)
EXTENDS Naturals

CONSTANTS
    Timeout,   \* timeout_seconds, 0 for none
    Idle,      \* idle_timeout_seconds, 0 for none
    Scan,      \* watchdog_file_scan_seconds
    Poll,      \* watchdog_poll_seconds, at most a second
    Grace,     \* how long a terminated process may take before it is killed
    Prompt,    \* the size of the prompt
    PipeSize   \* what a pipe holds

ASSUME WatchdogAssumption ==
    /\ {Timeout, Idle, Prompt} \subseteq Nat
    /\ {Scan, Poll, Grace, PipeSize} \subseteq Nat \ {0}

VARIABLES
    loop,      \* where _run_command is
    proc,      \* the process
    written,   \* how much of the prompt was written
    read,      \* how much of it the process has read
    now,       \* ticks since the loop began
    wake,      \* when the loop, or the wait for the process, is due
    activity,  \* activity["last"]
    lastScan,  \* last_workspace_check
    changed,   \* the workspace differs from last_workspace_signature
    progress,  \* when the process last wrote output or changed the workspace
    code       \* the return code

watchdogVars == <<loop, proc, written, read, now, wake, activity, lastScan,
                  changed, progress, code>>

-----------------------------------------------------------------------------
\* "own" stands for whatever the process returned itself.
Code == {"none", "own", "timed_out", "stalled"}

WatchdogTypeOK ==
    /\ loop \in {"feed", "watch", "terminate", "kill", "done"}
    /\ proc \in {"running", "exited"}
    /\ written \in 0..Prompt /\ read \in 0..written
    /\ now \in Nat /\ wake \in Nat
    /\ activity \in 0..now /\ lastScan \in 0..now /\ progress \in 0..now
    /\ changed \in BOOLEAN
    /\ code \in Code

WatchdogInit ==
    /\ loop = "feed"
    /\ proc = "running"
    /\ written = 0 /\ read = 0
    /\ now = 0 /\ wake = 0
    /\ activity = 0 /\ lastScan = 0 /\ progress = 0
    /\ changed = FALSE
    /\ code = "none"

-----------------------------------------------------------------------------
(* _run_command                                                            *)

\* proc.stdin.write blocks while the pipe is full.  A process that is gone
\* breaks the pipe, which is caught.
Feed ==
    /\ loop = "feed"
    /\ \/ /\ written < Prompt
          /\ written - read < PipeSize
          /\ written' = written + 1
          /\ UNCHANGED loop
       \/ /\ written = Prompt \/ proc = "exited"
          /\ loop' = "watch"
          /\ UNCHANGED written
    /\ UNCHANGED <<proc, read, now, wake, activity, lastScan, changed,
                   progress, code>>

Due == loop = "watch" /\ now >= wake

TimedOut == Timeout > 0 /\ now >= Timeout

Silent == Idle > 0 /\ now - activity >= Idle

ScanIsDue == now - lastScan >= Scan

\* proc.poll() answers: its own return code is kept.
Finish ==
    /\ Due
    /\ proc = "exited"
    /\ loop' = "done"
    /\ code' = "own"
    /\ UNCHANGED <<proc, written, read, now, wake, activity, lastScan, changed,
                   progress>>

\* The loop is left with a stop reason and the process group is terminated.
Stop(reason) ==
    /\ code' = reason
    /\ loop' = "terminate"
    /\ wake' = now + Grace
    /\ UNCHANGED <<proc, written, read, now, activity, changed, progress>>

StopAtTimeout ==
    /\ Due
    /\ proc = "running"
    /\ TimedOut
    /\ Stop("timed_out")
    /\ UNCHANGED lastScan

\* Mutant: last_workspace_signature keeps its first value.
ExtendForgets ==
    /\ Due
    /\ proc = "running"
    /\ ~TimedOut /\ Silent
    /\ ScanIsDue /\ changed
    /\ lastScan' = now
    /\ activity' = now
    /\ UNCHANGED <<loop, proc, written, read, now, wake, changed, progress, code>>

\* The workspace has changed since the last scan: that counts as activity, and
\* the loop goes round at once.
Extend ==
    /\ Due
    /\ proc = "running"
    /\ ~TimedOut /\ Silent
    /\ ScanIsDue /\ changed
    /\ lastScan' = now
    /\ changed' = FALSE
    /\ activity' = now
    /\ UNCHANGED <<loop, proc, written, read, now, wake, progress, code>>

\* Mutant: the workspace is not looked at.
StopStalledUnscanned ==
    /\ Due
    /\ proc = "running"
    /\ ~TimedOut /\ Silent
    /\ Stop("stalled")
    /\ UNCHANGED lastScan

\* No scan was due, or it found nothing.
StopStalled ==
    /\ Due
    /\ proc = "running"
    /\ ~TimedOut /\ Silent
    /\ ~(ScanIsDue /\ changed)
    /\ Stop("stalled")
    /\ lastScan' = IF ScanIsDue THEN now ELSE lastScan

Sleep ==
    /\ Due
    /\ proc = "running"
    /\ ~TimedOut /\ ~Silent
    /\ wake' = now + Poll
    /\ UNCHANGED <<loop, proc, written, read, now, activity, lastScan, changed,
                   progress, code>>

\* Mutant: proc.wait() without a timeout.
TerminatedWaits ==
    /\ loop = "terminate"
    /\ proc = "exited"
    /\ loop' = "done"
    /\ UNCHANGED <<proc, written, read, now, wake, activity, lastScan, changed,
                   progress, code>>

\* proc.wait(timeout=5), and SIGKILL if that expires.
Terminated ==
    /\ loop = "terminate"
    /\ proc = "exited" \/ now >= wake
    /\ loop' = IF proc = "exited" THEN "done" ELSE "kill"
    /\ UNCHANGED <<proc, written, read, now, wake, activity, lastScan, changed,
                   progress, code>>

Killed ==
    /\ loop = "kill"
    /\ proc' = "exited"
    /\ loop' = "done"
    /\ UNCHANGED <<written, read, now, wake, activity, lastScan, changed,
                   progress, code>>

-----------------------------------------------------------------------------
(* The process, its workspace and time                                     *)

ReadPrompt ==
    /\ proc = "running"
    /\ read < written
    /\ read' = read + 1
    /\ UNCHANGED <<loop, proc, written, now, wake, activity, lastScan, changed,
                   progress, code>>

\* A line of output, and _pipe_reader's note of it.
Output ==
    /\ proc = "running" /\ loop = "watch"
    /\ activity' = now
    /\ progress' = now
    /\ UNCHANGED <<loop, proc, written, read, now, wake, lastScan, changed, code>>

\* A change that _workspace_signature sees.
Touch ==
    /\ proc = "running" /\ loop = "watch"
    /\ changed' = TRUE
    /\ progress' = now
    /\ UNCHANGED <<loop, proc, written, read, now, wake, activity, lastScan, code>>

Exit ==
    /\ proc = "running"
    /\ proc' = "exited"
    /\ UNCHANGED <<loop, written, read, now, wake, activity, lastScan, changed,
                   progress, code>>

\* Time passes while the loop sleeps or waits, and not beyond what is due.
Tick ==
    /\ loop \in {"watch", "terminate"}
    /\ now < wake
    /\ now' = now + 1
    /\ UNCHANGED <<loop, proc, written, read, wake, activity, lastScan, changed,
                   progress, code>>

-----------------------------------------------------------------------------
Command ==
    \/ Feed \/ Finish \/ StopAtTimeout \/ Extend \/ StopStalled \/ Sleep
    \/ Terminated \/ Killed

Process == ReadPrompt \/ Output \/ Touch \/ Exit

WatchdogNext == Command \/ Process \/ Tick

WatchdogSpec == WatchdogInit /\ [][WatchdogNext]_watchdogVars

\* The loop runs and time passes; the process owes nothing.
FairSpec == WatchdogSpec /\ WF_watchdogVars(Command) /\ WF_watchdogVars(Tick)

-----------------------------------------------------------------------------
(* Properties.                                                             *)

\* "Command stalled after N seconds without output or workspace changes": that
\* is what happened when the process is stopped as stalled.
StalledMeansSilent ==
    [][code = "none" /\ code' = "stalled" => now - progress >= Idle]_watchdogVars

\* A process that does nothing is noticed: a change before the last output may
\* count once more, so the silence may last two rounds of Idle and a poll each.
StallIsNoticed ==
    loop = "watch" /\ Idle > 0 => now - progress <= 2 * (Idle + Poll)

\* A process that runs is stopped within a poll of Timeout.
TimeoutHolds == loop = "watch" /\ Timeout > 0 => now <= Timeout + Poll

\* The run of a command ends, whatever the process does or fails to do.
CommandEnds == <>(loop = "done")
=============================================================================
