--------------------------- MODULE BroadcastRuntime ---------------------------
(***************************************************************************)
(* The broadcast engine of louver-core: BroadcastRuntime (runtime.rs), the *)
(* StreamSupervisor it owns (streaming/supervisor.rs), the session file    *)
(* (session/mod.rs), and around them the FFmpeg processes, the reader      *)
(* threads, the user of the desktop application, crashes and relaunches.   *)
(*                                                                         *)
(* The runtime lives behind one mutex (AppState.runtime), so each of its   *)
(* methods is one atomic action.  What is concurrent with it is what does  *)
(* not take the mutex: FFmpeg, the stdout reader threads, the clock, the   *)
(* schedule editor, and the death of the application itself.               *)
(*                                                                         *)
(* `rt' is the runtime's memory together with the things only its methods  *)
(* write: the process table and the session file.  The methods are         *)
(* operators from such a record to the next one, composed exactly in the   *)
(* order the code calls them; the actions at the end choose the inputs.    *)
(* Backoff delays (seconds) are far below the clock's tick (hours), so a   *)
(* pending timer is a flag and a tick finds it due or not due.             *)
(***************************************************************************)
EXTENDS Scheduler, StreamMachine

CONSTANTS
    Pids,               \* process identifiers the operating system can give
    NoPid,              \* Option::None of a process
    ScheduleTable,      \* the saved schedules at the first launch
    StartTime, EndTime, \* the local time runs from StartTime to EndTime
    RestoreOnLaunch,    \* the setting scheduler_restore_on_launch
    World               \* what a model lets happen around the runtime

Disturbances == {"edit", "local_test", "stall", "exit", "crash"}

ASSUME RuntimeAssumption ==
    /\ NoPid \notin Pids
    /\ ScheduleTable \subseteq {s \in Schedule : Valid(s)}
    /\ StartTime \in Nat /\ EndTime \in Nat /\ StartTime <= EndTime
    /\ RestoreOnLaunch \in BOOLEAN
    /\ World \subseteq Disturbances

VARIABLES
    rt,         \* the runtime, the processes and the session file
    up,         \* is the application running?
    now,        \* local wall clock
    schedules,  \* the schedules table
    armed_row,  \* the setting scheduler_armed in the database
    seen        \* history, for stating properties only (see Seen)

vars == <<rt, up, now, schedules, armed_row, seen>>

Reason  == {"None", "Manual", "Scheduled", "Recovered"}
OptOcc  == Occurrence \cup {NoOcc}
OptPid  == Pids \cup {NoPid}

\* An operating-system process: no such process, publishing, alive but blocked
\* on its socket, or exited and not yet waited for.
ProcState == {"none", "running", "hung", "exit_ok", "exit_err"}
Alive     == {"running", "hung"}

\* The stdout reader thread of a process: not one of this supervisor's, about
\* to read a line, or between the two stores it makes for a progress line.
ReaderPc == {"off", "reading", "stamping"}

\* An instant as the stall check sees it: never, within the timeout, older.
Age == {"none", "fresh", "stale"}

\* session.json: what a launch reads of it.  A missing file reads as clean.
NoFile == [stream_state |-> "Idle", user_requested_stop |-> TRUE, occ |-> NoOcc,
           pid |-> NoPid]

SessionFile == [stream_state : StreamState, user_requested_stop : BOOLEAN,
                occ : OptOcc, pid : OptPid]

Runtime == [
    \* StreamSupervisor
    state : StreamState, user_requested_stop : BOOLEAN, child : OptPid,
    restarted : BOOLEAN,        \* restart_count > 0
    total_bytes : BOOLEAN,      \* progress.total_bytes > 0 or progress.frames > 0
    saw_data : BOOLEAN, data_epoch : Age, last_data_at : Age,
    reader : [Pids -> ReaderPc],
    \* BroadcastRuntime
    plan : BOOLEAN,             \* plan, session_id and session_state: set and cleared together
    occurrence : OptOcc, reason : Reason, dry_run : BOOLEAN,
    restart_due : BOOLEAN,      \* restart_at is set
    suppressed : OptOcc, armed : BOOLEAN, failed : OptOcc, sleep : BOOLEAN,
    \* outside the process: the process table and session.json
    procs : [Pids -> ProcState], pushed : [Pids -> BOOLEAN], disk : SessionFile]

\* stopped: the window the user last stopped out of, until the user or the loop
\* has begun something else.  served: the window the loop last put on the air,
\* until the user steps in.  open: a session was begun and has not been closed.
\* ticked: a tick has run since the clock or the schedules last changed.
\* unnamed: processes whose run died before it had saved the session file.
Seen == [stopped : OptOcc, served : OptOcc, open : BOOLEAN, ticked : BOOLEAN,
         unnamed : SUBSET Pids]

AllOff == [p \in Pids |-> "off"]

\* BroadcastRuntime::new on a machine with these processes and this file.
Fresh(procs, pushed, disk) ==
    [state |-> "Idle", user_requested_stop |-> FALSE, child |-> NoPid,
     restarted |-> FALSE, total_bytes |-> FALSE, saw_data |-> FALSE,
     data_epoch |-> "none", last_data_at |-> "none", reader |-> AllOff,
     plan |-> FALSE, occurrence |-> NoOcc, reason |-> "None", dry_run |-> FALSE,
     restart_due |-> FALSE, suppressed |-> NoOcc, armed |-> FALSE, failed |-> NoOcc, sleep |-> FALSE,
     procs |-> procs, pushed |-> pushed, disk |-> disk]

-----------------------------------------------------------------------------
(* StreamSupervisor *)

\* Mutant: a broadcast that is still connecting does not count as running.
mut_IsActive(r) == r.state \in {"Live", "Reconnecting"}

IsActive(r) == r.state \in Active

\* StreamSupervisor::new: a new supervisor has new shared counters, so reader
\* threads of the one it replaces no longer reach it.  Replacing a supervisor
\* drops its handle, which does not kill the process.
new_supervisor(r) ==
    [r EXCEPT !.state = "Idle", !.user_requested_stop = FALSE, !.child = NoPid,
              !.restarted = FALSE, !.total_bytes = FALSE, !.saw_data = FALSE,
              !.data_epoch = "none", !.last_data_at = "none", !.reader = AllOff]

\* Mutant: the handle is dropped and the process left running.
mut_terminate(r) == [r EXCEPT !.child = NoPid]

\* child.take() followed by terminate(): SIGTERM, then SIGKILL and wait.
terminate(r) ==
    IF r.child = NoPid THEN r
    ELSE [r EXCEPT !.procs[r.child] = "none", !.child = NoPid]

\* The launcher's spawn(): a new process and its stdout reader thread.
spawn(r, p) ==
    [r EXCEPT !.procs[p] = "running", !.pushed[p] = FALSE, !.reader[p] = "reading"]

attach(r, p) ==
    transition([r EXCEPT !.child = p, !.last_data_at = "fresh", !.saw_data = FALSE],
               "Connecting")

\* mark_live() and note_reconnect_success().
mark_live(r) == [transition(r, "Live") EXCEPT !.last_data_at = "fresh"]

cancel(r) == new_supervisor(terminate(r))

\* Mutant: the machine is stopped and the process forgotten about.
mut_supervisor_stop(r) == transition(transition(request_user_stop(r), "Stopping"), "Stopped")

\* Stop: latch first, then wind the machine down and kill the process.  From
\* Error or Idle the last transition is refused: the caller sees an error,
\* which here is a result whose state is not Stopped.
supervisor_stop(r) ==
    LET latched == request_user_stop(r)
        winding == IF r.state \in Terminal THEN latched ELSE transition(latched, "Stopping")
    IN  transition(terminate(winding), "Stopped")

\* abort(): the start failed before there was a process.
abort(r) ==
    LET gone == terminate(r)
    IN  IF can_transition_to(gone.state, "Error") THEN transition(gone, "Error")
        ELSE supervisor_stop(gone)

\* since_progress(): the reader's stamp when there is one, else the time of
\* attach or mark_live.
since_progress(r) == IF r.data_epoch = "none" THEN r.last_data_at ELSE r.data_epoch

is_stalled(r) == r.state = "Live" /\ since_progress(r) = "stale"

\* Mutant: the reconnect is announced and never scheduled.
mut_reap(r) ==
    on_process_exit([r EXCEPT !.child = NoPid, !.procs[r.child] = "none"],
                    r.procs[r.child] = "exit_ok")

\* The child has exited: what on_process_exit makes of it, with what the tick
\* does about the answer.  Stopped and Failed let the machine sleep, a
\* reconnect schedules a restart.
reap(r) ==
    LET next == on_process_exit([r EXCEPT !.child = NoPid, !.procs[r.child] = "none"],
                                r.procs[r.child] = "exit_ok")
    IN  IF next.state = "Reconnecting"
        THEN [next EXCEPT !.restarted = TRUE, !.restart_due = TRUE]
        ELSE [next EXCEPT !.sleep = FALSE]

\* StreamSupervisor::poll with the arms of tick_supervisor that consume it.
poll(r) ==
    IF is_stalled(r)
    THEN [transition(terminate(r), "Reconnecting") EXCEPT !.restart_due = TRUE]
    ELSE IF r.child # NoPid /\ r.procs[r.child] \notin Alive THEN reap(r)
    ELSE r

-----------------------------------------------------------------------------
(* Starting and stopping *)

\* SessionState::is_clean_shutdown.
is_clean_shutdown(f) == f.user_requested_stop \/ f.stream_state \in Terminal

\* persist(): while there is a session its state goes to session.json.
persist(r) ==
    IF r.plan
    THEN [r EXCEPT !.disk =
            [stream_state |-> r.state,
             user_requested_stop |-> r.state = "Stopped" /\ ~r.restarted,
             occ |-> r.occurrence, pid |-> r.child]]
    ELSE r

\* What cancel_start, abandon_start and stop all clear.
drop_session(r) ==
    [r EXCEPT !.plan = FALSE, !.reason = "None", !.sleep = FALSE, !.disk = NoFile]

cancel_start(r) == drop_session(cancel(r))

\* Mutant: the failed start is reported, and the machine left in PREPARING.
mut_abandon_start(r) == drop_session(r)

abandon_start(r) == drop_session(abort(r))

\* spawn_now(): p = NoPid is a launch that failed.
spawn_now(r, p) ==
    IF p = NoPid THEN transition(r, "Error")
    ELSE attach(spawn(r, p), p)

\* start_inner between create_session and the pre-start hook.
open_session(r, o) ==
    [r EXCEPT !.plan = TRUE, !.occurrence = o.occ, !.reason = o.reason,
              !.dry_run = o.dry_run, !.restart_due = FALSE, !.suppressed = NoOcc,
              !.sleep = @ \/ ~o.dry_run]

\* What the world makes of a start: the playlist is missing; no plan, key or
\* session row; the pre-start hook declines; or FFmpeg is launched (pid) or
\* cannot be (NoPid).
Outcome == [at : {"playlist", "plan", "hook", "launch"}, pid : OptPid]

\* start() and start_inner().  Only a failure that leaves the machine in
\* PREPARING is abandoned; a launch that failed has moved it to ERROR.
start(r, o, out) ==
    IF IsActive(r) \/ out.at = "playlist" THEN r
    ELSE LET begun  == begin(new_supervisor(r))
             opened == open_session(begun, o)
             done   == spawn_now(opened, out.pid)
         IN  CASE out.at = "plan" -> abandon_start(begun)
               [] out.at = "hook" -> cancel_start(opened)
               [] out.at = "launch" /\ out.pid = NoPid -> done
               [] OTHER -> persist(done)

\* Mutant: a user's stop does not keep the scheduler out of the window.
mut_stop(r, user_initiated) ==
    IF r.state \in Terminal /\ ~r.plan THEN r
    ELSE LET stopped == supervisor_stop(r)
         IN  IF stopped.state # "Stopped" THEN stopped
             ELSE [drop_session(stopped) EXCEPT !.occurrence = NoOcc, !.restart_due = FALSE]

\* stop(): nothing to do when nothing runs; when the supervisor refuses, the
\* error is returned before anything is released.
stop(r, user_initiated) ==
    IF r.state \in Terminal /\ ~r.plan THEN r
    ELSE LET marked  == [r EXCEPT !.suppressed = IF user_initiated THEN r.occurrence ELSE @]
             stopped == supervisor_stop(marked)
         IN  IF stopped.state # "Stopped" THEN stopped
             ELSE [drop_session(stopped) EXCEPT !.occurrence = NoOcc, !.restart_due = FALSE]

-----------------------------------------------------------------------------
(* The loop *)

\* tick_supervisor: a pending restart is all the tick looks at.  A respawn
\* that fails is to be tried again, and has moved the machine to ERROR.
tick_supervisor(r, due, p) ==
    IF r.restart_due
    THEN IF ~due THEN r
         ELSE IF ~can_transition_to(r.state, "Connecting") THEN [r EXCEPT !.restart_due = FALSE]
         ELSE [spawn_now(transition(r, "Connecting"), p) EXCEPT !.restart_due = (p = NoPid)]
    ELSE poll(IF r.state = "Connecting" /\ r.saw_data THEN mark_live(r) ELSE r)

ScheduledStart(occ) == [reason |-> "Scheduled", occ |-> occ, dry_run |-> FALSE]

\* Mutant: the failed window is remembered by the times of day it opens and
\* closes at, so one that crosses midnight closes before it opens.
mut_begin_scheduled(r, occ, out) ==
    LET s == start(r, ScheduledStart(occ), out)
    IN  [s EXCEPT !.failed = IF out.at = "launch" /\ out.pid # NoPid THEN NoOcc
                            ELSE [occ EXCEPT !.start = @ % DayLen, !.end = @ % DayLen]]

\* begin_scheduled: a failed start remembers its window, to space out retries.
begin_scheduled(r, occ, out) ==
    LET s == start(r, ScheduledStart(occ), out)
    IN  [s EXCEPT !.failed = IF out.at = "launch" /\ out.pid # NoPid THEN NoOcc ELSE occ]

\* Mutant: a window that closes during a reconnect backoff is not stopped.
mut_window_closed(r) == IF r.state = "Live" THEN stop(r, FALSE) ELSE r

\* The ShouldStop arm; a manual broadcast is not the scheduler's to stop.
window_closed(r) ==
    IF r.reason # "Manual" /\ (IsActive(r) \/ r.restart_due) THEN stop(r, FALSE) ELSE r

\* The ShouldBroadcast arm.  `retry' says whether the backoff of a failed
\* window has elapsed.
window_open(r, occ, retry, out) ==
    IF \/ IsActive(r) \/ r.restart_due
       \/ r.suppressed = occ
       \/ r.failed = occ /\ ~retry
    THEN r
    ELSE begin_scheduled(r, occ, out)

tick_scheduler(r, sch, t, retry, out) ==
    LET d == evaluate(sch, IF r.reason = "Manual" THEN NoOcc ELSE r.occurrence, t)
    IN  CASE ~r.armed -> r
          [] r.armed /\ d.kind = "ShouldBroadcast" -> window_open(r, d.occ, retry, out)
          [] r.armed /\ d.kind = "ShouldStop" -> window_closed(r)
          [] OTHER -> [r EXCEPT !.suppressed = IF Contains(@, t) THEN @ ELSE NoOcc]

\* tick() up to the write of the session file.
tick_unsaved(r, sch, t, due, retry, out) ==
    tick_scheduler(tick_supervisor(r, due, out.pid), sch, t, retry, out)

tick(r, sch, t, due, retry, out) == persist(tick_unsaved(r, sch, t, due, retry, out))

-----------------------------------------------------------------------------
(* Startup recovery *)

\* clean_orphan_process: kill the process the session file names.
clean_orphan_process(r) ==
    IF r.disk.pid # NoPid /\ r.procs[r.disk.pid] \in Alive
    THEN [r EXCEPT !.procs[r.disk.pid] = "none"] ELSE r

\* session::decide_recovery; a missing file reads as a clean one.
decide_recovery(f, t, in_window) ==
    IF is_clean_shutdown(f) THEN "Nothing"
    ELSE IF f.occ # NoOcc /\ t >= f.occ.end THEN "CleanUpOnly"
    ELSE IF in_window THEN "Resume" ELSE "CleanUpOnly"

\* recover_on_startup: inside a window an armed scheduler broadcasts at once,
\* as a recovered session when a crashed one is to be resumed.
recover_on_startup(r, sch, t, out) ==
    LET occ      == IF r.armed THEN recover_window(sch, t) ELSE NoOcc
        decision == decide_recovery(r.disk, t, occ # NoOcc)
        cleaned  == IF decision = "CleanUpOnly" THEN [r EXCEPT !.disk = NoFile] ELSE r
        opts     == [reason |-> IF decision = "Resume" THEN "Recovered" ELSE "Scheduled",
                     occ |-> occ, dry_run |-> FALSE]
    IN  IF occ = NoOcc THEN cleaned ELSE start(cleaned, opts, out)

\* The setup of the desktop shell, under the runtime's mutex.
launch(r, sch, t, out) ==
    recover_on_startup(
        clean_orphan_process([r EXCEPT !.armed = RestoreOnLaunch /\ armed_row]), sch, t, out)

-----------------------------------------------------------------------------
(* Actions *)

Init ==
    /\ rt = Fresh([p \in Pids |-> "none"], [p \in Pids |-> FALSE], NoFile)
    /\ up = FALSE
    /\ now = StartTime
    /\ schedules = ScheduleTable
    /\ armed_row = FALSE
    /\ seen = [stopped |-> NoOcc, served |-> NoOcc, open |-> FALSE, ticked |-> FALSE,
               unnamed |-> {}]

\* A pid is given to one process at a time, and kept while its reader runs.
FreePids == {p \in Pids : rt.procs[p] = "none" /\ rt.reader[p] = "off"}

\* A start that gets as far as the launcher is the only one that needs a pid.
Outcomes ==
    [at : {"playlist", "plan", "hook"}, pid : {NoPid}]
        \cup [at : {"launch"}, pid : FreePids \cup {NoPid}]

\* Whether a session is open after a method, and whether a method has launched a
\* process.
Opened(r, r2, open) == IF r2.plan = r.plan THEN open ELSE r2.plan
Launched(r, r2) == r2.child \notin {NoPid, r.child}

\* One pass of the broadcast loop (lib.rs calls tick once a second).
Tick(due, retry, out) ==
    /\ up
    /\ rt' = tick(rt, schedules, now, due, retry, out)
    /\ seen' = [seen EXCEPT
                  !.ticked  = TRUE,
                  !.open    = Opened(rt, rt', @),
                  !.stopped = IF rt'.occurrence \in {NoOcc, @} THEN @ ELSE NoOcc,
                  !.served  = IF Launched(rt, rt') THEN rt'.occurrence ELSE @]
    /\ UNCHANGED <<up, now, schedules, armed_row>>

ManualStart(dry) == [reason |-> "Manual", occ |-> NoOcc, dry_run |-> dry]

\* start_broadcast and start_dry_run.  Preflight has run, and may be stale by
\* the time the runtime is locked, so every outcome is still possible; a local
\* test, or a user who chose to skip it, does not run the hook.
StartBroadcast(dry, skip, out) ==
    /\ up
    /\ dry => "local_test" \in World
    /\ (dry \/ skip) => out.at # "hook"
    /\ rt' = start(rt, ManualStart(dry), out)
    /\ LET begun == ~IsActive(rt) /\ out.at \in {"hook", "launch"}
       IN  seen' = [seen EXCEPT !.open    = Opened(rt, rt', @),
                                !.stopped = IF begun THEN NoOcc ELSE @,
                                !.served  = IF begun THEN NoOcc ELSE @]
    /\ UNCHANGED <<up, now, schedules, armed_row>>

\* stop_broadcast and the tray's stop.
StopBroadcast ==
    /\ up
    /\ rt' = stop(rt, TRUE)
    /\ seen' = [seen EXCEPT
                  !.open    = Opened(rt, rt', @),
                  !.stopped = IF rt.plan /\ rt.occurrence # NoOcc THEN rt.occurrence ELSE @,
                  !.served  = NoOcc]
    /\ UNCHANGED <<up, now, schedules, armed_row>>

\* scheduler_arm (refused with nothing to watch) and scheduler_disarm.
SetArmed(on) ==
    /\ up
    /\ on => \E s \in schedules : s.enabled
    /\ rt' = [rt EXCEPT !.armed = on, !.failed = IF on THEN @ ELSE NoOcc]
    /\ armed_row' = on
    /\ seen' = [seen EXCEPT !.ticked = FALSE]
    /\ UNCHANGED <<up, now, schedules>>

\* update_schedule: a schedule is switched on or off in the database, without
\* the runtime's mutex.
ToggleSchedule(s) ==
    /\ up /\ "edit" \in World
    /\ schedules' = (schedules \ {s}) \cup {[s EXCEPT !.enabled = ~@]}
    /\ seen' = [seen EXCEPT !.ticked = FALSE]
    /\ UNCHANGED <<rt, up, now, armed_row>>

\* The local clock moves to the next tick.
ClockAdvance ==
    /\ now < EndTime
    /\ now' = now + 1
    /\ seen' = [seen EXCEPT !.ticked = FALSE]
    /\ UNCHANGED <<rt, up, schedules, armed_row>>

\* FFmpeg publishes its first bytes.
PushBytes(p) ==
    /\ rt.procs[p] = "running" /\ rt.reader[p] # "off" /\ ~rt.pushed[p]
    /\ rt' = [rt EXCEPT !.pushed[p] = TRUE]
    /\ UNCHANGED <<up, now, schedules, armed_row, seen>>

\* A network outage: the process lives and blocks on its socket.
Hang(p) ==
    /\ "stall" \in World /\ rt.procs[p] = "running"
    /\ rt' = [rt EXCEPT !.procs[p] = "hung"]
    /\ UNCHANGED <<up, now, schedules, armed_row, seen>>

\* A process exits: the child waits to be polled, an orphan is reaped by init.
Exit(p, ok) ==
    /\ "exit" \in World /\ rt.procs[p] \in Alive
    /\ rt' = [rt EXCEPT !.procs[p] = IF p # rt.child THEN "none"
                                     ELSE IF ok THEN "exit_ok" ELSE "exit_err"]
    /\ seen' = [seen EXCEPT !.unnamed = @ \ {p}]
    /\ UNCHANGED <<up, now, schedules, armed_row>>

\* The reader thread applies one line of -progress output.  The line reports
\* a size (only a process that pushed has one to report), reports none, or
\* leaves the shared counters as they are.  The flag is stored first ...
ProgressLine(p, size) ==
    /\ up /\ rt.reader[p] = "reading" /\ rt.procs[p] # "hung"
    /\ size # "bytes" => "stall" \in World
    /\ size = "bytes" => rt.pushed[p]
    /\ size = "zero"  => ~rt.pushed[p]
    /\ LET bytes == IF size = "other" THEN rt.total_bytes ELSE size = "bytes"
       IN  rt' = [rt EXCEPT !.total_bytes = bytes, !.saw_data = @ \/ bytes,
                            !.reader[p] = IF bytes THEN "stamping" ELSE @]
    /\ UNCHANGED <<up, now, schedules, armed_row, seen>>

\* ... and the time of it second.
StampEpoch(p) ==
    /\ up /\ rt.reader[p] = "stamping"
    /\ rt' = [rt EXCEPT !.data_epoch = "fresh", !.reader[p] = "reading"]
    /\ UNCHANGED <<up, now, schedules, armed_row, seen>>

\* End of the pipe: the process is gone and its last line has been read.
ReaderEof(p) ==
    /\ up /\ rt.reader[p] = "reading" /\ rt.procs[p] \notin Alive
    /\ rt' = [rt EXCEPT !.reader[p] = "off", !.pushed[p] = FALSE]
    /\ UNCHANGED <<up, now, schedules, armed_row, seen>>

\* The stall timeout passes with nothing stamped.
Quiet ==
    /\ "stall" \in World /\ rt.plan
    /\ rt' = [rt EXCEPT !.data_epoch   = IF @ = "none" THEN @ ELSE "stale",
                        !.last_data_at = IF @ = "none" THEN @ ELSE "stale"]
    /\ rt' # rt
    /\ UNCHANGED <<up, now, schedules, armed_row, seen>>

\* The application's memory is gone; processes and files are not.
Die(r, open, lost) ==
    /\ up' = FALSE
    /\ rt' = Fresh([p \in Pids |-> IF r.procs[p] \in Alive THEN r.procs[p] ELSE "none"],
                   [p \in Pids |-> FALSE], r.disk)
    /\ seen' = [stopped |-> NoOcc, served |-> NoOcc, open |-> open, ticked |-> FALSE,
                unnamed |-> seen.unnamed \cup lost]
    /\ UNCHANGED <<now, schedules, armed_row>>

\* A crash or a power cut between two operations.  Bound: not while the
\* process of an earlier crash is still alive.
Crash == "crash" \in World /\ up /\ seen.unnamed = {} /\ Die(rt, seen.open, {})

\* A crash between the spawn and the save of the session file: in a start, or
\* in a tick that restarts FFmpeg.
CrashBeforeSave(p) ==
    /\ "crash" \in World /\ up /\ seen.unnamed = {} /\ rt.child = NoPid
    /\ \E spawned \in {start(rt, ManualStart(FALSE), [at |-> "launch", pid |-> p]),
                       tick_unsaved(rt, schedules, now, TRUE, TRUE, [at |-> "launch", pid |-> p])} :
          spawned.child = p /\ Die([spawned EXCEPT !.disk = rt.disk], TRUE, {p})

\* RunEvent::ExitRequested: stop, release the sleep inhibition, exit.
Quit ==
    /\ "crash" \in World /\ up
    /\ LET stopped == stop(rt, TRUE) IN Die(stopped, Opened(rt, stopped, seen.open), {})

Launch(out) ==
    /\ ~up
    /\ up' = TRUE
    /\ rt' = launch(rt, schedules, now, out)
    /\ seen' = [seen EXCEPT !.open    = Opened(rt, rt', @),
                            !.served  = rt'.occurrence,
                            !.unnamed = {p \in @ : rt'.procs[p] \in Alive}]
    /\ UNCHANGED <<now, schedules, armed_row>>

AnyTick == \E due, retry \in BOOLEAN, out \in Outcomes : Tick(due, retry, out)

Next ==
    \/ AnyTick
    \/ \E dry, skip \in BOOLEAN, out \in Outcomes : StartBroadcast(dry, skip, out)
    \/ StopBroadcast
    \/ \E on \in BOOLEAN : SetArmed(on)
    \/ \E s \in schedules : ToggleSchedule(s)
    \/ ClockAdvance
    \/ \E p \in Pids : PushBytes(p) \/ Hang(p)
    \/ \E p \in Pids, ok \in BOOLEAN : Exit(p, ok)
    \/ \E p \in Pids, size \in {"bytes", "zero", "other"} : ProgressLine(p, size)
    \/ \E p \in Pids : StampEpoch(p) \/ ReaderEof(p)
    \/ Quiet
    \/ Crash
    \/ \E p \in FreePids : CrashBeforeSave(p)
    \/ Quit
    \/ \E out \in Outcomes : Launch(out)

Spec == Init /\ [][Next]_vars

-----------------------------------------------------------------------------
(* Properties *)

\* The state has its declared shape.  An occurrence that ends before it starts
\* (a midnight window resolved to the wrong day) is not in it.
TypeOK ==
    /\ rt \in Runtime
    /\ up \in BOOLEAN
    /\ now \in StartTime .. EndTime
    /\ schedules \subseteq Schedule
    /\ armed_row \in BOOLEAN
    /\ seen \in Seen

\* A supervisor holds a process only while its machine says CONNECTING or
\* LIVE, and never once a stop has been requested: a start that replaces the
\* supervisor cannot drop the handle of a live FFmpeg.
ChildOnlyOnAir ==
    rt.child # NoPid => rt.state \in {"Connecting", "Live"} /\ ~rt.user_requested_stop

\* No operation leaves the machine in PREPARING or STOPPING: PREPARING counts
\* as active, and a start that failed there lost a whole window once.
NotStranded == rt.state \notin {"Preparing", "Stopping"}

\* The machine is kept awake from the start of a broadcast to its end, the
\* reconnect backoffs in between included.
AwakeWhileBroadcasting == IsActive(rt) /\ ~rt.dry_run => rt.sleep

\* Between operations the engine is whole: its process, its machine and the
\* sleep inhibition agree, whichever step of a start, a stop or a relaunch
\* failed before.
EngineIsWhole == ChildOnlyOnAir /\ NotStranded /\ AwakeWhileBroadcasting

\* Whenever the runtime's mutex is free, the one FFmpeg alive is the one that
\* session.json names, in a session that reads as unclean; while the application
\* is up it is the supervisor's child, and what a crash left behind is gone after
\* the next launch.  A process whose run died between the spawn and the save of
\* the file, and that has not been able to end since, is the only other.
SenderIsKnown ==
    \A p \in Pids \ seen.unnamed : rt.procs[p] \in Alive =>
        /\ rt.disk.pid = p /\ ~is_clean_shutdown(rt.disk)
        /\ up => rt.child = p

\* An armed scheduler that has looked at the clock never leaves a scheduled
\* broadcast on the air with no window open.
OffAirOutsideWindows ==
    up /\ seen.ticked /\ rt.armed /\ rt.reason \in {"Scheduled", "Recovered"} /\ IsActive(rt)
    => Contains(rt.occurrence, now) \/ OpenWindows(schedules, now) # {}

\* The window a user stopped out of is not started again by the loop while it
\* is open, unless something else was begun in between.
UserStopHolds ==
    [][ up /\ up' /\ seen.stopped # NoOcc /\ Contains(seen.stopped, now) /\ Launched(rt, rt')
        => rt'.occurrence # seen.stopped ]_vars

\* From the loop's first process for a window to that window's end, every other
\* is for the same window: through exits, reconnects, starts that fail, and
\* edits of the schedules, whatever else opens meanwhile.
StaysWithItsWindow ==
    [][ up /\ up' /\ seen.served # NoOcc /\ Contains(seen.served, now) /\ Launched(rt, rt')
        => rt'.occurrence = seen.served \/ rt'.reason = "Manual" ]_vars

\* What a launch puts on the air is an open window of a machine that was left
\* armed, and not the local test that may have been running; it is called
\* recovered only when a session had been left open, whose scheduled end has not
\* passed, and nothing else is ever called so.
LaunchesAreMeant ==
    [][ /\ ~up /\ up' /\ rt'.child # NoPid =>
              RestoreOnLaunch /\ armed_row /\ Contains(rt'.occurrence, now) /\ ~rt'.dry_run
        /\ rt'.reason = "Recovered" /\ rt.reason # "Recovered" =>
              ~up /\ seen.open /\ (rt.disk.occ # NoOcc => now < rt.disk.occ.end) ]_vars

\* What goes on air by itself is wanted: not what a user took off, not another
\* window's in place of the running one, and after a death or an exit nothing
\* but the window that is open.
StartsAreWanted == UserStopHolds /\ StaysWithItsWindow /\ LaunchesAreMeant

-----------------------------------------------------------------------------
(* The engine implements the sender's life cycle *)

PhaseOf(r) == IF r.state \in {"Idle", "Stopped"} THEN "Off"
              ELSE IF r.state = "Reconnecting" THEN "Waiting"
              ELSE IF r.state \in {"Connecting", "Live"} THEN r.state
              ELSE "Failed"

Lifecycle == INSTANCE SenderLifecycle WITH
                Sender <- Pids, None <- NoPid, phase <- PhaseOf(rt), sender <- rt.child

\* The runtime refines SenderLifecycle: a process is started only when the
\* last one is gone, and only the process that connected becomes LIVE.
ImplementsLifecycle == Lifecycle!LifecycleSpec

-----------------------------------------------------------------------------
(* Liveness *)

\* A tick at which every pending delay has elapsed and FFmpeg can be launched.
GoodPids == IF FreePids = {} THEN {NoPid} ELSE FreePids

GoodTick == \E p \in GoodPids : Tick(TRUE, TRUE, [at |-> "launch", pid |-> p])

\* ENABLED <<GoodTick>>_vars, spelled out.
GoodTickPending ==
    up /\ \E p \in GoodPids :
             \/ ~seen.ticked
             \/ tick(rt, schedules, now, TRUE, TRUE, [at |-> "launch", pid |-> p]) # rt

\* The loop runs once a second for as long as the application is up, time
\* passes, reader threads are scheduled, and launching succeeds now and then.
Fairness ==
    /\ []<>~GoodTickPending \/ []<><<GoodTick>>_vars
    /\ WF_vars(Quiet)
    /\ \A p \in Pids : WF_vars(StampEpoch(p)) /\ SF_vars(ReaderEof(p))

FairSpec == Spec /\ Fairness

\* A window is open that an armed scheduler owes a broadcast, and none is up.
WindowOwed ==
    /\ up /\ rt.armed /\ rt.child = NoPid
    /\ LET d == evaluate(schedules, IF rt.reason = "Manual" THEN NoOcc ELSE rt.occurrence, now)
       IN  d.kind = "ShouldBroadcast" /\ rt.suppressed # d.occ

\* An open window is served: whatever failed first, the armed scheduler gets
\* a process up, unless the window closes or the user steps in.
WindowServed == WindowOwed ~> ~WindowOwed

\* A broadcast waiting for its reconnect backoff does not wait for ever.
ReconnectEnds == rt.state = "Reconnecting" ~> rt.state # "Reconnecting"

\* A scheduled broadcast is taken off the air once no window is open.
ClosedWindowStops ==
    LET Overrun == /\ up /\ rt.armed /\ rt.child # NoPid
                   /\ rt.reason \in {"Scheduled", "Recovered"}
                   /\ ~Contains(rt.occurrence, now) /\ OpenWindows(schedules, now) = {}
    IN  Overrun ~> ~Overrun

\* A LIVE process that hangs is killed, although it never exits by itself.
StallIsCaught ==
    \A p \in Pids : (rt.state = "Live" /\ rt.child = p /\ rt.procs[p] = "hung") ~> rt.child # p

\* The engine never stays where only a later tick can get it out: waiting for
\* a reconnect, past its window, or holding a process that hangs.
EngineKeepsMoving == ReconnectEnds /\ ClosedWindowStops /\ StallIsCaught

-----------------------------------------------------------------------------
(* What comments, docs and tests say, and the code does not do *)

\* runtime.rs, on a respawn that fails: it is tried again rather than given up.
RespawnIsRetried ==
    [][ AnyTick /\ rt.plan /\ rt.reason = "Manual" /\ rt.restart_due
        => rt'.restart_due \/ rt'.child # NoPid ]_vars

\* supervisor.rs: CONNECTING becomes LIVE once FFmpeg has pushed bytes.
LiveMeansPushed ==
    [][ rt.state # "Live" /\ rt'.state = "Live" => rt.pushed[rt.child] ]_vars

\* runtime.rs, on clean_orphan_process: "an FFmpeg left behind by a crashed run" is
\* killed; one that was spawned and not yet saved is not named anywhere.
EverySenderIsNamed == up => seen.unnamed = {}

\* runtime.rs, on suppressed_occurrence: no scheduler-driven start after a user's
\* stop inside a window "until that window ends"; a start of another clears it.
StopLastsToWindowEnd ==
    [][ AnyTick /\ rt.suppressed # NoOcc /\ Contains(rt.suppressed, now)
        => rt'.suppressed = rt.suppressed ]_vars
=============================================================================
