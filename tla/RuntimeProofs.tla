---------------------------- MODULE RuntimeProofs ----------------------------
(***************************************************************************)
(* Proofs about BroadcastRuntime, for every set of process identifiers,    *)
(* every table of schedules and every length of the run.                   *)
(*                                                                         *)
(* The runtime's methods are operators on records, so the proof goes       *)
(* method by method: a lemma says what each does to the fields the         *)
(* invariant speaks of, a method that calls others is proved from their    *)
(* lemmas, and the actions come last.                                      *)
(***************************************************************************)
EXTENDS BroadcastRuntime, SchedulerProofs

\* The fields of a broadcast session.
SameSession(q, r) ==
    /\ q.plan = r.plan
    /\ q.reason = r.reason
    /\ q.occurrence = r.occurrence
    /\ q.suppressed = r.suppressed
    /\ q.dry_run = r.dry_run
    /\ q.sleep = r.sleep
    /\ q.restart_due = r.restart_due
    /\ q.disk = r.disk

\* SameSession chains along the calls of a method.
LEMMA SameSessionTransitive ==
    ASSUME NEW a, NEW b, NEW c, SameSession(a, b), SameSession(b, c)
    PROVE  SameSession(a, c)
BY DEF SameSession

\* The child of r is gone and no other process is touched.
Released(q, r) ==
    \A p \in Pids : q.procs[p] = IF p = r.child THEN "none" ELSE r.procs[p]

\* StartOptions, as far as the model keeps them.
StartOpts == [reason : Reason, occ : OptOcc, dry_run : BOOLEAN]

\* What a broadcast is for, and what the scheduler is kept out of.
SamePurpose(q, r) ==
    /\ q.plan = r.plan
    /\ q.reason = r.reason
    /\ q.occurrence = r.occurrence
    /\ q.suppressed = r.suppressed

\* A start that opened a session for o, and one that left none.
Begun(q, o)  == /\ q.reason = o.reason /\ q.dry_run = o.dry_run
                /\ q.occurrence = o.occ /\ q.suppressed = NoOcc
Unstarted(q) == ~q.plan /\ q.reason = "None"

\* The window of the last broadcast, and the one the scheduler is kept out of.
SameWindow(q, r) == q.occurrence = r.occurrence /\ q.suppressed = r.suppressed

\* What a method does to the session file: there is a session, or the file is
\* clean, or both are as they were.
FileStep(r, q) ==
    \/ q.plan
    \/ is_clean_shutdown(q.disk)
    \/ q.plan = r.plan /\ q.disk = r.disk

\* The session file of a run that died during a broadcast whose scheduled end,
\* if it has one, has not passed.
Resumable(f, t) == ~is_clean_shutdown(f) /\ (f.occ # NoOcc => t < f.occ.end)

\* What a stop leaves: nothing on the air, and when the user asked for it the
\* window suppressed; a stop the supervisor refuses leaves the session behind.
Ended(r, q, user) ==
    /\ q.state \notin Active
    /\ q.suppressed = IF user THEN r.occurrence ELSE r.suppressed
    /\ \/ Unstarted(q)
       \/ q.plan = r.plan /\ q.reason = r.reason /\ q.occurrence = r.occurrence

-----------------------------------------------------------------------------
(* What the methods of the supervisor do *)

\* The table of state.rs, entry by entry.
LEMMA Allowed ==
    /\ allowed_next["Idle"] = {"Preparing"}
    /\ allowed_next["Preparing"] = {"Connecting", "Stopping", "Error"}
    /\ allowed_next["Connecting"] = {"Live", "Reconnecting", "Stopping", "Error"}
    /\ allowed_next["Live"] = {"Reconnecting", "Stopping", "Error"}
    /\ allowed_next["Reconnecting"] = {"Connecting", "Live", "Stopping", "Error"}
    /\ allowed_next["Stopping"] = {"Stopped", "Error"}
    /\ allowed_next["Stopped"] = {"Preparing", "Idle"}
    /\ allowed_next["Error"] = {"Preparing", "Idle"}
BY DEF allowed_next, StreamState

\* A transition moves the state, when it may, and nothing else.
LEMMA TransitionFacts ==
    ASSUME NEW r \in Runtime, NEW t \in StreamState
    PROVE  /\ transition(r, t) \in Runtime
           /\ transition(r, t).state = IF can_transition_to(r.state, t) THEN t ELSE r.state
           /\ transition(r, t).child = r.child
           /\ transition(r, t).user_requested_stop = r.user_requested_stop
           /\ transition(r, t).procs = r.procs
           /\ SameSession(transition(r, t), r)
BY DEF transition, Runtime, SameSession

\* terminate() kills the child, forgets it, and touches no other process.
LEMMA TerminateFacts ==
    ASSUME NEW r \in Runtime
    PROVE  /\ terminate(r) \in Runtime
           /\ terminate(r).state = r.state
           /\ terminate(r).child = NoPid
           /\ terminate(r).user_requested_stop = r.user_requested_stop
           /\ Released(terminate(r), r)
           /\ SameSession(terminate(r), r)
<1>1. CASE r.child = NoPid
  <2>1. terminate(r) = r
    BY <1>1 DEF terminate
  <2>2. \A p \in Pids : p # NoPid
    BY RuntimeAssumption
  <2>3. QED BY <1>1, <2>1, <2>2 DEF SameSession, Released
<1>2. CASE r.child # NoPid
  <2>1. r.child \in Pids /\ r.procs \in [Pids -> ProcState]
    BY <1>2 DEF Runtime, OptPid
  <2> DEFINE procs == [r.procs EXCEPT ![r.child] = "none"]
  <2>2. procs \in [Pids -> ProcState] /\ \A p \in Pids : procs[p] = IF p = r.child THEN "none" ELSE r.procs[p]
    BY <2>1 DEF ProcState
  <2>3. terminate(r) = [r EXCEPT !.procs = procs, !.child = NoPid]
    BY <1>2 DEF terminate
  <2> HIDE DEF procs
  <2>4. terminate(r) \in Runtime
    BY <2>2, <2>3 DEF Runtime, OptPid
  <2>5. terminate(r).procs = procs /\ terminate(r).child = NoPid /\ terminate(r).state = r.state
        /\ terminate(r).user_requested_stop = r.user_requested_stop
    BY <2>3 DEF Runtime
  <2>6. SameSession(terminate(r), r)
    BY <2>3 DEF Runtime, SameSession
  <2>7. QED BY <2>2, <2>4, <2>5, <2>6 DEF Released
<1>3. QED BY <1>1, <1>2

\* request_user_stop() sets the latch and nothing else.
LEMMA UserStopFacts ==
    ASSUME NEW r \in Runtime
    PROVE  /\ request_user_stop(r) \in Runtime
           /\ request_user_stop(r).state = r.state
           /\ request_user_stop(r).child = r.child
           /\ request_user_stop(r).procs = r.procs
           /\ SameSession(request_user_stop(r), r)
BY DEF request_user_stop, Runtime, SameSession

\* Stopping releases the child, and ends in STOPPED unless the machine was in
\* a state it cannot be stopped from.
LEMMA SupervisorStopFacts ==
    ASSUME NEW r \in Runtime
    PROVE  /\ supervisor_stop(r) \in Runtime
           /\ supervisor_stop(r).state =
                IF r.state \in {"Idle", "Error"} THEN r.state ELSE "Stopped"
           /\ supervisor_stop(r).child = NoPid
           /\ Released(supervisor_stop(r), r)
           /\ SameSession(supervisor_stop(r), r)
<1> DEFINE l == request_user_stop(r)
           w == IF r.state \in Terminal THEN l ELSE transition(l, "Stopping")
           g == terminate(w)
<1>0. r.state \in StreamState /\ "Stopping" \in StreamState /\ "Stopped" \in StreamState
  BY DEF Runtime, StreamState
<1>1. supervisor_stop(r) = transition(g, "Stopped")
  BY DEF supervisor_stop
<1>2. l \in Runtime /\ l.state = r.state /\ l.child = r.child /\ l.procs = r.procs
      /\ SameSession(l, r)
  BY UserStopFacts
<1> HIDE DEF l
<1>3. /\ w \in Runtime /\ w.child = r.child /\ w.procs = r.procs /\ SameSession(w, r)
      /\ w.state = IF r.state \in Terminal THEN r.state ELSE "Stopping"
  <2>1. CASE r.state \in Terminal
    BY <1>2, <2>1
  <2>2. CASE r.state \notin Terminal
    <3>1. can_transition_to(r.state, "Stopping")
      BY <1>0, <2>2, Allowed DEF can_transition_to, StreamState, Terminal
    <3>2. QED BY <1>0, <1>2, <2>2, <3>1, TransitionFacts, SameSessionTransitive
  <2>3. QED BY <2>1, <2>2
<1> HIDE DEF w
<1>4. /\ g \in Runtime /\ g.state = w.state /\ g.child = NoPid
      /\ Released(g, r) /\ SameSession(g, r)
  BY <1>3, TerminateFacts, SameSessionTransitive DEF Released
<1> HIDE DEF g
<1>5. can_transition_to(g.state, "Stopped") <=> r.state \notin {"Idle", "Error"}
  BY <1>0, <1>3, <1>4, Allowed DEF can_transition_to, StreamState, Terminal
<1>6. /\ supervisor_stop(r) \in Runtime
      /\ supervisor_stop(r).state = IF can_transition_to(g.state, "Stopped") THEN "Stopped" ELSE g.state
      /\ supervisor_stop(r).child = g.child
      /\ supervisor_stop(r).procs = g.procs
      /\ SameSession(supervisor_stop(r), g)
  <2> DEFINE t == transition(g, "Stopped")
  <2>1. g \in Runtime /\ "Stopped" \in StreamState
    BY <1>0, <1>4
  <2>2. /\ t \in Runtime
        /\ t.state = IF can_transition_to(g.state, "Stopped") THEN "Stopped" ELSE g.state
        /\ t.child = g.child /\ t.procs = g.procs
        /\ SameSession(t, g)
    BY <2>1, TransitionFacts
  <2>3. QED BY <1>1, <2>2
<1>7. QED
  BY <1>0, <1>3, <1>4, <1>5, <1>6, SameSessionTransitive DEF Terminal, Released

\* A new supervisor is idle and holds no process; the session is not its business.
LEMMA NewSupervisorFacts ==
    ASSUME NEW r \in Runtime
    PROVE  /\ new_supervisor(r) \in Runtime
           /\ new_supervisor(r).state = "Idle"
           /\ new_supervisor(r).child = NoPid
           /\ new_supervisor(r).user_requested_stop = FALSE
           /\ new_supervisor(r).procs = r.procs
           /\ SameSession(new_supervisor(r), r)
BY DEF new_supervisor, Runtime, OptPid, AllOff, ReaderPc, Age, StreamState, SameSession

\* begin() takes an idle machine to PREPARING with the stop latch cleared.
LEMMA BeginFacts ==
    ASSUME NEW r \in Runtime, r.state = "Idle"
    PROVE  /\ begin(r) \in Runtime
           /\ begin(r).state = "Preparing"
           /\ begin(r).child = r.child
           /\ begin(r).user_requested_stop = FALSE
           /\ begin(r).procs = r.procs
           /\ SameSession(begin(r), r)
<1> DEFINE q == [r EXCEPT !.user_requested_stop = FALSE]
<1>1. begin(r) = transition(q, "Preparing")
  BY DEF begin, Active
<1>2. /\ q \in Runtime /\ q.state = "Idle" /\ q.child = r.child
      /\ q.user_requested_stop = FALSE /\ q.procs = r.procs /\ SameSession(q, r)
  BY DEF Runtime, SameSession
<1> HIDE DEF q
<1>3. can_transition_to("Idle", "Preparing") /\ "Preparing" \in StreamState
  BY Allowed DEF can_transition_to, StreamState
<1>4. QED BY <1>1, <1>2, <1>3, TransitionFacts, SameSessionTransitive

\* A launch that succeeds attaches the process, one that fails ends in ERROR.
LEMMA SpawnNowFacts ==
    ASSUME NEW r \in Runtime, NEW p \in OptPid, r.state \in {"Preparing", "Connecting"}
    PROVE  /\ spawn_now(r, p) \in Runtime
           /\ spawn_now(r, p).state = IF p = NoPid THEN "Error" ELSE "Connecting"
           /\ spawn_now(r, p).child = IF p = NoPid THEN r.child ELSE p
           /\ spawn_now(r, p).user_requested_stop = r.user_requested_stop
           /\ \A x \in Pids \ {p} : spawn_now(r, p).procs[x] = r.procs[x]
           /\ SameSession(spawn_now(r, p), r)
<1>0. /\ "Error" \in StreamState /\ "Connecting" \in StreamState
      /\ can_transition_to(r.state, "Error") /\ can_transition_to(r.state, "Connecting")
  BY Allowed DEF can_transition_to, StreamState
<1>1. CASE p = NoPid
  BY <1>0, <1>1, TransitionFacts DEF spawn_now
<1>2. CASE p # NoPid
  <2> DEFINE s == spawn(r, p)
             a == [s EXCEPT !.child = p, !.last_data_at = "fresh", !.saw_data = FALSE]
  <2>1. p \in Pids
    BY <1>2 DEF OptPid
  <2>2. /\ s \in Runtime /\ s.state = r.state /\ SameSession(s, r)
        /\ s.user_requested_stop = r.user_requested_stop
        /\ \A x \in Pids \ {p} : s.procs[x] = r.procs[x]
    BY <2>1 DEF spawn, Runtime, ProcState, ReaderPc, SameSession
  <2>4. spawn_now(r, p) = transition(a, "Connecting")
    BY <1>2 DEF spawn_now, attach
  <2> HIDE DEF s
  <2>3. /\ a \in Runtime /\ a.state = s.state /\ a.child = p /\ SameSession(a, s)
        /\ a.user_requested_stop = s.user_requested_stop /\ a.procs = s.procs
    BY <2>1, <2>2 DEF Runtime, Age, OptPid, SameSession
  <2> HIDE DEF a
  <2>5. /\ spawn_now(r, p) \in Runtime /\ spawn_now(r, p).state = "Connecting"
        /\ spawn_now(r, p).child = p /\ spawn_now(r, p).procs = s.procs
        /\ spawn_now(r, p).user_requested_stop = s.user_requested_stop
        /\ SameSession(spawn_now(r, p), a)
    BY <1>0, <2>2, <2>3, <2>4, TransitionFacts
  <2>6. QED BY <1>2, <2>2, <2>3, <2>5, SameSessionTransitive
<1>3. QED BY <1>1, <1>2

\* open_session() sets the session up and leaves machine and processes alone.
LEMMA OpenSessionFacts ==
    ASSUME NEW r \in Runtime, NEW o \in StartOpts
    PROVE  /\ open_session(r, o) \in Runtime
           /\ open_session(r, o).state = r.state
           /\ open_session(r, o).child = r.child
           /\ open_session(r, o).user_requested_stop = r.user_requested_stop
           /\ open_session(r, o).procs = r.procs
           /\ open_session(r, o).plan = TRUE
           /\ Begun(open_session(r, o), o)
           /\ open_session(r, o).restart_due = FALSE
           /\ ~open_session(r, o).dry_run => open_session(r, o).sleep
<1>1. /\ o.dry_run \in BOOLEAN /\ r.sleep \in BOOLEAN /\ (r.sleep \/ ~o.dry_run) \in BOOLEAN
      /\ o.occ \in OptOcc /\ o.reason \in Reason /\ NoOcc \in OptOcc
  BY DEF StartOpts, Runtime, OptOcc
<1>2. open_session(r, o) \in Runtime
  <2>1. PICK s \in BOOLEAN : s = (r.sleep \/ ~o.dry_run)
    BY <1>1
  <2> DEFINE q == [r EXCEPT !.plan = TRUE, !.occurrence = o.occ, !.reason = o.reason,
                            !.dry_run = o.dry_run]
  <2>2. q \in Runtime
    BY <1>1 DEF Runtime
  <2>3. open_session(r, o) = [q EXCEPT !.restart_due = FALSE, !.suppressed = NoOcc, !.sleep = s]
    BY <2>1 DEF open_session, Runtime
  <2> HIDE DEF q
  <2> DEFINE t == [q EXCEPT !.restart_due = FALSE, !.suppressed = NoOcc]
  <2>4. t \in Runtime
    BY <1>1, <2>2 DEF Runtime
  <2>5. open_session(r, o) = [t EXCEPT !.sleep = s]
    BY <2>2, <2>3 DEF Runtime
  <2> HIDE DEF t
  <2>6. QED BY <2>1, <2>4, <2>5 DEF Runtime
<1>3. /\ open_session(r, o).state = r.state /\ open_session(r, o).child = r.child
      /\ open_session(r, o).user_requested_stop = r.user_requested_stop
      /\ open_session(r, o).procs = r.procs
  BY DEF open_session, Runtime
<1>4. Begun(open_session(r, o), o)
  BY <1>1 DEF open_session, Runtime, Begun
<1>5. /\ open_session(r, o).plan = TRUE /\ open_session(r, o).restart_due = FALSE
      /\ ~open_session(r, o).dry_run => open_session(r, o).sleep
  BY <1>1 DEF open_session, Runtime
<1>6. QED BY <1>2, <1>3, <1>4, <1>5

\* drop_session() clears session, sleep inhibition and file, and leaves the processes alone.
LEMMA DropSessionFacts ==
    ASSUME NEW r \in Runtime
    PROVE  /\ drop_session(r) \in Runtime
           /\ drop_session(r).state = r.state
           /\ drop_session(r).child = r.child
           /\ drop_session(r).user_requested_stop = r.user_requested_stop
           /\ drop_session(r).restart_due = r.restart_due
           /\ SameWindow(drop_session(r), r)
           /\ Unstarted(drop_session(r))
           /\ is_clean_shutdown(drop_session(r).disk)
           /\ drop_session(r).procs = r.procs
<1>1. NoFile \in SessionFile /\ "None" \in Reason
  BY DEF NoFile, SessionFile, StreamState, OptOcc, OptPid, Reason
<1>2. drop_session(r) \in Runtime
  BY <1>1 DEF drop_session, Runtime
<1>3. is_clean_shutdown(drop_session(r).disk)
  BY DEF drop_session, Runtime, NoFile, is_clean_shutdown
<1>4. QED BY <1>2, <1>3 DEF drop_session, Runtime, Unstarted, SameWindow

\* persist() writes the file and nothing else; with a session it names the child.
LEMMA PersistFacts ==
    ASSUME NEW r \in Runtime
    PROVE  /\ persist(r) \in Runtime
           /\ persist(r).state = r.state
           /\ persist(r).child = r.child
           /\ persist(r).user_requested_stop = r.user_requested_stop
           /\ SamePurpose(persist(r), r)
           /\ persist(r).armed = r.armed
           /\ persist(r).plan = r.plan
           /\ persist(r).dry_run = r.dry_run
           /\ persist(r).sleep = r.sleep
           /\ persist(r).restart_due = r.restart_due
           /\ persist(r).procs = r.procs
           /\ r.plan => /\ persist(r).disk.pid = r.child
                        /\ persist(r).disk.stream_state = r.state
                        /\ persist(r).disk.user_requested_stop => r.state = "Stopped"
<1>1. CASE r.plan
  <2>1. PICK stopped \in BOOLEAN : stopped = (r.state = "Stopped" /\ ~r.restarted)
    OBVIOUS
  <2>2. PICK f : f = [stream_state |-> r.state, user_requested_stop |-> stopped,
                      occ |-> r.occurrence, pid |-> r.child]
    OBVIOUS
  <2>3. f \in SessionFile
    BY <2>2 DEF Runtime, SessionFile
  <2>4. persist(r) = [r EXCEPT !.disk = f]
    BY <1>1, <2>1, <2>2 DEF persist
  <2>5. persist(r) \in Runtime
    BY <2>3, <2>4 DEF Runtime
  <2>6. f.pid = r.child /\ f.stream_state = r.state /\ (f.user_requested_stop => r.state = "Stopped")
    BY <2>1, <2>2
  <2>7. persist(r).disk = f
    BY <2>4 DEF Runtime
  <2>8. QED BY <2>4, <2>5, <2>6, <2>7 DEF Runtime, SamePurpose
<1>2. CASE ~r.plan
  BY <1>2 DEF persist, SamePurpose
<1>3. QED BY <1>1, <1>2 DEF Runtime

-----------------------------------------------------------------------------
(* The invariant, method by method *)

\* What every method of the runtime finds and leaves: it holds a process
\* exactly while it is on the air, an active broadcast has a session and keeps
\* the machine awake, and a pending restart means there is no process.
Sound(r) ==
    /\ r \in Runtime
    /\ r.child # NoPid <=> r.state \in {"Connecting", "Live"}
    /\ r.state \notin {"Preparing", "Stopping"}
    /\ r.state \in Active => ~r.user_requested_stop
    /\ r.state \in Active => r.plan
    /\ r.state \in Active => r.dry_run \/ r.sleep
    /\ r.restart_due => r.child = NoPid

\* Every process alive is the child or one of O.
NoLeak(r, O) == \A p \in Pids : r.procs[p] \in Alive => p = r.child \/ p \in O

\* The session file is fit to recover from.
FileNamesChild(r) ==
    r.child # NoPid => r.disk.pid = r.child /\ ~is_clean_shutdown(r.disk)

\* The steps of the methods as an observer of the sender sees them.
SameSender(r, q) == q.state = r.state /\ q.child = r.child

Started(r, q) == ~IsActive(r) /\ q.state \in {"Idle", "Error", "Connecting"}

Supervised(r, q) ==
    \/ SameSender(r, q)
    \/ r.state = "Connecting" /\ q.state = "Live" /\ q.child = r.child
    \/ r.state \in {"Connecting", "Live"} /\ q.state = "Reconnecting"
    \/ r.state = "Reconnecting" /\ q.state = "Connecting"
    \/ r.state = "Reconnecting" /\ q.state = "Error" /\ q.restart_due

Ticked(r, q) ==
    \/ Supervised(r, q)
    \/ r.state = "Reconnecting" /\ q.state = "Error"
    \/ Started(r, q)
    \/ q.state = "Stopped"

\* start() keeps the runtime sound, leaks no process and leaves a file that names the child.
LEMMA StartSound ==
    ASSUME NEW r, Sound(r), NEW o \in StartOpts, NEW out \in Outcome
    PROVE  /\ Sound(start(r, o, out))
           /\ \A O : NoLeak(r, O) => NoLeak(start(r, o, out), O)
           /\ FileNamesChild(r) => FileNamesChild(start(r, o, out))
           /\ start(r, o, out) = r \/ Started(r, start(r, o, out))
           /\ \/ start(r, o, out) = r
              \/ Unstarted(start(r, o, out))
              \/ Begun(start(r, o, out), o)
           /\ \/ SameWindow(start(r, o, out), r)
              \/ /\ ~IsActive(r) /\ out.at \in {"hook", "launch"}
                 /\ start(r, o, out).occurrence = o.occ
                 /\ start(r, o, out).suppressed = NoOcc
           /\ FileStep(r, start(r, o, out))
<1> DEFINE q == start(r, o, out)
           b == begin(new_supervisor(r))
           n == open_session(b, o)
           d == spawn_now(n, out.pid)
<1>1. CASE IsActive(r) \/ out.at = "playlist"
  BY <1>1 DEF start, SameWindow, FileStep
<1>2. CASE ~(IsActive(r) \/ out.at = "playlist")
  <2>1. r \in Runtime /\ r.child = NoPid /\ out.pid \in OptPid
    BY <1>2 DEF Sound, IsActive, Active, Outcome
  <2>2. /\ b \in Runtime /\ b.state = "Preparing" /\ b.child = NoPid
        /\ b.user_requested_stop = FALSE /\ b.procs = r.procs /\ SameSession(b, r)
    <3>1. /\ new_supervisor(r) \in Runtime /\ new_supervisor(r).state = "Idle"
          /\ new_supervisor(r).child = NoPid /\ new_supervisor(r).procs = r.procs
          /\ SameSession(new_supervisor(r), r)
      BY <2>1, NewSupervisorFacts
    <3>2. QED BY <3>1, BeginFacts, SameSessionTransitive
  <2>3. /\ n \in Runtime /\ n.state = "Preparing" /\ n.child = NoPid
        /\ n.user_requested_stop = FALSE /\ n.procs = r.procs /\ n.plan = TRUE
        /\ n.restart_due = FALSE /\ (~n.dry_run => n.sleep) /\ Begun(n, o)
    BY <2>2, OpenSessionFacts
  <2>4. CASE out.at = "plan"
    <3>1. q = drop_session(abort(b))
      BY <1>2, <2>4 DEF start, abandon_start
    <3>2. /\ abort(b) \in Runtime /\ abort(b).state = "Error" /\ abort(b).child = NoPid
          /\ \A p \in Pids : abort(b).procs[p] = r.procs[p]
          /\ SameSession(abort(b), r)
      <4> DEFINE g == terminate(b)
      <4>1. /\ g \in Runtime /\ g.state = "Preparing" /\ g.child = NoPid
            /\ \A p \in Pids : g.procs[p] = r.procs[p]
            /\ SameSession(g, r)
        BY <2>2, TerminateFacts, RuntimeAssumption, SameSessionTransitive DEF Released
      <4>2. can_transition_to("Preparing", "Error") /\ "Error" \in StreamState
        BY Allowed DEF can_transition_to, StreamState
      <4>3. abort(b) = transition(g, "Error")
        BY <4>1, <4>2 DEF abort
      <4> HIDE DEF g
      <4>4. QED BY <4>1, <4>2, <4>3, TransitionFacts, SameSessionTransitive
    <3>3. /\ q \in Runtime /\ q.state = "Error" /\ q.child = NoPid /\ Unstarted(q)
          /\ \A p \in Pids : q.procs[p] = r.procs[p]
          /\ SameWindow(q, r) /\ is_clean_shutdown(q.disk)
      BY <3>1, <3>2, DropSessionFacts DEF SameSession, SameWindow
    <3>4. QED BY <1>2, <2>1, <3>3 DEF Sound, NoLeak, FileNamesChild, Active, Started, FileStep
  <2>5. CASE out.at = "hook"
    <3> DEFINE c == new_supervisor(terminate(n))
    <3>1. q = drop_session(c)
      BY <1>2, <2>5 DEF start, cancel_start, cancel
    <3>2. /\ terminate(n) \in Runtime
          /\ \A p \in Pids : terminate(n).procs[p] = r.procs[p]
          /\ SameSession(terminate(n), n)
      BY <2>3, TerminateFacts, RuntimeAssumption DEF Released
    <3>3. /\ c \in Runtime /\ c.state = "Idle" /\ c.child = NoPid
          /\ \A p \in Pids : c.procs[p] = r.procs[p]
          /\ SameSession(c, n)
      BY <3>2, NewSupervisorFacts, SameSessionTransitive
    <3>4. /\ q \in Runtime /\ q.state = "Idle" /\ q.child = NoPid /\ Unstarted(q)
          /\ \A p \in Pids : q.procs[p] = r.procs[p]
          /\ SameWindow(q, n) /\ is_clean_shutdown(q.disk)
      BY <3>1, <3>3, DropSessionFacts DEF SameSession, SameWindow
    <3>5. q.occurrence = o.occ /\ q.suppressed = NoOcc
      BY <2>3, <3>4 DEF SameWindow, Begun
    <3>6. QED BY <1>2, <2>1, <2>5, <3>4, <3>5
              DEF Sound, NoLeak, FileNamesChild, Active, Started, FileStep
  <2>6. CASE out.at = "launch"
    <3>1. /\ d \in Runtime
          /\ d.state = IF out.pid = NoPid THEN "Error" ELSE "Connecting"
          /\ d.child = IF out.pid = NoPid THEN NoPid ELSE out.pid
          /\ d.user_requested_stop = FALSE
          /\ \A x \in Pids \ {out.pid} : d.procs[x] = r.procs[x]
          /\ SameSession(d, n)
      BY <2>1, <2>3, SpawnNowFacts
    <3>2. d.plan = TRUE /\ d.restart_due = FALSE /\ (d.dry_run \/ d.sleep) /\ Begun(d, o)
      BY <2>3, <3>1 DEF SameSession, Begun
    <3>3. CASE out.pid = NoPid
      <4>1. q = d
        BY <1>2, <2>6, <3>3 DEF start
      <4>2. QED
        BY <1>2, <2>1, <2>6, <3>1, <3>2, <3>3, <4>1, RuntimeAssumption
        DEF Sound, NoLeak, FileNamesChild, Active, Started, Begun, FileStep
    <3>4. CASE out.pid # NoPid
      <4>1. q = persist(d)
        BY <1>2, <2>6, <3>4 DEF start
      <4> HIDE DEF d, q
      <4>2. Sound(q)
        BY <3>1, <3>2, <3>4, <4>1, PersistFacts DEF Sound, Active
      <4>3. FileNamesChild(q)
        BY <3>1, <3>2, <3>4, <4>1, PersistFacts
        DEF FileNamesChild, is_clean_shutdown, Terminal
      <4>4. \A O : NoLeak(r, O) => NoLeak(q, O)
        BY <2>1, <3>1, <3>4, <4>1, PersistFacts, RuntimeAssumption DEF NoLeak
      <4>5. Started(r, q)
        BY <1>2, <3>1, <3>4, <4>1, PersistFacts DEF Started
      <4>6. Begun(q, o) /\ q.plan
        BY <3>1, <3>2, <4>1, PersistFacts DEF Begun, SamePurpose
      <4>7. QED BY <1>2, <2>6, <4>2, <4>3, <4>4, <4>5, <4>6 DEF q, Begun, FileStep
    <3>5. QED BY <3>3, <3>4
  <2>7. QED BY <1>2, <2>4, <2>5, <2>6 DEF Outcome
<1>3. QED BY <1>1, <1>2

\* stop() keeps the runtime sound, and ends in STOPPED or changes no sender.
LEMMA StopSound ==
    ASSUME NEW r, Sound(r), NEW user \in BOOLEAN
    PROVE  /\ Sound(stop(r, user))
           /\ \A O : NoLeak(r, O) => NoLeak(stop(r, user), O)
           /\ FileNamesChild(r) => FileNamesChild(stop(r, user))
           /\ SameSender(r, stop(r, user)) \/ stop(r, user).state = "Stopped"
           /\ (stop(r, user) = r /\ ~r.plan) \/ Ended(r, stop(r, user), user)
           /\ stop(r, user).occurrence \in {NoOcc, r.occurrence}
           /\ FileStep(r, stop(r, user))
<1> DEFINE m == [r EXCEPT !.suppressed = IF user THEN r.occurrence ELSE @]
           s == supervisor_stop(m)
           f == drop_session(s)
           q == [f EXCEPT !.occurrence = NoOcc, !.restart_due = FALSE]
<1>0. r \in Runtime
  BY DEF Sound
<1>1. CASE r.state \in Terminal /\ ~r.plan
  BY <1>1 DEF stop, SameSender, FileStep
<1>2. CASE ~(r.state \in Terminal /\ ~r.plan)
  <2>1. /\ m \in Runtime /\ m.state = r.state /\ m.child = r.child /\ m.procs = r.procs
        /\ m.plan = r.plan /\ m.reason = r.reason /\ m.occurrence = r.occurrence
        /\ m.suppressed = IF user THEN r.occurrence ELSE r.suppressed
        /\ m.disk = r.disk
    BY <1>0 DEF Runtime
  <2>2. stop(r, user) = IF s.state # "Stopped" THEN s ELSE q
    BY <1>2 DEF stop
  <2> HIDE DEF m
  <2>3. /\ s \in Runtime /\ s.child = NoPid
        /\ s.state = IF m.state \in {"Idle", "Error"} THEN m.state ELSE "Stopped"
        /\ \A p \in Pids : s.procs[p] = IF p = r.child THEN "none" ELSE r.procs[p]
        /\ SamePurpose(s, m) /\ s.disk = m.disk
    BY <2>1, SupervisorStopFacts DEF Released, SameSession, SamePurpose
  <2> HIDE DEF s
  <2>4. /\ f \in Runtime /\ f.state = s.state /\ f.child = NoPid /\ f.procs = s.procs
        /\ f.suppressed = s.suppressed /\ Unstarted(f) /\ is_clean_shutdown(f.disk)
    BY <2>3, DropSessionFacts DEF SameWindow
  <2> HIDE DEF f
  <2>5. /\ q \in Runtime /\ q.state = s.state /\ q.child = NoPid /\ q.procs = s.procs
        /\ q.suppressed = s.suppressed /\ q.occurrence = NoOcc
        /\ Unstarted(q) /\ is_clean_shutdown(q.disk)
    BY <2>4 DEF Runtime, OptOcc, Unstarted
  <2> HIDE DEF q
  <2>6. s.state \in {"Idle", "Error", "Stopped"}
    BY <2>3
  <2>7. SameSender(r, s) \/ s.state = "Stopped"
    BY <2>1, <2>3 DEF Sound, SameSender
  <2>8. Ended(r, IF s.state # "Stopped" THEN s ELSE q, user)
    BY <2>1, <2>3, <2>5, <2>6 DEF Ended, SamePurpose, Active
  <2>9. /\ FileStep(r, IF s.state # "Stopped" THEN s ELSE q)
        /\ (IF s.state # "Stopped" THEN s ELSE q).occurrence \in {NoOcc, r.occurrence}
    BY <2>1, <2>3, <2>5 DEF FileStep, SamePurpose
  <2>10. QED
    BY <2>2, <2>3, <2>5, <2>6, <2>7, <2>8, <2>9 DEF Sound, NoLeak, FileNamesChild, Active, Alive
<1>3. QED BY <1>1, <1>2

\* poll() and the tick's arms: an exit or a stall leaves no child, and is
\* followed by a pending restart.
LEMMA PollSound ==
    ASSUME NEW r, Sound(r), ~r.restart_due
    PROVE  /\ Sound(poll(r))
           /\ \A O : NoLeak(r, O) => NoLeak(poll(r), O)
           /\ \/ poll(r) = r
              \/ r.state \in {"Connecting", "Live"} /\ poll(r).state = "Reconnecting"
           /\ SamePurpose(poll(r), r) /\ poll(r).disk = r.disk
<1>0. r \in Runtime /\ r.state \in StreamState
  BY DEF Sound, Runtime
<1>1. CASE is_stalled(r)
  <2> DEFINE g == terminate(r)
             t == transition(g, "Reconnecting")
             q == [t EXCEPT !.restart_due = TRUE]
  <2>1. r.state = "Live"
    BY <1>1 DEF is_stalled
  <2>2. /\ g \in Runtime /\ g.state = "Live" /\ g.child = NoPid
        /\ g.user_requested_stop = r.user_requested_stop
        /\ Released(g, r) /\ SameSession(g, r)
    BY <1>0, <2>1, TerminateFacts
  <2>3. can_transition_to("Live", "Reconnecting") /\ "Reconnecting" \in StreamState
    BY Allowed DEF can_transition_to, StreamState
  <2> HIDE DEF g
  <2>4. /\ t \in Runtime /\ t.state = "Reconnecting" /\ t.child = NoPid
        /\ t.user_requested_stop = r.user_requested_stop /\ t.procs = g.procs
        /\ SameSession(t, r)
    BY <2>2, <2>3, TransitionFacts, SameSessionTransitive
  <2>5. poll(r) = q
    BY <1>1 DEF poll, g
  <2> HIDE DEF t
  <2>6. /\ q \in Runtime /\ q.state = "Reconnecting" /\ q.child = NoPid
        /\ q.user_requested_stop = t.user_requested_stop /\ q.procs = t.procs
        /\ SamePurpose(q, t) /\ q.dry_run = t.dry_run /\ q.sleep = t.sleep
        /\ q.disk = t.disk
    BY <2>4 DEF Runtime, SamePurpose
  <2> HIDE DEF q
  <2>7. SamePurpose(q, r) /\ q.dry_run = r.dry_run /\ q.sleep = r.sleep /\ q.disk = r.disk
    BY <2>4, <2>6 DEF SameSession, SamePurpose
  <2>8. Sound(q)
    BY <2>1, <2>4, <2>6, <2>7 DEF Sound, Active, SamePurpose
  <2>9. \A O : NoLeak(r, O) => NoLeak(q, O)
    BY <2>2, <2>4, <2>6 DEF NoLeak, Released, Alive
  <2>10. QED BY <2>1, <2>5, <2>6, <2>7, <2>8, <2>9
<1>2. CASE ~is_stalled(r) /\ r.child # NoPid /\ r.procs[r.child] \notin Alive
  <2> DEFINE e == [r EXCEPT !.child = NoPid, !.procs[r.child] = "none"]
             t == transition(e, "Reconnecting")
             q == [t EXCEPT !.restarted = TRUE, !.restart_due = TRUE]
  <2>1. r.state \in {"Connecting", "Live"} /\ ~r.user_requested_stop /\ r.child \in Pids
    BY <1>0, <1>2 DEF Sound, Runtime, OptPid, Active
  <2>2. /\ e \in Runtime /\ e.state = r.state /\ e.child = NoPid
        /\ e.user_requested_stop = r.user_requested_stop
        /\ Released(e, r) /\ SameSession(e, r)
    BY <1>0, <2>1, RuntimeAssumption DEF Runtime, OptPid, ProcState, SameSession, Released
  <2>3. /\ can_transition_to(r.state, "Reconnecting") /\ "Reconnecting" \in StreamState
        /\ r.state # "Stopping"
    BY <2>1, Allowed DEF can_transition_to, StreamState
  <2>4. on_process_exit(e, r.procs[r.child] = "exit_ok") = t
    BY <2>1, <2>2, <2>3 DEF on_process_exit
  <2>5. poll(r) = reap(r)
    BY <1>2 DEF poll
  <2> HIDE DEF e
  <2>6. /\ t \in Runtime /\ t.state = "Reconnecting" /\ t.child = NoPid
        /\ t.user_requested_stop = r.user_requested_stop /\ t.procs = e.procs
        /\ SameSession(t, r)
    BY <2>2, <2>3, TransitionFacts, SameSessionTransitive
  <2>7. reap(r) = q
    BY <2>4, <2>6 DEF reap, e
  <2> HIDE DEF t
  <2>8. /\ q \in Runtime /\ q.state = "Reconnecting" /\ q.child = NoPid
        /\ q.user_requested_stop = t.user_requested_stop /\ q.procs = t.procs
        /\ SamePurpose(q, t) /\ q.dry_run = t.dry_run /\ q.sleep = t.sleep
        /\ q.disk = t.disk
    BY <2>6 DEF Runtime, SamePurpose
  <2> HIDE DEF q
  <2>9. SamePurpose(q, r) /\ q.dry_run = r.dry_run /\ q.sleep = r.sleep /\ q.disk = r.disk
    BY <2>6, <2>8 DEF SameSession, SamePurpose
  <2>10. Sound(q)
    BY <2>1, <2>6, <2>8, <2>9 DEF Sound, Active, SamePurpose
  <2>11. \A O : NoLeak(r, O) => NoLeak(q, O)
    BY <2>2, <2>6, <2>8 DEF NoLeak, Released, Alive
  <2>12. QED BY <2>1, <2>5, <2>7, <2>8, <2>9, <2>10, <2>11
<1>3. CASE ~is_stalled(r) /\ ~(r.child # NoPid /\ r.procs[r.child] \notin Alive)
  BY <1>3 DEF poll, SamePurpose
<1>4. QED BY <1>1, <1>2, <1>3

\* The supervisor half of a tick keeps the runtime sound.
LEMMA TickSupervisorSound ==
    ASSUME NEW r, Sound(r), NEW due \in BOOLEAN, NEW p \in OptPid
    PROVE  /\ Sound(tick_supervisor(r, due, p))
           /\ \A O : NoLeak(r, O) => NoLeak(tick_supervisor(r, due, p), O)
           /\ Supervised(r, tick_supervisor(r, due, p))
           /\ SamePurpose(tick_supervisor(r, due, p), r)
           /\ tick_supervisor(r, due, p).disk = r.disk
<1> DEFINE q == tick_supervisor(r, due, p)
<1>0. r \in Runtime /\ r.state \in StreamState
  BY DEF Sound, Runtime
<1>1. CASE r.restart_due /\ ~due
  BY <1>1 DEF tick_supervisor, Supervised, SameSender, SamePurpose
<1>2. CASE r.restart_due /\ due /\ ~can_transition_to(r.state, "Connecting")
  <2>1. q = [r EXCEPT !.restart_due = FALSE]
    BY <1>2 DEF tick_supervisor
  <2>2. /\ q \in Runtime /\ q.state = r.state /\ q.child = r.child /\ q.procs = r.procs
        /\ q.user_requested_stop = r.user_requested_stop /\ SamePurpose(q, r)
        /\ q.dry_run = r.dry_run /\ q.sleep = r.sleep /\ q.restart_due = FALSE
        /\ q.disk = r.disk
    BY <1>0, <2>1 DEF Runtime, SamePurpose
  <2> HIDE DEF q
  <2>3. Sound(q) /\ Supervised(r, q) /\ \A O : NoLeak(r, O) => NoLeak(q, O)
    BY <2>2 DEF Sound, NoLeak, Supervised, SameSender, SamePurpose
  <2>4. QED BY <2>2, <2>3 DEF q
<1>3. CASE r.restart_due /\ due /\ can_transition_to(r.state, "Connecting")
  <2> DEFINE c == transition(r, "Connecting")
             s == spawn_now(c, p)
  <2>1. r.child = NoPid /\ r.state = "Reconnecting"
    <3>1. r.child = NoPid /\ r.state \notin {"Connecting", "Live", "Preparing", "Stopping"}
      BY <1>3 DEF Sound
    <3>2. QED BY <1>0, <1>3, <3>1, Allowed DEF can_transition_to, StreamState
  <2>2. /\ c \in Runtime /\ c.state = "Connecting" /\ c.child = NoPid /\ c.procs = r.procs
        /\ c.user_requested_stop = r.user_requested_stop /\ SameSession(c, r)
    BY <1>0, <1>3, <2>1, TransitionFacts DEF StreamState
  <2>3. q = [s EXCEPT !.restart_due = (p = NoPid)]
    BY <1>3 DEF tick_supervisor
  <2> HIDE DEF c
  <2>4. /\ s \in Runtime /\ s.state = IF p = NoPid THEN "Error" ELSE "Connecting"
        /\ s.child = p
        /\ s.user_requested_stop = r.user_requested_stop
        /\ \A x \in Pids \ {p} : s.procs[x] = r.procs[x]
        /\ SameSession(s, r)
    BY <2>2, SpawnNowFacts, SameSessionTransitive
  <2> HIDE DEF s
  <2>5. /\ q \in Runtime /\ q.state = s.state /\ q.child = s.child /\ q.procs = s.procs
        /\ q.user_requested_stop = s.user_requested_stop /\ SamePurpose(q, s)
        /\ q.dry_run = s.dry_run /\ q.sleep = s.sleep /\ q.restart_due = (p = NoPid)
        /\ q.disk = s.disk
    <3>1. PICK failed \in BOOLEAN : failed = (p = NoPid)
      OBVIOUS
    <3>2. q = [s EXCEPT !.restart_due = failed] /\ s \in Runtime
      BY <2>3, <2>4, <3>1
    <3> HIDE DEF q
    <3>3. q \in Runtime /\ q.restart_due = failed
      BY <3>2 DEF Runtime
    <3>4. QED BY <3>1, <3>2, <3>3 DEF Runtime, SamePurpose
  <2> HIDE DEF q
  <2>6. SamePurpose(q, r) /\ q.dry_run = r.dry_run /\ q.sleep = r.sleep /\ q.disk = r.disk
    BY <2>4, <2>5 DEF SameSession, SamePurpose
  <2>7. Sound(q)
    BY <2>1, <2>4, <2>5, <2>6 DEF Sound, Active, SamePurpose
  <2>8. \A O : NoLeak(r, O) => NoLeak(q, O)
    BY <2>1, <2>4, <2>5, RuntimeAssumption DEF NoLeak
  <2>9. Supervised(r, q)
    BY <2>1, <2>4, <2>5 DEF Supervised
  <2>10. QED BY <2>6, <2>7, <2>8, <2>9 DEF q
<1>4. CASE ~r.restart_due /\ r.state = "Connecting" /\ r.saw_data
  <2> DEFINE t == transition(r, "Live")
             l == mark_live(r)
  <2>1. can_transition_to("Connecting", "Live") /\ "Live" \in StreamState
    BY Allowed DEF can_transition_to, StreamState
  <2>2. /\ t \in Runtime /\ t.state = "Live" /\ t.child = r.child /\ t.procs = r.procs
        /\ t.user_requested_stop = r.user_requested_stop /\ SameSession(t, r)
    BY <1>0, <1>4, <2>1, TransitionFacts
  <2>3. l = [t EXCEPT !.last_data_at = "fresh"]
    BY DEF mark_live
  <2> HIDE DEF t
  <2>4. /\ l \in Runtime /\ l.state = "Live" /\ l.child = r.child /\ l.procs = r.procs
        /\ l.user_requested_stop = r.user_requested_stop /\ SameSession(l, t)
    BY <2>2, <2>3 DEF Runtime, Age, SameSession
  <2> HIDE DEF l
  <2>5. Sound(l) /\ ~l.restart_due
    BY <1>4, <2>2, <2>4 DEF Sound, SameSession, Active
  <2>6. \A O : NoLeak(r, O) => NoLeak(l, O)
    BY <2>4 DEF NoLeak
  <2>7. q = poll(l)
    BY <1>4 DEF tick_supervisor, l
  <2>8. Supervised(r, q)
    BY <1>4, <2>4, <2>5, <2>7, PollSound DEF Supervised
  <2>9. SamePurpose(q, r) /\ q.disk = r.disk
    <3>1. SamePurpose(l, r) /\ l.disk = r.disk
      BY <2>2, <2>4 DEF SameSession, SamePurpose
    <3>2. SamePurpose(poll(l), l) /\ poll(l).disk = l.disk
      BY <2>5, PollSound
    <3>3. QED BY <2>7, <3>1, <3>2 DEF SamePurpose
  <2>10. QED BY <2>5, <2>6, <2>7, <2>8, <2>9, PollSound
<1>5. CASE ~r.restart_due /\ ~(r.state = "Connecting" /\ r.saw_data)
  <2>1. q = poll(r)
    BY <1>5 DEF tick_supervisor
  <2>2. Supervised(r, q)
    BY <1>5, <2>1, PollSound DEF Supervised, SameSender
  <2>3. QED BY <1>5, <2>1, <2>2, PollSound
<1>6. QED BY <1>1, <1>2, <1>3, <1>4, <1>5

\* The scheduler half of a tick keeps the runtime sound.
LEMMA TickSchedulerSound ==
    ASSUME NEW r, Sound(r), NEW S \in SUBSET Schedule, NEW t \in Nat,
           NEW retry \in BOOLEAN, NEW out \in Outcome
    PROVE  /\ Sound(tick_scheduler(r, S, t, retry, out))
           /\ \A O : NoLeak(r, O) => NoLeak(tick_scheduler(r, S, t, retry, out), O)
           /\ \/ SameSender(r, tick_scheduler(r, S, t, retry, out))
              \/ tick_scheduler(r, S, t, retry, out).state = "Stopped"
              \/ ~r.restart_due /\ Started(r, tick_scheduler(r, S, t, retry, out))
           /\ FileStep(r, tick_scheduler(r, S, t, retry, out))
<1> DEFINE run == IF r.reason = "Manual" THEN NoOcc ELSE r.occurrence
           d   == evaluate(S, run, t)
           q   == tick_scheduler(r, S, t, retry, out)
<1>0. r \in Runtime /\ run \in Occurrence \cup {NoOcc}
  BY DEF Sound, Runtime, OptOcc
<1>1. CASE ~r.armed
  BY <1>1 DEF tick_scheduler, SameSender, FileStep
<1>2. CASE r.armed /\ d.kind = "ShouldBroadcast"
  <2> DEFINE s == start(r, ScheduledStart(d.occ), out)
             b == begin_scheduled(r, d.occ, out)
  <2>1. q = window_open(r, d.occ, retry, out)
    BY <1>2 DEF tick_scheduler
  <2>2. d.occ \in Occurrence
    BY <1>0, <1>2, BroadcastsOpenWindows
  <2> HIDE DEF d
  <2>3. ScheduledStart(d.occ) \in StartOpts
    BY <2>2 DEF ScheduledStart, StartOpts, Reason, OptOcc
  <2>4. /\ Sound(s) /\ \A O : NoLeak(r, O) => NoLeak(s, O)
        /\ s = r \/ Started(r, s)
        /\ FileStep(r, s)
    BY <2>3, StartSound
  <2>5. b = [s EXCEPT !.failed = IF out.at = "launch" /\ out.pid # NoPid THEN NoOcc ELSE d.occ]
    BY DEF begin_scheduled
  <2> HIDE DEF s
  <2>6. /\ b \in Runtime /\ b.state = s.state /\ b.child = s.child /\ b.procs = s.procs
        /\ b.user_requested_stop = s.user_requested_stop /\ SameSession(b, s)
    BY <2>2, <2>4, <2>5 DEF Sound, Runtime, OptOcc, SameSession
  <2> HIDE DEF b
  <2>7. Sound(b) /\ \A O : NoLeak(r, O) => NoLeak(b, O)
    BY <2>4, <2>6 DEF Sound, NoLeak, SameSession
  <2>8. q = r \/ (q = b /\ ~r.restart_due)
    BY <2>1 DEF window_open, b
  <2>9. (SameSender(r, b) \/ Started(r, b)) /\ FileStep(r, b)
    BY <2>4, <2>6 DEF SameSender, Started, SameSession, FileStep
  <2>10. QED BY <2>7, <2>8, <2>9 DEF SameSender, FileStep
<1>3. CASE r.armed /\ d.kind = "ShouldStop"
  <2>1. q = window_closed(r)
    BY <1>3 DEF tick_scheduler
  <2>2. q = r \/ q = stop(r, FALSE)
    BY <2>1 DEF window_closed
  <2>3. QED BY <2>2, StopSound DEF SameSender, FileStep
<1>4. CASE r.armed /\ d.kind # "ShouldBroadcast" /\ d.kind # "ShouldStop"
  <2>1. q = [r EXCEPT !.suppressed = IF Contains(@, t) THEN @ ELSE NoOcc]
    BY <1>4 DEF tick_scheduler
  <2>2. /\ q \in Runtime /\ q.state = r.state /\ q.child = r.child /\ q.procs = r.procs
        /\ q.user_requested_stop = r.user_requested_stop /\ q.plan = r.plan
        /\ q.dry_run = r.dry_run /\ q.sleep = r.sleep /\ q.restart_due = r.restart_due
        /\ q.disk = r.disk
    BY <1>0, <2>1 DEF Runtime, OptOcc
  <2> HIDE DEF q
  <2>3. Sound(q) /\ SameSender(r, q) /\ FileStep(r, q) /\ \A O : NoLeak(r, O) => NoLeak(q, O)
    BY <2>2 DEF Sound, NoLeak, SameSender, FileStep
  <2>4. QED BY <2>3 DEF q
<1>5. QED BY <1>1, <1>2, <1>3, <1>4

\* A tick up to the save keeps the runtime sound.
LEMMA TickUnsavedSound ==
    ASSUME NEW r, Sound(r), NEW S \in SUBSET Schedule, NEW t \in Nat,
           NEW due \in BOOLEAN, NEW retry \in BOOLEAN, NEW out \in Outcome
    PROVE  /\ Sound(tick_unsaved(r, S, t, due, retry, out))
           /\ \A O : NoLeak(r, O) => NoLeak(tick_unsaved(r, S, t, due, retry, out), O)
           /\ Ticked(r, tick_unsaved(r, S, t, due, retry, out))
           /\ FileStep(r, tick_unsaved(r, S, t, due, retry, out))
<1> DEFINE s == tick_supervisor(r, due, out.pid)
<1>1. out.pid \in OptPid
  BY DEF Outcome
<1>2. /\ Sound(s) /\ Supervised(r, s)
      /\ \A O : NoLeak(r, O) => NoLeak(s, O)
      /\ s.plan = r.plan /\ s.disk = r.disk
  BY <1>1, TickSupervisorSound DEF SamePurpose
<1>3. tick_unsaved(r, S, t, due, retry, out) = tick_scheduler(s, S, t, retry, out)
  BY DEF tick_unsaved
<1> HIDE DEF s
<1> DEFINE q == tick_scheduler(s, S, t, retry, out)
<1>4. /\ Sound(q) /\ \A O : NoLeak(s, O) => NoLeak(q, O)
      /\ SameSender(s, q) \/ q.state = "Stopped" \/ (~s.restart_due /\ Started(s, q))
      /\ FileStep(s, q)
  BY <1>2, TickSchedulerSound
<1> HIDE DEF q
<1>5. Ticked(r, q)
  <2>1. CASE SameSender(s, q)
    <3>1. CASE SameSender(r, s)
      BY <2>1, <3>1 DEF SameSender, Ticked, Supervised
    <3>2. CASE ~SameSender(r, s) /\ s.state # "Error"
      BY <1>2, <2>1, <3>2 DEF SameSender, Ticked, Supervised
    <3>3. CASE ~SameSender(r, s) /\ s.state = "Error"
      BY <1>2, <1>4, <2>1, <3>3 DEF SameSender, Ticked, Supervised
    <3>4. QED BY <3>1, <3>2, <3>3
  <2>2. CASE ~s.restart_due /\ Started(s, q)
    <3>1. SameSender(r, s)
      BY <1>2, <2>2 DEF Supervised, Started, IsActive, Active
    <3>2. QED BY <2>2, <3>1 DEF SameSender, Started, IsActive, Ticked
  <2>3. QED BY <1>4, <2>1, <2>2 DEF Ticked
<1>6. FileStep(r, q)
  BY <1>2, <1>4 DEF FileStep
<1>7. QED BY <1>2, <1>3, <1>4, <1>5, <1>6 DEF q

\* Saving the session leaves a sound runtime sound, with a file that names the
\* process it holds.
LEMMA PersistSound ==
    ASSUME NEW r, Sound(r)
    PROVE  /\ Sound(persist(r))
           /\ \A O : NoLeak(r, O) => NoLeak(persist(r), O)
           /\ FileNamesChild(persist(r))
<1>1. r \in Runtime /\ (r.child # NoPid => r.plan /\ r.state \in {"Connecting", "Live"})
  BY DEF Sound, Active
<1>2. Sound(persist(r))
  BY <1>1, PersistFacts DEF Sound
<1>3. \A O : NoLeak(r, O) => NoLeak(persist(r), O)
  BY <1>1, PersistFacts DEF NoLeak
<1>4. FileNamesChild(persist(r))
  BY <1>1, PersistFacts DEF FileNamesChild, is_clean_shutdown, Terminal
<1>5. QED BY <1>2, <1>3, <1>4

\* A whole tick keeps the runtime sound and leaves a file that names the child.
LEMMA TickSound ==
    ASSUME NEW r, Sound(r), NEW S \in SUBSET Schedule, NEW t \in Nat,
           NEW due \in BOOLEAN, NEW retry \in BOOLEAN, NEW out \in Outcome
    PROVE  /\ Sound(tick(r, S, t, due, retry, out))
           /\ \A O : NoLeak(r, O) => NoLeak(tick(r, S, t, due, retry, out), O)
           /\ FileNamesChild(tick(r, S, t, due, retry, out))
           /\ FileStep(r, tick(r, S, t, due, retry, out))
<1> DEFINE u == tick_unsaved(r, S, t, due, retry, out)
<1>1. Sound(u) /\ FileStep(r, u) /\ \A O : NoLeak(r, O) => NoLeak(u, O)
  BY TickUnsavedSound
<1> HIDE DEF u
<1>2. Sound(persist(u)) /\ FileNamesChild(persist(u)) /\ \A O : NoLeak(u, O) => NoLeak(persist(u), O)
  BY <1>1, PersistSound
<1>3. FileStep(r, persist(u))
  BY <1>1, PersistFacts DEF Sound, FileStep, persist
<1>4. QED BY <1>1, <1>2, <1>3 DEF tick, u

\* A new runtime is sound on any machine and with any session file.
LEMMA FreshSound ==
    ASSUME NEW procs \in [Pids -> ProcState], NEW pushed \in [Pids -> BOOLEAN],
           NEW disk \in SessionFile
    PROVE  /\ Sound(Fresh(procs, pushed, disk))
           /\ FileNamesChild(Fresh(procs, pushed, disk))
           /\ Fresh(procs, pushed, disk).procs = procs
           /\ Fresh(procs, pushed, disk).child = NoPid
<1> DEFINE q == Fresh(procs, pushed, disk)
<1>1. /\ q.state = "Idle" /\ q.child = NoPid /\ q.restart_due = FALSE /\ q.procs = procs
  BY DEF Fresh
<1>2. q \in Runtime
  BY DEF Fresh, Runtime, StreamState, OptPid, AllOff, ReaderPc, Age, OptOcc, Reason
<1>3. QED BY <1>1, <1>2 DEF Sound, FileNamesChild, Active

\* Every process alive is the one an unclean session file names or one of O.
OnFile(r, O) ==
    \A p \in Pids \ O :
        r.procs[p] \in Alive => r.disk.pid = p /\ ~is_clean_shutdown(r.disk)

\* The purpose of the broadcast a launch leaves: as it was, none, or a window
\* that is open and was left armed, resumed only from the file of a run that died.
Relaunched(r, q, t) ==
    \/ SameSender(r, q) /\ SamePurpose(q, r)
    \/ Unstarted(q) /\ (SameWindow(q, r) \/ Contains(q.occurrence, t))
    \/ /\ q.reason \in {"Scheduled", "Recovered"} /\ ~q.dry_run
       /\ q.occurrence # NoOcc /\ Contains(q.occurrence, t) /\ q.suppressed = NoOcc
       /\ RestoreOnLaunch /\ armed_row
       /\ q.reason = "Recovered" => Resumable(r.disk, t)

\* The recovery of a launch.
LEMMA LaunchSound ==
    ASSUME NEW r, Sound(r), FileNamesChild(r), r.child = NoPid,
           NEW S \in SUBSET Schedule, NEW t \in Nat, NEW out \in Outcome,
           armed_row \in BOOLEAN
    PROVE  /\ Sound(launch(r, S, t, out))
           /\ \A O : OnFile(r, O) => NoLeak(launch(r, S, t, out), O)
           /\ FileNamesChild(launch(r, S, t, out))
           /\ FileStep(r, launch(r, S, t, out))
           /\ SameSender(r, launch(r, S, t, out)) \/ Started(r, launch(r, S, t, out))
           /\ Relaunched(r, launch(r, S, t, out), t)
<1> DEFINE a   == [r EXCEPT !.armed = RestoreOnLaunch /\ armed_row]
           c   == clean_orphan_process(a)
           occ == IF c.armed THEN recover_window(S, t) ELSE NoOcc
           dec == decide_recovery(c.disk, t, occ # NoOcc)
           k   == IF dec = "CleanUpOnly" THEN [c EXCEPT !.disk = NoFile] ELSE c
           o   == [reason |-> IF dec = "Resume" THEN "Recovered" ELSE "Scheduled",
                   occ |-> occ, dry_run |-> FALSE]
<1>0. r \in Runtime
  BY DEF Sound
<1>1. /\ a \in Runtime /\ a.state = r.state /\ a.child = NoPid /\ a.procs = r.procs
      /\ a.user_requested_stop = r.user_requested_stop /\ SameSession(a, r)
      /\ a.armed = (RestoreOnLaunch /\ armed_row)
  <2>1. PICK on \in BOOLEAN : on = (RestoreOnLaunch /\ armed_row)
    OBVIOUS
  <2>2. a = [r EXCEPT !.armed = on]
    BY <2>1
  <2> HIDE DEF a
  <2>3. QED BY <1>0, <2>1, <2>2 DEF Runtime, SameSession
<1>2. launch(r, S, t, out) = IF occ = NoOcc THEN k ELSE start(k, o, out)
  BY DEF launch, recover_on_startup
<1> HIDE DEF a
<1>3. /\ c \in Runtime /\ c.state = r.state /\ c.child = NoPid
      /\ c.user_requested_stop = r.user_requested_stop /\ SameSession(c, a)
      /\ \A p \in Pids : c.procs[p] \in Alive => r.procs[p] \in Alive /\ p # r.disk.pid
      /\ c.armed = a.armed
  <2>0. a.disk.pid = r.disk.pid /\ \A p \in Pids : p # NoPid
    BY <1>1, RuntimeAssumption DEF SameSession
  <2>1. CASE a.disk.pid # NoPid /\ a.procs[a.disk.pid] \in Alive
    <3>1. a.disk.pid \in Pids
      BY <1>1, <2>1 DEF Runtime, SessionFile, OptPid
    <3>2. c = [a EXCEPT !.procs[a.disk.pid] = "none"]
      BY <2>1 DEF clean_orphan_process
    <3>3. QED BY <1>1, <2>0, <3>1, <3>2 DEF Runtime, ProcState, SameSession, Alive
  <2>2. CASE ~(a.disk.pid # NoPid /\ a.procs[a.disk.pid] \in Alive)
    <3>1. c = a
      BY <2>2 DEF clean_orphan_process
    <3>2. QED BY <1>1, <2>0, <2>2, <3>1 DEF SameSession
  <2>3. QED BY <2>1, <2>2
<1> HIDE DEF c
<1>4. occ \in OptOcc /\ (occ # NoOcc => Contains(occ, t) /\ RestoreOnLaunch /\ armed_row)
  <2>1. NoOcc \in Occurrence \cup {NoOcc}
    OBVIOUS
  <2>2. /\ recover_window(S, t) \in OptOcc
        /\ recover_window(S, t) # NoOcc => Contains(recover_window(S, t), t)
    BY <2>1, BroadcastsOpenWindows DEF recover_window, OptOcc
  <2>3. QED BY <1>1, <1>3, <2>2 DEF OptOcc
<1> HIDE DEF occ
<1>5. o \in StartOpts
  BY <1>4 DEF StartOpts, Reason
<1>6. /\ k \in Runtime /\ k.state = r.state /\ k.child = NoPid
      /\ k.user_requested_stop = r.user_requested_stop /\ k.procs = c.procs
      /\ SamePurpose(k, c) /\ k.dry_run = c.dry_run /\ k.sleep = c.sleep
      /\ k.restart_due = c.restart_due
      /\ is_clean_shutdown(k.disk) \/ k.disk = c.disk
  <2>1. NoFile \in SessionFile
    BY DEF SessionFile, NoFile, StreamState, OptOcc, OptPid
  <2>2. CASE dec = "CleanUpOnly"
    <3>1. k = [c EXCEPT !.disk = NoFile]
      BY <2>2
    <3> HIDE DEF k
    <3>2. QED BY <1>3, <2>1, <3>1 DEF Runtime, SamePurpose, NoFile, is_clean_shutdown
  <2>3. CASE dec # "CleanUpOnly"
    <3>1. k = c
      BY <2>3
    <3> HIDE DEF k
    <3>2. QED BY <1>3, <3>1 DEF SamePurpose
  <2>4. QED BY <2>2, <2>3
<1> HIDE DEF k
<1>7. Sound(k) /\ FileNamesChild(k) /\ SamePurpose(k, r) /\ FileStep(r, k)
  BY <1>1, <1>3, <1>6 DEF Sound, FileNamesChild, SameSession, SamePurpose, FileStep
<1>a. /\ o.occ = occ /\ o.reason \in {"Scheduled", "Recovered"} /\ o.dry_run = FALSE
      /\ o.reason = "Recovered" => Resumable(r.disk, t)
  <2>1. c.disk = r.disk /\ c.disk.occ \in Occurrence \cup {NoOcc}
    BY <1>1, <1>3 DEF SameSession, Runtime, SessionFile, OptOcc
  <2>2. c.disk.occ.end \in Nat
    BY <2>1 DEF Occurrence, NoOcc
  <2>3. dec = "Resume" => Resumable(c.disk, t)
    BY <2>2 DEF decide_recovery, Resumable
  <2>4. QED BY <2>1, <2>3
<1>8. \A O : OnFile(r, O) => NoLeak(k, O)
  BY <1>3, <1>6 DEF NoLeak, OnFile
<1>9. CASE occ = NoOcc
  BY <1>2, <1>6, <1>7, <1>8, <1>9 DEF SameSender, Relaunched
<1>10. CASE occ # NoOcc
  <2> DEFINE q == start(k, o, out)
  <2>1. /\ Sound(q) /\ FileNamesChild(q) /\ \A O : NoLeak(k, O) => NoLeak(q, O)
        /\ q = k \/ Started(k, q)
        /\ q = k \/ Unstarted(q) \/ Begun(q, o)
        /\ SameWindow(q, k) \/ q.occurrence = o.occ
        /\ FileStep(k, q)
    BY <1>5, <1>7, StartSound
  <2> HIDE DEF q, o
  <2>2. SameSender(r, q) \/ Started(r, q)
    BY <1>6, <2>1 DEF SameSender, Started, IsActive
  <2>3. launch(r, S, t, out) = q
    BY <1>2, <1>10 DEF q
  <2>4. Relaunched(r, q, t)
    <3>1. CASE q = k
      BY <1>6, <1>7, <3>1 DEF Relaunched, SameSender
    <3>2. CASE Unstarted(q)
      BY <1>4, <1>a, <1>7, <1>10, <2>1, <3>2 DEF Relaunched, SameWindow, SamePurpose
    <3>3. CASE Begun(q, o)
      BY <1>4, <1>a, <1>10, <3>3 DEF Relaunched, Begun
    <3>4. QED BY <2>1, <3>1, <3>2, <3>3
  <2>5. FileStep(r, q)
    BY <1>7, <2>1 DEF FileStep
  <2>6. QED BY <1>8, <2>1, <2>2, <2>3, <2>4, <2>5
<1>11. QED BY <1>9, <1>10

-----------------------------------------------------------------------------
(* The invariant of the specification *)

\* The inductive invariant: the runtime is sound, the file is fit to recover from,
\* every process alive but the unnamed ones is the child while the application is
\* up, and the one on file while it is not.
IInv ==
    /\ TypeOK
    /\ Sound(rt)
    /\ FileNamesChild(rt)
    /\ up => NoLeak(rt, seen.unnamed)
    /\ ~up => rt.child = NoPid /\ OnFile(rt, seen.unnamed)

\* The first launch finds no process and no file.
LEMMA InitIInv == Init => IInv
<1> SUFFICES ASSUME Init PROVE IInv
  OBVIOUS
<1> DEFINE P == [p \in Pids |-> "none"]
           B == [p \in Pids |-> FALSE]
<1>1. P \in [Pids -> ProcState] /\ B \in [Pids -> BOOLEAN] /\ NoFile \in SessionFile
  BY DEF ProcState, NoFile, SessionFile, StreamState, OptOcc, OptPid
<1>2. rt = Fresh(P, B, NoFile)
  BY DEF Init
<1>3. Sound(rt) /\ FileNamesChild(rt) /\ rt.procs = P /\ rt.child = NoPid
  BY <1>1, <1>2, FreshSound
<1>4. OnFile(rt, seen.unnamed) /\ ~up
  BY <1>3 DEF OnFile, Alive, Init
<1>5. seen \in Seen
  BY DEF Init, Seen, OptOcc
<1>6. now \in StartTime .. EndTime /\ schedules \subseteq Schedule
  BY RuntimeAssumption DEF Init
<1>7. TypeOK
  BY <1>3, <1>5, <1>6 DEF TypeOK, Init, Sound
<1>8. QED BY <1>3, <1>4, <1>7 DEF IInv

\* The outcomes the actions choose from.
LEMMA OutcomesType ==
    ASSUME rt \in Runtime
    PROVE  /\ \A out \in Outcomes : out \in Outcome
           /\ \A p \in FreePids : p \in Pids
BY DEF Outcomes, Outcome, FreePids, OptPid

\* The death of the application leaves a fresh runtime, and on file what it held
\* but for what was lost.
LEMMA DieIInv ==
    ASSUME IInv, NEW r \in Runtime, NEW open \in BOOLEAN, NEW lost \in SUBSET Pids,
           Die(r, open, lost), OnFile(r, seen.unnamed \cup lost)
    PROVE  IInv'
<1> DEFINE P == [p \in Pids |-> IF r.procs[p] \in Alive THEN r.procs[p] ELSE "none"]
           B == [p \in Pids |-> FALSE]
<1>1. P \in [Pids -> ProcState] /\ B \in [Pids -> BOOLEAN] /\ r.disk \in SessionFile
  BY DEF Runtime, ProcState, Alive
<1>2. rt' = Fresh(P, B, r.disk) /\ up' = FALSE
  BY DEF Die
<1>3. Sound(rt') /\ FileNamesChild(rt') /\ rt'.procs = P /\ rt'.child = NoPid
      /\ rt'.disk = r.disk
  BY <1>1, <1>2, FreshSound DEF Fresh
<1>4. seen'.unnamed = seen.unnamed \cup lost /\ seen' \in Seen
  BY DEF Die, Seen, OptOcc, IInv, TypeOK
<1>5. OnFile(rt', seen'.unnamed)
  BY <1>3, <1>4 DEF OnFile, Alive
<1>6. TypeOK'
  BY <1>3, <1>4 DEF TypeOK, IInv, Die, Sound
<1>7. QED BY <1>2, <1>3, <1>5, <1>6 DEF IInv

\* Where the mutex is free, what the runtime holds is what the file names.
LEMMA HeldIsOnFile ==
    ASSUME NEW r \in Runtime, NEW O, NoLeak(r, O), FileNamesChild(r)
    PROVE  OnFile(r, O)
<1>1. \A p \in Pids : p # NoPid
  BY RuntimeAssumption
<1>2. QED BY <1>1 DEF NoLeak, FileNamesChild, OnFile

\* Every step preserves the invariant: one case per action.
LEMMA NextIInv == IInv /\ [Next]_vars => IInv'
<1> SUFFICES ASSUME IInv, [Next]_vars PROVE IInv'
  OBVIOUS
<1>0. /\ rt \in Runtime /\ up \in BOOLEAN /\ now \in StartTime .. EndTime /\ now \in Nat
      /\ schedules \in SUBSET Schedule /\ armed_row \in BOOLEAN /\ seen \in Seen
      /\ Sound(rt) /\ FileNamesChild(rt)
      /\ (up => NoLeak(rt, seen.unnamed))
      /\ (~up => rt.child = NoPid /\ OnFile(rt, seen.unnamed))
      /\ seen.unnamed \in SUBSET Pids
  BY RuntimeAssumption DEF IInv, TypeOK, Seen
\* What the history remembers of a method.
<1>a. ASSUME NEW ticked \in BOOLEAN, NEW open \in BOOLEAN, NEW stopped \in OptOcc,
             NEW served \in OptOcc,
             seen' = [seen EXCEPT !.ticked = ticked, !.open = open, !.stopped = stopped,
                                  !.served = served]
      PROVE  seen' \in Seen /\ seen'.unnamed = seen.unnamed
  BY <1>0, <1>a DEF Seen
\* A method run under the mutex of an application that is up.
<1>b. ASSUME up, up' = up, now' = now, schedules' = schedules, armed_row' = armed_row,
             seen' \in Seen, seen'.unnamed = seen.unnamed,
             Sound(rt'), FileNamesChild(rt'), NoLeak(rt', seen.unnamed)
      PROVE  IInv'
  BY <1>0, <1>b DEF IInv, TypeOK, Sound
<1>c. /\ seen.open \in BOOLEAN /\ seen.ticked \in BOOLEAN
      /\ seen.stopped \in OptOcc /\ seen.served \in OptOcc /\ NoOcc \in OptOcc
      /\ rt.occurrence \in OptOcc
      /\ \A q \in Runtime : Opened(rt, q, seen.open) \in BOOLEAN /\ q.occurrence \in OptOcc
  BY <1>0 DEF Seen, OptOcc, Opened, Runtime
<1>1. ASSUME NEW due \in BOOLEAN, NEW retry \in BOOLEAN, NEW out \in Outcomes,
             Tick(due, retry, out)
      PROVE  IInv'
  <2> DEFINE open    == Opened(rt, rt', seen.open)
             stopped == IF rt'.occurrence \in {NoOcc, seen.stopped} THEN seen.stopped ELSE NoOcc
             served  == IF Launched(rt, rt') THEN rt'.occurrence ELSE seen.served
  <2>1. out \in Outcome
    BY <1>0, OutcomesType
  <2>2. /\ rt' = tick(rt, schedules, now, due, retry, out) /\ up
        /\ seen' = [seen EXCEPT !.ticked = TRUE, !.open = open, !.stopped = stopped,
                                !.served = served]
        /\ up' = up /\ now' = now /\ schedules' = schedules /\ armed_row' = armed_row
    BY <1>1 DEF Tick
  <2>3. Sound(rt') /\ NoLeak(rt', seen.unnamed) /\ FileNamesChild(rt')
    BY <1>0, <2>1, <2>2, TickSound
  <2>4. open \in BOOLEAN /\ stopped \in OptOcc /\ served \in OptOcc /\ TRUE \in BOOLEAN
    BY <1>c, <2>3 DEF Sound
  <2> HIDE DEF open, stopped, served
  <2>5. seen' \in Seen /\ seen'.unnamed = seen.unnamed
    BY <1>a, <2>2, <2>4
  <2>6. QED BY <1>b, <2>2, <2>3, <2>5
<1>2. ASSUME NEW dry \in BOOLEAN, NEW skip \in BOOLEAN, NEW out \in Outcomes,
             StartBroadcast(dry, skip, out)
      PROVE  IInv'
  <2> DEFINE begun   == ~IsActive(rt) /\ out.at \in {"hook", "launch"}
             open    == Opened(rt, rt', seen.open)
             stopped == IF begun THEN NoOcc ELSE seen.stopped
             served  == IF begun THEN NoOcc ELSE seen.served
  <2>1. out \in Outcome
    BY <1>0, OutcomesType
  <2>2. ManualStart(dry) \in StartOpts
    BY DEF ManualStart, StartOpts, Reason, OptOcc
  <2>3. /\ rt' = start(rt, ManualStart(dry), out) /\ up
        /\ seen' = [seen EXCEPT !.open = open, !.stopped = stopped, !.served = served]
        /\ up' = up /\ now' = now /\ schedules' = schedules /\ armed_row' = armed_row
    BY <1>2 DEF StartBroadcast
  <2>4. Sound(rt') /\ NoLeak(rt', seen.unnamed) /\ FileNamesChild(rt')
    BY <1>0, <2>1, <2>2, <2>3, StartSound
  <2>5. open \in BOOLEAN /\ stopped \in OptOcc /\ served \in OptOcc
    BY <1>c, <2>4 DEF Sound
  <2> HIDE DEF open, stopped, served
  <2>6. seen' \in Seen /\ seen'.unnamed = seen.unnamed
    BY <1>0, <2>3, <2>5 DEF Seen
  <2>7. QED BY <1>b, <2>3, <2>4, <2>6
<1>3. ASSUME StopBroadcast PROVE IInv'
  <2> DEFINE open    == Opened(rt, rt', seen.open)
             stopped == IF rt.plan /\ rt.occurrence # NoOcc THEN rt.occurrence ELSE seen.stopped
  <2>1. /\ rt' = stop(rt, TRUE) /\ up
        /\ seen' = [seen EXCEPT !.open = open, !.stopped = stopped, !.served = NoOcc]
        /\ up' = up /\ now' = now /\ schedules' = schedules /\ armed_row' = armed_row
    BY <1>3 DEF StopBroadcast
  <2>2. Sound(rt') /\ NoLeak(rt', seen.unnamed) /\ FileNamesChild(rt')
    BY <1>0, <2>1, StopSound
  <2>3. open \in BOOLEAN /\ stopped \in OptOcc
    BY <1>c, <2>2 DEF Sound
  <2> HIDE DEF open, stopped
  <2>4. seen' \in Seen /\ seen'.unnamed = seen.unnamed
    BY <1>0, <1>c, <2>1, <2>3 DEF Seen
  <2>5. QED BY <1>b, <2>1, <2>2, <2>4
<1>4. ASSUME NEW on \in BOOLEAN, SetArmed(on) PROVE IInv'
  <2>1. /\ rt' = [rt EXCEPT !.armed = on, !.failed = IF on THEN @ ELSE NoOcc] /\ up
        /\ seen' = [seen EXCEPT !.ticked = FALSE] /\ armed_row' = on
        /\ up' = up /\ now' = now /\ schedules' = schedules
    BY <1>4 DEF SetArmed
  <2>2. /\ rt' \in Runtime /\ rt'.state = rt.state /\ rt'.child = rt.child
        /\ rt'.procs = rt.procs /\ rt'.user_requested_stop = rt.user_requested_stop
        /\ SameSession(rt', rt)
    BY <1>0, <2>1 DEF Runtime, OptOcc, SameSession
  <2>3. seen' \in Seen /\ seen'.unnamed = seen.unnamed
    BY <1>0, <2>1 DEF Seen
  <2>4. Sound(rt') /\ NoLeak(rt', seen.unnamed) /\ FileNamesChild(rt')
    BY <1>0, <2>1, <2>2 DEF Sound, NoLeak, FileNamesChild, SameSession
  <2>5. up' = up /\ now' = now /\ schedules' = schedules /\ armed_row' \in BOOLEAN
    BY <2>1
  <2>6. QED BY <1>0, <2>1, <2>3, <2>4, <2>5 DEF IInv, TypeOK, Sound
<1>5. ASSUME NEW s \in schedules, ToggleSchedule(s) PROVE IInv'
  <2>1. /\ schedules' = (schedules \ {s}) \cup {[s EXCEPT !.enabled = ~@]}
        /\ seen' = [seen EXCEPT !.ticked = FALSE]
        /\ rt' = rt /\ up' = up /\ now' = now /\ armed_row' = armed_row
    BY <1>5 DEF ToggleSchedule
  <2>2. schedules' \subseteq Schedule
    <3>1. [s EXCEPT !.enabled = ~@] \in Schedule
      BY <1>0 DEF Schedule
    <3>2. QED BY <1>0, <2>1, <3>1
  <2>3. seen' \in Seen /\ seen'.unnamed = seen.unnamed
    BY <1>0, <2>1 DEF Seen
  <2>4. QED BY <1>0, <2>1, <2>2, <2>3 DEF IInv, TypeOK
<1>6. ASSUME ClockAdvance PROVE IInv'
  <2>1. /\ now' = now + 1 /\ now < EndTime /\ seen' = [seen EXCEPT !.ticked = FALSE]
        /\ rt' = rt /\ up' = up /\ schedules' = schedules /\ armed_row' = armed_row
    BY <1>6 DEF ClockAdvance
  <2>2. now' \in StartTime .. EndTime
    BY <1>0, <2>1, RuntimeAssumption
  <2>3. seen' \in Seen /\ seen'.unnamed = seen.unnamed
    BY <1>0, <2>1 DEF Seen
  <2>4. QED BY <1>0, <2>1, <2>2, <2>3 DEF IInv, TypeOK
\* What FFmpeg, its reader and the clock do to the runtime's record.
<1>7. ASSUME rt' \in Runtime, rt'.state = rt.state, rt'.child = rt.child,
             rt'.user_requested_stop = rt.user_requested_stop, SameSession(rt', rt),
             seen' \in Seen, \A p \in Pids \ seen'.unnamed :
                rt'.procs[p] \in Alive => p \notin seen.unnamed /\ rt.procs[p] \in Alive,
             up' = up, now' = now, schedules' = schedules, armed_row' = armed_row
      PROVE  IInv'
  <2>1. Sound(rt') /\ FileNamesChild(rt')
    BY <1>0, <1>7 DEF Sound, FileNamesChild, SameSession
  <2>2. up => NoLeak(rt', seen'.unnamed)
    BY <1>0, <1>7 DEF NoLeak
  <2>3. ~up => OnFile(rt', seen'.unnamed)
    BY <1>0, <1>7 DEF OnFile, SameSession
  <2>4. QED BY <1>0, <1>7, <2>1, <2>2, <2>3 DEF IInv, TypeOK
<1>8. ASSUME NEW p \in Pids, PushBytes(p) PROVE IInv'
  <2>1. /\ rt' = [rt EXCEPT !.pushed[p] = TRUE] /\ UNCHANGED <<up, now, schedules, armed_row, seen>>
    BY <1>8 DEF PushBytes
  <2>2. /\ rt' \in Runtime /\ rt'.state = rt.state /\ rt'.child = rt.child
        /\ rt'.procs = rt.procs /\ rt'.user_requested_stop = rt.user_requested_stop
        /\ SameSession(rt', rt)
    BY <1>0, <2>1 DEF Runtime, SameSession
  <2>3. QED BY <1>0, <1>7, <2>1, <2>2
<1>9. ASSUME NEW p \in Pids, Hang(p) PROVE IInv'
  <2>1. /\ rt' = [rt EXCEPT !.procs[p] = "hung"] /\ rt.procs[p] = "running"
        /\ UNCHANGED <<up, now, schedules, armed_row, seen>>
    BY <1>9 DEF Hang
  <2>2. /\ rt' \in Runtime /\ rt'.state = rt.state /\ rt'.child = rt.child
        /\ rt'.procs = [rt.procs EXCEPT ![p] = "hung"]
        /\ rt'.user_requested_stop = rt.user_requested_stop /\ SameSession(rt', rt)
    BY <1>0, <2>1 DEF Runtime, SameSession, ProcState
  <2>3. \A x \in Pids : rt'.procs[x] \in Alive => rt.procs[x] \in Alive
    BY <1>0, <2>1, <2>2 DEF Alive, Runtime
  <2>4. QED BY <1>0, <1>7, <2>1, <2>2, <2>3
<1>10. ASSUME NEW p \in Pids, NEW ok \in BOOLEAN, Exit(p, ok) PROVE IInv'
  <2> DEFINE x == IF p # rt.child THEN "none" ELSE IF ok THEN "exit_ok" ELSE "exit_err"
  <2>1. /\ rt' = [rt EXCEPT !.procs[p] = x] /\ seen' = [seen EXCEPT !.unnamed = @ \ {p}]
        /\ UNCHANGED <<up, now, schedules, armed_row>>
    BY <1>10 DEF Exit
  <2>2. x \in ProcState /\ x \notin Alive
    BY DEF ProcState, Alive
  <2> HIDE DEF x
  <2>3. /\ rt' \in Runtime /\ rt'.state = rt.state /\ rt'.child = rt.child
        /\ rt'.procs = [rt.procs EXCEPT ![p] = x]
        /\ rt'.user_requested_stop = rt.user_requested_stop /\ SameSession(rt', rt)
    BY <1>0, <2>1, <2>2 DEF Runtime, SameSession
  <2>4. seen' \in Seen /\ seen'.unnamed = seen.unnamed \ {p}
    BY <1>0, <2>1 DEF Seen
  <2>5. \A y \in Pids \ seen'.unnamed :
          rt'.procs[y] \in Alive => y \notin seen.unnamed /\ rt.procs[y] \in Alive
    BY <1>0, <2>2, <2>3, <2>4 DEF Runtime
  <2>6. QED BY <1>0, <1>7, <2>1, <2>3, <2>4, <2>5
<1>11. ASSUME NEW p \in Pids, NEW size \in {"bytes", "zero", "other"}, ProgressLine(p, size)
       PROVE  IInv'
  <2> DEFINE bytes == IF size = "other" THEN rt.total_bytes ELSE size = "bytes"
             pc == IF bytes THEN "stamping" ELSE rt.reader[p]
  <2>1. /\ rt' = [rt EXCEPT !.total_bytes = bytes, !.saw_data = @ \/ bytes, !.reader[p] = pc]
        /\ UNCHANGED <<up, now, schedules, armed_row, seen>>
    BY <1>11 DEF ProgressLine
  <2>2. /\ bytes \in BOOLEAN /\ (rt.saw_data \/ bytes) \in BOOLEAN /\ pc \in ReaderPc
    BY <1>0 DEF Runtime, ReaderPc
  <2> HIDE DEF bytes, pc
  <2>3. /\ rt' \in Runtime /\ rt'.state = rt.state /\ rt'.child = rt.child
        /\ rt'.procs = rt.procs /\ rt'.user_requested_stop = rt.user_requested_stop
        /\ SameSession(rt', rt)
    BY <1>0, <2>1, <2>2 DEF Runtime, SameSession
  <2>4. QED BY <1>0, <1>7, <2>1, <2>3
<1>12. ASSUME NEW p \in Pids, StampEpoch(p) \/ ReaderEof(p) PROVE IInv'
  <2>1. /\ \/ rt' = [rt EXCEPT !.data_epoch = "fresh", !.reader[p] = "reading"]
           \/ rt' = [rt EXCEPT !.reader[p] = "off", !.pushed[p] = FALSE]
        /\ UNCHANGED <<up, now, schedules, armed_row, seen>>
    BY <1>12 DEF StampEpoch, ReaderEof
  <2>2. /\ rt' \in Runtime /\ rt'.state = rt.state /\ rt'.child = rt.child
        /\ rt'.procs = rt.procs /\ rt'.user_requested_stop = rt.user_requested_stop
        /\ SameSession(rt', rt)
    <3>1. CASE rt' = [rt EXCEPT !.data_epoch = "fresh", !.reader[p] = "reading"]
      BY <1>0, <3>1 DEF Runtime, SameSession, ReaderPc, Age
    <3>2. CASE rt' = [rt EXCEPT !.reader[p] = "off", !.pushed[p] = FALSE]
      BY <1>0, <3>2 DEF Runtime, SameSession, ReaderPc
    <3>3. QED BY <2>1, <3>1, <3>2
  <2>3. QED BY <1>0, <1>7, <2>1, <2>2
<1>13. ASSUME Quiet PROVE IInv'
  <2>1. /\ rt' = [rt EXCEPT !.data_epoch   = IF @ = "none" THEN @ ELSE "stale",
                            !.last_data_at = IF @ = "none" THEN @ ELSE "stale"]
        /\ UNCHANGED <<up, now, schedules, armed_row, seen>>
    BY <1>13 DEF Quiet
  <2>2. /\ rt' \in Runtime /\ rt'.state = rt.state /\ rt'.child = rt.child
        /\ rt'.procs = rt.procs /\ rt'.user_requested_stop = rt.user_requested_stop
        /\ SameSession(rt', rt)
    BY <1>0, <2>1 DEF Runtime, SameSession, Age
  <2>3. QED BY <1>0, <1>7, <2>1, <2>2
<1>14. ASSUME Crash PROVE IInv'
  <2>1. OnFile(rt, seen.unnamed) /\ seen.unnamed \cup {} = seen.unnamed
    BY <1>0, <1>14, HeldIsOnFile DEF Crash
  <2>2. Die(rt, seen.open, {}) /\ seen.open \in BOOLEAN /\ {} \in SUBSET Pids
    BY <1>c, <1>14 DEF Crash
  <2>3. QED BY <1>0, <2>1, <2>2, DieIInv
<1>15. ASSUME NEW p \in FreePids, CrashBeforeSave(p) PROVE IInv'
  <2> DEFINE out == [at |-> "launch", pid |-> p]
  <2>1. out \in Outcome /\ p \in Pids
    BY <1>0, OutcomesType DEF Outcome, OptPid
  <2>2. ManualStart(FALSE) \in StartOpts
    BY DEF ManualStart, StartOpts, Reason, OptOcc
  <2>3. PICK spawned \in {start(rt, ManualStart(FALSE), out),
                          tick_unsaved(rt, schedules, now, TRUE, TRUE, out)} :
                spawned.child = p /\ Die([spawned EXCEPT !.disk = rt.disk], TRUE, {p})
    BY <1>15 DEF CrashBeforeSave
  <2>4. up
    BY <1>15 DEF CrashBeforeSave
  <2> HIDE DEF out
  <2>5. spawned \in Runtime /\ NoLeak(spawned, seen.unnamed)
    <3>1. /\ Sound(start(rt, ManualStart(FALSE), out))
          /\ NoLeak(start(rt, ManualStart(FALSE), out), seen.unnamed)
      BY <1>0, <2>1, <2>2, <2>4, StartSound
    <3>2. /\ Sound(tick_unsaved(rt, schedules, now, TRUE, TRUE, out))
          /\ NoLeak(tick_unsaved(rt, schedules, now, TRUE, TRUE, out), seen.unnamed)
      BY <1>0, <2>1, <2>4, TickUnsavedSound
    <3>3. QED BY <2>3, <3>1, <3>2 DEF Sound
  <2> DEFINE r == [spawned EXCEPT !.disk = rt.disk]
  <2>6. r \in Runtime /\ r.procs = spawned.procs
    BY <1>0, <2>5 DEF Runtime
  <2>7. Die(r, TRUE, {p})
    BY <2>3
  <2> HIDE DEF r
  <2>8. OnFile(r, seen.unnamed \cup {p})
    BY <2>3, <2>5, <2>6 DEF OnFile, NoLeak
  <2>9. {p} \in SUBSET Pids /\ TRUE \in BOOLEAN
    BY <2>1
  <2>10. QED BY <2>6, <2>7, <2>8, <2>9, DieIInv
<1>16. ASSUME Quit PROVE IInv'
  <2> DEFINE q == stop(rt, TRUE)
  <2>1. q \in Runtime /\ NoLeak(q, seen.unnamed) /\ FileNamesChild(q)
    BY <1>0, <1>16, StopSound DEF Sound, Quit
  <2>2. Die(q, Opened(rt, q, seen.open), {})
    BY <1>16 DEF Quit
  <2> HIDE DEF q
  <2>3. OnFile(q, seen.unnamed) /\ seen.unnamed \cup {} = seen.unnamed
    BY <2>1, HeldIsOnFile
  <2>4. Opened(rt, q, seen.open) \in BOOLEAN /\ {} \in SUBSET Pids
    BY <1>c, <2>1
  <2>5. QED BY <2>1, <2>2, <2>3, <2>4, DieIInv
<1>17. ASSUME NEW out \in Outcomes, Launch(out) PROVE IInv'
  <2> DEFINE open    == Opened(rt, rt', seen.open)
             unnamed == {p \in seen.unnamed : rt'.procs[p] \in Alive}
  <2>1. out \in Outcome
    BY <1>0, OutcomesType
  <2>2. /\ ~up /\ up' = TRUE /\ rt' = launch(rt, schedules, now, out)
        /\ seen' = [seen EXCEPT !.open = open, !.served = rt'.occurrence, !.unnamed = unnamed]
        /\ now' = now /\ schedules' = schedules /\ armed_row' = armed_row
    BY <1>17 DEF Launch
  <2>3. Sound(rt') /\ NoLeak(rt', seen.unnamed) /\ FileNamesChild(rt')
    BY <1>0, <2>1, <2>2, LaunchSound
  <2>4. open \in BOOLEAN /\ rt'.occurrence \in OptOcc /\ unnamed \in SUBSET Pids
    BY <1>0, <1>c, <2>3 DEF Sound
  <2>5. NoLeak(rt', unnamed)
    BY <2>3 DEF NoLeak
  <2> HIDE DEF open, unnamed
  <2>6. seen' \in Seen /\ seen'.unnamed = unnamed
    BY <1>0, <2>2, <2>4 DEF Seen
  <2>7. QED BY <1>0, <2>2, <2>3, <2>5, <2>6 DEF IInv, TypeOK, Sound
<1>18. CASE UNCHANGED vars
  BY <1>0, <1>18 DEF IInv, TypeOK, vars
<1>19. QED
  BY <1>1, <1>2, <1>3, <1>4, <1>5, <1>6, <1>8, <1>9, <1>10, <1>11, <1>12, <1>13, <1>14,
     <1>15, <1>16, <1>17, <1>18 DEF Next, AnyTick

\* The inductive invariant holds in every behaviour.
THEOREM Invariance == Spec => []IInv
BY InitIInv, NextIInv, PTL DEF Spec

-----------------------------------------------------------------------------
(* The properties *)

\* Every reachable state has its declared shape; in particular no method ever
\* stores a window that ends before it starts.
THEOREM TypeCorrect == Spec => []TypeOK
<1>1. IInv => TypeOK
  BY DEF IInv
<1>2. QED BY <1>1, Invariance, PTL

\* A supervisor holds a process only on the air, and never after a stop.
THEOREM HoldsChildOnlyOnAir == Spec => []ChildOnlyOnAir
<1>1. IInv => ChildOnlyOnAir
  BY DEF IInv, Sound, ChildOnlyOnAir, Active
<1>2. QED BY <1>1, Invariance, PTL

\* No method leaves the machine in PREPARING or STOPPING.
THEOREM NeverStranded == Spec => []NotStranded
<1>1. IInv => NotStranded
  BY DEF IInv, Sound, NotStranded
<1>2. QED BY <1>1, Invariance, PTL

\* The machine is kept awake for as long as a broadcast is active.
THEOREM StaysAwake == Spec => []AwakeWhileBroadcasting
<1>1. IInv => AwakeWhileBroadcasting
  BY DEF IInv, Sound, AwakeWhileBroadcasting, IsActive
<1>2. QED BY <1>1, Invariance, PTL

\* Between operations process, machine and sleep inhibition agree.
THEOREM EngineStaysWhole == Spec => []EngineIsWhole
<1>1. ChildOnlyOnAir /\ NotStranded /\ AwakeWhileBroadcasting => EngineIsWhole
  BY DEF EngineIsWhole
<1>2. QED BY <1>1, HoldsChildOnlyOnAir, NeverStranded, StaysAwake, PTL

\* Every process alive is the one session.json names, and the supervisor's child
\* while the application is up: all but those whose run died between the spawn and
\* the save of the file.
THEOREM SenderStaysKnown == Spec => []SenderIsKnown
<1>1. IInv => SenderIsKnown
  <2> SUFFICES ASSUME IInv PROVE SenderIsKnown
    OBVIOUS
  <2>1. up => NoLeak(rt, seen.unnamed) /\ OnFile(rt, seen.unnamed)
    BY HeldIsOnFile DEF IInv, Sound
  <2>2. QED BY <2>1 DEF IInv, NoLeak, OnFile, SenderIsKnown
<1>2. QED BY <1>1, Invariance, PTL

-----------------------------------------------------------------------------
(* What goes on the air by itself, and what is taken off *)

ByItself == {"Scheduled", "Recovered"}

\* A broadcast nobody started by hand has a window and one started by hand none, a
\* session never outlives the suppression of another window, and nothing is
\* suppressed on the air.
Owned(r) ==
    /\ r.reason \in ByItself => r.occurrence # NoOcc
    /\ r.reason = "Manual" => r.occurrence = NoOcc
    /\ r.plan => r.suppressed \in {NoOcc, r.occurrence}
    /\ r.state \in Active => r.suppressed = NoOcc

\* OffAirOutsideWindows of a record, once the scheduler has looked at the clock.
InWindow(r, S, t) ==
    r.armed /\ r.reason \in ByItself /\ IsActive(r)
        => Contains(r.occurrence, t) \/ OpenWindows(S, t) # {}

\* start() keeps the purpose of the runtime in order.
LEMMA StartOwned ==
    ASSUME NEW r, Sound(r), Owned(r), NEW o \in StartOpts, NEW out \in Outcome,
           o.reason \in ByItself => o.occ # NoOcc,
           o.reason = "Manual" => o.occ = NoOcc
    PROVE  Owned(start(r, o, out))
<1> DEFINE q == start(r, o, out)
<1>1. Sound(q) /\ (q = r \/ Unstarted(q) \/ Begun(q, o))
  BY StartSound
<1> HIDE DEF q
<1>2. Owned(q)
  BY <1>1 DEF Owned, Sound, Unstarted, Begun, ByItself
<1>3. QED BY <1>2 DEF q

\* stop() keeps the purpose of the runtime in order, whoever asks for it.
LEMMA StopOwned ==
    ASSUME NEW r, Sound(r), Owned(r), NEW user \in BOOLEAN
    PROVE  Owned(stop(r, user)) /\ stop(r, user).state \notin Active
<1> DEFINE q == stop(r, user)
<1>1. Sound(r) /\ ((q = r /\ ~r.plan) \/ Ended(r, q, user))
  BY StopSound
<1> HIDE DEF q
<1>2. Owned(q) /\ q.state \notin Active
  BY <1>1 DEF Owned, Sound, Ended, Unstarted, ByItself
<1>3. QED BY <1>2 DEF q

\* What a tick keeps: a suppressed window that is open stays suppressed unless
\* another one is begun, and a running window that is open keeps the broadcast.
KeepsWindows(r, q, t) ==
    /\ Contains(r.suppressed, t)
         => q.suppressed = r.suppressed \/ q.occurrence \notin {NoOcc, r.suppressed}
    /\ r.reason # "Manual" /\ r.occurrence # NoOcc /\ Contains(r.occurrence, t)
         => q.occurrence = r.occurrence
    /\ q.occurrence \in {NoOcc, r.occurrence} \/ q.occurrence.start <= t

\* What the scheduler half of a tick does with a broadcast that is on the air,
\* and what it puts there.
LEMMA TickSchedulerOwned ==
    ASSUME NEW r, Sound(r), Owned(r), NEW S \in SUBSET Schedule, NEW t \in Nat,
           NEW retry \in BOOLEAN, NEW out \in Outcome, NEW q,
           q = tick_scheduler(r, S, t, retry, out)
    PROVE  /\ Owned(q)
           /\ InWindow(q, S, t)
           /\ q.reason \in {r.reason, "None", "Scheduled"}
           /\ r.child = NoPid /\ q.child # NoPid => q.occurrence # r.suppressed
           /\ KeepsWindows(r, q, t)
<1> DEFINE run == IF r.reason = "Manual" THEN NoOcc ELSE r.occurrence
           d   == evaluate(S, run, t)
<1>0. r \in Runtime /\ run \in Occurrence \cup {NoOcc}
  BY DEF Sound, Runtime, OptOcc
<1>1. CASE ~r.armed
  BY <1>1 DEF tick_scheduler, InWindow, KeepsWindows
<1>2. CASE r.armed /\ d.kind = "ShouldBroadcast"
  <2> DEFINE o == ScheduledStart(d.occ)
             s == start(r, o, out)
             b == begin_scheduled(r, d.occ, out)
  <2>1. q = r \/ (q = b /\ r.suppressed # d.occ)
    BY <1>2 DEF tick_scheduler, window_open
  <2>2. d.occ \in Occurrence /\ Contains(d.occ, t) /\ d.occ # NoOcc
    <3>1. d.occ \in Occurrence /\ Contains(d.occ, t)
      BY <1>0, <1>2, BroadcastsOpenWindows
    <3>2. QED BY <3>1 DEF Occurrence, NoOcc
  <2>3. Contains(run, t) \/ OpenWindows(S, t) # {}
    BY <1>2 DEF evaluate
  <2>a. Contains(run, t) => d.occ = run
    BY DEF evaluate
  <2>b. d.occ.start <= t
    BY <2>2 DEF Contains
  <2>4. ASSUME q = r PROVE InWindow(q, S, t)
    <3>1. r.reason \in ByItself => run = r.occurrence
      BY DEF ByItself
    <3>2. QED BY <2>3, <2>4, <3>1 DEF InWindow
  <2> HIDE DEF d
  <2>5. o \in StartOpts /\ o.reason = "Scheduled" /\ o.occ = d.occ
    BY <2>2 DEF ScheduledStart, StartOpts, Reason, OptOcc
  <2>6. /\ s \in Runtime /\ (s = r \/ Unstarted(s) \/ Begun(s, o)) /\ Sound(s)
        /\ s = r \/ ~IsActive(r)
        /\ SameWindow(s, r) \/ (s.occurrence = o.occ /\ s.suppressed = NoOcc)
    BY <2>5, StartSound DEF Sound, Started
  <2>7. Owned(s)
    BY <2>2, <2>5, StartOwned
  <2> HIDE DEF o
  <2>8. b = [s EXCEPT !.failed = IF out.at = "launch" /\ out.pid # NoPid THEN NoOcc ELSE d.occ]
    BY DEF begin_scheduled, o
  <2> HIDE DEF s
  <2>9. SamePurpose(b, s) /\ b.state = s.state /\ b.child = s.child /\ b.armed = s.armed
    BY <2>6, <2>8 DEF Runtime, SamePurpose
  <2> HIDE DEF b
  <2>10. Owned(b)
    BY <2>7, <2>9 DEF Owned, SamePurpose
  <2>11. ASSUME q = b, r.suppressed # d.occ, s = r
         PROVE  /\ InWindow(q, S, t) /\ q.reason = r.reason /\ q.child = r.child
    <3>1. r.reason \in ByItself => run = r.occurrence
      BY DEF ByItself
    <3>2. QED BY <2>3, <2>9, <2>11, <3>1 DEF InWindow, SamePurpose, IsActive
  <2>12. ASSUME q = b, r.suppressed # d.occ, s # r
         PROVE  /\ InWindow(q, S, t) /\ q.reason \in {"None", "Scheduled"}
                /\ r.child = NoPid /\ q.child # NoPid => q.occurrence # r.suppressed
    <3>1. CASE Unstarted(s)
      BY <2>6, <2>9, <2>12, <3>1 DEF InWindow, SamePurpose, Unstarted, ByItself, Sound, Active
    <3>2. CASE Begun(s, o)
      BY <2>2, <2>5, <2>9, <2>12, <3>2 DEF InWindow, SamePurpose, Begun
    <3>3. QED BY <2>6, <2>12, <3>1, <3>2
  <2>13. ASSUME q = b, r.suppressed # d.occ PROVE KeepsWindows(r, q, t)
    <3>1. /\ b.occurrence = s.occurrence /\ b.suppressed = s.suppressed
          /\ SameWindow(s, r) \/ (s.occurrence = d.occ /\ s.suppressed = NoOcc)
      BY <2>5, <2>6, <2>9 DEF SamePurpose
    <3>2. r.reason # "Manual" => run = r.occurrence
      OBVIOUS
    <3>3. CASE SameWindow(s, r)
      BY <2>13, <3>1, <3>3 DEF SameWindow, KeepsWindows
    <3>4. CASE s.occurrence = d.occ
      BY <2>2, <2>13, <2>a, <2>b, <3>1, <3>2, <3>4 DEF KeepsWindows
    <3>5. QED BY <3>1, <3>3, <3>4
  <2>14. ASSUME q = r PROVE KeepsWindows(r, q, t)
    BY <2>14 DEF KeepsWindows
  <2>15. QED BY <2>1, <2>4, <2>10, <2>11, <2>12, <2>13, <2>14
<1>3. CASE r.armed /\ d.kind = "ShouldStop"
  <2>1. q = window_closed(r)
    BY <1>3 DEF tick_scheduler
  <2>2. CASE r.reason # "Manual" /\ (IsActive(r) \/ r.restart_due)
    <3>1. q = stop(r, FALSE)
      BY <2>1, <2>2 DEF window_closed
    <3>2. Owned(q) /\ q.state \notin Active /\ Sound(q)
      BY <3>1, StopOwned, StopSound
    <3>3. q.reason \in {r.reason, "None"} /\ q.suppressed = r.suppressed
          /\ q.occurrence \in {NoOcc, r.occurrence}
      BY <3>1, StopSound DEF Ended, Unstarted
    <3>4. KeepsWindows(r, q, t)
      BY <1>3, <2>2, <3>3 DEF KeepsWindows, evaluate
    <3>5. QED BY <3>2, <3>3, <3>4 DEF InWindow, IsActive, Sound, Active
  <2>3. CASE ~(r.reason # "Manual" /\ (IsActive(r) \/ r.restart_due))
    BY <2>1, <2>3 DEF window_closed, InWindow, ByItself, KeepsWindows
  <2>4. QED BY <2>2, <2>3
<1>4. CASE r.armed /\ d.kind # "ShouldBroadcast" /\ d.kind # "ShouldStop"
  <2>1. q = [r EXCEPT !.suppressed = IF Contains(@, t) THEN @ ELSE NoOcc]
    BY <1>4 DEF tick_scheduler
  <2>2. r.reason \notin ByItself
    BY <1>4 DEF evaluate, Owned, ByItself
  <2>3. /\ q.state = r.state /\ q.child = r.child /\ q.plan = r.plan /\ q.reason = r.reason
        /\ q.occurrence = r.occurrence /\ q.suppressed \in {r.suppressed, NoOcc}
        /\ Contains(r.suppressed, t) => q.suppressed = r.suppressed
    BY <1>0, <2>1 DEF Runtime
  <2>4. QED BY <2>2, <2>3 DEF Owned, InWindow, KeepsWindows
<1>5. QED BY <1>1, <1>2, <1>3, <1>4

\* A whole tick: what it leaves on the air by itself has an open window, and
\* what it puts there is not the window that is suppressed.
LEMMA TickOwned ==
    ASSUME NEW r, Sound(r), Owned(r), NEW S \in SUBSET Schedule, NEW t \in Nat,
           NEW due \in BOOLEAN, NEW retry \in BOOLEAN, NEW out \in Outcome, NEW q,
           q = tick(r, S, t, due, retry, out)
    PROVE  /\ Owned(q)
           /\ InWindow(q, S, t)
           /\ q.reason = "Recovered" => r.reason = "Recovered"
           /\ r.child = NoPid /\ q.child # NoPid /\ r.suppressed # NoOcc
                => q.occurrence # r.suppressed
           /\ KeepsWindows(r, q, t)
           /\ q.reason = "Manual" => r.reason = "Manual"
<1> DEFINE s == tick_supervisor(r, due, out.pid)
           u == tick_scheduler(s, S, t, retry, out)
<1>1. out.pid \in OptPid
  BY DEF Outcome
<1>2. Sound(s) /\ Supervised(r, s) /\ SamePurpose(s, r)
  BY <1>1, TickSupervisorSound
<1>3. q = persist(u)
  BY DEF tick, tick_unsaved
<1> HIDE DEF s
<1>4. Owned(s)
  BY <1>2 DEF Owned, SamePurpose, Supervised, SameSender, Active
<1>5. /\ Owned(u) /\ InWindow(u, S, t) /\ u.reason \in {s.reason, "None", "Scheduled"}
      /\ s.child = NoPid /\ u.child # NoPid => u.occurrence # s.suppressed
      /\ KeepsWindows(s, u, t)
  BY <1>2, <1>4, TickSchedulerOwned
<1>6. u \in Runtime
  BY <1>2, TickSchedulerSound DEF Sound
<1> HIDE DEF u
<1>7. SamePurpose(q, u) /\ q.state = u.state /\ q.child = u.child /\ q.armed = u.armed
  BY <1>3, <1>6, PersistFacts
<1>8. r.child = NoPid /\ r.suppressed # NoOcc => s.child = NoPid
  BY <1>2 DEF Supervised, SameSender, Owned, Sound, Active
<1>9. Owned(q) /\ InWindow(q, S, t)
  BY <1>5, <1>7 DEF Owned, InWindow, SamePurpose, IsActive
<1>10. KeepsWindows(r, q, t)
  BY <1>2, <1>5, <1>7 DEF KeepsWindows, SamePurpose
<1>11. QED BY <1>2, <1>5, <1>7, <1>8, <1>9, <1>10 DEF SamePurpose

\* What the history remembers, the runtime has not forgotten: a window the user
\* stopped out of is suppressed until it ends, the one the loop put on the air is
\* still the broadcast's, and a session or an unclean file is of one that was begun.
Remembered ==
    /\ rt.occurrence.start <= now /\ seen.stopped.start <= now
    /\ seen.stopped # NoOcc /\ now < seen.stopped.end => rt.suppressed = seen.stopped
    /\ seen.served # NoOcc /\ now < seen.served.end
         => rt.occurrence = seen.served /\ rt.reason # "Manual"
    /\ rt.plan \/ ~is_clean_shutdown(rt.disk) => seen.open
    /\ ~up => /\ ~seen.ticked /\ seen.stopped = NoOcc /\ seen.served = NoOcc
              /\ rt.reason = "None" /\ rt.occurrence = NoOcc

\* IInv with the purpose of the broadcast.
PurposeInv == IInv /\ Owned(rt) /\ Remembered /\ OffAirOutsideWindows

\* The first launch has no purpose and no history.
LEMMA InitPurpose == Init => PurposeInv
<1> SUFFICES ASSUME Init PROVE PurposeInv
  OBVIOUS
<1>1. IInv
  BY InitIInv
<1>2. /\ rt.reason = "None" /\ rt.plan = FALSE /\ rt.state = "Idle"
      /\ rt.occurrence = NoOcc /\ rt.disk = NoFile /\ now = StartTime
      /\ seen.stopped = NoOcc /\ seen.served = NoOcc /\ seen.ticked = FALSE
  BY DEF Init, Fresh
<1>3. NoOcc.start <= now /\ is_clean_shutdown(rt.disk)
  BY <1>2, RuntimeAssumption DEF NoOcc, NoFile, is_clean_shutdown
<1>4. QED
  BY <1>1, <1>2, <1>3 DEF PurposeInv, Owned, Remembered, OffAirOutsideWindows, ByItself, Active

\* The history of the open session follows a method that treats the file as
\* FileStep says.
LEMMA OpenIsKept ==
    ASSUME NEW r, NEW q, NEW open \in BOOLEAN, FileStep(r, q),
           r.plan \/ ~is_clean_shutdown(r.disk) => open
    PROVE  q.plan \/ ~is_clean_shutdown(q.disk) => Opened(r, q, open)
BY DEF FileStep, Opened

\* Every step keeps the purpose of the broadcast in order: one case per action.
LEMMA NextPurpose == PurposeInv /\ [Next]_vars => PurposeInv'
<1> SUFFICES ASSUME PurposeInv, [Next]_vars PROVE PurposeInv'
  OBVIOUS
<1>0. /\ rt \in Runtime /\ now \in Nat /\ schedules \in SUBSET Schedule
      /\ armed_row \in BOOLEAN /\ seen \in Seen /\ Sound(rt) /\ FileNamesChild(rt)
      /\ (~up => rt.child = NoPid)
      /\ Owned(rt) /\ Remembered /\ OffAirOutsideWindows
  BY RuntimeAssumption DEF PurposeInv, IInv, TypeOK
<1>a. IInv /\ IInv'
  BY NextIInv DEF PurposeInv
<1>b. /\ seen.open \in BOOLEAN /\ seen.stopped \in OptOcc /\ seen.served \in OptOcc
      /\ rt.occurrence \in OptOcc /\ rt.suppressed \in OptOcc
      /\ NoOcc.start = 0 /\ NoOcc.end = 0
      /\ \A o \in OptOcc : o.start \in Nat /\ o.end \in Nat
  BY <1>0 DEF Seen, Runtime, OptOcc, Occurrence, NoOcc
<1>c. rt' \in Runtime /\ Sound(rt') /\ rt'.occurrence \in OptOcc
  BY <1>a DEF IInv, Sound, Runtime
<1>1. ASSUME NEW due \in BOOLEAN, NEW retry \in BOOLEAN, NEW out \in Outcomes,
             Tick(due, retry, out)
      PROVE  PurposeInv'
  <2>1. /\ rt' = tick(rt, schedules, now, due, retry, out) /\ up
        /\ up' = up /\ now' = now /\ schedules' = schedules
    BY <1>1 DEF Tick
  <2>2. /\ seen'.open = Opened(rt, rt', seen.open)
        /\ seen'.stopped = IF rt'.occurrence \in {NoOcc, seen.stopped} THEN seen.stopped ELSE NoOcc
        /\ seen'.served = IF Launched(rt, rt') THEN rt'.occurrence ELSE seen.served
    BY <1>0, <1>1 DEF Tick, Seen
  <2>3. /\ Owned(rt') /\ InWindow(rt', schedules, now) /\ KeepsWindows(rt, rt', now)
        /\ rt'.reason = "Manual" => rt.reason = "Manual"
    BY <1>0, <2>1, OutcomesType, TickOwned
  <2>4. FileStep(rt, rt')
    BY <1>0, <2>1, OutcomesType, TickSound
  <2>5. rt'.occurrence.start <= now /\ seen'.stopped.start <= now
    BY <1>0, <1>b, <2>2, <2>3 DEF Remembered, KeepsWindows
  <2>6. ASSUME seen'.stopped # NoOcc, now < seen'.stopped.end
        PROVE  rt'.suppressed = seen'.stopped
    <3>1. seen'.stopped = seen.stopped /\ rt'.occurrence \in {NoOcc, seen.stopped}
      BY <2>2, <2>6
    <3>2. rt.suppressed = seen.stopped /\ seen.stopped.start <= now
      BY <1>0, <2>6, <3>1 DEF Remembered
    <3>3. Contains(rt.suppressed, now)
      BY <2>6, <3>1, <3>2 DEF Contains
    <3>4. QED BY <2>3, <3>1, <3>2, <3>3 DEF KeepsWindows
  <2>7. ASSUME seen'.served # NoOcc, now < seen'.served.end
        PROVE  rt'.occurrence = seen'.served /\ rt'.reason # "Manual"
    <3>1. CASE Launched(rt, rt')
      BY <2>2, <2>3, <2>7, <3>1 DEF Owned
    <3>2. CASE ~Launched(rt, rt')
      <4>1. rt.occurrence = seen.served /\ rt.reason # "Manual" /\ seen'.served = seen.served
        BY <1>0, <2>2, <2>7, <3>2 DEF Remembered
      <4>2. Contains(rt.occurrence, now) /\ rt.occurrence # NoOcc
        BY <1>0, <2>7, <4>1 DEF Remembered, Contains
      <4>3. QED BY <2>3, <4>1, <4>2 DEF KeepsWindows
    <3>3. QED BY <3>1, <3>2
  <2>8. rt'.plan \/ ~is_clean_shutdown(rt'.disk) => seen'.open
    BY <1>0, <1>b, <2>2, <2>4, OpenIsKept DEF Remembered
  <2>9. Remembered'
    BY <2>1, <2>5, <2>6, <2>7, <2>8 DEF Remembered
  <2>10. OffAirOutsideWindows'
    BY <2>1, <2>3 DEF OffAirOutsideWindows, InWindow, ByItself
  <2>11. QED BY <1>a, <2>3, <2>9, <2>10 DEF PurposeInv
<1>2. ASSUME NEW dry \in BOOLEAN, NEW skip \in BOOLEAN, NEW out \in Outcomes,
             StartBroadcast(dry, skip, out)
      PROVE  PurposeInv'
  <2> DEFINE o     == ManualStart(dry)
             begun == ~IsActive(rt) /\ out.at \in {"hook", "launch"}
  <2>1. o \in StartOpts /\ o.reason = "Manual" /\ o.occ = NoOcc
    BY DEF ManualStart, StartOpts, Reason, OptOcc
  <2>2. /\ rt' = start(rt, o, out) /\ up
        /\ up' = up /\ now' = now /\ schedules' = schedules
    BY <1>2 DEF StartBroadcast
  <2>3. /\ seen'.open = Opened(rt, rt', seen.open) /\ seen'.ticked = seen.ticked
        /\ seen'.stopped = IF begun THEN NoOcc ELSE seen.stopped
        /\ seen'.served = IF begun THEN NoOcc ELSE seen.served
    BY <1>0, <1>2 DEF StartBroadcast, Seen
  <2> HIDE DEF o
  <2>4. /\ rt' = rt \/ Unstarted(rt') \/ Begun(rt', o)
        /\ \/ SameWindow(rt', rt)
           \/ begun /\ rt'.occurrence = NoOcc /\ rt'.suppressed = NoOcc
        /\ FileStep(rt, rt')
    BY <1>0, <2>1, <2>2, OutcomesType, StartSound
  <2>5. Owned(rt')
    BY <1>0, <2>1, <2>2, OutcomesType, StartOwned DEF ByItself
  <2>6. rt'.plan \/ ~is_clean_shutdown(rt'.disk) => seen'.open
    BY <1>0, <1>b, <2>3, <2>4, OpenIsKept DEF Remembered
  <2>7. ASSUME begun PROVE Remembered'
    <3>1. rt'.occurrence.start <= now /\ seen'.stopped.start <= now
      BY <1>0, <1>b, <2>3, <2>4, <2>7 DEF Remembered, SameWindow
    <3>2. seen'.stopped = NoOcc /\ seen'.served = NoOcc
      BY <2>3, <2>7
    <3>3. QED BY <2>2, <2>6, <3>1, <3>2 DEF Remembered
  <2>8. ASSUME ~begun PROVE Remembered'
    <3>1. SameWindow(rt', rt) /\ seen'.stopped = seen.stopped /\ seen'.served = seen.served
      BY <2>3, <2>4, <2>8
    <3>2. rt' = rt \/ Unstarted(rt')
      <4>1. \/ IsActive(rt) \/ out.at = "playlist"
            \/ out.at = "plan"
        BY <1>0, <2>8, OutcomesType DEF Outcome
      <4>2. CASE out.at = "plan" /\ ~IsActive(rt)
        <5>1. rt' = abandon_start(begin(new_supervisor(rt)))
          BY <2>2, <4>2 DEF start
        <5>2. rt'.plan = FALSE /\ rt'.reason = "None"
          BY <1>c, <5>1 DEF abandon_start, drop_session, Runtime
        <5>3. QED BY <5>2 DEF Unstarted
      <4>3. CASE IsActive(rt) \/ out.at = "playlist"
        BY <2>2, <4>3 DEF start
      <4>4. QED BY <4>1, <4>2, <4>3
    <3>3. rt'.reason = rt.reason \/ rt'.reason = "None"
      BY <3>2 DEF Unstarted
    <3>4. QED BY <1>0, <2>2, <2>6, <3>1, <3>3 DEF Remembered, SameWindow
  <2>9. Remembered'
    BY <2>7, <2>8
  <2>10. OffAirOutsideWindows'
    BY <1>0, <2>1, <2>2, <2>3, <2>4 DEF OffAirOutsideWindows, Unstarted, Begun
  <2>11. QED BY <1>a, <2>5, <2>9, <2>10 DEF PurposeInv
<1>3. ASSUME StopBroadcast PROVE PurposeInv'
  <2>1. rt' = stop(rt, TRUE) /\ up /\ up' = up /\ now' = now /\ schedules' = schedules
    BY <1>3 DEF StopBroadcast
  <2>2. /\ seen'.open = Opened(rt, rt', seen.open)
        /\ seen'.stopped = IF rt.plan /\ rt.occurrence # NoOcc THEN rt.occurrence ELSE seen.stopped
        /\ seen'.served = NoOcc
    BY <1>0, <1>3 DEF StopBroadcast, Seen
  <2>3. /\ Owned(rt') /\ rt'.state \notin Active
        /\ (rt' = rt /\ ~rt.plan) \/ Ended(rt, rt', TRUE)
        /\ rt'.occurrence \in {NoOcc, rt.occurrence} /\ FileStep(rt, rt')
    BY <1>0, <2>1, StopOwned, StopSound
  <2>4. rt'.occurrence.start <= now /\ seen'.stopped.start <= now
    BY <1>0, <1>b, <2>2, <2>3 DEF Remembered
  <2>5. ASSUME seen'.stopped # NoOcc, now < seen'.stopped.end
        PROVE  rt'.suppressed = seen'.stopped
    <3>1. CASE rt.plan /\ rt.occurrence # NoOcc
      BY <2>2, <2>3, <3>1 DEF Ended
    <3>2. CASE ~(rt.plan /\ rt.occurrence # NoOcc)
      <4>1. rt.suppressed = seen.stopped /\ seen.stopped # NoOcc /\ seen'.stopped = seen.stopped
        BY <1>0, <2>2, <2>5, <3>2 DEF Remembered
      <4>2. ~rt.plan
        BY <1>0, <3>2, <4>1 DEF Owned
      <4>3. rt' = rt
        BY <1>0, <2>1, <4>2 DEF Sound, stop, Terminal, Active, Runtime, StreamState
      <4>4. QED BY <4>1, <4>3
    <3>3. QED BY <3>1, <3>2
  <2>6. rt'.plan \/ ~is_clean_shutdown(rt'.disk) => seen'.open
    BY <1>0, <1>b, <2>2, <2>3, OpenIsKept DEF Remembered
  <2>7. Remembered'
    BY <2>1, <2>2, <2>4, <2>5, <2>6 DEF Remembered
  <2>8. OffAirOutsideWindows'
    BY <2>3 DEF OffAirOutsideWindows, IsActive
  <2>9. QED BY <1>a, <2>3, <2>7, <2>8 DEF PurposeInv
\* The history a step leaves alone.
<1>d. ASSUME rt'.occurrence = rt.occurrence, rt'.suppressed = rt.suppressed,
             rt'.reason = rt.reason, rt'.plan = rt.plan, rt'.disk = rt.disk,
             rt'.state = rt.state, now' \in Nat, now <= now', up' = up,
             seen'.stopped = seen.stopped, seen'.served = seen.served,
             seen'.open = seen.open, seen'.ticked = seen.ticked \/ ~seen'.ticked
      PROVE  Owned(rt') /\ Remembered'
  <2>1. Owned(rt')
    BY <1>0, <1>d DEF Owned
  <2>2. rt'.occurrence.start <= now' /\ seen'.stopped.start <= now'
    BY <1>0, <1>b, <1>d DEF Remembered
  <2>3. /\ now' < seen'.stopped.end => now < seen.stopped.end
        /\ now' < seen'.served.end => now < seen.served.end
    BY <1>0, <1>b, <1>d
  <2>4. QED BY <1>0, <1>d, <2>1, <2>2, <2>3 DEF Remembered
<1>4. ASSUME NEW on \in BOOLEAN, SetArmed(on) PROVE PurposeInv'
  <2>1. /\ SamePurpose(rt', rt) /\ rt'.state = rt.state /\ rt'.disk = rt.disk
        /\ up /\ up' = up /\ now' = now
    BY <1>0, <1>4 DEF SetArmed, Runtime, SamePurpose
  <2>2. /\ seen'.ticked = FALSE /\ seen'.stopped = seen.stopped
        /\ seen'.served = seen.served /\ seen'.open = seen.open
    BY <1>0, <1>4 DEF SetArmed, Seen
  <2>3. Owned(rt') /\ Remembered'
    BY <1>0, <1>d, <2>1, <2>2 DEF SamePurpose
  <2>4. QED BY <1>a, <2>2, <2>3 DEF PurposeInv, OffAirOutsideWindows
<1>5. ASSUME NEW s \in schedules, ToggleSchedule(s) PROVE PurposeInv'
  <2>1. rt' = rt /\ up' = up /\ now' = now
    BY <1>5 DEF ToggleSchedule
  <2>2. /\ seen'.ticked = FALSE /\ seen'.stopped = seen.stopped
        /\ seen'.served = seen.served /\ seen'.open = seen.open
    BY <1>0, <1>5 DEF ToggleSchedule, Seen
  <2>3. Owned(rt') /\ Remembered'
    BY <1>0, <1>d, <2>1, <2>2
  <2>4. QED BY <1>a, <2>2, <2>3 DEF PurposeInv, OffAirOutsideWindows
<1>6. ASSUME ClockAdvance PROVE PurposeInv'
  <2>1. now' = now + 1 /\ rt' = rt /\ up' = up
    BY <1>6 DEF ClockAdvance
  <2>2. /\ seen'.ticked = FALSE /\ seen'.stopped = seen.stopped
        /\ seen'.served = seen.served /\ seen'.open = seen.open
    BY <1>0, <1>6 DEF ClockAdvance, Seen
  <2>3. now' \in Nat /\ now <= now'
    BY <1>0, <2>1
  <2>4. Owned(rt') /\ Remembered'
    BY <1>d, <2>1, <2>2, <2>3
  <2>5. QED BY <1>a, <2>2, <2>4 DEF PurposeInv, OffAirOutsideWindows
\* What FFmpeg, its reader and the clock do to the runtime's record.
<1>7. ASSUME SamePurpose(rt', rt), rt'.state = rt.state, rt'.armed = rt.armed, rt'.disk = rt.disk,
             seen'.stopped = seen.stopped, seen'.served = seen.served, seen'.open = seen.open,
             seen'.ticked = seen.ticked, up' = up, now' = now, schedules' = schedules
      PROVE  PurposeInv'
  <2>1. Owned(rt') /\ Remembered'
    BY <1>0, <1>7, <1>d DEF SamePurpose
  <2>2. OffAirOutsideWindows'
    BY <1>0, <1>7 DEF OffAirOutsideWindows, SamePurpose, IsActive
  <2>3. QED BY <1>a, <2>1, <2>2 DEF PurposeInv
<1>8. ASSUME NEW p \in Pids, PushBytes(p) \/ Hang(p) \/ StampEpoch(p) \/ ReaderEof(p)
      PROVE  PurposeInv'
  <2>1. SamePurpose(rt', rt) /\ rt'.state = rt.state /\ rt'.armed = rt.armed /\ rt'.disk = rt.disk
    BY <1>0, <1>8 DEF PushBytes, Hang, StampEpoch, ReaderEof, Runtime, SamePurpose
  <2>2. seen' = seen /\ up' = up /\ now' = now /\ schedules' = schedules
    BY <1>8 DEF PushBytes, Hang, StampEpoch, ReaderEof
  <2>3. QED BY <1>7, <2>1, <2>2
<1>9. ASSUME NEW p \in Pids, NEW ok \in BOOLEAN, Exit(p, ok) PROVE PurposeInv'
  <2>1. SamePurpose(rt', rt) /\ rt'.state = rt.state /\ rt'.armed = rt.armed /\ rt'.disk = rt.disk
    BY <1>0, <1>9 DEF Exit, Runtime, SamePurpose
  <2>2. /\ seen'.stopped = seen.stopped /\ seen'.served = seen.served
        /\ seen'.open = seen.open /\ seen'.ticked = seen.ticked
        /\ up' = up /\ now' = now /\ schedules' = schedules
    BY <1>0, <1>9 DEF Exit, Seen
  <2>3. QED BY <1>7, <2>1, <2>2
<1>10. ASSUME NEW p \in Pids, NEW size \in {"bytes", "zero", "other"}, ProgressLine(p, size)
       PROVE  PurposeInv'
  <2>1. SamePurpose(rt', rt) /\ rt'.state = rt.state /\ rt'.armed = rt.armed /\ rt'.disk = rt.disk
    BY <1>0, <1>10 DEF ProgressLine, Runtime, SamePurpose
  <2>2. seen' = seen /\ up' = up /\ now' = now /\ schedules' = schedules
    BY <1>10 DEF ProgressLine
  <2>3. QED BY <1>7, <2>1, <2>2
<1>11. ASSUME Quiet PROVE PurposeInv'
  <2>1. SamePurpose(rt', rt) /\ rt'.state = rt.state /\ rt'.armed = rt.armed /\ rt'.disk = rt.disk
    BY <1>0, <1>11 DEF Quiet, Runtime, SamePurpose
  <2>2. seen' = seen /\ up' = up /\ now' = now /\ schedules' = schedules
    BY <1>11 DEF Quiet
  <2>3. QED BY <1>7, <2>1, <2>2
<1>12. ASSUME NEW r, NEW open, NEW lost, Die(r, open, lost),
              ~is_clean_shutdown(r.disk) => open
       PROVE  PurposeInv'
  <2>1. /\ rt'.reason = "None" /\ rt'.plan = FALSE /\ rt'.state = "Idle" /\ rt'.disk = r.disk
        /\ rt'.occurrence = NoOcc /\ now' = now /\ up' = FALSE
        /\ seen'.stopped = NoOcc /\ seen'.served = NoOcc /\ seen'.ticked = FALSE
        /\ seen'.open = open
    BY <1>12 DEF Die, Fresh
  <2>2. Owned(rt')
    BY <2>1 DEF Owned, ByItself, Active
  <2>3. Remembered'
    BY <1>0, <1>b, <1>12, <2>1 DEF Remembered
  <2>4. QED BY <1>a, <2>1, <2>2, <2>3 DEF PurposeInv, OffAirOutsideWindows
<1>13. ASSUME NEW p \in FreePids, CrashBeforeSave(p) PROVE PurposeInv'
  <2>1. PICK spawned : Die([spawned EXCEPT !.disk = rt.disk], TRUE, {p})
    BY <1>13 DEF CrashBeforeSave
  <2>2. QED BY <1>12, <2>1
<1>14. ASSUME Crash PROVE PurposeInv'
  <2>1. Die(rt, seen.open, {})
    BY <1>14 DEF Crash
  <2>2. QED BY <1>0, <1>12, <2>1 DEF Remembered
<1>15. ASSUME Quit PROVE PurposeInv'
  <2> DEFINE q == stop(rt, TRUE)
  <2>1. Die(q, Opened(rt, q, seen.open), {})
    BY <1>15 DEF Quit
  <2>2. FileStep(rt, q)
    BY <1>0, StopSound
  <2> HIDE DEF q
  <2>3. ~is_clean_shutdown(q.disk) => Opened(rt, q, seen.open)
    BY <1>0, <1>b, <2>2, OpenIsKept DEF Remembered
  <2>4. QED BY <1>12, <2>1, <2>3
<1>16. ASSUME NEW out \in Outcomes, Launch(out) PROVE PurposeInv'
  <2>1. ~up /\ up' = TRUE /\ now' = now /\ rt' = launch(rt, schedules, now, out)
    BY <1>16 DEF Launch
  <2>2. /\ seen'.open = Opened(rt, rt', seen.open) /\ seen'.served = rt'.occurrence
        /\ seen'.stopped = NoOcc /\ seen'.ticked = FALSE
    BY <1>0, <1>16 DEF Launch, Seen, Remembered
  <2>3. Relaunched(rt, rt', now) /\ FileStep(rt, rt')
    BY <1>0, <2>1, OutcomesType, LaunchSound
  <2>4. rt.reason = "None" /\ rt.occurrence = NoOcc
    BY <1>0, <2>1 DEF Remembered
  <2>5. Owned(rt') /\ rt'.reason # "Manual"
    BY <1>0, <1>c, <2>3, <2>4
    DEF Relaunched, Owned, SameSender, SamePurpose, Unstarted, Sound, ByItself
  <2>6. rt'.occurrence.start <= now
    BY <1>0, <1>b, <2>3, <2>4 DEF Relaunched, SamePurpose, SameWindow, Contains
  <2>7. rt'.plan \/ ~is_clean_shutdown(rt'.disk) => seen'.open
    BY <1>0, <1>b, <2>2, <2>3, OpenIsKept DEF Remembered
  <2>8. Remembered'
    BY <1>0, <1>b, <2>1, <2>2, <2>5, <2>6, <2>7 DEF Remembered
  <2>9. QED BY <1>a, <2>2, <2>5, <2>8 DEF PurposeInv, OffAirOutsideWindows
<1>17. ASSUME UNCHANGED vars PROVE PurposeInv'
  BY <1>7, <1>17 DEF vars, SamePurpose
<1>18. QED
  BY <1>1, <1>2, <1>3, <1>4, <1>5, <1>6, <1>8, <1>9, <1>10, <1>11, <1>13, <1>14, <1>15,
     <1>16, <1>17 DEF Next, AnyTick

\* What is on the air by itself, what a user took off, and whose window is being
\* served, in every behaviour.
THEOREM PurposeInvariance == Spec => []PurposeInv
BY InitPurpose, NextPurpose, PTL DEF Spec

\* Once an armed scheduler has looked at the clock, a broadcast it started is on
\* the air only in its window or in another that is open.
THEOREM OffAirStaysOutsideWindows == Spec => []OffAirOutsideWindows
<1>1. PurposeInv => OffAirOutsideWindows
  BY DEF PurposeInv
<1>2. QED BY <1>1, PurposeInvariance, PTL

\* UserStopHolds, StaysWithItsWindow and LaunchesAreMeant, of one step.
WantedStep ==
    /\ up /\ up' /\ seen.stopped # NoOcc /\ Contains(seen.stopped, now) /\ Launched(rt, rt')
         => rt'.occurrence # seen.stopped
    /\ up /\ up' /\ seen.served # NoOcc /\ Contains(seen.served, now) /\ Launched(rt, rt')
         => rt'.occurrence = seen.served \/ rt'.reason = "Manual"
    /\ ~up /\ up' /\ rt'.child # NoPid =>
         RestoreOnLaunch /\ armed_row /\ Contains(rt'.occurrence, now) /\ ~rt'.dry_run
    /\ rt'.reason = "Recovered" /\ rt.reason # "Recovered" =>
         ~up /\ seen.open /\ (rt.disk.occ # NoOcc => now < rt.disk.occ.end)

\* No step puts back on the air the window a user stopped out of or takes the air
\* from the window that has it, and only a launch resumes a broadcast, from the
\* file of a run that died during it.
LEMMA NextIsWanted ==
    ASSUME PurposeInv, [Next]_vars
    PROVE  WantedStep
<1>0. /\ rt \in Runtime /\ now \in Nat /\ schedules \in SUBSET Schedule
      /\ armed_row \in BOOLEAN /\ seen \in Seen /\ Sound(rt) /\ FileNamesChild(rt)
      /\ (~up => rt.child = NoPid)
      /\ Owned(rt) /\ Remembered
  BY RuntimeAssumption DEF PurposeInv, IInv, TypeOK
<1>a. Sound(rt')
  BY NextIInv DEF PurposeInv, IInv
<1>b. /\ seen.stopped # NoOcc /\ Contains(seen.stopped, now) => rt.suppressed = seen.stopped
      /\ seen.served # NoOcc /\ Contains(seen.served, now)
           => rt.occurrence = seen.served /\ rt.reason # "Manual"
  BY <1>0 DEF Remembered, Contains
<1>1. ASSUME NEW due \in BOOLEAN, NEW retry \in BOOLEAN, NEW out \in Outcomes,
             Tick(due, retry, out)
      PROVE  WantedStep
  <2>1. rt' = tick(rt, schedules, now, due, retry, out) /\ up
    BY <1>1 DEF Tick
  <2>2. /\ rt'.reason = "Recovered" => rt.reason = "Recovered"
        /\ rt.child = NoPid /\ rt'.child # NoPid /\ rt.suppressed # NoOcc
             => rt'.occurrence # rt.suppressed
        /\ KeepsWindows(rt, rt', now)
    BY <1>0, <2>1, OutcomesType, TickOwned
  <2>3. rt.suppressed # NoOcc => rt.child = NoPid
    BY <1>0 DEF Owned, Sound, Active
  <2>4. QED BY <1>b, <2>1, <2>2, <2>3 DEF WantedStep, KeepsWindows, Launched
<1>2. ASSUME NEW dry \in BOOLEAN, NEW skip \in BOOLEAN, NEW out \in Outcomes,
             StartBroadcast(dry, skip, out)
      PROVE  WantedStep
  <2> DEFINE o == ManualStart(dry)
  <2>1. o \in StartOpts /\ o.reason = "Manual" /\ o.occ = NoOcc
    BY DEF ManualStart, StartOpts, Reason, OptOcc
  <2>2. rt' = start(rt, o, out) /\ up
    BY <1>2 DEF StartBroadcast
  <2> HIDE DEF o
  <2>3. rt' = rt \/ Unstarted(rt') \/ Begun(rt', o)
    BY <1>0, <2>1, <2>2, OutcomesType, StartSound
  <2>4. QED BY <1>a, <2>1, <2>2, <2>3 DEF Unstarted, Begun, Sound, Active, WantedStep, Launched
\* Everything else starts nothing and gives no new reason.
<1>3. ASSUME rt'.child \in {NoPid, rt.child}, rt'.reason \in {rt.reason, "None"}
      PROVE  WantedStep
  BY <1>0, <1>3 DEF WantedStep, Launched
<1>4. ASSUME StopBroadcast PROVE WantedStep
  <2>1. rt' = rt \/ Ended(rt, rt', TRUE)
    BY <1>0, <1>4, StopSound DEF StopBroadcast
  <2>2. QED BY <1>3, <1>a, <2>1 DEF Ended, Unstarted, Sound, Active
<1>5. ASSUME NEW on \in BOOLEAN, SetArmed(on) PROVE WantedStep
  BY <1>0, <1>3, <1>5 DEF SetArmed, Runtime
<1>6. ASSUME NEW s \in schedules, ToggleSchedule(s) PROVE WantedStep
  BY <1>3, <1>6 DEF ToggleSchedule
<1>7. ASSUME ClockAdvance PROVE WantedStep
  BY <1>3, <1>7 DEF ClockAdvance
<1>8. ASSUME NEW p \in Pids, PushBytes(p) \/ Hang(p) \/ StampEpoch(p) \/ ReaderEof(p)
      PROVE  WantedStep
  BY <1>0, <1>3, <1>8 DEF PushBytes, Hang, StampEpoch, ReaderEof, Runtime
<1>9. ASSUME NEW p \in Pids, NEW ok \in BOOLEAN, Exit(p, ok) PROVE WantedStep
  BY <1>0, <1>3, <1>9 DEF Exit, Runtime
<1>10. ASSUME NEW p \in Pids, NEW size \in {"bytes", "zero", "other"}, ProgressLine(p, size)
       PROVE  WantedStep
  BY <1>0, <1>3, <1>10 DEF ProgressLine, Runtime
<1>11. ASSUME Quiet PROVE WantedStep
  BY <1>0, <1>3, <1>11 DEF Quiet, Runtime
<1>12. ASSUME NEW r, NEW open, NEW lost, Die(r, open, lost) PROVE WantedStep
  BY <1>3, <1>12 DEF Die, Fresh
<1>13. ASSUME NEW p \in FreePids, CrashBeforeSave(p) PROVE WantedStep
  BY <1>12, <1>13 DEF CrashBeforeSave
<1>14. ASSUME Crash \/ Quit PROVE WantedStep
  BY <1>12, <1>14 DEF Crash, Quit
<1>15. ASSUME NEW out \in Outcomes, Launch(out) PROVE WantedStep
  <2>1. ~up /\ rt' = launch(rt, schedules, now, out)
    BY <1>15 DEF Launch
  <2>2. Relaunched(rt, rt', now)
    BY <1>0, <2>1, OutcomesType, LaunchSound
  <2>3. Resumable(rt.disk, now) => seen.open /\ (rt.disk.occ # NoOcc => now < rt.disk.occ.end)
    BY <1>0 DEF Resumable, Remembered
  <2>4. rt.child = NoPid
    BY <1>0, <2>1
  <2>5. CASE SameSender(rt, rt') /\ SamePurpose(rt', rt)
    BY <2>1, <2>4, <2>5 DEF WantedStep, SameSender, SamePurpose
  <2>6. CASE Unstarted(rt')
    BY <1>a, <2>1, <2>6 DEF WantedStep, Unstarted, Sound, Active
  <2>7. CASE ~(SameSender(rt, rt') /\ SamePurpose(rt', rt)) /\ ~Unstarted(rt')
    BY <2>1, <2>2, <2>3, <2>7 DEF WantedStep, Relaunched
  <2>8. QED BY <2>5, <2>6, <2>7
<1>16. ASSUME UNCHANGED vars PROVE WantedStep
  BY <1>3, <1>16 DEF vars
<1>17. QED
  BY <1>1, <1>2, <1>4, <1>5, <1>6, <1>7, <1>8, <1>9, <1>10, <1>11, <1>13, <1>14, <1>15,
     <1>16 DEF Next, AnyTick

\* What goes on the air by itself is wanted: not the window a user stopped out of,
\* not another window's in place of the one that has the air, and after a death or
\* an exit nothing but a window that is open on a machine left armed.
THEOREM StartsStayWanted == Spec => StartsAreWanted
<1>1. PurposeInv /\ [Next]_vars =>
        [up /\ up' /\ seen.stopped # NoOcc /\ Contains(seen.stopped, now) /\ Launched(rt, rt')
           => rt'.occurrence # seen.stopped]_vars
  BY NextIsWanted DEF WantedStep
<1>2. PurposeInv /\ [Next]_vars =>
        [up /\ up' /\ seen.served # NoOcc /\ Contains(seen.served, now) /\ Launched(rt, rt')
           => rt'.occurrence = seen.served \/ rt'.reason = "Manual"]_vars
  BY NextIsWanted DEF WantedStep
<1>3. PurposeInv /\ [Next]_vars =>
        [/\ ~up /\ up' /\ rt'.child # NoPid =>
              RestoreOnLaunch /\ armed_row /\ Contains(rt'.occurrence, now) /\ ~rt'.dry_run
         /\ rt'.reason = "Recovered" /\ rt.reason # "Recovered" =>
              ~up /\ seen.open /\ (rt.disk.occ # NoOcc => now < rt.disk.occ.end)]_vars
  BY NextIsWanted DEF WantedStep
<1>4. QED
  BY <1>1, <1>2, <1>3, PurposeInvariance, PTL
  DEF Spec, StartsAreWanted, UserStopHolds, StaysWithItsWindow, LaunchesAreMeant

-----------------------------------------------------------------------------
(* The runtime implements the life cycle of the sender *)

\* A step of SenderLifecycle, or a stutter, between two runtime records.
LifeStep(r, q) ==
    \/ PhaseOf(q) = PhaseOf(r) /\ q.child = r.child
    \/ PhaseOf(r) \notin {"Connecting", "Live"} /\ PhaseOf(q) = "Connecting"
         /\ r.child = NoPid /\ q.child \in Pids
    \/ PhaseOf(r) = "Connecting" /\ PhaseOf(q) = "Live" /\ q.child = r.child
    \/ PhaseOf(r) \in {"Connecting", "Live"} /\ PhaseOf(q) = "Waiting" /\ q.child = NoPid
    \/ PhaseOf(r) \notin {"Connecting", "Live"} /\ PhaseOf(q) = "Failed" /\ q.child = NoPid
    \/ PhaseOf(q) = "Off" /\ q.child = NoPid

\* A tick is one step of the life cycle, although it may reap a process and
\* end the broadcast, or give up a restart and begin a new one, in one pass.
LEMMA TickedIsLifeStep ==
    ASSUME NEW r, NEW q, Sound(r), Sound(q), Ticked(r, q)
    PROVE  LifeStep(r, q)
<1>0. /\ r.child # NoPid <=> r.state \in {"Connecting", "Live"}
      /\ q.child # NoPid <=> q.state \in {"Connecting", "Live"}
      /\ q.child # NoPid => q.child \in Pids
      /\ r.state \in StreamState
  BY DEF Sound, Runtime, OptPid
<1>1. CASE SameSender(r, q)
  BY <1>1 DEF SameSender, LifeStep, PhaseOf
<1>2. CASE q.state = "Stopped"
  BY <1>0, <1>2 DEF LifeStep, PhaseOf
<1>3. CASE Started(r, q)
  BY <1>0, <1>3 DEF Started, IsActive, Active, LifeStep, PhaseOf
<1>4. CASE \/ r.state = "Connecting" /\ q.state = "Live" /\ q.child = r.child
           \/ r.state \in {"Connecting", "Live"} /\ q.state = "Reconnecting"
           \/ r.state = "Reconnecting" /\ q.state \in {"Connecting", "Error"}
  BY <1>0, <1>4 DEF LifeStep, PhaseOf
<1>5. QED BY <1>1, <1>2, <1>3, <1>4 DEF Ticked, Supervised

\* Every step of the runtime is a step of the life cycle or a stutter.
LEMMA NextIsLifeStep == IInv /\ [Next]_vars => LifeStep(rt, rt')
<1> SUFFICES ASSUME IInv, [Next]_vars PROVE LifeStep(rt, rt')
  OBVIOUS
<1>0. /\ rt \in Runtime /\ now \in Nat /\ schedules \in SUBSET Schedule
      /\ armed_row \in BOOLEAN /\ Sound(rt) /\ FileNamesChild(rt)
      /\ (~up => rt.child = NoPid)
  BY RuntimeAssumption DEF IInv, TypeOK
<1>a. IInv'
  BY NextIInv
<1>b. Sound(rt')
  BY <1>a DEF IInv
<1>1. ASSUME Ticked(rt, rt') PROVE LifeStep(rt, rt')
  BY <1>0, <1>b, <1>1, TickedIsLifeStep
<1>2. ASSUME SameSender(rt, rt') PROVE LifeStep(rt, rt')
  BY <1>2 DEF SameSender, LifeStep, PhaseOf
<1>3. ASSUME NEW r, NEW open, NEW lost, Die(r, open, lost) PROVE LifeStep(rt, rt')
  BY <1>3 DEF Die, Fresh, LifeStep, PhaseOf
<1>4. CASE AnyTick
  <2>1. PICK due \in BOOLEAN, retry \in BOOLEAN, out \in Outcomes : Tick(due, retry, out)
    BY <1>4 DEF AnyTick
  <2> DEFINE u == tick_unsaved(rt, schedules, now, due, retry, out)
  <2>2. rt' = persist(u)
    BY <2>1 DEF Tick, tick
  <2>3. Sound(u) /\ Ticked(rt, u)
    BY <1>0, <2>1, OutcomesType, TickUnsavedSound
  <2> HIDE DEF u
  <2>4. rt'.state = u.state /\ rt'.child = u.child
    BY <2>2, <2>3, PersistFacts DEF Sound
  <2>5. LifeStep(rt, u)
    BY <1>0, <2>3, TickedIsLifeStep
  <2>6. QED BY <2>4, <2>5 DEF LifeStep, PhaseOf
<1>5. ASSUME NEW dry \in BOOLEAN, NEW skip \in BOOLEAN, NEW out \in Outcomes,
             StartBroadcast(dry, skip, out)
      PROVE  LifeStep(rt, rt')
  <2>1. ManualStart(dry) \in StartOpts
    BY DEF ManualStart, StartOpts, Reason, OptOcc
  <2>2. rt' = rt \/ Started(rt, rt')
    BY <1>0, <1>5, <2>1, OutcomesType, StartSound DEF StartBroadcast
  <2>3. QED BY <1>1, <1>2, <2>2 DEF SameSender, Ticked
<1>6. CASE StopBroadcast
  <2>1. SameSender(rt, rt') \/ rt'.state = "Stopped"
    BY <1>0, <1>6, StopSound DEF StopBroadcast
  <2>2. QED BY <1>1, <1>2, <2>1 DEF Ticked
<1>7. ASSUME NEW on \in BOOLEAN, SetArmed(on) PROVE LifeStep(rt, rt')
  BY <1>0, <1>2, <1>7 DEF SetArmed, SameSender, Runtime
<1>8. ASSUME NEW s \in schedules, ToggleSchedule(s) PROVE LifeStep(rt, rt')
  BY <1>2, <1>8 DEF ToggleSchedule, SameSender
<1>9. CASE ClockAdvance
  BY <1>2, <1>9 DEF ClockAdvance, SameSender
<1>10. ASSUME NEW p \in Pids, PushBytes(p) \/ Hang(p) \/ StampEpoch(p) \/ ReaderEof(p)
       PROVE  SameSender(rt, rt')
  <2>1. CASE PushBytes(p)
    BY <1>0, <2>1 DEF PushBytes, SameSender, Runtime
  <2>2. CASE Hang(p)
    BY <1>0, <2>2 DEF Hang, SameSender, Runtime
  <2>3. CASE StampEpoch(p)
    BY <1>0, <2>3 DEF StampEpoch, SameSender, Runtime
  <2>4. CASE ReaderEof(p)
    BY <1>0, <2>4 DEF ReaderEof, SameSender, Runtime
  <2>5. QED BY <1>10, <2>1, <2>2, <2>3, <2>4
<1>11. ASSUME NEW p \in Pids, NEW ok \in BOOLEAN, Exit(p, ok) PROVE SameSender(rt, rt')
  BY <1>0, <1>11 DEF Exit, SameSender, Runtime
<1>12. ASSUME NEW p \in Pids, NEW size \in {"bytes", "zero", "other"}, ProgressLine(p, size)
       PROVE  SameSender(rt, rt')
  BY <1>0, <1>12 DEF ProgressLine, SameSender, Runtime
<1>13. CASE Quiet
  BY <1>0, <1>2, <1>13 DEF Quiet, SameSender, Runtime
<1>14. CASE Crash \/ Quit
  BY <1>3, <1>14 DEF Crash, Quit
<1>15. ASSUME NEW p \in FreePids, CrashBeforeSave(p) PROVE LifeStep(rt, rt')
  BY <1>3, <1>15 DEF CrashBeforeSave
<1>16. ASSUME NEW out \in Outcomes, Launch(out) PROVE LifeStep(rt, rt')
  <2>1. SameSender(rt, rt') \/ Started(rt, rt')
    BY <1>0, <1>16, OutcomesType, LaunchSound DEF Launch
  <2>2. QED BY <1>1, <1>2, <2>1 DEF Ticked
<1>17. CASE UNCHANGED vars
  BY <1>2, <1>17 DEF vars, SameSender
<1>18. QED
  BY <1>2, <1>4, <1>5, <1>6, <1>7, <1>8, <1>9, <1>10, <1>11, <1>12, <1>13, <1>14, <1>15,
     <1>16, <1>17 DEF Next

\* The runtime implements SenderLifecycle: whatever users, schedules, exits,
\* stalls, crashes and relaunches do, a process is begun only when the last one
\* is gone, and only the process that connected is ever LIVE.
THEOREM RefinesLifecycle == Spec => ImplementsLifecycle
<1>1. Init => Lifecycle!LifecycleInit
  BY DEF Init, Fresh, PhaseOf, Lifecycle!LifecycleInit
<1>2. LifeStep(rt, rt') => [Lifecycle!LifecycleNext]_(Lifecycle!svars)
  BY DEF LifeStep, Lifecycle!LifecycleNext, Lifecycle!svars, Lifecycle!Go, Lifecycle!Accept,
         Lifecycle!Lose, Lifecycle!Fail, Lifecycle!Finish, Lifecycle!OnAir, PhaseOf
<1>3. QED
  BY <1>1, <1>2, Invariance, NextIsLifeStep, PTL
  DEF Spec, ImplementsLifecycle, Lifecycle!LifecycleSpec
=============================================================================
