----------------------------- MODULE CloudWorkers -----------------------------
(***************************************************************************)
(* BroadcastManager of louver-cloud (manager.rs) in the process that owns  *)
(* the FFmpeg processes, with the rows it reads and writes (entitlement.rs,*)
(* db.rs): request threads, the scheduler thread and one worker thread per *)
(* broadcast share a map of workers and a database, and no lock is held    *)
(* from the check of that map to the insertion into it.                    *)
(*                                                                         *)
(* A call is a thread inside start, stop_with, restart or a delete; each   *)
(* of its actions is what it does between two points where another thread  *)
(* can get in: a database statement, a lock of the map, a launch, a join.  *)
(* The engine of a worker (module BroadcastRuntime) is reduced to its one  *)
(* FFmpeg process and what a tick makes of the process's death.            *)
(***************************************************************************)
EXTENDS Integers, FiniteSets

CONSTANTS
    Broadcasts,     \* broadcast ids, ordered as the database orders them
    Users,
    Owner,          \* [Broadcasts -> Users]
    Encoding,       \* broadcasts with a camera: they encode, the others copy
    Finite,         \* broadcasts that play their playlist once
    Workers,        \* worker threads, and the FFmpeg process of each
    Requests,       \* request threads
    Clock,          \* the scheduler thread
    Nobody,         \* Option::None of a worker
    Allowed,        \* max_concurrent_streams of every plan
    EncodeBudget,   \* encodes this machine runs at once
    MaxRestarts,    \* a worker gives up after this many relaunches
    MaxBoots,       \* bound: how often the server is started
    World           \* what a model lets happen around the manager

Disturbances == {"overlap", "fail", "exit", "lapse", "delete", "schedule", "refresh", "crash"}

ASSUME CloudAssumption ==
    /\ Broadcasts \subseteq Nat /\ Broadcasts # {} /\ IsFiniteSet(Broadcasts)
    /\ Owner \in [Broadcasts -> Users]
    /\ Encoding \subseteq Broadcasts /\ Finite \subseteq Broadcasts
    /\ Clock \notin Requests /\ Nobody \notin Workers
    /\ Allowed \in Nat /\ EncodeBudget \in Nat /\ MaxRestarts \in Nat /\ MaxBoots \in Nat
    /\ World \subseteq Disturbances

VARIABLES
    rows,       \* the broadcasts table
    entitled,   \* users with an active subscription
    entry,      \* the map of workers
    thread,     \* the worker threads
    proc,       \* their FFmpeg processes
    file,       \* the process that session.json of a broadcast names
    call,       \* what each request thread, and the scheduler, is doing
    pass,       \* what the scheduler has left to do of a pass
    server,     \* is the server down, recovering or up?
    boots,      \* how often it has been started
    raced,      \* history: broadcasts on which two operations have overlapped, or a
                \* death of the server came between a launch and its session.json
    dark        \* history: broadcasts that recovery, or the start of a restart, refused

vars == <<rows, entitled, entry, thread, proc, file, call, pass, server, boots, raced, dark>>

-----------------------------------------------------------------------------
(* State *)

Callers == Requests \cup {Clock}

\* STARTING, RUNNING and RECONNECTING are one here: what the dashboard shows
\* as being on the air.
RuntimeState == {"Stopped", "Stopping", "Preparing", "Running", "Failed"}

\* A row that has been deleted has no intent.
Row == [desired : {"running", "stopped", "gone"}, runtime : RuntimeState, held : BOOLEAN]

\* start: its engine has launched FFmpeg, and the thread is yet to begin; check,
\* tick and save are the parts of its loop; a worker that has ended its
\* broadcast itself then tells YouTube, and every worker removes the entry of
\* its broadcast from the map before it is done.
ThreadPc == {"start", "check", "tick", "save", "tell", "remove", "done"}

\* engine: its process is up, waits for its backoff, or could not be relaunched.
Thread == [pc : ThreadPc, of : Broadcasts, stop : BOOLEAN,
           engine : {"up", "backoff", "error"}, restarts : 0 .. MaxRestarts + 1]

CallPc == {"idle", "subscription", "claim", "spawn", "clean", "launch", "save", "insert",
           "undo", "release", "halt", "join", "record", "after", "delete"}

Operation == {"start", "stop", "restart", "delete"}

Call == [pc : CallPc, op : Operation, of : Broadcasts, w : Workers \cup {Nobody}]

First  == CHOOSE b \in Broadcasts : \A c \in Broadcasts : b <= c
Idle   == [pc |-> "idle", op |-> "start", of |-> First, w |-> Nobody]
Ended  == [pc |-> "done", of |-> First, stop |-> FALSE, engine |-> "up", restarts |-> 0]
NoPass == [kind |-> "none", todo |-> {}, room |-> 0]

Exists(b)   == rows[b].desired # "gone"
Wanted      == {b \in Broadcasts : rows[b].desired = "running"}
Live        == {b \in Broadcasts : entry[b] # Nobody}
Senders(b)  == {w \in Workers : thread[w].of = b /\ proc[w] = "alive"}
Serving(w)  == thread[w].pc # "done"
CallsOn(b)  == {c \in Callers : call[c].pc # "idle" /\ call[c].of = b}

\* A thread that nothing refers to any more.
FreeWorkers == {w \in Workers :
    /\ thread[w].pc = "done" /\ proc[w] = "none"
    /\ \A b \in Broadcasts : entry[b] # w /\ file[b] # w
    /\ \A c \in Callers : call[c].w # w}

\* A launch fails, or Workers, which bounds the processes of a model, is used up.
CannotSpawn == "fail" \in World \/ FreeWorkers = {}

Init ==
    /\ rows \in {r \in [Broadcasts -> [desired : {"running", "stopped"},
                                       runtime : {"Running", "Stopped"}, held : {FALSE}]] :
                   /\ \A b \in Broadcasts : r[b].desired = "running" <=> r[b].runtime = "Running"
                   /\ \A u \in Users : Cardinality({b \in Broadcasts :
                          Owner[b] = u /\ r[b].desired = "running"}) <= Allowed}
    /\ entitled = Users
    /\ entry = [b \in Broadcasts |-> Nobody]
    /\ thread = [w \in Workers |-> Ended]
    /\ proc = [w \in Workers |-> "none"]
    /\ file = [b \in Broadcasts |-> Nobody]
    /\ call = [c \in Callers |-> Idle]
    /\ pass = NoPass
    /\ server = "down"
    /\ boots = 0
    /\ raced = {} /\ dark = {}

-----------------------------------------------------------------------------
(* What calls and workers do to the database and the processes *)

\* The rows that hold a slot: they are meant to run and not held back.
Holding == {b \in Wanted : ~rows[b].held}

\* Mutant: a row that is held back is counted as running.
mut_claim(b) ==
    IF b \in Holding THEN rows
    ELSE IF \/ Cardinality({c \in Wanted : Owner[c] = Owner[b]}) >= Allowed
            \/ b \in Encoding /\ Cardinality(Wanted \cap Encoding) >= EncodeBudget
    THEN rows
    ELSE [rows EXCEPT ![b].desired = "running", ![b].runtime = "Preparing", ![b].held = FALSE]

\* claim_stream_slot_within, the transaction: a row that holds its slot keeps
\* it; otherwise the plan must have room, and the machine for an encode.  A
\* refusal leaves the rows alone.
claim(b) ==
    IF b \in Holding THEN rows
    ELSE IF \/ Cardinality({c \in Holding : Owner[c] = Owner[b]}) >= Allowed
            \/ b \in Encoding /\ Cardinality(Holding \cap Encoding) >= EncodeBudget
    THEN rows
    ELSE [rows EXCEPT ![b].desired = "running", ![b].runtime = "Preparing", ![b].held = FALSE]

\* release_stream_slot: the stop is deliberate.
release(b) == [rows EXCEPT ![b].desired = "stopped", ![b].runtime = "Stopping"]

\* An UPDATE of a row that is gone changes nothing.
recorded(b, state) == IF Exists(b) THEN [rows EXCEPT ![b].runtime = state] ELSE rows

\* clean_orphan_process: kill the process that session.json names.  It is the
\* child of a worker that will find it dead, or of a server that died.
cleaned(b) ==
    [w \in Workers |-> IF w = file[b] /\ proc[w] = "alive"
                       THEN IF Serving(w) THEN "exited" ELSE "none"
                       ELSE proc[w]]

\* rt.stop(true): the process is killed and session.json removed.
StopEngine(w) ==
    /\ proc' = [proc EXCEPT ![w] = "none"]
    /\ file' = [file EXCEPT ![thread[w].of] = Nobody]

-----------------------------------------------------------------------------
(* Calls: start, stop_with, restart, and the delete of the API *)

Goto(c, pc) == call' = [call EXCEPT ![c].pc = pc]

\* A call returns.  A start that succeeded uses up the room of a resume pass.
Return(c, ok) ==
    /\ call' = [call EXCEPT ![c] = Idle]
    /\ pass' = IF c = Clock /\ ok /\ pass.kind = "resume" THEN [pass EXCEPT !.room = @ - 1] ELSE pass

\* Operations overlap when one begins before the other has ended; a worker
\* that ends its broadcast by itself is one.
Ending(b) == \E w \in Workers : thread[w].of = b /\ thread[w].pc \in {"tell", "remove"}

Begin(c, op, b) ==
    /\ server = "up" /\ call[c].pc = "idle"
    /\ CallsOn(b) # {} \/ Ending(b) => "overlap" \in World
    /\ call' = [call EXCEPT ![c] = [pc |-> IF op = "start" THEN "subscription" ELSE "release",
                                   op |-> op, of |-> b, w |-> Nobody]]
    /\ raced' = IF CallsOn(b) # {} \/ Ending(b) THEN raced \cup {b} ELSE raced
    /\ UNCHANGED <<rows, entitled, entry, thread, proc, file, server, boots, dark>>

\* A user presses start, stop, restart or delete.
Request(c, op, b) ==
    /\ c \in Requests /\ Exists(b)
    /\ op = "delete" => "delete" \in World
    /\ Begin(c, op, b) /\ UNCHANGED pass

\* The subscription is asked for, and YouTube; the first answer is asked for
\* again just before the claim, which changes nothing else.
Subscription(c) ==
    /\ call[c].pc = "subscription"
    /\ \/ Owner[call[c].of] \in entitled /\ Goto(c, "claim") /\ UNCHANGED pass
       \/ (Owner[call[c].of] \notin entitled \/ "fail" \in World) /\ Return(c, FALSE)
    /\ dark' = IF call'[c].pc = "idle" /\ call[c].op = "restart" THEN dark \cup {call[c].of} ELSE dark
    /\ UNCHANGED <<rows, entitled, entry, thread, proc, file, server, boots, raced>>

Claim(c) ==
    LET b == call[c].of
    IN  /\ call[c].pc = "claim"
        /\ rows' = IF Exists(b) THEN claim(b) ELSE rows
        /\ IF rows'[b].desired = "running" /\ ~rows'[b].held
           THEN Goto(c, "spawn") /\ UNCHANGED pass
           ELSE Return(c, FALSE)
        /\ dark' = IF call'[c].pc = "idle" /\ call[c].op = "restart" THEN dark \cup {b} ELSE dark
        /\ UNCHANGED <<entitled, entry, thread, proc, file, server, boots, raced>>

\* Mutant: the map is not asked whether the broadcast has a worker.
mut_SpawnCheck(c) ==
    /\ call[c].pc = "spawn"
    /\ Goto(c, "clean") /\ UNCHANGED pass
    /\ UNCHANGED <<rows, entitled, entry, thread, proc, file, server, boots, raced, dark>>

\* spawn_worker: a broadcast that has a worker is left alone.
SpawnCheck(c) ==
    /\ call[c].pc = "spawn"
    /\ IF entry[call[c].of] # Nobody THEN Return(c, TRUE) ELSE Goto(c, "clean") /\ UNCHANGED pass
    /\ UNCHANGED <<rows, entitled, entry, thread, proc, file, server, boots, raced, dark>>

\* ... the row and the playlist are read, the files fetched, and what a dead
\* server left running is killed.
Clean(c) ==
    LET b == call[c].of
    IN  /\ call[c].pc = "clean"
        /\ \/ Exists(b) /\ proc' = cleaned(b) /\ Goto(c, "launch")
           \/ (~Exists(b) \/ "fail" \in World) /\ Goto(c, "undo") /\ UNCHANGED proc
        /\ UNCHANGED <<rows, entitled, entry, thread, file, pass, server, boots, raced, dark>>

NewThread(b) == [pc |-> "start", of |-> b, stop |-> FALSE, engine |-> "up", restarts |-> 0]

\* ... FFmpeg is launched ...
Launch(c, w) ==
    /\ call[c].pc = "launch"
    /\ \/ /\ w \in FreeWorkers
          /\ call' = [call EXCEPT ![c].pc = "save", ![c].w = w]
          /\ thread' = [thread EXCEPT ![w] = NewThread(call[c].of)]
          /\ proc' = [proc EXCEPT ![w] = "alive"]
       \/ CannotSpawn /\ Goto(c, "undo") /\ UNCHANGED <<thread, proc>>
    /\ UNCHANGED <<rows, entitled, entry, file, pass, server, boots, raced, dark>>

\* ... session.json is written, the row says running, the thread begins ...
Save(c) ==
    LET b == call[c].of
        w == call[c].w
    IN  /\ call[c].pc = "save"
        /\ Goto(c, "insert")
        /\ thread' = [thread EXCEPT ![w].pc = "check"]
        /\ file' = [file EXCEPT ![b] = w]
        /\ rows' = recorded(b, "Running")
        /\ UNCHANGED <<entitled, entry, proc, pass, server, boots, raced, dark>>

\* ... before it is entered in the map, over whatever is there.
Insert(c) ==
    /\ call[c].pc = "insert"
    /\ entry' = [entry EXCEPT ![call[c].of] = call[c].w]
    /\ dark' = dark \ {call[c].of}
    /\ Return(c, TRUE)
    /\ UNCHANGED <<rows, entitled, thread, proc, file, server, boots, raced>>

\* Mutant: the slot stays claimed.
mut_Undo(c) ==
    /\ call[c].pc = "undo"
    /\ Return(c, FALSE)
    /\ UNCHANGED <<rows, entitled, entry, thread, proc, file, server, boots, raced, dark>>

\* A start that failed after its claim gives the slot back.
Undo(c) ==
    /\ call[c].pc = "undo"
    /\ rows' = IF Exists(call[c].of) THEN release(call[c].of) ELSE rows
    /\ Return(c, FALSE)
    /\ UNCHANGED <<entitled, entry, thread, proc, file, server, boots, raced, dark>>

\* stop_with: the intent goes first, unless this is a restart.
Release(c) ==
    LET b == call[c].of
    IN  /\ call[c].pc = "release"
        /\ IF Exists(b)
           THEN /\ rows' = IF call[c].op = "restart" THEN rows ELSE release(b)
                /\ Goto(c, "halt") /\ UNCHANGED pass
           ELSE Return(c, FALSE) /\ UNCHANGED rows
        /\ UNCHANGED <<entitled, entry, thread, proc, file, server, boots, raced, dark>>

\* halt_worker: the entry is taken out of the map and its worker told to stop ...
Halt(c) ==
    LET w == entry[call[c].of]
    IN  /\ call[c].pc = "halt"
        /\ entry' = [entry EXCEPT ![call[c].of] = Nobody]
        /\ thread' = IF w = Nobody THEN thread ELSE [thread EXCEPT ![w].stop = TRUE]
        /\ call' = [call EXCEPT ![c].pc = "join", ![c].w = w]
        /\ UNCHANGED <<rows, entitled, proc, file, pass, server, boots, raced, dark>>

\* Mutant: the worker is told to stop and not waited for.
mut_Join(c) ==
    /\ call[c].pc = "join"
    /\ call' = [call EXCEPT ![c].pc = "record", ![c].w = Nobody]
    /\ UNCHANGED <<rows, entitled, entry, thread, proc, file, pass, server, boots, raced, dark>>

\* ... and waited for.
Join(c) ==
    /\ call[c].pc = "join"
    /\ call[c].w # Nobody => thread[call[c].w].pc = "done"
    /\ call' = [call EXCEPT ![c].pc = "record", ![c].w = Nobody]
    /\ UNCHANGED <<rows, entitled, entry, thread, proc, file, pass, server, boots, raced, dark>>

\* The second half of a restart is a start.
Record(c) ==
    /\ call[c].pc = "record"
    /\ rows' = recorded(call[c].of, "Stopped")
    /\ Goto(c, IF call[c].op = "restart" THEN "subscription" ELSE "after")
    /\ UNCHANGED <<entitled, entry, thread, proc, file, pass, server, boots, raced, dark>>

\* YouTube is told that the broadcast is over.
After(c) ==
    /\ call[c].pc = "after"
    /\ IF call[c].op = "delete" THEN Goto(c, "delete") /\ UNCHANGED pass ELSE Return(c, TRUE)
    /\ UNCHANGED <<rows, entitled, entry, thread, proc, file, server, boots, raced, dark>>

\* The row goes, then its directory with the session file.
Delete(c) ==
    /\ call[c].pc = "delete"
    /\ rows' = [rows EXCEPT ![call[c].of] = [desired |-> "gone", runtime |-> "Stopped", held |-> FALSE]]
    /\ file' = IF Exists(call[c].of) THEN [file EXCEPT ![call[c].of] = Nobody] ELSE file
    /\ Return(c, TRUE)
    /\ UNCHANGED <<entitled, entry, thread, proc, server, boots, raced, dark>>

CallStep(c) ==
    \/ Subscription(c) \/ Claim(c) \/ SpawnCheck(c) \/ Clean(c)
    \/ \E w \in Workers : Launch(c, w)
    \/ Save(c) \/ Insert(c) \/ Undo(c)
    \/ Release(c) \/ Halt(c) \/ Join(c) \/ Record(c) \/ After(c) \/ Delete(c)

-----------------------------------------------------------------------------
(* The worker: run_until_stopped, and the end of its thread *)

WorkerGoto(w, pc) == thread' = [thread EXCEPT ![w].pc = pc]

\* Mutant: the worker listens to its stop flag only.
mut_WorkerCheck(w) ==
    LET b == thread[w].of
    IN  /\ thread[w].pc = "check"
        /\ IF thread[w].stop
           THEN /\ StopEngine(w) /\ rows' = recorded(b, "Stopped") /\ WorkerGoto(w, "remove")
           ELSE WorkerGoto(w, "tick") /\ UNCHANGED <<rows, proc, file>>
        /\ UNCHANGED <<entitled, entry, call, pass, server, boots, raced, dark>>

\* The stop flag and the stored intent are read; either one, or a row that is
\* gone, ends the broadcast.
WorkerCheck(w) ==
    LET b == thread[w].of
    IN  /\ thread[w].pc = "check"
        /\ IF thread[w].stop \/ rows[b].desired # "running"
           THEN /\ StopEngine(w) /\ rows' = recorded(b, "Stopped") /\ WorkerGoto(w, "remove")
           ELSE WorkerGoto(w, "tick") /\ UNCHANGED <<rows, proc, file>>
        /\ UNCHANGED <<entitled, entry, call, pass, server, boots, raced, dark>>

\* What a tick makes of the engine: it finds the process dead, relaunches it
\* when the backoff is over (due), or fails to.
Ticked(w, due, launched) ==
    LET t == thread[w]
    IN  CASE t.engine = "up" /\ proc[w] = "exited" ->
                <<[t EXCEPT !.engine = "backoff", !.restarts = @ + 1], "none">>
          [] t.engine = "backoff" /\ due /\ launched -> <<[t EXCEPT !.engine = "up"], "alive">>
          [] t.engine = "backoff" /\ due /\ ~launched -> <<[t EXCEPT !.engine = "error"], "none">>
          [] OTHER -> <<t, proc[w]>>

\* The restarts a worker allows itself are used up.
gives_up(restarts) == restarts > MaxRestarts

\* A tick of the engine: it may relaunch FFmpeg ...
WorkerTick(w, due, launched) ==
    LET next == Ticked(w, due, launched)
    IN  /\ thread[w].pc = "tick"
        /\ launched \/ "fail" \in World
        /\ thread' = [thread EXCEPT ![w] = [next[1] EXCEPT !.pc = "save"]]
        /\ proc' = [proc EXCEPT ![w] = next[2]]
        /\ UNCHANGED <<rows, entitled, entry, file, call, pass, server, boots, raced, dark>>

\* ... ends by writing session.json, and then the loop looks at what it has: a
\* playlist that has been played once and a worker that has restarted too
\* often end the broadcast here.
WorkerSave(w, played) ==
    LET b    == thread[w].of
        over == gives_up(thread[w].restarts)
    IN  /\ thread[w].pc = "save"
        /\ played => b \in Finite /\ proc[w] # "none"
        /\ WorkerGoto(w, IF played \/ over THEN "tell" ELSE "check")
        /\ proc' = IF played \/ over THEN [proc EXCEPT ![w] = "none"] ELSE proc
        /\ file' = [file EXCEPT ![b] =
                        IF played \/ over \/ proc[w] = "none" THEN Nobody ELSE w]
        /\ rows' = CASE ~Exists(b) -> rows
                     [] Exists(b) /\ played ->
                          [rows EXCEPT ![b].desired = "stopped", ![b].runtime = "Stopped"]
                     [] Exists(b) /\ ~played /\ over ->
                          [rows EXCEPT ![b].desired = "stopped", ![b].runtime = "Failed"]
                     [] OTHER -> recorded(b, IF thread[w].engine = "error" THEN "Failed" ELSE "Running")
        /\ raced' = IF (played \/ over) /\ CallsOn(b) # {} THEN raced \cup {b} ELSE raced
        /\ UNCHANGED <<entitled, entry, call, pass, server, boots, dark>>

\* YouTube is told; this is a network call, and the entry is still in the map.
WorkerTell(w) ==
    /\ thread[w].pc = "tell"
    /\ WorkerGoto(w, "remove")
    /\ UNCHANGED <<rows, entitled, entry, proc, file, call, pass, server, boots, raced, dark>>

\* The entry of the broadcast is removed, whichever worker it names.
WorkerRemove(w) ==
    /\ thread[w].pc = "remove"
    /\ entry' = [entry EXCEPT ![thread[w].of] = Nobody]
    /\ thread' = [thread EXCEPT ![w] = Ended]
    /\ UNCHANGED <<rows, entitled, proc, file, call, pass, server, boots, raced, dark>>

WorkerStep(w) ==
    \/ WorkerCheck(w)
    \/ \E due, launched \in BOOLEAN : WorkerTick(w, due, launched)
    \/ \E played \in BOOLEAN : WorkerSave(w, played)
    \/ WorkerTell(w) \/ WorkerRemove(w)

\* FFmpeg exits; one that a dead server left behind is reaped at once.
Exit(w) ==
    /\ "exit" \in World /\ proc[w] = "alive"
    /\ proc' = [proc EXCEPT ![w] = IF Serving(w) THEN "exited" ELSE "none"]
    /\ UNCHANGED <<rows, entitled, entry, thread, file, call, pass, server, boots, raced, dark>>

-----------------------------------------------------------------------------
(* The scheduler thread *)

SchedulerFree == server = "up" /\ call[Clock].pc = "idle" /\ pass.kind = "none"

\* run_schedules and refresh_cctv_urls decide from rows read when their pass
\* began, so what they ask for may be out of date by the time they ask: a
\* start or a stop of any broadcast, a restart of a live camera.
Scheduled(op, b) ==
    /\ SchedulerFree /\ Exists(b)
    /\ \/ "schedule" \in World /\ op \in {"start", "stop"}
       \/ "refresh" \in World /\ op = "restart" /\ b \in Encoding \cap Live
    /\ Begin(Clock, op, b) /\ UNCHANGED pass

\* resume_held_back reads the rows and the map once ...
ResumeHeldBack ==
    LET parked == {b \in Wanted \cap Encoding : rows[b].held} \ Live
        room   == EncodeBudget - Cardinality(Wanted \cap Encoding \cap Live)
    IN  /\ SchedulerFree /\ parked # {} /\ room > 0
        /\ pass' = [kind |-> "resume", todo |-> parked, room |-> room]
        /\ UNCHANGED <<rows, entitled, entry, thread, proc, file, call, server, boots, raced, dark>>

\* ... and expire_lapsed with stop_all_for takes all of a lapsed account down.
ExpireLapsed ==
    LET lapsed == {b \in Wanted \cup Live : Exists(b) /\ Owner[b] \notin entitled
                                            /\ \E c \in Wanted : Owner[c] = Owner[b]}
    IN  /\ SchedulerFree /\ lapsed # {}
        /\ pass' = [kind |-> "expire", todo |-> lapsed, room |-> 0]
        /\ UNCHANGED <<rows, entitled, entry, thread, proc, file, call, server, boots, raced, dark>>

NextOf(S) == CHOOSE b \in S : \A c \in S : b <= c

PassOver == pass.todo = {} \/ (pass.kind = "resume" /\ pass.room <= 0)

\* The pass goes to its next broadcast, or ends.
PassStep ==
    /\ server = "up" /\ call[Clock].pc = "idle" /\ pass.kind \in {"resume", "expire"}
    /\ IF PassOver
       THEN /\ pass' = NoPass
            /\ UNCHANGED <<rows, entitled, entry, thread, proc, file, call, server, boots, raced, dark>>
       ELSE /\ Begin(Clock, IF pass.kind = "resume" THEN "start" ELSE "stop", NextOf(pass.todo))
            /\ pass' = [pass EXCEPT !.todo = @ \ {NextOf(@)}]

-----------------------------------------------------------------------------
(* The server: recovery at boot, subscriptions, shutdown and crash *)

\* recover_all reads the rows that want to run; room counts encodes started.
Boot ==
    /\ server = "down" /\ boots < MaxBoots
    /\ server' = "boot" /\ boots' = boots + 1
    /\ pass' = [kind |-> "recover", todo |-> Wanted, room |-> 0]
    /\ UNCHANGED <<rows, entitled, entry, thread, proc, file, call, raced, dark>>

\* An encode over the budget is held back, an account without a subscription
\* is passed over.
NoRoom(b) == b \in Encoding /\ pass.room >= EncodeBudget

RecoverHold(b) ==
    /\ NoRoom(b)
    /\ rows' = [rows EXCEPT ![b].runtime = "Stopped", ![b].held = TRUE]
    /\ pass' = [pass EXCEPT !.todo = @ \ {b}]
    /\ dark' = dark \cup {b}
    /\ UNCHANGED <<entry, thread, proc, file>>

\* The subscription has ended, or YouTube or the start refuses; a broadcast
\* that YouTube has completed is given up.
RecoverRefused(b, complete) ==
    /\ ~NoRoom(b)
    /\ \/ (Owner[b] \notin entitled \/ FreeWorkers = {}) /\ ~complete
       \/ Owner[b] \in entitled /\ "fail" \in World
    /\ rows' = IF complete THEN [rows EXCEPT ![b].desired = "stopped", ![b].runtime = "Failed"] ELSE rows
    /\ pass' = [pass EXCEPT !.todo = @ \ {b}]
    /\ dark' = dark \cup {b}
    /\ UNCHANGED <<entry, thread, proc, file>>

\* spawn_worker, with nobody else about: check, clean, launch and insert.
RecoverStart(b, w) ==
    /\ ~NoRoom(b) /\ Owner[b] \in entitled
    /\ w \in FreeWorkers
    /\ thread' = [thread EXCEPT ![w] = [NewThread(b) EXCEPT !.pc = "check"]]
    /\ proc' = [cleaned(b) EXCEPT ![w] = "alive"]
    /\ file' = [file EXCEPT ![b] = w]
    /\ entry' = [entry EXCEPT ![b] = w]
    /\ rows' = recorded(b, "Running")
    /\ pass' = [pass EXCEPT !.todo = @ \ {b}, !.room = IF b \in Encoding THEN @ + 1 ELSE @]
    /\ UNCHANGED dark

Recover ==
    /\ server = "boot"
    /\ IF pass.todo = {}
       THEN /\ server' = "up" /\ pass' = NoPass
            /\ UNCHANGED <<rows, entry, thread, proc, file, dark>>
       ELSE /\ LET b == NextOf(pass.todo)
               IN  \/ RecoverHold(b)
                  \/ \E complete \in BOOLEAN : RecoverRefused(b, complete)
                  \/ \E w \in Workers : RecoverStart(b, w)
            /\ UNCHANGED server
    /\ UNCHANGED <<entitled, call, boots, raced>>

\* A subscription runs out or is cancelled, and is bought again.
Subscribe(u, on) ==
    /\ "lapse" \in World /\ server # "down"
    /\ entitled' = IF on THEN entitled \cup {u} ELSE entitled \ {u}
    /\ entitled' # entitled
    /\ UNCHANGED <<rows, entry, thread, proc, file, call, pass, server, boots, raced, dark>>

\* History: a launch and the write of its session.json, which names the process
\* to whoever starts the broadcast next, have been kept apart.
Unnamed == {b \in Broadcasts : \E w \in Senders(b) : file[b] # w}

\* The server's memory goes; the rows, the files and the processes of `left' stay.
Die(left) ==
    /\ server' = "down"
    /\ entry' = [b \in Broadcasts |-> Nobody]
    /\ thread' = [w \in Workers |-> IF proc[w] = "alive" /\ w \in left
                                     THEN [Ended EXCEPT !.of = thread[w].of] ELSE Ended]
    /\ proc' = [w \in Workers |-> IF proc[w] = "alive" /\ w \in left THEN "alive" ELSE "none"]
    /\ call' = [c \in Callers |-> Idle]
    /\ pass' = NoPass
    /\ dark' = {}
    /\ raced' = raced \cup Unnamed
    /\ UNCHANGED <<entitled, boots>>

Crash == "crash" \in World /\ server # "down" /\ Die(Workers) /\ UNCHANGED <<rows, file>>

\* The server dies in recovery, after the launch and before its session.json.
\* Nobody else is about, so the launch and the death are one step.
RecoverDies(w) ==
    LET b == NextOf(pass.todo)
    IN  /\ "crash" \in World /\ server = "boot" /\ pass.todo # {}
        /\ ~NoRoom(b) /\ Owner[b] \in entitled /\ w \in FreeWorkers
        /\ server' = "down"
        /\ entry' = [c \in Broadcasts |-> Nobody]
        /\ thread' = [v \in Workers |->
                          IF v = w THEN [Ended EXCEPT !.of = b]
                          ELSE IF cleaned(b)[v] = "alive" THEN [Ended EXCEPT !.of = thread[v].of]
                          ELSE Ended]
        /\ proc' = [v \in Workers |-> IF v = w \/ cleaned(b)[v] = "alive" THEN "alive" ELSE "none"]
        /\ call' = [c \in Callers |-> Idle]
        /\ pass' = NoPass
        /\ dark' = {} /\ raced' = raced \cup Unnamed \cup {b}
        /\ UNCHANGED <<rows, entitled, file, boots>>

\* shutdown(): requests have been drained; every worker in the map ends its
\* engine, and the intents stay.
Shutdown ==
    LET halted == {entry[b] : b \in Live}
    IN  /\ "crash" \in World /\ server = "up" /\ \A c \in Requests : call[c].pc = "idle"
        /\ rows' = [b \in Broadcasts |-> IF b \in Live /\ Exists(b)
                                         THEN [rows[b] EXCEPT !.runtime = "Stopped"] ELSE rows[b]]
        /\ file' = [b \in Broadcasts |-> IF b \in Live THEN Nobody ELSE file[b]]
        /\ Die(Workers \ halted)

Next ==
    \/ \E c \in Requests, op \in Operation, b \in Broadcasts : Request(c, op, b)
    \/ \E c \in Callers : CallStep(c)
    \/ \E w \in Workers : WorkerStep(w) \/ Exit(w)
    \/ \E op \in Operation, b \in Broadcasts : Scheduled(op, b)
    \/ ResumeHeldBack \/ ExpireLapsed \/ PassStep
    \/ Boot \/ Recover \/ Crash \/ Shutdown \/ \E w \in Workers : RecoverDies(w)
    \/ \E u \in Users, on \in BOOLEAN : Subscribe(u, on)

Spec == Init /\ [][Next]_vars

\* Every thread that can take a step takes it, and the scheduler's passes come
\* round every half minute.  A pass never waits for a request: where a model
\* keeps the two apart (no "overlap"), it gets its turn all the same.
Fairness ==
    /\ \A c \in Callers : WF_vars(CallStep(c))
    /\ \A w \in Workers : WF_vars(WorkerStep(w))
    /\ WF_vars(Recover) /\ SF_vars(PassStep)
    /\ SF_vars(ResumeHeldBack) /\ SF_vars(ExpireLapsed)

FairSpec == Spec /\ Fairness

-----------------------------------------------------------------------------
(* Properties *)

\* The state has its declared shape.
CloudTypeOK ==
    /\ rows \in [Broadcasts -> Row]
    /\ entitled \subseteq Users
    /\ entry \in [Broadcasts -> Workers \cup {Nobody}]
    /\ thread \in [Workers -> Thread]
    /\ proc \in [Workers -> {"none", "alive", "exited"}]
    /\ file \in [Broadcasts -> Workers \cup {Nobody}]
    /\ call \in [Callers -> Call]
    /\ pass \in [kind : {"none", "resume", "expire", "recover"}, todo : SUBSET Broadcasts, room : Int]
    /\ server \in {"down", "boot", "up"}
    /\ boots \in 0 .. MaxBoots
    /\ raced \subseteq Broadcasts /\ dark \subseteq Broadcasts

\* As long as the operations on a broadcast do not overlap, one FFmpeg at most
\* publishes to its key: across restarts, crashes, recoveries and relaunches,
\* and for any death of the server but one: between a launch and the write of
\* session.json the process has no name by which recovery could kill it.
OneSenderUnlessRaced == \A b \in Broadcasts \ raced : Cardinality(Senders(b)) <= 1

\* ... and no start is lost: a broadcast that is meant to run has a worker in
\* its loop whenever no operation on it is under way, unless recovery or a restart could
\* not start it.
WantedHasWorkerUnlessRaced ==
    \A b \in (Wanted \ raced) \ dark :
        server = "up" /\ CallsOn(b) = {} /\ ~Ending(b)
        => /\ entry[b] # Nobody /\ thread[entry[b]].of = b
           /\ thread[entry[b]].pc \in {"check", "tick", "save"}

\* ... and YouTube is told that a broadcast is over only when the FFmpeg of its
\* worker is gone.
YoutubeEndsLast ==
    [][ \A c \in Callers :
            call[c].pc = "after" /\ call'[c] # call[c] /\ server' = "up" /\ call[c].of \notin raced
            => \A w \in Senders(call[c].of) : ~Serving(w) ]_vars

\* A stop always takes effect in the end, whatever it raced with: the workers
\* read the stored intent, and leave.
StopTakesEffect ==
    \A b \in Broadcasts : (rows[b].desired # "running" /\ Senders(b) # {})
                          ~> (rows[b].desired = "running" \/ Senders(b) = {})

\* A broadcast whose account is no longer entitled goes off the air although
\* nothing happens but the passing of a date.
LapsedGoesOffAir ==
    \A b \in Broadcasts : (Owner[b] \notin entitled /\ Senders(b) # {})
                          ~> (Owner[b] \in entitled \/ Senders(b) = {})

\* What its user stopped or no longer pays for leaves the air, whatever start,
\* restart or pass of the scheduler was under way.
LeavesTheAir == StopTakesEffect /\ LapsedGoesOffAir

\* A broadcast that recovery held back, and for which there is room.
HeldOwed(b) ==
    /\ server = "up" /\ b \in Wanted /\ rows[b].held /\ Owner[b] \in entitled
    /\ Cardinality(Holding \cap Encoding) < EncodeBudget
    /\ Cardinality({c \in Holding : Owner[c] = Owner[b]}) < Allowed

\* What recovery held back is started once there is room.
HeldIsResumed == \A b \in Broadcasts : HeldOwed(b) ~> ~HeldOwed(b)

-----------------------------------------------------------------------------
(* What comments say, and the code does not do *)

\* manager.rs: a second sender to one ingest URL is worse than none.
OneSenderPerKey == \A b \in Broadcasts : Cardinality(Senders(b)) <= 1

\* entitlement.rs: nothing is running for a broadcast that is held back.
HeldMeansParked == \A b \in Broadcasts : rows[b].held /\ b \in Wanted => Senders(b) = {}

\* manager.rs: a broadcast with no worker at all is not shown as on the air.
ShownRunningHasWorker ==
    \A b \in Broadcasts :
        server = "up" /\ rows[b].runtime = "Running"
        => CallsOn(b) # {} \/ \E w \in Workers : Serving(w) /\ thread[w].of = b
=============================================================================
