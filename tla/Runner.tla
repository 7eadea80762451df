------------------------------- MODULE Runner ------------------------------
(***************************************************************************)
(* The split deployment, for one broadcast: API request threads that       *)
(* record the intent and ask over a Unix socket (runner.rs), and the       *)
(* process that holds the lease (lease.rs), owns the FFmpeg workers and    *)
(* serves one connection at a time (main.rs, manager.rs).                  *)
(*                                                                         *)
(* A client gives up after thirty seconds while its command stays in the   *)
(* server's backlog and is carried out later.  Either side may die.  A     *)
(* worker thread and its map entry are one here; how they overlap inside   *)
(* one process is the subject of CloudWorkers.                             *)
(***************************************************************************)
EXTENDS Naturals, Sequences, FiniteSets

CONSTANTS Clients,      \* request threads of the API
          Owners,       \* processes that may be started to own the workers
          RoleOf,       \* LOUVER_ROLE of each of them
          MaxCalls,     \* bound: starts and stops per request thread
          MaxBoots      \* bound: boots of the owning processes

Nobody == "nobody"

ASSUME RunnerAssumption ==
    /\ RoleOf \in [Owners -> {"All", "Runner"}]
    /\ Nobody \notin Owners
    /\ MaxCalls \in Nat /\ MaxBoots \in Nat

VARIABLES
    desired,    \* broadcasts.desired_state, the stream slot with it
    entitled,   \* require_active_subscription says yes
    youtube,    \* "open", or "ended" by after_stop
    call,       \* what each request thread is doing; n counts its calls,
                \* halted: its HALT was answered; alone: no start since (history)
    proc,       \* "off", "booting", "recovering", "up"
    boots,
    locked,     \* who holds the flock on runner.lock
    socket,     \* whose listener runner.sock leads to
    backlog,    \* connections not yet answered, in the order they arrived
    worker      \* "none", "run", or "ending": read the stop, entry still there

runnerVars == <<desired, entitled, youtube, call, proc, boots, locked, socket,
                backlog, worker>>

NoCall == [pc |-> "idle", n |-> 0, halted |-> FALSE, alone |-> FALSE]
intentVars == <<desired, entitled, youtube>>
processVars == <<proc, boots, locked, socket>>

owns_workers(role) == role \in {"All", "Runner"}
serves_socket(role) == role = "Runner"

\* Mutant: only the process with the runner's role takes the lease.
mut_takes_the_lease(role) == role = "Runner"

takes_the_lease(role) == owns_workers(role)

----------------------------------------------------------------------------
(* The API's half of start and stop. *)

At(c, pc) == call[c].pc = pc
Goto(c, pc) == call' = [call EXCEPT ![c].pc = pc]

Begin(c, pc) ==
    /\ At(c, "idle") /\ call[c].n < MaxCalls
    /\ call' = [call EXCEPT ![c] = [NoCall EXCEPT !.pc = pc, !.n = call[c].n + 1]]
    /\ UNCHANGED <<intentVars, processVars, backlog, worker>>

Start(c) == entitled /\ Begin(c, "claim")

(* History: a start by anybody, from its claim to its START, may overtake  *)
(* a stop that is under way.                                               *)
Disturbed(f) == [c \in Clients |-> [f[c] EXCEPT !.alone = FALSE]]

Claim(c) ==
    /\ At(c, "claim")
    /\ IF entitled
       THEN desired' = "Running" /\ call' = Disturbed([call EXCEPT ![c].pc = "start"])
       ELSE UNCHANGED desired /\ Goto(c, "idle")
    /\ UNCHANGED <<entitled, youtube, processVars, backlog, worker>>

Stop(c) == Begin(c, "release")

ReleaseSlot(c) ==
    /\ At(c, "release")
    /\ desired' = "Stopped"
    /\ call' = [call EXCEPT ![c].pc = "halt", ![c].alone = TRUE]
    /\ UNCHANGED <<entitled, youtube, processVars, backlog, worker>>

Listening(p) == socket = p /\ proc[p] = "up"

(* Client::send: connect and write the line. *)
Send(c, pc, cmd) ==
    /\ At(c, pc)
    /\ \E p \in Owners :
          /\ Listening(p)
          /\ backlog' = [backlog EXCEPT ![p] = Append(@, [cmd |-> cmd, from |-> c, n |-> call[c].n])]
    /\ UNCHANGED <<intentVars, processVars, worker>>

SendStart(c) == /\ Send(c, "start", "START")
                /\ call' = Disturbed([call EXCEPT ![c].pc = "awaits_start"])

SendHalt(c) == /\ Send(c, "halt", "HALT")
               /\ Goto(c, "awaits_halt")

(* No runner to connect to; the answer did not come within TIMEOUT; the    *)
(* runner closed the connection without one.  Nothing is taken back.       *)
Unanswered(c) ==
    /\ \A p \in Owners : ~Listening(p)
    /\ \/ At(c, "start") /\ Goto(c, "failed")
       \/ At(c, "halt") /\ Goto(c, "record")

TimesOut(c) ==
    \/ At(c, "awaits_start") /\ Goto(c, "failed")
    \/ At(c, "awaits_halt") /\ Goto(c, "record")

CallFails(c) ==
    /\ Unanswered(c) \/ TimesOut(c)
    /\ UNCHANGED <<intentVars, processVars, backlog, worker>>

(* A start that failed gives its slot back and records the failure. *)
StartFails(c) ==
    /\ At(c, "failed")
    /\ desired' = "Stopped"
    /\ Goto(c, "idle")
    /\ UNCHANGED <<entitled, youtube, processVars, backlog, worker>>

RecordStopped(c) ==
    /\ At(c, "record")
    /\ Goto(c, "end")
    /\ UNCHANGED <<intentVars, processVars, backlog, worker>>

after_stop(c) ==
    /\ At(c, "end")
    /\ youtube' = "ended"
    /\ Goto(c, "idle")
    /\ UNCHANGED <<desired, entitled, processVars, backlog, worker>>

ApiDies ==
    /\ \E c \in Clients : ~At(c, "idle")
    /\ call' = [c \in Clients |-> [call[c] EXCEPT !.pc = "idle"]]
    /\ UNCHANGED <<intentVars, processVars, backlog, worker>>

Lapse ==
    /\ entitled
    /\ entitled' = FALSE
    /\ UNCHANGED <<desired, youtube, call, processVars, backlog, worker>>

----------------------------------------------------------------------------
(* The owning process. *)

acquire(p) ==
    /\ proc[p] = "off" /\ boots < MaxBoots
    /\ boots' = boots + 1
    /\ IF takes_the_lease(RoleOf[p])
       THEN /\ locked' = IF locked = Nobody THEN p ELSE locked
            /\ proc' = [proc EXCEPT ![p] = IF locked = Nobody THEN "booting" ELSE "off"]
       ELSE proc' = [proc EXCEPT ![p] = "booting"] /\ UNCHANGED locked
    /\ UNCHANGED <<intentVars, call, socket, backlog, worker>>

(* Every start of a worker inside the process: an entry that is there      *)
(* makes it a success at once; it may also fail (playlist, disk, FFmpeg).  *)
spawn_worker(p, ok) ==
    worker' = IF ok /\ worker[p] = "none" THEN [worker EXCEPT ![p] = "run"] ELSE worker

recover_all(p) ==
    /\ proc[p] = "booting"
    /\ proc' = [proc EXCEPT ![p] = "recovering"]
    /\ IF desired = "Running" /\ entitled
       THEN \E ok \in BOOLEAN : spawn_worker(p, ok)
       ELSE UNCHANGED worker
    /\ UNCHANGED <<intentVars, call, boots, locked, socket, backlog>>

(* Server::bind replaces a leftover socket; "All" serves HTTP instead. *)
bind(p) ==
    /\ proc[p] = "recovering"
    /\ proc' = [proc EXCEPT ![p] = "up"]
    /\ socket' = IF serves_socket(RoleOf[p]) THEN p ELSE socket
    /\ UNCHANGED <<intentVars, call, boots, locked, backlog, worker>>

(* The reply reaches the thread that is still waiting for this very call. *)
Answer(m, yes, no) ==
    call' = IF call[m.from].n = m.n /\ call[m.from].pc \in {"awaits_start", "awaits_halt"}
            THEN [call EXCEPT ![m.from].pc = IF m.cmd = "HALT" THEN "record"
                                             ELSE IF yes THEN "idle" ELSE no,
                              ![m.from].halted = (m.cmd = "HALT")]
            ELSE call

Next1(p) == backlog' = [backlog EXCEPT ![p] = Tail(@)]

serve_start(p, m) ==
    \E ok \in IF entitled THEN BOOLEAN ELSE {FALSE} :
        /\ spawn_worker(p, ok)
        /\ Answer(m, ok \/ (entitled /\ worker[p] # "none"), "failed")

serve_halt(p, m) ==
    /\ worker' = [worker EXCEPT ![p] = "none"]
    /\ Answer(m, TRUE, "failed")

\* Mutant: connections are answered in any order.
mut_serve(p) ==
    /\ proc[p] = "up" /\ backlog[p] # <<>>
    /\ \E i \in DOMAIN backlog[p] :
          LET m == backlog[p][i] IN
          /\ IF m.cmd = "START" THEN serve_start(p, m) ELSE serve_halt(p, m)
          /\ backlog' = [backlog EXCEPT ![p] =
                            SubSeq(@, 1, i - 1) \o SubSeq(@, i + 1, Len(@))]
    /\ UNCHANGED <<intentVars, processVars>>

(* One connection at a time, in order of arrival.  The runner does not ask *)
(* whether anybody still waits for the answer.                             *)
serve(p) ==
    /\ proc[p] = "up" /\ backlog[p] # <<>>
    /\ LET m == Head(backlog[p]) IN
          IF m.cmd = "START" THEN serve_start(p, m) ELSE serve_halt(p, m)
    /\ Next1(p)
    /\ UNCHANGED <<intentVars, processVars>>

\* Mutant: the worker does not look at the intent.
mut_WorkerReads(p) ==
    /\ worker[p] = "run" /\ desired = "Stopped"
    /\ UNCHANGED runnerVars

(* The worker looks at the intent before every tick. *)
WorkerReads(p) ==
    /\ worker[p] = "run" /\ desired = "Stopped"
    /\ worker' = [worker EXCEPT ![p] = "ending"]
    /\ UNCHANGED <<intentVars, call, processVars, backlog>>

WorkerEnds(p) ==
    /\ worker[p] = "ending"
    /\ worker' = [worker EXCEPT ![p] = "none"]
    /\ UNCHANGED <<intentVars, call, processVars, backlog>>

(* The run_schedules and resume_held_back of the owner itself: no socket.  *)
OwnStart(p) ==
    /\ proc[p] = "up" /\ entitled /\ desired = "Stopped"
    /\ \E ok \in BOOLEAN :
          /\ spawn_worker(p, ok)
          /\ desired' = IF ok \/ worker[p] # "none" THEN "Running" ELSE "Stopped"
    /\ call' = Disturbed(call)
    /\ UNCHANGED <<entitled, youtube, processVars, backlog>>

(* SIGTERM: shutdown, then exit; or a crash.  The descriptor goes with the *)
(* process, and the lock with the descriptor.                              *)
OwnerGone(p) ==
    /\ proc[p] # "off"
    /\ proc' = [proc EXCEPT ![p] = "off"]
    /\ locked' = IF locked = p THEN Nobody ELSE locked
    /\ worker' = [worker EXCEPT ![p] = "none"]
    /\ backlog' = [backlog EXCEPT ![p] = <<>>]
    /\ UNCHANGED <<intentVars, call, boots, socket>>

----------------------------------------------------------------------------
RunnerInit ==
    /\ desired = "Stopped" /\ entitled = TRUE /\ youtube = "open"
    /\ call = [c \in Clients |-> NoCall]
    /\ proc = [p \in Owners |-> "off"] /\ boots = 0
    /\ locked = Nobody /\ socket = Nobody
    /\ backlog = [p \in Owners |-> <<>>]
    /\ worker = [p \in Owners |-> "none"]

ClientNext(c) ==
    \/ Start(c) \/ Claim(c) \/ SendStart(c) \/ StartFails(c)
    \/ Stop(c) \/ ReleaseSlot(c) \/ SendHalt(c) \/ RecordStopped(c) \/ after_stop(c)
    \/ CallFails(c)

OwnerNext(p) ==
    \/ acquire(p) \/ recover_all(p) \/ bind(p) \/ serve(p)
    \/ WorkerReads(p) \/ WorkerEnds(p) \/ OwnStart(p) \/ OwnerGone(p)

RunnerNext ==
    \/ \E c \in Clients : ClientNext(c)
    \/ \E p \in Owners : OwnerNext(p)
    \/ ApiDies \/ Lapse

RunnerSpec == RunnerInit /\ [][RunnerNext]_runnerVars

(* A live process serves its socket and its workers tick: both are loops   *)
(* of threads of their own.                                                *)
RunnerFairness ==
    \A p \in Owners : WF_runnerVars(serve(p)) /\ WF_runnerVars(WorkerReads(p) \/ WorkerEnds(p))

----------------------------------------------------------------------------
(* One process owns workers, whichever roles are started, in whatever      *)
(* order, and however often: a second one would put two FFmpegs on one     *)
(* broadcast (lease.rs).                                                   *)
OneOwner == Cardinality({p \in Owners : worker[p] # "none"}) <= 1

(* HALT is "synchronous on purpose": when its OK came back, the worker is  *)
(* down by the time YouTube's broadcast is ended, even if earlier commands *)
(* were given up on and are carried out late, unless a start has crossed   *)
(* the stop.                                                               *)
EndedAfterHalt ==
    [][\A c \in Clients :
          after_stop(c) /\ call[c].halted /\ call[c].alone =>
              \A p \in Owners : worker[p] = "none"]_runnerVars

(* A START that timed out at the API and was carried out all the same does *)
(* not stay: once nobody wants the broadcast, its worker ends by itself.   *)
StrayWorkerEnds ==
    (desired = "Stopped") ~> (desired = "Running" \/ \A p \in Owners : worker[p] = "none")

============================================================================
