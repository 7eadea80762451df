-------------------------- MODULE CloudWorkersProofs --------------------------
(***************************************************************************)
(* Why a broadcast on which no two operations overlap has one sender and   *)
(* keeps its worker, for any number of broadcasts, workers and requests,   *)
(* through failing starts, exits, crashes, recoveries and shutdowns.       *)
(*                                                                         *)
(* The invariant has a part about the whole server and a part about each   *)
(* broadcast that has not been raced.  Every step is about one broadcast:  *)
(* the frame lemma disposes of the others.                                 *)
(*                                                                         *)
(* Then, how one sender gives way to the next, what the dashboard shows of *)
(* a broadcast whose worker has ended, and who may hold a slot.            *)
(***************************************************************************)
EXTENDS CloudWorkers, FiniteSetTheorems, WellFoundedInduction, TLAPS

Servers(b) == {w \in Workers : Serving(w) /\ thread[w].of = b}

\* A worker that still does something does it for b.
Mine(w, b) == Serving(w) \/ proc[w] = "alive" => thread[w].of = b

-----------------------------------------------------------------------------
(* The whole server *)

\* Whatever names a worker names one of its own broadcast.
NamesAreRight ==
    /\ \A b \in Broadcasts : entry[b] # Nobody => Mine(entry[b], b)
    /\ \A b \in Broadcasts : file[b] # Nobody => Mine(file[b], b)
    /\ \A c \in Callers : call[c].w # Nobody =>
           call[c].pc \in {"save", "insert", "join"} /\ Mine(call[c].w, call[c].of)

\* A worker past its loop has no process; one in its loop has restarts left.
WorkersAreSound ==
    \A w \in Workers : /\ thread[w].pc \in {"tell", "remove"} => proc[w] = "none"
                       /\ thread[w].pc \in {"start", "check", "tick"} =>
                              thread[w].restarts <= MaxRestarts

\* A thread that has not begun is in the hands of the call that launched its
\* process, and of nothing else.
LaunchesAreSound ==
    /\ \A w \in Workers : thread[w].pc = "start" => \E c \in Callers : call[c].pc = "save" /\ call[c].w = w
    /\ \A c \in Callers : call[c].pc = "save" =>
           /\ call[c].w \in Workers
           /\ thread[call[c].w].pc = "start" /\ thread[call[c].w].of = call[c].of
           /\ ~thread[call[c].w].stop
           /\ \A b \in Broadcasts : entry[b] # call[c].w
           /\ \A d \in Callers : call[d].w = call[c].w => d = c

\* A call is where its operation can be.
CallsAreSound ==
    \A c \in Callers :
        /\ call[c].op = "start" => call[c].pc \in {"idle", "subscription", "claim", "spawn", "clean",
                                                   "launch", "save", "insert", "undo"}
        /\ call[c].op \in {"stop", "delete"} =>
               call[c].pc \in {"release", "halt", "join", "record", "after", "delete"}
        /\ call[c].op = "restart" => call[c].pc \notin {"idle", "after", "delete"}

\* Nothing is called before recovery is over, and nothing is left of a server
\* that is down but its processes.
PhasesAreSound ==
    /\ server # "up" => \A c \in Callers : call[c].pc = "idle"
    /\ server = "down" => /\ \A b \in Broadcasts : entry[b] = Nobody
                          /\ \A w \in Workers : ~Serving(w)
    /\ server = "boot" <=> pass.kind = "recover"

ServerIsSound ==
    NamesAreRight /\ WorkersAreSound /\ LaunchesAreSound /\ CallsAreSound /\ PhasesAreSound

-----------------------------------------------------------------------------
(* A broadcast on which no two operations have overlapped *)

OneCall(b) == \A c, d \in CallsOn(b) : c = d

\* One sender or none; with a worker about, that worker's and no orphan.
Alone(b) ==
    /\ \A v, w \in Senders(b) : v = w
    /\ \A w \in Servers(b) : \A v \in Senders(b) \cup Servers(b) : v = w

\* The session file names the sender, so that it can be cleaned up, but for the
\* moment between a launch and the write of that file.
OnFile(b) ==
    Exists(b) => \A w \in Senders(b) : file[b] = w \/ thread[w].pc \in {"start", "save"}

\* The worker is in the map, or in the hands of a call.
Held(b) ==
    \A w \in Servers(b) : entry[b] = w \/ \E c \in CallsOn(b) : call[c].w = w

\* What the map names is there and has not been told to stop.
EntryServes(b) ==
    entry[b] # Nobody => entry[b] \in Servers(b) /\ ~thread[entry[b]].stop

\* Where the call on the broadcast stands.
CallStands(b) ==
    \A c \in CallsOn(b) :
        /\ call[c].pc \in {"clean", "launch", "save", "insert", "undo",
                           "join", "record", "after", "delete"} => entry[b] = Nobody
        /\ call[c].pc \in {"spawn", "clean", "launch", "save", "insert", "undo"} =>
               rows[b].desired = "running"
        /\ call[c].pc = "launch" => Senders(b) = {}
        /\ call[c].pc = "insert" =>
               /\ call[c].w \in Servers(b) /\ ~thread[call[c].w].stop
               /\ thread[call[c].w].pc \in {"check", "tick", "save"}
        /\ call[c].op \in {"stop", "delete"} /\ call[c].pc # "release" => rows[b].desired # "running"

\* A worker in its loop is wanted, or a stop is on its way to it.
LoopIsWanted(b) ==
    \A w \in Servers(b) :
        thread[w].pc \in {"check", "tick", "save"} =>
            rows[b].desired = "running"
            \/ \E c \in CallsOn(b) : call[c].op \in {"stop", "delete"} /\ call[c].pc \in {"halt", "join"}

\* A worker past its loop is waited for, or ends a broadcast nobody wants.
EndIsMeant(b) ==
    \A w \in Servers(b) :
        thread[w].pc \in {"tell", "remove"} =>
            \/ \E c \in CallsOn(b) : call[c].pc = "join" /\ call[c].w = w
            \/ /\ rows[b].desired # "running"
               /\ \A c \in CallsOn(b) : call[c].pc = "halt" /\ call[c].op \in {"stop", "delete"}

\* A call that has changed nothing yet.
Untouched(c) ==
    call[c].pc = "release" \/ (call[c].op = "start" /\ call[c].pc \in {"subscription", "claim"})

\* What is wanted has a worker, or something is under way.
IsServed(b) ==
    /\ server = "up" /\ b \in Wanted \ dark /\ (\A c \in CallsOn(b) : Untouched(c)) => entry[b] # Nobody
    /\ server = "boot" /\ b \in Wanted \ dark => b \in pass.todo \/ entry[b] # Nobody
    /\ server = "boot" /\ b \in pass.todo => entry[b] = Nobody /\ b \in Wanted

BroadcastIsSound(b) ==
    /\ OneCall(b) /\ Alone(b) /\ OnFile(b) /\ Held(b) /\ EntryServes(b)
    /\ CallStands(b) /\ LoopIsWanted(b) /\ EndIsMeant(b) /\ IsServed(b)

IInv == CloudTypeOK /\ ServerIsSound /\ \A b \in Broadcasts \ raced : BroadcastIsSound(b)
-----------------------------------------------------------------------------
(* Types *)

USE CloudAssumption

\* Of broadcasts, one comes first.
LEMMA LeastBroadcast ==
    ASSUME NEW T, T \subseteq Broadcasts, T # {}
    PROVE  \E n \in T : \A m \in T : n <= m
<1>1. T \subseteq Nat
  OBVIOUS
<1>2. PICK n \in T : \A m \in T : ~(<<m, n>> \in OpToRel(<, Nat))
  BY <1>1, NatLessThanWellFounded, WFMin
<1>3. ASSUME NEW m \in T PROVE n <= m
  <2>1. m \in Nat /\ n \in Nat
    BY <1>1
  <2>2. ~(m < n)
    BY <1>2, <2>1 DEF OpToRel
  <2>3. QED BY <2>1, <2>2
<1>4. QED BY <1>3

\* The broadcast a pass goes to next is one of those it has left.
LEMMA NextOfIn ==
    ASSUME NEW T, T \subseteq Broadcasts, T # {}
    PROVE  NextOf(T) \in T
BY LeastBroadcast DEF NextOf

\* The values that stand for no call, no thread and no pass are well typed.
LEMMA DefaultTypes ==
    /\ First \in Broadcasts /\ Idle \in Call /\ Ended \in Thread
    /\ NoPass \in [kind : {"none", "resume", "expire", "recover"}, todo : SUBSET Broadcasts, room : Int]
<1>1. First \in Broadcasts
  BY LeastBroadcast DEF First
<1>2. Idle \in Call
  BY <1>1 DEF Idle, Call, CallPc, Operation
<1>3. Ended \in Thread
  BY <1>1 DEF Ended, Thread, ThreadPc
<1>4. QED BY <1>1, <1>2, <1>3 DEF NoPass

\* What a tick makes of a thread that has restarts left, case by case.
LEMMA TickedIs ==
    ASSUME CloudTypeOK, NEW w \in Workers, NEW due \in BOOLEAN, NEW launched \in BOOLEAN,
           thread[w].restarts <= MaxRestarts
    PROVE  \E t \in Thread, p \in {"none", "alive", "exited"} :
             /\ Ticked(w, due, launched) = <<t, p>>
             /\ t.of = thread[w].of /\ t.pc = thread[w].pc /\ t.stop = thread[w].stop
<1> DEFINE t == thread[w]
<1>0. t \in Thread /\ proc[w] \in {"none", "alive", "exited"}
  BY DEF CloudTypeOK
<1>1. CASE t.engine = "up" /\ proc[w] = "exited"
  <2>1. Ticked(w, due, launched) = <<[t EXCEPT !.engine = "backoff", !.restarts = @ + 1], "none">>
    BY <1>1 DEF Ticked
  <2>2. t.restarts + 1 \in 0 .. MaxRestarts + 1
    BY <1>0 DEF Thread
  <2>3. [t EXCEPT !.engine = "backoff", !.restarts = @ + 1] \in Thread
    BY <1>0, <2>2 DEF Thread
  <2>4. QED BY <1>0, <2>1, <2>3 DEF Thread
<1>2. CASE t.engine = "backoff" /\ due /\ launched
  <2>1. Ticked(w, due, launched) = <<[t EXCEPT !.engine = "up"], "alive">>
    BY <1>2 DEF Ticked
  <2>2. QED BY <1>0, <2>1 DEF Thread
<1>3. CASE t.engine = "backoff" /\ due /\ ~launched
  <2>1. Ticked(w, due, launched) = <<[t EXCEPT !.engine = "error"], "none">>
    BY <1>3 DEF Ticked
  <2>2. QED BY <1>0, <2>1 DEF Thread
<1>4. CASE ~(t.engine = "up" /\ proc[w] = "exited") /\ ~(t.engine = "backoff" /\ due)
  <2>1. Ticked(w, due, launched) = <<t, proc[w]>>
    BY <1>4 DEF Ticked
  <2>2. QED BY <1>0, <2>1
<1>5. QED BY <1>1, <1>2, <1>3, <1>4

\* What a claim, a release or a report of a worker writes is a table of rows.
LEMMA RowTypes ==
    ASSUME CloudTypeOK, NEW b \in Broadcasts
    PROVE  /\ claim(b) \in [Broadcasts -> Row]
           /\ release(b) \in [Broadcasts -> Row]
           /\ \A state \in RuntimeState : recorded(b, state) \in [Broadcasts -> Row]
           /\ cleaned(b) \in [Workers -> {"none", "alive", "exited"}]
<1>1. claim(b) \in [Broadcasts -> Row]
  <2>1. \/ claim(b) = rows
        \/ claim(b) = [rows EXCEPT ![b].desired = "running", ![b].runtime = "Preparing", ![b].held = FALSE]
    BY Zenon DEF claim
  <2>2. QED BY <2>1 DEF CloudTypeOK, Row, RuntimeState
<1>2. release(b) \in [Broadcasts -> Row]
  <2> DEFINE new == [rows[b] EXCEPT !.desired = "stopped", !.runtime = "Stopping"]
  <2>1. rows \in [Broadcasts -> Row] /\ rows[b] \in Row
    BY DEF CloudTypeOK
  <2>2. new \in Row
    BY <2>1 DEF Row, RuntimeState
  <2>3. release(b) = [rows EXCEPT ![b] = new]
    BY <2>1 DEF release
  <2> HIDE DEF new
  <2>4. QED BY <2>1, <2>2, <2>3
<1>3. ASSUME NEW state \in RuntimeState PROVE recorded(b, state) \in [Broadcasts -> Row]
  BY DEF CloudTypeOK, recorded, Row
<1>4. cleaned(b) \in [Workers -> {"none", "alive", "exited"}]
  BY DEF CloudTypeOK, cleaned
<1>5. QED BY <1>1, <1>2, <1>3, <1>4

\* A call that moves on or returns is a call.
LEMMA CallTypes ==
    ASSUME CloudTypeOK, NEW c \in Callers
    PROVE  /\ \A pc \in CallPc : Goto(c, pc) => call' \in [Callers -> Call]
           /\ \A ok \in BOOLEAN : Return(c, ok) =>
                  /\ call' \in [Callers -> Call]
                  /\ pass' \in [kind : {"none", "resume", "expire", "recover"},
                                todo : SUBSET Broadcasts, room : Int]
<1>1. ASSUME NEW pc \in CallPc, Goto(c, pc) PROVE call' \in [Callers -> Call]
  BY <1>1 DEF CloudTypeOK, Goto, Call
<1>2. ASSUME NEW ok \in BOOLEAN, Return(c, ok) PROVE call' \in [Callers -> Call]
  BY <1>2, DefaultTypes DEF CloudTypeOK, Return
<1>3. ASSUME NEW ok \in BOOLEAN, Return(c, ok)
      PROVE  pass' \in [kind : {"none", "resume", "expire", "recover"}, todo : SUBSET Broadcasts, room : Int]
  BY <1>3 DEF CloudTypeOK, Return
<1>4. QED BY <1>1, <1>2, <1>3

\* Every step of a call keeps the types.
LEMMA CallStepTypes ==
    ASSUME CloudTypeOK, NEW c \in Callers, CallStep(c)
    PROVE  CloudTypeOK'
<1> DEFINE b == call[c].of
<1>0. b \in Broadcasts /\ call[c].w \in Workers \cup {Nobody} /\ call[c] \in Call
  BY DEF CloudTypeOK, Call
<1> USE DEF CallPc
<1>1. CASE Subscription(c)
  BY <1>0, <1>1, CallTypes DEF CloudTypeOK, Subscription
<1>2. CASE Claim(c)
  BY <1>0, <1>2, CallTypes, RowTypes DEF CloudTypeOK, Claim
<1>3. CASE SpawnCheck(c)
  BY <1>0, <1>3, CallTypes DEF CloudTypeOK, SpawnCheck
<1>4. CASE Clean(c)
  <2>1. call' \in [Callers -> Call]
    <3>1. Goto(c, "launch") \/ Goto(c, "undo")
      BY <1>4 DEF Clean
    <3>2. QED BY <3>1, CallTypes
  <2>2. proc' = cleaned(b) \/ proc' = proc
    BY <1>4 DEF Clean
  <2>3. proc' \in [Workers -> {"none", "alive", "exited"}]
    <3>1. cleaned(b) \in [Workers -> {"none", "alive", "exited"}]
      BY <1>0, RowTypes
    <3>2. proc \in [Workers -> {"none", "alive", "exited"}]
      BY DEF CloudTypeOK
    <3>3. QED BY <2>2, <3>1, <3>2
  <2>4. QED BY <1>4, <2>1, <2>3 DEF CloudTypeOK, Clean
<1>5. ASSUME NEW w \in Workers, Launch(c, w) PROVE CloudTypeOK'
  <2>1. NewThread(b) \in Thread
    BY <1>0 DEF NewThread, Thread, ThreadPc
  <2>2. CASE call' = [call EXCEPT ![c].pc = "save", ![c].w = w]
             /\ thread' = [thread EXCEPT ![w] = NewThread(b)] /\ proc' = [proc EXCEPT ![w] = "alive"]
    <3>1. call' \in [Callers -> Call]
      BY <1>0, <2>2 DEF CloudTypeOK, Call
    <3>2. QED BY <1>0, <1>5, <2>1, <2>2, <3>1 DEF CloudTypeOK, Launch
  <2>3. CASE Goto(c, "undo") /\ UNCHANGED <<thread, proc>>
    BY <1>5, <2>3, CallTypes DEF CloudTypeOK, Launch
  <2>4. QED BY <1>5, <2>2, <2>3 DEF Launch
<1>15. CASE Save(c)
  <2>1. call' \in [Callers -> Call]
    BY <1>15, CallTypes DEF Save
  <2>2. thread' \in [Workers -> Thread]
    <3> DEFINE t == [thread[call[c].w] EXCEPT !.pc = "check"]
    <3>1. CASE call[c].w \notin Workers
      BY <1>15, <3>1 DEF Save, CloudTypeOK
    <3>2. CASE call[c].w \in Workers
      <4>1. t \in Thread
        BY <3>2 DEF CloudTypeOK, Thread, ThreadPc
      <4>2. thread' = [thread EXCEPT ![call[c].w] = t]
        BY <1>15, <3>2 DEF Save, CloudTypeOK
      <4> HIDE DEF t
      <4>3. QED BY <4>1, <4>2 DEF CloudTypeOK
    <3>3. QED BY <3>1, <3>2
  <2>3. rows' \in [Broadcasts -> Row]
    BY <1>0, <1>15, RowTypes DEF Save, RuntimeState
  <2>4. file' \in [Broadcasts -> Workers \cup {Nobody}]
    BY <1>0, <1>15 DEF Save, CloudTypeOK
  <2>5. QED BY <1>15, <2>1, <2>2, <2>3, <2>4 DEF CloudTypeOK, Save
<1>6. CASE Insert(c)
  BY <1>0, <1>6, CallTypes DEF CloudTypeOK, Insert
<1>7. CASE Undo(c)
  BY <1>0, <1>7, CallTypes, RowTypes DEF CloudTypeOK, Undo
<1>8. CASE Release(c)
  <2>1. (Goto(c, "halt") /\ pass' = pass) \/ Return(c, FALSE)
    BY <1>8 DEF Release
  <2>2. /\ call' \in [Callers -> Call]
        /\ pass' \in [kind : {"none", "resume", "expire", "recover"}, todo : SUBSET Broadcasts, room : Int]
    BY <2>1, CallTypes DEF CloudTypeOK
  <2>3. rows' = rows \/ rows' = release(b)
    BY <1>8 DEF Release
  <2>4. rows' \in [Broadcasts -> Row]
    <3>1. release(b) \in [Broadcasts -> Row]
      BY <1>0, RowTypes
    <3>2. rows \in [Broadcasts -> Row]
      BY DEF CloudTypeOK
    <3>3. QED BY <2>3, <3>1, <3>2
  <2>5. QED BY <1>8, <2>2, <2>4 DEF CloudTypeOK, Release
<1>9. CASE Halt(c)
  <2>1. call' \in [Callers -> Call]
    BY <1>0, <1>9 DEF CloudTypeOK, Halt, Call
  <2>2. thread' \in [Workers -> Thread]
    <3>1. CASE entry[b] = Nobody
      BY <1>9, <3>1 DEF CloudTypeOK, Halt
    <3>2. CASE entry[b] # Nobody
      <4> DEFINE t == [thread[entry[b]] EXCEPT !.stop = TRUE]
      <4>1. entry[b] \in Workers /\ thread' = [thread EXCEPT ![entry[b]] = t]
        BY <1>0, <1>9, <3>2 DEF CloudTypeOK, Halt
      <4>2. t \in Thread
        <5>1. thread[entry[b]] \in Thread
          BY <4>1 DEF CloudTypeOK
        <5>2. \A r \in Thread : [r EXCEPT !.stop = TRUE] \in Thread
          BY DEF Thread
        <5>3. QED BY <5>1, <5>2, Zenon
      <4> HIDE DEF t
      <4>3. QED BY <4>1, <4>2 DEF CloudTypeOK
    <3>3. QED BY <3>1, <3>2
  <2>3. QED BY <1>0, <1>9, <2>1, <2>2 DEF CloudTypeOK, Halt
<1>10. CASE Join(c)
  <2>1. call' \in [Callers -> Call]
    BY <1>0, <1>10 DEF CloudTypeOK, Join, Call
  <2>2. QED BY <1>10, <2>1 DEF CloudTypeOK, Join
<1>11. CASE Record(c)
  BY <1>0, <1>11, CallTypes, RowTypes DEF CloudTypeOK, Record, RuntimeState
<1>12. CASE After(c)
  BY <1>0, <1>12, CallTypes DEF CloudTypeOK, After
<1>13. CASE Delete(c)
  <2>1. rows' \in [Broadcasts -> Row]
    BY <1>0, <1>13 DEF CloudTypeOK, Delete, Row, RuntimeState
  <2>2. QED BY <1>0, <1>13, <2>1, CallTypes DEF CloudTypeOK, Delete
<1>14. QED
  BY <1>1, <1>2, <1>3, <1>4, <1>5, <1>6, <1>7, <1>8, <1>9, <1>10, <1>11, <1>12, <1>13, <1>15
  DEF CallStep

\* Every step of a worker keeps the types.
LEMMA WorkerStepTypes ==
    ASSUME CloudTypeOK, WorkersAreSound, NEW w \in Workers, WorkerStep(w)
    PROVE  CloudTypeOK'
<1> DEFINE b == thread[w].of
<1>0. b \in Broadcasts /\ thread[w] \in Thread
  BY DEF CloudTypeOK, Thread
<1> USE DEF ThreadPc, RuntimeState
<1>1. CASE WorkerCheck(w)
  <2>1. CASE StopEngine(w) /\ rows' = recorded(b, "Stopped") /\ WorkerGoto(w, "remove")
    <3>1. thread' \in [Workers -> Thread]
      BY <1>0, <2>1 DEF CloudTypeOK, WorkerGoto, Thread
    <3>2. rows' \in [Broadcasts -> Row]
      BY <1>0, <2>1, RowTypes
    <3>3. QED BY <1>0, <1>1, <2>1, <3>1, <3>2 DEF CloudTypeOK, WorkerCheck, StopEngine
  <2>2. CASE WorkerGoto(w, "tick") /\ UNCHANGED <<rows, proc, file>>
    <3>1. thread' \in [Workers -> Thread]
      BY <1>0, <2>2 DEF CloudTypeOK, WorkerGoto, Thread
    <3>2. QED BY <1>1, <2>2, <3>1 DEF CloudTypeOK, WorkerCheck
  <2>3. QED BY <1>1, <2>1, <2>2 DEF WorkerCheck
<1>2. ASSUME NEW due \in BOOLEAN, NEW launched \in BOOLEAN, WorkerTick(w, due, launched)
      PROVE  CloudTypeOK'
  <2> DEFINE next == Ticked(w, due, launched)
  <2>1. PICK t \in Thread, p \in {"none", "alive", "exited"} :
          next = <<t, p>> /\ t.of = thread[w].of /\ t.pc = thread[w].pc /\ t.stop = thread[w].stop
    BY <1>2, TickedIs DEF WorkersAreSound, WorkerTick
  <2>2. next[1] = t /\ next[2] = p
    BY <2>1
  <2>3. thread' \in [Workers -> Thread]
    <3>1. thread' = [thread EXCEPT ![w] = [t EXCEPT !.pc = "save"]]
      BY <1>2, <2>2 DEF WorkerTick
    <3>2. [t EXCEPT !.pc = "save"] \in Thread
      BY DEF Thread
    <3>3. QED BY <3>1, <3>2 DEF CloudTypeOK
  <2>4. proc' \in [Workers -> {"none", "alive", "exited"}]
    BY <1>2, <2>2 DEF WorkerTick, CloudTypeOK
  <2>5. QED BY <1>2, <2>3, <2>4 DEF WorkerTick, CloudTypeOK
<1>6. ASSUME NEW played \in BOOLEAN, WorkerSave(w, played) PROVE CloudTypeOK'
  <2>1. thread' \in [Workers -> Thread]
    BY <1>0, <1>6 DEF CloudTypeOK, WorkerSave, WorkerGoto, Thread
  <2>2. proc' \in [Workers -> {"none", "alive", "exited"}]
    BY <1>6 DEF WorkerSave, CloudTypeOK
  <2>3. file' \in [Broadcasts -> Workers \cup {Nobody}]
    BY <1>0, <1>6 DEF WorkerSave, CloudTypeOK
  <2>4. rows' \in [Broadcasts -> Row]
    <3>1. \/ rows' = rows
          \/ rows' = [rows EXCEPT ![b].desired = "stopped", ![b].runtime = "Stopped"]
          \/ rows' = [rows EXCEPT ![b].desired = "stopped", ![b].runtime = "Failed"]
          \/ rows' = recorded(b, "Failed") \/ rows' = recorded(b, "Running")
      BY <1>6 DEF WorkerSave
    <3>2. ASSUME NEW r \in RuntimeState
          PROVE  [rows EXCEPT ![b].desired = "stopped", ![b].runtime = r] \in [Broadcasts -> Row]
      <4> DEFINE new == [rows[b] EXCEPT !.desired = "stopped", !.runtime = r]
      <4>1. rows \in [Broadcasts -> Row] /\ rows[b] \in Row
        BY <1>0 DEF CloudTypeOK
      <4>2. new \in Row
        BY <4>1 DEF Row
      <4>3. [rows EXCEPT ![b].desired = "stopped", ![b].runtime = r] = [rows EXCEPT ![b] = new]
        BY <4>1
      <4> HIDE DEF new
      <4>4. QED BY <1>0, <4>1, <4>2, <4>3
    <3>3. /\ [rows EXCEPT ![b].desired = "stopped", ![b].runtime = "Stopped"] \in [Broadcasts -> Row]
          /\ [rows EXCEPT ![b].desired = "stopped", ![b].runtime = "Failed"] \in [Broadcasts -> Row]
      BY <3>2 DEF RuntimeState
    <3>4. /\ recorded(b, "Failed") \in [Broadcasts -> Row]
          /\ recorded(b, "Running") \in [Broadcasts -> Row]
          /\ rows \in [Broadcasts -> Row]
      BY <1>0, RowTypes DEF CloudTypeOK
    <3>5. QED BY ONLY <3>1, <3>3, <3>4
  <2>5. raced' \subseteq Broadcasts
    BY <1>0, <1>6 DEF WorkerSave, CloudTypeOK
  <2>6. QED BY <1>6, <2>1, <2>2, <2>3, <2>4, <2>5 DEF WorkerSave, CloudTypeOK
<1>3. CASE WorkerTell(w)
  <2>1. thread' \in [Workers -> Thread]
    BY <1>0, <1>3 DEF CloudTypeOK, WorkerTell, WorkerGoto, Thread
  <2>2. QED BY <1>3, <2>1 DEF CloudTypeOK, WorkerTell
<1>4. CASE WorkerRemove(w)
  BY <1>0, <1>4, DefaultTypes DEF CloudTypeOK, WorkerRemove
<1>5. QED BY <1>1, <1>2, <1>3, <1>4, <1>6 DEF WorkerStep

\* What begins an operation keeps the types.
LEMMA BeginTypes ==
    ASSUME CloudTypeOK, NEW c \in Callers, NEW op \in Operation, NEW b \in Broadcasts, Begin(c, op, b)
    PROVE  CloudTypeOK' \/ pass' # pass
<1>1. call' \in [Callers -> Call]
  BY DEF CloudTypeOK, Begin, Call, CallPc
<1>2. QED BY <1>1 DEF CloudTypeOK, Begin

\* Every step of the scheduler, of a boot, of a shutdown keeps the types.
LEMMA ServerStepTypes ==
    ASSUME CloudTypeOK,
           \/ \E op \in Operation, b \in Broadcasts : Scheduled(op, b)
           \/ \E c \in Requests, op \in Operation, b \in Broadcasts : Request(c, op, b)
           \/ ResumeHeldBack \/ ExpireLapsed \/ PassStep \/ Boot \/ Recover \/ Crash \/ Shutdown
           \/ \E u \in Users, on \in BOOLEAN : Subscribe(u, on)
           \/ \E w \in Workers : Exit(w) \/ RecoverDies(w)
    PROVE  CloudTypeOK'
<1>1. ASSUME NEW op \in Operation, NEW b \in Broadcasts, Scheduled(op, b) PROVE CloudTypeOK'
  BY <1>1, BeginTypes DEF Scheduled, Callers
<1>2. ASSUME NEW c \in Requests, NEW op \in Operation, NEW b \in Broadcasts, Request(c, op, b)
      PROVE  CloudTypeOK'
  BY <1>2, BeginTypes DEF Request, Callers
<1>3. CASE ResumeHeldBack
  <2>1. pass' \in [kind : {"none", "resume", "expire", "recover"}, todo : SUBSET Broadcasts, room : Int]
    <3>1. Cardinality(Wanted \cap Encoding \cap Live) \in Nat
      BY FS_Subset, FS_CardinalityType DEF Wanted
    <3>2. QED BY <1>3, <3>1 DEF ResumeHeldBack, Wanted
  <2>2. QED BY <1>3, <2>1 DEF CloudTypeOK, ResumeHeldBack
<1>4. CASE ExpireLapsed
  <2>1. pass' \in [kind : {"none", "resume", "expire", "recover"}, todo : SUBSET Broadcasts, room : Int]
    BY <1>4 DEF ExpireLapsed, Wanted, Live
  <2>2. QED BY <1>4, <2>1 DEF CloudTypeOK, ExpireLapsed
<1>5. CASE PassStep
  <2>1. CASE PassOver
    BY <1>5, <2>1, DefaultTypes DEF CloudTypeOK, PassStep
  <2>2. CASE ~PassOver
    <3>1. pass.todo \subseteq Broadcasts /\ NextOf(pass.todo) \in Broadcasts
      BY <2>2, NextOfIn DEF CloudTypeOK, PassOver
    <3>2. PICK op \in Operation : Begin(Clock, op, NextOf(pass.todo))
      BY <1>5, <2>2 DEF PassStep, Operation
    <3>3. call' \in [Callers -> Call]
      BY <3>1, <3>2 DEF CloudTypeOK, Begin, Call, CallPc
    <3>4. pass' = [pass EXCEPT !.todo = @ \ {NextOf(@)}]
      BY <1>5, <2>2 DEF PassStep
    <3>5. pass' \in [kind : {"none", "resume", "expire", "recover"}, todo : SUBSET Broadcasts, room : Int]
      BY <3>1, <3>4 DEF CloudTypeOK
    <3>6. QED BY <3>1, <3>2, <3>3, <3>5 DEF CloudTypeOK, Begin
  <2>3. QED BY <2>1, <2>2
<1>6. CASE Boot
  BY <1>6 DEF CloudTypeOK, Boot, Wanted
<1>7. CASE Recover
  <2>1. CASE pass.todo = {}
    BY <1>7, <2>1, DefaultTypes DEF CloudTypeOK, Recover
  <2>2. CASE pass.todo # {}
    <3> DEFINE b == NextOf(pass.todo)
    <3>1. b \in Broadcasts /\ rows[b] \in Row
      BY <2>2, NextOfIn DEF CloudTypeOK
    <3> HIDE DEF b
    <3>2. UNCHANGED <<server, entitled, call, boots, raced>>
      BY <1>7, <2>2 DEF Recover
    <3>3. CASE RecoverHold(b)
      <4>1. rows' \in [Broadcasts -> Row]
        BY <3>1, <3>3 DEF CloudTypeOK, RecoverHold, Row, RuntimeState
      <4>2. QED BY <3>1, <3>2, <3>3, <4>1 DEF CloudTypeOK, RecoverHold
    <3>4. ASSUME NEW complete \in BOOLEAN, RecoverRefused(b, complete) PROVE CloudTypeOK'
      <4>1. rows' \in [Broadcasts -> Row]
        BY <3>1, <3>4 DEF CloudTypeOK, RecoverRefused, Row, RuntimeState
      <4>2. QED BY <3>1, <3>2, <3>4, <4>1 DEF CloudTypeOK, RecoverRefused
    <3>5. ASSUME NEW w \in Workers, RecoverStart(b, w) PROVE CloudTypeOK'
      <4>1. [NewThread(b) EXCEPT !.pc = "check"] \in Thread
        <5>1. NewThread(b) \in Thread
          BY <3>1 DEF NewThread, Thread, ThreadPc
        <5>2. "check" \in ThreadPc
          BY DEF ThreadPc
        <5>3. QED BY <5>1, <5>2 DEF Thread
      <4>2. rows' \in [Broadcasts -> Row] /\ cleaned(b) \in [Workers -> {"none", "alive", "exited"}]
        BY <3>1, <3>5, RowTypes DEF RecoverStart, RuntimeState
      <4>3. pass' \in [kind : {"none", "resume", "expire", "recover"}, todo : SUBSET Broadcasts, room : Int]
        <5> DEFINE room == IF b \in Encoding THEN pass.room + 1 ELSE pass.room
        <5>1. pass' = [pass EXCEPT !.todo = @ \ {b}, !.room = room]
          BY <3>5 DEF RecoverStart
        <5>2. room \in Int
          BY DEF CloudTypeOK
        <5> HIDE DEF room
        <5>3. QED BY <5>1, <5>2 DEF CloudTypeOK
      <4>4. thread' \in [Workers -> Thread]
        BY <3>5, <4>1 DEF CloudTypeOK, RecoverStart
      <4>5. /\ proc' \in [Workers -> {"none", "alive", "exited"}]
            /\ file' \in [Broadcasts -> Workers \cup {Nobody}]
            /\ entry' \in [Broadcasts -> Workers \cup {Nobody}]
        BY <3>1, <3>5, <4>2 DEF CloudTypeOK, RecoverStart
      <4>6. QED BY <3>2, <3>5, <4>2, <4>3, <4>4, <4>5 DEF CloudTypeOK, RecoverStart
    <3>6. RecoverHold(b) \/ (\E complete \in BOOLEAN : RecoverRefused(b, complete))
            \/ \E w \in Workers : RecoverStart(b, w)
      BY <1>7, <2>2 DEF Recover, b
    <3>7. QED BY <3>3, <3>4, <3>5, <3>6
  <2>3. QED BY <2>1, <2>2
<1>8. ASSUME NEW left, Die(left), rows' \in [Broadcasts -> Row],
             file' \in [Broadcasts -> Workers \cup {Nobody}]
      PROVE  CloudTypeOK'
  <2>1. thread' \in [Workers -> Thread]
    <3> DEFINE left_behind(w) == [Ended EXCEPT !.of = thread[w].of]
    <3>1. ASSUME NEW w \in Workers PROVE left_behind(w) \in Thread
      BY DefaultTypes DEF CloudTypeOK, Thread
    <3>2. thread' = [w \in Workers |-> IF proc[w] = "alive" /\ w \in left THEN left_behind(w) ELSE Ended]
      BY <1>8 DEF Die
    <3> HIDE DEF left_behind
    <3>3. QED BY <3>1, <3>2, DefaultTypes
  <2>2. QED BY <1>8, <2>1, DefaultTypes DEF CloudTypeOK, Die, Unnamed
<1>9. CASE Crash
  BY <1>8, <1>9 DEF Crash, CloudTypeOK
<1>10. CASE Shutdown
  <2>1. rows' \in [Broadcasts -> Row]
    <3>1. ASSUME NEW b \in Broadcasts
          PROVE  rows[b] \in Row /\ [rows[b] EXCEPT !.runtime = "Stopped"] \in Row
      BY DEF CloudTypeOK, Row, RuntimeState
    <3>2. rows' = [b \in Broadcasts |-> IF b \in Live /\ Exists(b)
                                        THEN [rows[b] EXCEPT !.runtime = "Stopped"] ELSE rows[b]]
      BY <1>10 DEF Shutdown
    <3>3. QED BY <3>1, <3>2
  <2>2. file' \in [Broadcasts -> Workers \cup {Nobody}]
    BY <1>10 DEF Shutdown, CloudTypeOK
  <2>3. QED BY <1>8, <1>10, <2>1, <2>2 DEF Shutdown
<1>11. ASSUME NEW u \in Users, NEW on \in BOOLEAN, Subscribe(u, on) PROVE CloudTypeOK'
  BY <1>11 DEF CloudTypeOK, Subscribe
<1>12. ASSUME NEW w \in Workers, Exit(w) PROVE CloudTypeOK'
  BY <1>12 DEF CloudTypeOK, Exit
<1>14. ASSUME NEW w \in Workers, RecoverDies(w) PROVE CloudTypeOK'
  <2> DEFINE b == NextOf(pass.todo)
             left_behind(v) == [Ended EXCEPT !.of = thread[v].of]
             launched == [Ended EXCEPT !.of = b]
  <2>1. b \in Broadcasts
    BY <1>14, NextOfIn DEF CloudTypeOK, RecoverDies
  <2>2. thread' \in [Workers -> Thread]
    <3>1. launched \in Thread /\ \A v \in Workers : left_behind(v) \in Thread
      BY <2>1, DefaultTypes DEF CloudTypeOK, Thread
    <3>2. thread' = [v \in Workers |-> IF v = w THEN launched
                                       ELSE IF cleaned(b)[v] = "alive" THEN left_behind(v) ELSE Ended]
      BY <1>14 DEF RecoverDies
    <3> HIDE DEF left_behind, launched
    <3>3. QED BY <3>1, <3>2, DefaultTypes
  <2>3. QED BY <1>14, <2>1, <2>2, DefaultTypes DEF CloudTypeOK, RecoverDies, Unnamed
<1>13. QED
  BY <1>1, <1>2, <1>3, <1>4, <1>5, <1>6, <1>7, <1>9, <1>10, <1>11, <1>12, <1>14

-----------------------------------------------------------------------------
(* Steps, and the broadcasts they are not about *)

Busy(w) == Serving(w) \/ proc[w] = "alive"

\* What a step that is not about b leaves as it was.
Stays(b) ==
    /\ rows'[b] = rows[b] /\ entry'[b] = entry[b] /\ file'[b] = file[b]
    /\ server' = server /\ (b \in dark' <=> b \in dark)
    /\ server = "boot" => (b \in pass'.todo <=> b \in pass.todo)
    /\ \A c \in Callers : c \in CallsOn(b) \/ c \in CallsOn(b)' => call'[c] = call[c]
    /\ \A w \in Workers : w \in Servers(b) \cup Senders(b) \/ w \in (Servers(b) \cup Senders(b))'
                          => thread'[w] = thread[w] /\ proc'[w] = proc[w]

\* The frame lemma: such a step keeps what holds of b.
LEMMA Frame ==
    ASSUME CloudTypeOK, NEW b \in Broadcasts, BroadcastIsSound(b), Stays(b)
    PROVE  BroadcastIsSound(b)'
<1>1. CallsOn(b)' = CallsOn(b) /\ \A c \in CallsOn(b) : call'[c] = call[c]
  BY DEF Stays, CallsOn
<1>2. /\ Servers(b)' = Servers(b)
      /\ \A w \in Servers(b) : thread'[w] = thread[w]
  BY DEF Stays, Servers, Senders, Serving
<1>3. Senders(b)' = Senders(b) /\ \A w \in Senders(b) : thread'[w] = thread[w]
  BY DEF Stays, Servers, Senders, Serving
<1>4. /\ rows'[b] = rows[b] /\ entry'[b] = entry[b] /\ file'[b] = file[b]
      /\ server' = server /\ (b \in dark' <=> b \in dark)
      /\ server = "boot" => (b \in pass'.todo <=> b \in pass.todo)
  BY DEF Stays
<1>5. OneCall(b)' /\ Alone(b)' /\ OnFile(b)' /\ Held(b)'
  BY <1>1, <1>2, <1>3, <1>4 DEF BroadcastIsSound, OneCall, Alone, OnFile, Held, Exists
<1>6. EntryServes(b)'
  BY <1>2, <1>4 DEF BroadcastIsSound, EntryServes
<1>7. CallStands(b)'
  BY <1>1, <1>2, <1>3, <1>4 DEF BroadcastIsSound, CallStands
<1>8. LoopIsWanted(b)' /\ EndIsMeant(b)'
  BY <1>1, <1>2, <1>4 DEF BroadcastIsSound, LoopIsWanted, EndIsMeant
<1>9. IsServed(b)'
  BY <1>1, <1>4 DEF BroadcastIsSound, IsServed, Untouched, Wanted
<1>10. QED BY <1>5, <1>6, <1>7, <1>8, <1>9 DEF BroadcastIsSound

\* What names a worker keeps naming one of its broadcast, as long as no
\* worker takes up another and only names that were right are written.
LEMMA NamesFrame ==
    ASSUME CloudTypeOK, CloudTypeOK', 
           \A w \in Workers : Busy(w)' => Busy(w) /\ thread'[w].of = thread[w].of,
           \A b \in Broadcasts : entry'[b] # Nobody => Mine(entry'[b], b),
           \A b \in Broadcasts : file'[b] # Nobody => Mine(file'[b], b),
           \A c \in Callers : call'[c].w # Nobody =>
               call'[c].pc \in {"save", "insert", "join"} /\ Mine(call'[c].w, call'[c].of)
    PROVE  NamesAreRight'
<1>1. \A b \in Broadcasts : entry'[b] \in Workers \cup {Nobody} /\ file'[b] \in Workers \cup {Nobody}
  BY DEF CloudTypeOK
<1>2. \A c \in Callers : call'[c].w \in Workers \cup {Nobody}
  BY DEF CloudTypeOK, Call
<1>3. ASSUME NEW w \in Workers, NEW b, Mine(w, b) PROVE Mine(w, b)'
  BY <1>3 DEF Mine, Busy
<1>4. QED BY <1>1, <1>2, <1>3 DEF NamesAreRight

\* What every step of a call does to the calls and to the server.
LEMMA CallGoes ==
    ASSUME CloudTypeOK, ServerIsSound, NEW c \in Callers, CallStep(c)
    PROVE  /\ \A d \in Callers : d # c => call'[d] = call[d]
           /\ call'[c].pc = "idle" \/ (call'[c].of = call[c].of /\ call'[c].op = call[c].op)
           /\ call'[c].pc = "idle" => call'[c] = Idle
           /\ call[c].pc # "idle" /\ server = "up" /\ server' = "up"
           /\ UNCHANGED <<entitled, boots, raced>>
           /\ pass'.kind = pass.kind /\ pass'.todo = pass.todo
<1>0. call[c] \in Call /\ Idle.pc = "idle" /\ pass \in [kind : {"none", "resume", "expire", "recover"},
                                         todo : SUBSET Broadcasts, room : Int]
  BY DEF CloudTypeOK, Idle
<1>1. call[c].pc # "idle"
  BY DEF CallStep, Subscription, Claim, SpawnCheck, Clean, Launch, Save, Insert, Undo, Release, Halt,
         Join, Record, After, Delete
<1>2. server = "up"
  BY <1>1 DEF ServerIsSound, PhasesAreSound
<1>3. ASSUME NEW pc \in CallPc \ {"idle"}, Goto(c, pc)
      PROVE  /\ \A d \in Callers : d # c => call'[d] = call[d]
             /\ call'[c].pc = pc /\ call'[c].of = call[c].of /\ call'[c].op = call[c].op
  BY <1>0, <1>3 DEF Goto, Call, CloudTypeOK
<1>4. ASSUME NEW ok \in BOOLEAN, Return(c, ok)
      PROVE  /\ \A d \in Callers : d # c => call'[d] = call[d]
             /\ call'[c] = Idle
             /\ pass'.kind = pass.kind /\ pass'.todo = pass.todo
  BY <1>0, <1>4 DEF Return, CloudTypeOK
<1> DEFINE Rest == UNCHANGED <<entitled, server, boots, raced>>
           Goes == \/ \E pc \in CallPc \ {"idle"} : Goto(c, pc) /\ UNCHANGED pass
                   \/ \E ok \in BOOLEAN : Return(c, ok)
           Goal == /\ \A d \in Callers : d # c => call'[d] = call[d]
                   /\ call'[c].pc = "idle" \/ (call'[c].of = call[c].of /\ call'[c].op = call[c].op)
                   /\ call'[c].pc = "idle" => call'[c] = Idle
                   /\ pass'.kind = pass.kind /\ pass'.todo = pass.todo
<1>5. Rest
  BY DEF CallStep, Subscription, Claim, SpawnCheck, Clean, Launch, Save, Insert, Undo, Release, Halt,
         Join, Record, After, Delete
<1>6. Goes => Goal
  BY <1>0, <1>3, <1>4
<1>7. ASSUME NEW pc \in CallPc \ {"idle"}, NEW w, call' = [call EXCEPT ![c].pc = pc, ![c].w = w],
             UNCHANGED pass
      PROVE  Goal
  BY <1>0, <1>7 DEF CloudTypeOK, Call
<1> HIDE DEF Goal
<1>8. Subscription(c) \/ Claim(c) \/ SpawnCheck(c) \/ Clean(c) => Goes
  BY DEF Subscription, Claim, SpawnCheck, Clean, CallPc
<1>9. Save(c) \/ Insert(c) \/ Undo(c) \/ Release(c) => Goes
  BY DEF Save, Insert, Undo, Release, CallPc
<1>10. Record(c) \/ After(c) \/ Delete(c) => Goes
  <2>1. CASE Record(c)
    <3>1. (Goto(c, "subscription") \/ Goto(c, "after")) /\ UNCHANGED pass
      BY <2>1 DEF Record
    <3>2. QED BY <3>1 DEF CallPc
  <2>2. CASE After(c) \/ Delete(c)
    BY <2>2 DEF After, Delete, CallPc
  <2>3. QED BY <2>1, <2>2
<1>11. ASSUME NEW w \in Workers, Launch(c, w) PROVE Goal
  <2>1. Goes \/ (call' = [call EXCEPT ![c].pc = "save", ![c].w = w] /\ UNCHANGED pass)
    BY <1>11 DEF Launch, CallPc
  <2>2. QED BY <1>6, <1>7, <2>1 DEF CallPc
<1> HIDE DEF Goes, Rest
<1>12. ASSUME Halt(c) PROVE Goal
  <2>1. PICK w : call' = [call EXCEPT ![c].pc = "join", ![c].w = w] /\ UNCHANGED pass
    BY <1>12 DEF Halt
  <2>2. "join" \in CallPc \ {"idle"}
    BY DEF CallPc
  <2>3. QED BY <1>7, <2>1, <2>2, Zenon
<1>13. ASSUME Join(c) PROVE Goal
  <2>1. call' = [call EXCEPT ![c].pc = "record", ![c].w = Nobody] /\ UNCHANGED pass
    BY <1>13 DEF Join
  <2>2. "record" \in CallPc \ {"idle"}
    BY DEF CallPc
  <2>3. QED BY <1>7, <2>1, <2>2, Zenon
<1>14. Goal
  BY <1>6, <1>8, <1>9, <1>10, <1>11, <1>12, <1>13 DEF CallStep
<1>15. QED BY <1>1, <1>2, <1>5, <1>14 DEF Goal, Rest

\* A step of a call is about one broadcast, and about the workers of that one.
LEMMA CallStepFrame ==
    ASSUME CloudTypeOK, ServerIsSound, NEW c \in Callers, CallStep(c),
           NEW b \in Broadcasts, b # call[c].of
    PROVE  Stays(b)
<1> DEFINE a == call[c].of
<1>0. /\ a \in Broadcasts /\ b # a /\ call[c] \in Call
      /\ entry[a] # Nobody => entry[a] \in Workers /\ Mine(entry[a], a)
      /\ file[a] # Nobody => file[a] \in Workers /\ Mine(file[a], a)
  BY DEF CloudTypeOK, Call, ServerIsSound, NamesAreRight
<1>1. \A d \in Callers : d \in CallsOn(b) \/ d \in CallsOn(b)' => call'[d] = call[d]
  BY <1>0, CallGoes DEF CallsOn
<1>2. /\ server' = server /\ pass'.todo = pass.todo
  BY CallGoes
<1> DEFINE KeepsRest == /\ rows'[b] = rows[b] /\ entry'[b] = entry[b] /\ file'[b] = file[b]
                        /\ (b \in dark' <=> b \in dark)
           KeepsWorkers == UNCHANGED <<thread, proc>>
<1>3. rows' = claim(a) \/ rows' = release(a) \/ (\E s : rows' = recorded(a, s)) => rows'[b] = rows[b]
  BY <1>0 DEF claim, release, recorded, CloudTypeOK
<1>4. CASE Subscription(c)
  <2>1. KeepsRest /\ KeepsWorkers
    BY <1>0, <1>4 DEF Subscription
  <2>2. QED BY <1>1, <1>2, <2>1 DEF Stays
<1>5. CASE Claim(c)
  <2>1. KeepsRest /\ KeepsWorkers
    BY <1>0, <1>3, <1>5 DEF Claim
  <2>2. QED BY <1>1, <1>2, <2>1 DEF Stays
<1>6. CASE SpawnCheck(c)
  BY <1>1, <1>2, <1>6 DEF Stays, SpawnCheck
<1>7. CASE Clean(c)
  <2>1. KeepsRest /\ UNCHANGED thread
    BY <1>7 DEF Clean
  <2>2. ASSUME NEW w \in Workers, proc'[w] # proc[w] PROVE thread[w].of = a
    <3>1. proc' = cleaned(a)
      BY <1>7, <2>2 DEF Clean
    <3>2. w = file[a] /\ proc[w] = "alive"
      BY <2>2, <3>1 DEF cleaned
    <3>3. QED BY <1>0, <3>2 DEF Mine, CloudTypeOK
  <2>3. QED BY <1>0, <1>1, <1>2, <2>1, <2>2 DEF Stays, Servers, Senders
<1>8. ASSUME NEW w \in Workers, Launch(c, w) PROVE Stays(b)
  <2>1. CASE UNCHANGED <<thread, proc>>
    <3>1. KeepsRest /\ KeepsWorkers
      BY <1>8, <2>1 DEF Launch
    <3>2. QED BY <1>1, <1>2, <3>1 DEF Stays
  <2>2. CASE /\ w \in FreeWorkers /\ thread' = [thread EXCEPT ![w] = NewThread(a)]
             /\ proc' = [proc EXCEPT ![w] = "alive"]
    <3>1. KeepsRest
      BY <1>8 DEF Launch
    <3>2. thread'[w].of = a /\ thread[w].pc = "done" /\ proc[w] = "none"
      BY <2>2 DEF FreeWorkers, CloudTypeOK, NewThread
    <3>3. \A v \in Workers : v # w => thread'[v] = thread[v] /\ proc'[v] = proc[v]
      BY <2>2 DEF CloudTypeOK
    <3>4. QED BY <1>0, <1>1, <1>2, <3>1, <3>2, <3>3 DEF Stays, Servers, Senders, Serving
  <2>3. QED BY <1>8, <2>1, <2>2 DEF Launch
<1>18. CASE Save(c)
  <2>1. KeepsRest /\ UNCHANGED proc
    BY <1>0, <1>3, <1>18 DEF Save, CloudTypeOK
  <2>2. PICK w \in Workers : w = call[c].w /\ thread[w].of = a
    BY <1>18 DEF Save, ServerIsSound, LaunchesAreSound
  <2>3. /\ thread'[w].of = a
        /\ \A v \in Workers : v # w => thread'[v] = thread[v]
    BY <1>18, <2>2 DEF Save, CloudTypeOK, Thread
  <2>4. QED BY <1>0, <1>1, <1>2, <2>1, <2>2, <2>3 DEF Stays, Servers, Senders
<1>9. CASE Insert(c)
  <2>1. KeepsRest /\ KeepsWorkers
    BY <1>0, <1>9 DEF Insert, CloudTypeOK
  <2>2. QED BY <1>1, <1>2, <2>1 DEF Stays
<1>10. CASE Undo(c)
  <2>1. KeepsRest /\ KeepsWorkers
    BY <1>0, <1>3, <1>10 DEF Undo
  <2>2. QED BY <1>1, <1>2, <2>1 DEF Stays
<1>11. CASE Release(c)
  <2>1. KeepsRest /\ KeepsWorkers
    BY <1>0, <1>3, <1>11 DEF Release
  <2>2. QED BY <1>1, <1>2, <2>1 DEF Stays
<1>12. CASE Halt(c)
  <2>1. KeepsRest /\ UNCHANGED proc
    BY <1>0, <1>12 DEF Halt, CloudTypeOK
  <2>2. \A v \in Workers : v # entry[a] => thread'[v] = thread[v]
    BY <1>12 DEF Halt, CloudTypeOK
  <2>3. entry[a] # Nobody => /\ thread'[entry[a]].of = thread[entry[a]].of
                             /\ thread'[entry[a]].pc = thread[entry[a]].pc
    BY <1>0, <1>12 DEF Halt, CloudTypeOK, Thread
  <2>4. QED BY <1>0, <1>1, <1>2, <2>1, <2>2, <2>3 DEF Stays, Servers, Senders, Serving, Mine
<1>13. CASE Join(c)
  BY <1>1, <1>2, <1>13 DEF Stays, Join
<1>14. CASE Record(c)
  <2>1. KeepsRest /\ KeepsWorkers
    BY <1>0, <1>3, <1>14 DEF Record
  <2>2. QED BY <1>1, <1>2, <2>1 DEF Stays
<1>15. CASE After(c)
  BY <1>1, <1>2, <1>15 DEF Stays, After
<1>16. CASE Delete(c)
  <2>1. KeepsRest /\ KeepsWorkers
    BY <1>0, <1>16 DEF Delete, CloudTypeOK
  <2>2. QED BY <1>1, <1>2, <2>1 DEF Stays
<1>17. QED
  BY <1>4, <1>5, <1>6, <1>7, <1>8, <1>9, <1>10, <1>11, <1>12, <1>13, <1>14, <1>15, <1>16, <1>18
  DEF CallStep

\* A halt tells a worker to stop, and changes nothing else of any worker.
LEMMA HaltTells ==
    ASSUME CloudTypeOK, NEW c \in Callers, Halt(c)
    PROVE  /\ proc' = proc
           /\ \A w \in Workers : /\ thread'[w].pc = thread[w].pc /\ thread'[w].of = thread[w].of
                                 /\ thread'[w].restarts = thread[w].restarts
<1>1. PICK v \in Workers \cup {Nobody} : v = entry[call[c].of]
  BY DEF CloudTypeOK, Call
<1>2. proc' = proc /\ thread' = IF v = Nobody THEN thread ELSE [thread EXCEPT ![v].stop = TRUE]
  BY <1>1 DEF Halt
<1>3. thread \in [Workers -> Thread]
  BY DEF CloudTypeOK
<1>4. CASE v = Nobody
  BY <1>2, <1>4
<1>5. CASE v # Nobody
  <2>1. [thread[v] EXCEPT !.stop = TRUE].pc = thread[v].pc /\ [thread[v] EXCEPT !.stop = TRUE].of = thread[v].of
        /\ [thread[v] EXCEPT !.stop = TRUE].restarts = thread[v].restarts
    BY <1>3, <1>5 DEF Thread
  <2>2. thread' = [thread EXCEPT ![v] = [thread[v] EXCEPT !.stop = TRUE]]
    BY <1>2, <1>5
  <2>3. QED BY <1>2, <1>3, <2>1, <2>2
<1>6. QED BY <1>4, <1>5

\* A step of a call keeps what holds of the whole server: the names ...
LEMMA CallStepNames ==
    ASSUME CloudTypeOK, CloudTypeOK', ServerIsSound, NEW c \in Callers, CallStep(c)
    PROVE  NamesAreRight'
<1> DEFINE a == call[c].of
<1>0. /\ a \in Broadcasts /\ call[c] \in Call /\ NamesAreRight
      /\ \A d \in Callers : d # c => call'[d] = call[d]
      /\ Idle.w = Nobody
  BY CallGoes DEF CloudTypeOK, Call, ServerIsSound, Idle
<1> DEFINE BusyStays == \A w \in Workers : Busy(w)' => Busy(w) /\ thread'[w].of = thread[w].of
           CallNames == call'[c].w # Nobody =>
                            call'[c].pc \in {"save", "insert", "join"} /\ Mine(call'[c].w, call'[c].of)
           FileNames == \A b \in Broadcasts :
                            file'[b] = file[b] \/ file'[b] = Nobody \/ (b = a /\ file'[b] = call[c].w)
           EntryNames == \A b \in Broadcasts :
                            entry'[b] = entry[b] \/ entry'[b] = Nobody \/ (b = a /\ entry'[b] = call[c].w)
<1>1. ASSUME BusyStays, CallNames, FileNames, EntryNames PROVE NamesAreRight'
  BY <1>0, <1>1, NamesFrame DEF NamesAreRight
<1>2. UNCHANGED <<thread, proc>> => BusyStays
  BY DEF Busy, Serving
<1>3. ASSUME call'[c].w = Nobody \/ call'[c] = Idle PROVE CallNames
  BY <1>0, <1>3
<1>4. ASSUME NEW pc, Goto(c, pc), call[c].pc \notin {"save", "insert", "join"} PROVE CallNames
  BY <1>0, <1>4 DEF Goto, NamesAreRight, CloudTypeOK, Call
<1>5. ASSUME NEW ok, Return(c, ok) PROVE CallNames
  BY <1>0, <1>5 DEF Return, CloudTypeOK
<1> HIDE DEF BusyStays, CallNames
<1>6. ASSUME Subscription(c) \/ Claim(c) \/ SpawnCheck(c) \/ Undo(c) \/ Release(c) \/ Record(c)
               \/ After(c) \/ Delete(c)
      PROVE  NamesAreRight'
  <2>1. UNCHANGED <<thread, proc, entry>>
    BY <1>6 DEF Subscription, Claim, SpawnCheck, Undo, Release, Record, After, Delete
  <2>2. CallNames
    <3>1. call[c].pc \notin {"save", "insert", "join"}
      BY <1>6 DEF Subscription, Claim, SpawnCheck, Undo, Release, Record, After, Delete
    <3>2. (\E pc : Goto(c, pc)) \/ (\E ok : Return(c, ok))
      BY <1>6 DEF Subscription, Claim, SpawnCheck, Undo, Release, Record, After, Delete
    <3>3. QED BY <1>4, <1>5, <3>1, <3>2
  <2>3. FileNames
    <3>1. file' = file \/ file' = [file EXCEPT ![a] = Nobody]
      BY <1>6 DEF Subscription, Claim, SpawnCheck, Undo, Release, Record, After, Delete
    <3>2. file \in [Broadcasts -> Workers \cup {Nobody}]
      BY DEF CloudTypeOK
    <3>3. QED BY <1>0, <3>1, <3>2
  <2>4. QED BY <1>1, <1>2, <2>1, <2>2, <2>3
<1>7. ASSUME Clean(c) PROVE NamesAreRight'
  <2>1. BusyStays
    BY <1>7 DEF Clean, cleaned, BusyStays, Busy, Serving, CloudTypeOK
  <2>2. CallNames
    BY <1>4, <1>7 DEF Clean
  <2>3. QED BY <1>1, <1>7, <2>1, <2>2 DEF Clean
<1>8. ASSUME NEW w \in Workers, Launch(c, w) PROVE NamesAreRight'
  <2>1. ASSUME Goto(c, "undo"), UNCHANGED <<thread, proc>> PROVE NamesAreRight'
    BY <1>1, <1>2, <1>4, <1>8, <2>1 DEF Launch
  <2>2. ASSUME w \in FreeWorkers, call' = [call EXCEPT ![c].pc = "save", ![c].w = w],
               thread' = [thread EXCEPT ![w] = NewThread(a)], proc' = [proc EXCEPT ![w] = "alive"]
        PROVE  NamesAreRight'
    <3>1. \A v \in Workers : v # w => thread'[v] = thread[v] /\ proc'[v] = proc[v]
      BY <2>2 DEF CloudTypeOK
    <3>2. thread'[w].of = a /\ Mine(w, a)'
      BY <2>2 DEF CloudTypeOK, NewThread, Mine
    <3>3. \A v \in Workers : \A b \in Broadcasts : v # w /\ Mine(v, b) => Mine(v, b)'
      BY <3>1 DEF Mine, Serving
    <3>4. call'[c].pc = "save" /\ call'[c].of = a /\ call'[c].w = w
      BY <2>2 DEF CloudTypeOK, Call
    <3>5. \A d \in Callers : d # c => call[d].w # w
      BY <2>2 DEF FreeWorkers
    <3>6. \A b \in Broadcasts : entry[b] # w /\ file[b] # w
      BY <2>2 DEF FreeWorkers
    <3>7. /\ \A b \in Broadcasts : entry[b] \in Workers \cup {Nobody} /\ file[b] \in Workers \cup {Nobody}
          /\ \A d \in Callers : call[d].w \in Workers \cup {Nobody} /\ call[d].of \in Broadcasts
      BY DEF CloudTypeOK, Call
    <3>8. (\A b \in Broadcasts : entry[b] # Nobody => Mine(entry[b], b))'
      BY <1>0, <1>8, <3>3, <3>6, <3>7 DEF NamesAreRight, Launch
    <3>9. (\A b \in Broadcasts : file[b] # Nobody => Mine(file[b], b))'
      BY <1>0, <1>8, <3>3, <3>6, <3>7 DEF NamesAreRight, Launch
    <3>10. (\A d \in Callers : call[d].w # Nobody =>
               call[d].pc \in {"save", "insert", "join"} /\ Mine(call[d].w, call[d].of))'
      <4>1. ASSUME NEW d \in Callers, call'[d].w # Nobody
            PROVE  call'[d].pc \in {"save", "insert", "join"} /\ (Mine(call[d].w, call[d].of))'
        <5>1. CASE d = c
          BY <3>2, <3>4, <5>1 DEF Mine
        <5>2. CASE d # c
          <6>1. PICK v \in Workers, b \in Broadcasts : v = call[d].w /\ b = call[d].of
            BY <1>0, <3>7, <4>1, <5>2
          <6>2. call'[d] = call[d] /\ call[d].pc \in {"save", "insert", "join"} /\ v # w /\ Mine(v, b)
            BY <1>0, <3>5, <4>1, <5>2, <6>1 DEF NamesAreRight
          <6>3. Mine(v, b)'
            BY <3>3, <6>2
          <6>4. QED BY <6>1, <6>2, <6>3 DEF Mine
        <5>3. QED BY <5>1, <5>2
      <4>2. QED BY <4>1
    <3>11. QED BY <3>8, <3>9, <3>10 DEF NamesAreRight
  <2>3. QED BY <1>8, <2>1, <2>2 DEF Launch
<1>13. ASSUME Save(c) PROVE NamesAreRight'
  <2>1. BusyStays
    <3>1. PICK w \in Workers : w = call[c].w /\ thread[w].pc = "start"
      BY <1>13 DEF Save, ServerIsSound, LaunchesAreSound
    <3>2. /\ thread'[w].of = thread[w].of /\ proc' = proc
          /\ \A v \in Workers : v # w => thread'[v] = thread[v]
      BY <1>13, <3>1 DEF Save, CloudTypeOK, Thread
    <3>3. QED BY <3>1, <3>2 DEF BusyStays, Busy, Serving
  <2>2. CallNames
    <3>1. call'[c].pc = "insert" /\ call'[c].w = call[c].w /\ call'[c].of = a
      BY <1>0, <1>13 DEF Save, Goto, CloudTypeOK, Call
    <3>2. QED BY <1>0, <3>1 DEF CallNames, NamesAreRight
  <2>3. FileNames
    BY <1>0, <1>13 DEF Save, CloudTypeOK
  <2>4. QED BY <1>1, <1>13, <2>1, <2>2, <2>3 DEF Save
<1>9. ASSUME Insert(c) PROVE NamesAreRight'
  <2>1. EntryNames
    BY <1>0, <1>9 DEF Insert, CloudTypeOK
  <2>2. QED BY <1>1, <1>2, <1>5, <1>9, <2>1 DEF Insert
<1>10. ASSUME Halt(c) PROVE NamesAreRight'
  <2>1. BusyStays
    BY <1>10, HaltTells DEF BusyStays, Busy, Serving
  <2>2. CallNames
    <3>1. call'[c].pc = "join" /\ call'[c].w = entry[a] /\ call'[c].of = a
      BY <1>0, <1>10 DEF Halt, CloudTypeOK, Call
    <3>2. QED BY <1>0, <3>1 DEF CallNames, NamesAreRight
  <2>3. EntryNames /\ FileNames
    BY <1>0, <1>10 DEF Halt, CloudTypeOK
  <2>4. QED BY <1>1, <2>1, <2>2, <2>3
<1>11. ASSUME Join(c) PROVE NamesAreRight'
  <2>1. call'[c].w = Nobody
    BY <1>11 DEF Join, CloudTypeOK, Call
  <2>2. QED BY <1>1, <1>2, <1>3, <1>11, <2>1 DEF Join
<1>12. QED BY <1>6, <1>7, <1>8, <1>9, <1>10, <1>11, <1>13 DEF CallStep

\* ... a launch is in the hands of one call, whatever else goes on ...
LEMMA LaunchesFrame ==
    ASSUME CloudTypeOK, CloudTypeOK', LaunchesAreSound,
           \A v \in Workers : thread'[v].pc = "start" \/ thread[v].pc = "start" => thread'[v] = thread[v],
           \A d \in Callers : call'[d].pc = "save" \/ call[d].pc = "save" => call'[d] = call[d],
           \A b \in Broadcasts :
               \/ entry'[b] = Nobody \/ entry'[b] = entry[b]
               \/ \E d \in Callers : call[d].pc # "save" /\ entry'[b] = call[d].w,
           \A d \in Callers :
               \/ call'[d].w = Nobody \/ call'[d].w = call[d].w
               \/ \E b \in Broadcasts : call'[d].w = entry[b]
    PROVE  LaunchesAreSound'
<1>1. ASSUME NEW v \in Workers, thread'[v].pc = "start"
      PROVE  \E c \in Callers : call'[c].pc = "save" /\ call'[c].w = v
  BY <1>1 DEF LaunchesAreSound
<1>2. ASSUME NEW c \in Callers, call'[c].pc = "save"
      PROVE  /\ call'[c].w \in Workers
             /\ thread'[call'[c].w].pc = "start" /\ thread'[call'[c].w].of = call'[c].of
             /\ ~thread'[call'[c].w].stop
             /\ \A b \in Broadcasts : entry'[b] # call'[c].w
             /\ \A d \in Callers : call'[d].w = call'[c].w => d = c
  <2>1. call[c].pc = "save" /\ call'[c] = call[c]
    BY <1>2
  <2>2. PICK w \in Workers : /\ w = call[c].w /\ thread[w].pc = "start" /\ thread[w].of = call[c].of
                             /\ ~thread[w].stop
                             /\ \A b \in Broadcasts : entry[b] # w
                             /\ \A d \in Callers : call[d].w = w => d = c
    BY <2>1 DEF LaunchesAreSound
  <2>3. thread'[w] = thread[w]
    BY <2>2
  <2>4. \A b \in Broadcasts : entry'[b] # w
    BY <2>1, <2>2
  <2>5. \A d \in Callers : call'[d].w = w => d = c
    BY <2>2
  <2>6. QED BY <2>1, <2>2, <2>3, <2>4, <2>5
<1>3. QED BY <1>1, <1>2 DEF LaunchesAreSound

\* A launch stays in the hands of the one call that made it.
LEMMA CallStepLaunches ==
    ASSUME CloudTypeOK, CloudTypeOK', ServerIsSound, NEW c \in Callers, CallStep(c)
    PROVE  LaunchesAreSound'
<1>0. /\ LaunchesAreSound /\ call[c] \in Call /\ call[c].of \in Broadcasts /\ Idle.w = Nobody
      /\ Idle.pc = "idle" /\ \A d \in Callers : d # c => call'[d] = call[d]
  BY CallGoes DEF CloudTypeOK, Call, ServerIsSound, Idle
<1> DEFINE ThreadsStay == \A v \in Workers : thread'[v].pc = "start" \/ thread[v].pc = "start"
                                            => thread'[v] = thread[v]
           Quiet == /\ call[c].pc # "save" /\ call'[c].pc # "save"
                    /\ \/ call'[c].w = Nobody \/ call'[c].w = call[c].w
                       \/ \E b \in Broadcasts : call'[c].w = entry[b]
           EntriesStay == \A b \in Broadcasts :
                              entry'[b] = Nobody \/ entry'[b] = entry[b] \/ entry'[b] = call[c].w
<1>1. ASSUME ThreadsStay, Quiet, EntriesStay PROVE LaunchesAreSound'
  BY <1>0, <1>1, LaunchesFrame
<1>2. ASSUME NEW pc, Goto(c, pc), pc # "save", call[c].pc # "save" PROVE Quiet
  BY <1>0, <1>2 DEF Goto, CloudTypeOK, Call
<1>3. ASSUME NEW ok, Return(c, ok), call[c].pc # "save" PROVE Quiet
  BY <1>0, <1>3 DEF Return, CloudTypeOK
<1>4. UNCHANGED thread => ThreadsStay
  OBVIOUS
<1> HIDE DEF ThreadsStay, Quiet
<1>5. ASSUME Subscription(c) \/ Claim(c) \/ SpawnCheck(c) \/ Clean(c) \/ Insert(c) \/ Undo(c)
               \/ Release(c) \/ Record(c) \/ After(c) \/ Delete(c)
      PROVE  LaunchesAreSound'
  <2>1. UNCHANGED thread /\ call[c].pc # "save"
    BY <1>5 DEF Subscription, Claim, SpawnCheck, Clean, Insert, Undo, Release, Record, After, Delete
  <2>2. EntriesStay
    BY <1>0, <1>5 DEF Subscription, Claim, SpawnCheck, Clean, Insert, Undo, Release, Record, After, Delete,
                      CloudTypeOK
  <2>3. (\E pc \in CallPc \ {"save"} : Goto(c, pc)) \/ (\E ok \in BOOLEAN : Return(c, ok))
    <3>1. CASE Record(c)
      <4>1. Goto(c, "subscription") \/ Goto(c, "after")
        BY <3>1 DEF Record
      <4>2. QED BY <4>1 DEF CallPc
    <3>2. CASE Subscription(c) \/ Claim(c) \/ SpawnCheck(c) \/ Clean(c)
      BY <3>2 DEF Subscription, Claim, SpawnCheck, Clean, CallPc
    <3>3. CASE Insert(c) \/ Undo(c) \/ Release(c)
      BY <3>3 DEF Insert, Undo, Release, CallPc
    <3>4. CASE After(c) \/ Delete(c)
      BY <3>4 DEF After, Delete, CallPc
    <3>5. QED BY <1>5, <3>1, <3>2, <3>3, <3>4
  <2>4. QED BY <1>1, <1>2, <1>3, <1>4, <2>1, <2>2, <2>3
<1>6. ASSUME Halt(c) PROVE LaunchesAreSound'
  <2>1. ThreadsStay
    <3>1. \A v \in Workers : v # entry[call[c].of] => thread'[v] = thread[v]
      BY <1>6 DEF Halt, CloudTypeOK
    <3>2. ASSUME NEW v \in Workers, thread[v].pc = "start" PROVE v # entry[call[c].of]
      <4>1. PICK d \in Callers : call[d].pc = "save" /\ call[d].w = v
        BY <1>0, <3>2 DEF LaunchesAreSound
      <4>2. \A b \in Broadcasts : entry[b] # call[d].w
        BY <1>0, <4>1, Zenon DEF LaunchesAreSound
      <4>3. call[c].of \in Broadcasts
        BY <1>0
      <4>4. QED BY <4>1, <4>2, <4>3, Zenon
    <3>3. QED BY <1>6, <3>1, <3>2, HaltTells DEF ThreadsStay
  <2>2. Quiet /\ EntriesStay
    BY <1>0, <1>6 DEF Halt, Quiet, CloudTypeOK, Call
  <2>3. QED BY <1>1, <2>1, <2>2
<1>7. ASSUME Join(c) PROVE LaunchesAreSound'
  BY <1>0, <1>1, <1>4, <1>7 DEF Join, Quiet, CloudTypeOK, Call
<1>8. ASSUME NEW w \in Workers, Launch(c, w) PROVE LaunchesAreSound'
  <2>1. CASE Goto(c, "undo") /\ UNCHANGED <<thread, proc>>
    BY <1>1, <1>2, <1>4, <1>8, <2>1 DEF Launch
  <2>2. CASE w \in FreeWorkers /\ call' = [call EXCEPT ![c].pc = "save", ![c].w = w]
             /\ thread' = [thread EXCEPT ![w] = NewThread(call[c].of)]
    <3>1. /\ thread'[w] = NewThread(call[c].of) /\ thread[w].pc = "done"
          /\ \A v \in Workers : v # w => thread'[v] = thread[v]
      BY <2>2 DEF FreeWorkers, CloudTypeOK
    <3>2. call'[c].pc = "save" /\ call'[c].w = w /\ call'[c].of = call[c].of /\ call[c].pc = "launch"
      BY <1>0, <1>8, <2>2 DEF Launch, CloudTypeOK, Call
    <3>3. (\A b \in Broadcasts : entry'[b] # w) /\ \A d \in Callers : call[d].w # w
      BY <1>8, <2>2 DEF FreeWorkers, Launch
    <3>4. ASSUME NEW v \in Workers, thread'[v].pc = "start"
          PROVE  \E d \in Callers : call'[d].pc = "save" /\ call'[d].w = v
      BY <1>0, <3>1, <3>2, <3>4 DEF LaunchesAreSound
    <3>5. ASSUME NEW d \in Callers, call'[d].pc = "save", d # c
          PROVE  /\ call'[d].w \in Workers
                 /\ thread'[call'[d].w].pc = "start" /\ thread'[call'[d].w].of = call'[d].of
                 /\ ~thread'[call'[d].w].stop
                 /\ \A b \in Broadcasts : entry'[b] # call'[d].w
                 /\ \A e \in Callers : call'[e].w = call'[d].w => e = d
      <4>1. call'[d] = call[d] /\ call[d].pc = "save" /\ call[d].w # w /\ entry' = entry
        BY <1>0, <1>8, <3>3, <3>5 DEF Launch
      <4>2. /\ call[d].w \in Workers
            /\ thread[call[d].w].pc = "start" /\ thread[call[d].w].of = call[d].of
            /\ ~thread[call[d].w].stop
            /\ \A b \in Broadcasts : entry[b] # call[d].w
            /\ \A e \in Callers : call[e].w = call[d].w => e = d
        BY <1>0, <4>1 DEF LaunchesAreSound
      <4>3. thread'[call[d].w] = thread[call[d].w]
        BY <3>1, <4>1, <4>2
      <4>4. QED BY <1>0, <3>2, <4>1, <4>2, <4>3
    <3>6. /\ thread'[w].pc = "start" /\ thread'[w].of = call'[c].of /\ ~thread'[w].stop
          /\ \A d \in Callers : call'[d].w = w => d = c
      BY <1>0, <3>1, <3>2, <3>3 DEF NewThread
    <3>7. QED BY <3>2, <3>3, <3>4, <3>5, <3>6 DEF LaunchesAreSound
  <2>3. QED BY <1>8, <2>1, <2>2 DEF Launch
<1>9. ASSUME Save(c) PROVE LaunchesAreSound'
  <2>1. PICK w \in Workers : w = call[c].w /\ \A d \in Callers : call[d].w = w => d = c
    BY <1>0, <1>9 DEF Save, LaunchesAreSound
  <2>2. /\ thread'[w].pc = "check" /\ call'[c].pc = "insert" /\ call'[c].w = w /\ entry' = entry
        /\ \A v \in Workers : v # w => thread'[v] = thread[v]
    BY <1>0, <1>9, <2>1 DEF Save, Goto, CloudTypeOK, Call, Thread
  <2>3. ASSUME NEW v \in Workers, thread'[v].pc = "start"
        PROVE  \E d \in Callers : call'[d].pc = "save" /\ call'[d].w = v
    BY <1>0, <2>1, <2>2, <2>3 DEF LaunchesAreSound
  <2>4. ASSUME NEW d \in Callers, call'[d].pc = "save"
        PROVE  /\ call'[d].w \in Workers
               /\ thread'[call'[d].w].pc = "start" /\ thread'[call'[d].w].of = call'[d].of
               /\ ~thread'[call'[d].w].stop
               /\ \A b \in Broadcasts : entry'[b] # call'[d].w
               /\ \A e \in Callers : call'[e].w = call'[d].w => e = d
    <3>1. d # c /\ call'[d] = call[d] /\ call[d].pc = "save" /\ call[d].w # w
      BY <1>0, <2>1, <2>2, <2>4
    <3>2. /\ call[d].w \in Workers
          /\ thread[call[d].w].pc = "start" /\ thread[call[d].w].of = call[d].of
          /\ ~thread[call[d].w].stop
          /\ \A b \in Broadcasts : entry[b] # call[d].w
          /\ \A e \in Callers : call[e].w = call[d].w => e = d
      BY <1>0, <3>1 DEF LaunchesAreSound
    <3>3. thread'[call[d].w] = thread[call[d].w]
      BY <2>2, <3>1, <3>2
    <3>4. QED BY <1>0, <2>2, <3>1, <3>2, <3>3
  <2>5. QED BY <2>3, <2>4 DEF LaunchesAreSound
<1>10. QED BY <1>5, <1>6, <1>7, <1>8, <1>9 DEF CallStep

\* ... and the rest.
LEMMA CallStepServer ==
    ASSUME CloudTypeOK, CloudTypeOK', ServerIsSound, NEW c \in Callers, CallStep(c)
    PROVE  ServerIsSound'
<1>0. call[c] \in Call /\ call[c].of \in Broadcasts /\ ServerIsSound
  BY DEF CloudTypeOK, Call
<1>1. WorkersAreSound'
  <2>1. CASE UNCHANGED <<thread, proc>>
    BY <2>1 DEF ServerIsSound, WorkersAreSound
  <2>2. CASE Clean(c)
    BY <2>2 DEF ServerIsSound, WorkersAreSound, Clean, cleaned
  <2>3. ASSUME NEW w \in Workers, Launch(c, w) PROVE WorkersAreSound'
    BY <2>1, <2>3 DEF Launch, NewThread, ServerIsSound, WorkersAreSound, CloudTypeOK
  <2>4. CASE Halt(c)
    BY <2>4, HaltTells DEF ServerIsSound, WorkersAreSound
  <2>6. CASE Save(c)
    <3>1. PICK w \in Workers : w = call[c].w /\ thread[w].pc = "start"
      BY <2>6 DEF Save, ServerIsSound, LaunchesAreSound
    <3>2. /\ thread'[w].pc = "check" /\ thread'[w].restarts = thread[w].restarts /\ proc' = proc
          /\ \A v \in Workers : v # w => thread'[v] = thread[v]
      BY <2>6, <3>1 DEF Save, CloudTypeOK, Thread
    <3>3. QED BY <3>1, <3>2 DEF ServerIsSound, WorkersAreSound
  <2>5. QED
    BY <2>1, <2>2, <2>3, <2>4, <2>6 DEF CallStep, Subscription, Claim, SpawnCheck, Insert, Undo, Release, Join,
       Record, After, Delete
<1>2. CallsAreSound'
  <2>1. \A d \in Callers : d # c => call'[d] = call[d]
    BY CallGoes
  <2>2. ASSUME NEW pc, Goto(c, pc), 
               pc \in {"idle", "subscription", "claim", "spawn", "clean", "launch", "save", "insert", "undo"},
               call[c].op \in {"start", "restart"}, pc # "idle"
        PROVE  CallsAreSound'
    BY <1>0, <2>1, <2>2 DEF Goto, ServerIsSound, CallsAreSound, CloudTypeOK, Call
  <2>3. ASSUME NEW ok, Return(c, ok) PROVE CallsAreSound'
    BY <1>0, <2>1, <2>3 DEF Return, Idle, ServerIsSound, CallsAreSound, CloudTypeOK
  <2>4. ASSUME NEW pc, Goto(c, pc), pc \in {"halt", "record", "after", "delete"},
               call[c].op \in {"stop", "delete"} \/ (call[c].op = "restart" /\ pc \in {"halt", "record"})
        PROVE  CallsAreSound'
    BY <1>0, <2>1, <2>4 DEF Goto, ServerIsSound, CallsAreSound, CloudTypeOK, Call
  <2>5. call[c].pc \in {"subscription", "claim", "spawn", "clean", "launch", "save", "insert", "undo"}
          => call[c].op \in {"start", "restart"}
    BY <1>0 DEF ServerIsSound, CallsAreSound, Call, Operation
  <2>6. call[c].pc \in {"release", "halt", "join", "record"} => call[c].op \in {"stop", "delete", "restart"}
    BY <1>0 DEF ServerIsSound, CallsAreSound, Call, Operation
  <2>7. call[c].pc \in {"after", "delete"} => call[c].op \in {"stop", "delete"}
    BY <1>0 DEF ServerIsSound, CallsAreSound, Call, Operation
  <2>8. ASSUME Subscription(c) \/ Claim(c) \/ SpawnCheck(c) \/ Clean(c) PROVE CallsAreSound'
    BY <2>2, <2>3, <2>5, <2>8 DEF Subscription, Claim, SpawnCheck, Clean
  <2>9. ASSUME NEW w \in Workers, Launch(c, w) PROVE CallsAreSound'
    <3>1. CASE call' = [call EXCEPT ![c].pc = "save", ![c].w = w]
      BY <1>0, <2>1, <2>5, <2>9, <3>1 DEF Launch, ServerIsSound, CallsAreSound, CloudTypeOK, Call
    <3>2. CASE Goto(c, "undo")
      BY <2>2, <2>5, <2>9, <3>2 DEF Launch
    <3>3. QED BY <2>9, <3>1, <3>2 DEF Launch
  <2>17. ASSUME Save(c) PROVE CallsAreSound'
    BY <2>2, <2>5, <2>17 DEF Save
  <2>10. ASSUME Insert(c) \/ Undo(c) \/ Delete(c) PROVE CallsAreSound'
    BY <2>3, <2>10 DEF Insert, Undo, Delete
  <2>11. ASSUME Release(c) PROVE CallsAreSound'
    BY <2>3, <2>4, <2>6, <2>11 DEF Release
  <2>12. ASSUME Halt(c) PROVE CallsAreSound'
    <3>1. call'[c].pc = "join" /\ call'[c].op = call[c].op
      BY <1>0, <2>12 DEF Halt, CloudTypeOK, Call
    <3>2. call[c].op \in {"stop", "delete", "restart"}
      BY <2>6, <2>12 DEF Halt
    <3>3. CallsAreSound
      BY DEF ServerIsSound
    <3>4. QED BY <2>1, <3>1, <3>2, <3>3 DEF CallsAreSound
  <2>13. ASSUME Join(c) PROVE CallsAreSound'
    <3>1. call'[c].pc = "record" /\ call'[c].op = call[c].op
      BY <1>0, <2>13 DEF Join, CloudTypeOK, Call
    <3>2. call[c].op \in {"stop", "delete", "restart"}
      BY <2>6, <2>13 DEF Join
    <3>3. CallsAreSound
      BY DEF ServerIsSound
    <3>4. QED BY <2>1, <3>1, <3>2, <3>3 DEF CallsAreSound
  <2>14. ASSUME Record(c) PROVE CallsAreSound'
    <3>1. CASE call[c].op = "restart"
      BY <2>2, <2>14, <3>1 DEF Record
    <3>2. CASE call[c].op # "restart"
      BY <2>4, <2>6, <2>14, <3>2 DEF Record
    <3>3. QED BY <3>1, <3>2
  <2>15. ASSUME After(c) PROVE CallsAreSound'
    BY <2>3, <2>4, <2>7, <2>15 DEF After
  <2>16. QED
    BY <2>8, <2>9, <2>10, <2>11, <2>12, <2>13, <2>14, <2>15, <2>17 DEF CallStep
<1>3. PhasesAreSound'
  BY CallGoes DEF ServerIsSound, PhasesAreSound
<1>4. QED BY <1>1, <1>2, <1>3, CallStepNames, CallStepLaunches DEF ServerIsSound

-----------------------------------------------------------------------------
(* The steps of the call on a broadcast *)

\* What is known of a broadcast on which c is the call, and of the step of c.
Sole(c, b) ==
    /\ CallsOn(b) = {c}
    /\ call'[c].pc = "idle" => CallsOn(b)' = {}
    /\ call'[c].pc # "idle" => CallsOn(b)' = {c}
    /\ OneCall(b)'
    /\ call[c].pc \notin {"save", "insert", "join"} => call[c].w = Nobody
    /\ call[c].pc \notin {"save", "insert", "join"} => \A w \in Servers(b) : entry[b] = w
    /\ call[c].pc \notin {"save", "halt", "join"} =>
           \A w \in Servers(b) : thread[w].pc \in {"check", "tick", "save"}
    /\ call[c].pc \notin {"halt", "join"} =>
           \A w \in Servers(b) : thread[w].pc \in {"check", "tick", "save"} => rows[b].desired = "running"

\* The call that takes a step is the only one on its broadcast.
LEMMA TheCall ==
    ASSUME CloudTypeOK, ServerIsSound, NEW c \in Callers, CallStep(c),
           NEW b \in Broadcasts, b = call[c].of, BroadcastIsSound(b)
    PROVE  Sole(c, b)
<1>0. call[c] \in Call /\ c \in CallsOn(b) /\ \A w \in Workers : thread[w] \in Thread
  BY CallGoes DEF CloudTypeOK, CallsOn
<1>1. CallsOn(b) = {c}
  BY <1>0 DEF BroadcastIsSound, OneCall
<1>2. \A d \in Callers : d # c => d \notin CallsOn(b)'
  BY <1>1, CallGoes DEF CallsOn
<1>3. call'[c].pc # "idle" => c \in CallsOn(b)'
  BY CallGoes DEF CallsOn
<1>4. /\ call'[c].pc = "idle" => CallsOn(b)' = {}
      /\ call'[c].pc # "idle" => CallsOn(b)' = {c}
  BY <1>2, <1>3 DEF CallsOn
<1>5. OneCall(b)'
  BY <1>4 DEF OneCall
<1>6. call[c].pc \notin {"save", "insert", "join"} => call[c].w = Nobody
  BY DEF ServerIsSound, NamesAreRight
<1>7. call[c].pc \notin {"save", "insert", "join"} => \A w \in Servers(b) : entry[b] = w
  BY <1>1, <1>6 DEF BroadcastIsSound, Held, Servers
<1>8. ASSUME call[c].pc \notin {"save", "halt", "join"}, NEW w \in Servers(b)
      PROVE  thread[w].pc \in {"check", "tick", "save"}
  <2>1. thread[w].pc # "start"
    <3>1. ASSUME thread[w].pc = "start" PROVE FALSE
      <4>1. PICK d \in Callers : call[d].pc = "save" /\ call[d].w = w /\ thread[w].of = call[d].of
        BY <3>1 DEF ServerIsSound, LaunchesAreSound, Servers
      <4>2. d \in CallsOn(b)
        BY <4>1 DEF CallsOn, Servers
      <4>3. QED BY <1>1, <1>8, <4>1, <4>2
    <3>2. QED BY <3>1
  <2>2. thread[w].pc \notin {"tell", "remove", "done"}
    BY <1>1, <1>8 DEF BroadcastIsSound, EndIsMeant, Servers, Serving
  <2>3. QED BY <1>0, <2>1, <2>2 DEF Servers, Thread, ThreadPc
<1>9. call[c].pc \notin {"halt", "join"} =>
          \A w \in Servers(b) : thread[w].pc \in {"check", "tick", "save"} => rows[b].desired = "running"
  BY <1>1 DEF BroadcastIsSound, LoopIsWanted
<1>10. QED BY <1>1, <1>4, <1>5, <1>6, <1>7, <1>8, <1>9 DEF Sole

\* A step that changes nothing but the call, as far as the workers are
\* concerned: the question of the subscription, of the map, the end of a join.
LEMMA QuietCallSteps ==
    ASSUME CloudTypeOK, CloudTypeOK', ServerIsSound, NEW c \in Callers, 
           Subscription(c) \/ SpawnCheck(c) \/ Join(c) \/ After(c),
           NEW b \in Broadcasts, b = call[c].of, BroadcastIsSound(b)
    PROVE  BroadcastIsSound(b)'
<1>0. CallStep(c)
  BY DEF CallStep
<1>a. Sole(c, b)
  BY <1>0, TheCall
<1>1. /\ UNCHANGED <<rows, entry, thread, proc, file>>
      /\ call[c] \in Call /\ Idle.pc = "idle"
  BY DEF Subscription, SpawnCheck, Join, After, CloudTypeOK, Idle
<1>2. /\ call'[c].pc # "idle" => call'[c].op = call[c].op /\ call'[c].of = b
      /\ server = "up" /\ server' = "up"
  BY <1>0, CallGoes
<1>3. Servers(b)' = Servers(b) /\ Senders(b)' = Senders(b)
  BY <1>1 DEF Servers, Senders, Serving
<1>4. Alone(b)' /\ OnFile(b)' /\ EntryServes(b)'
  BY <1>1, <1>3 DEF BroadcastIsSound, Alone, OnFile, EntryServes, Exists
<1>5. OneCall(b)'
  BY <1>a DEF Sole
<1>6. ASSUME Subscription(c) PROVE BroadcastIsSound(b)'
  <2>1. call[c].pc = "subscription" /\ (call'[c].pc = "claim" \/ call'[c].pc = "idle")
    BY <1>1, <1>6 DEF Subscription, Goto, Return, CloudTypeOK, Call
  <2>2. Held(b)' /\ LoopIsWanted(b)' /\ EndIsMeant(b)'
    BY <1>1, <1>3, <2>1, <1>a DEF Sole, Held, LoopIsWanted, EndIsMeant
  <2>3. CallStands(b)'
    <3>1. call[c].op \notin {"stop", "delete"}
      BY <2>1 DEF ServerIsSound, CallsAreSound
    <3>2. QED BY <1>1, <1>2, <2>1, <3>1, <1>a DEF Sole, CallStands
  <2>4. IsServed(b)'
    BY <1>1, <1>2, <1>6, <2>1, <1>a
       DEF Sole, BroadcastIsSound, IsServed, Untouched, Wanted, Subscription, ServerIsSound, CallsAreSound, Call, Operation
  <2>5. QED BY <1>4, <1>5, <2>2, <2>3, <2>4 DEF BroadcastIsSound
<1>7. ASSUME SpawnCheck(c) PROVE BroadcastIsSound(b)'
  <2>1. /\ call[c].pc = "spawn"
        /\ \/ call'[c].pc = "clean" /\ entry[b] = Nobody
           \/ call'[c].pc = "idle" /\ entry[b] # Nobody
    BY <1>1, <1>7 DEF SpawnCheck, Goto, Return, CloudTypeOK, Call
  <2>2. Held(b)' /\ LoopIsWanted(b)' /\ EndIsMeant(b)'
    BY <1>1, <1>3, <2>1, <1>a DEF Sole, Held, LoopIsWanted, EndIsMeant
  <2>3. CallStands(b)'
    BY <1>1, <1>2, <2>1, <1>a DEF Sole, BroadcastIsSound, CallStands, ServerIsSound, CallsAreSound
  <2>4. IsServed(b)'
    BY <1>1, <1>2, <2>1, <1>a DEF Sole, IsServed, Untouched
  <2>5. QED BY <1>4, <1>5, <2>2, <2>3, <2>4 DEF BroadcastIsSound
<1>8. ASSUME Join(c) PROVE BroadcastIsSound(b)'
  <2>1. /\ call[c].pc = "join" /\ call'[c].pc = "record" /\ entry[b] = Nobody
        /\ call[c].w # Nobody => thread[call[c].w].pc = "done"
    BY <1>1, <1>8, <1>a DEF Sole, Join, CloudTypeOK, Call, BroadcastIsSound, CallStands
  <2>2. Servers(b) = {}
    BY <2>1, <1>a DEF Sole, BroadcastIsSound, Held, Servers, Serving
  <2>3. Held(b)' /\ LoopIsWanted(b)' /\ EndIsMeant(b)'
    BY <1>3, <2>2 DEF Held, LoopIsWanted, EndIsMeant
  <2>4. CallStands(b)'
    BY <1>1, <1>2, <2>1, <1>a DEF Sole, BroadcastIsSound, CallStands
  <2>5. IsServed(b)'
    <3>1. c \in CallsOn(b)' /\ ~Untouched(c)'
      BY <2>1, <1>a DEF Sole, Untouched
    <3>2. QED BY <1>2, <3>1 DEF IsServed
  <2>6. QED BY <1>4, <1>5, <2>3, <2>4, <2>5 DEF BroadcastIsSound
<1>9. ASSUME After(c) PROVE BroadcastIsSound(b)'
  <2>1. /\ call[c].pc = "after" /\ (call'[c].pc = "delete" \/ call'[c].pc = "idle")
        /\ call[c].op \in {"stop", "delete"}
    BY <1>1, <1>9 DEF After, Goto, Return, CloudTypeOK, Call, Operation, ServerIsSound, CallsAreSound
  <2>2. rows[b].desired # "running" /\ entry[b] = Nobody
    BY <2>1, <1>a DEF Sole, BroadcastIsSound, CallStands
  <2>3. Held(b)' /\ LoopIsWanted(b)' /\ EndIsMeant(b)'
    BY <1>1, <1>3, <2>1, <1>a DEF Sole, Held, LoopIsWanted, EndIsMeant
  <2>4. CallStands(b)'
    BY <1>1, <1>2, <2>1, <2>2, <1>a DEF Sole, CallStands
  <2>5. IsServed(b)'
    BY <1>1, <1>2, <2>2 DEF IsServed, Wanted
  <2>6. QED BY <1>4, <1>5, <2>3, <2>4, <2>5 DEF BroadcastIsSound
<1>10. QED BY <1>6, <1>7, <1>8, <1>9

\* The claim, which writes the row only; a refusal leaves it alone.
LEMMA ClaimStep ==
    ASSUME CloudTypeOK, CloudTypeOK', ServerIsSound, NEW c \in Callers, Claim(c),
           NEW b \in Broadcasts, b = call[c].of, BroadcastIsSound(b)
    PROVE  BroadcastIsSound(b)'
<1>0. CallStep(c)
  BY DEF CallStep
<1>a. Sole(c, b)
  BY <1>0, TheCall
<1>1. /\ UNCHANGED <<entry, thread, proc, file>>
      /\ call[c] \in Call /\ Idle.pc = "idle" /\ rows[b] \in Row /\ rows'[b] \in Row
  BY DEF Claim, CloudTypeOK, Idle
<1>2. /\ call'[c].pc # "idle" => call'[c].op = call[c].op /\ call'[c].of = b
      /\ server = "up" /\ server' = "up"
  BY <1>0, CallGoes
<1>3. Servers(b)' = Servers(b) /\ Senders(b)' = Senders(b)
  BY <1>1 DEF Servers, Senders, Serving
<1>4. rows'[b] = rows[b] \/ rows'[b].desired = "running"
  BY <1>1 DEF Claim, claim, CloudTypeOK, Row
<1>5. Exists(b)' => Exists(b)
  BY DEF Claim, Exists
<1>6. /\ call[c].pc = "claim" /\ call[c].op \in {"start", "restart"}
      /\ call'[c].pc = "spawn" \/ call'[c].pc = "idle"
      /\ call'[c].pc = "spawn" => rows'[b].desired = "running"
  BY <1>1 DEF Claim, Goto, Return, CloudTypeOK, Call, Operation, ServerIsSound, CallsAreSound
<1>7. call'[c].pc = "idle" => rows'[b] = rows[b]
  <2>1. rows' = rows \/ rows' = [rows EXCEPT ![b].desired = "running", ![b].runtime = "Preparing",
                                             ![b].held = FALSE]
    BY DEF Claim, claim
  <2>2. rows' = rows \/ (rows'[b].desired = "running" /\ rows'[b].held = FALSE)
    BY <2>1 DEF CloudTypeOK, Row
  <2>3. rows'[b].desired = "running" /\ ~rows'[b].held => Goto(c, "spawn")
    BY DEF Claim
  <2>4. Goto(c, "spawn") => call'[c].pc = "spawn"
    BY <1>1 DEF Goto, CloudTypeOK, Call
  <2>5. QED BY <2>2, <2>3, <2>4
<1>8. Alone(b)' /\ OnFile(b)' /\ EntryServes(b)' /\ OneCall(b)'
  <2>1. Alone(b)' /\ EntryServes(b)'
    BY <1>1, <1>3 DEF BroadcastIsSound, Alone, EntryServes
  <2>2. OnFile(b)'
    BY <1>1, <1>3, <1>5 DEF BroadcastIsSound, OnFile
  <2>3. OneCall(b)'
    BY <1>a DEF Sole
  <2>4. QED BY <2>1, <2>2, <2>3
<1>9. Held(b)' /\ EndIsMeant(b)' /\ LoopIsWanted(b)'
  BY <1>1, <1>3, <1>4, <1>6, <1>a DEF Sole, Held, LoopIsWanted, EndIsMeant
<1>10. CallStands(b)'
  BY <1>1, <1>2, <1>6, <1>a DEF Sole, CallStands
<1>11. IsServed(b)'
  <2>1. CASE call'[c].pc = "spawn"
    BY <1>2, <2>1, <1>a DEF Sole, IsServed, Untouched
  <2>2. CASE call'[c].pc = "idle"
    BY <1>1, <1>2, <1>6, <1>7, <2>2, <1>a DEF Sole, Claim, BroadcastIsSound, IsServed, Untouched, Wanted
  <2>3. QED BY <1>6, <2>1, <2>2
<1>12. QED BY <1>8, <1>9, <1>10, <1>11 DEF BroadcastIsSound

\* The clean-up: nothing works for the broadcast, and the file names its orphan.
LEMMA CleanStep ==
    ASSUME CloudTypeOK, CloudTypeOK', ServerIsSound, NEW c \in Callers, Clean(c),
           NEW b \in Broadcasts, b = call[c].of, BroadcastIsSound(b)
    PROVE  BroadcastIsSound(b)'
<1>0. CallStep(c)
  BY DEF CallStep
<1>a. Sole(c, b)
  BY <1>0, TheCall
<1>1. /\ UNCHANGED <<rows, entry, thread, file>> /\ call[c].pc = "clean" /\ call[c] \in Call
  BY DEF Clean, CloudTypeOK
<1>2. /\ call'[c].pc # "idle" => call'[c].op = call[c].op /\ call'[c].of = b
      /\ server = "up" /\ server' = "up"
  BY <1>0, CallGoes
<1>3. entry[b] = Nobody /\ Servers(b) = {} /\ rows[b].desired = "running"
      /\ call[c].op \notin {"stop", "delete"}
  BY <1>1, <1>a DEF Sole, BroadcastIsSound, CallStands, Servers, CloudTypeOK, ServerIsSound, CallsAreSound
<1>4. Servers(b)' = {}
  BY <1>1, <1>3 DEF Servers, Serving
<1>5. call'[c].pc = "launch" \/ call'[c].pc = "undo"
  BY <1>1 DEF Clean, Goto, CloudTypeOK, Call
<1>6. \A w \in Senders(b)' : w \in Senders(b)
  BY <1>1 DEF Clean, Senders, cleaned
<1>7. call'[c].pc = "launch" => Senders(b)' = {}
  <2>1. \A w \in Senders(b) : file[b] = w
    BY <1>3 DEF BroadcastIsSound, OnFile, Exists, Servers, Senders, Serving
  <2>2. call'[c].pc = "launch" => proc' = cleaned(b)
    BY <1>1 DEF Clean, Goto, CloudTypeOK, Call
  <2>3. QED BY <1>6, <2>1, <2>2 DEF Senders, cleaned
<1>8. Alone(b)' /\ OnFile(b)' /\ OneCall(b)' /\ Held(b)' /\ EndIsMeant(b)' /\ LoopIsWanted(b)'
  BY <1>1, <1>4, <1>6, <1>a
     DEF Sole, BroadcastIsSound, Alone, OnFile, Exists, Held, EndIsMeant, LoopIsWanted
<1>9. EntryServes(b)'
  BY <1>1, <1>3 DEF EntryServes
<1>10. CallStands(b)'
  BY <1>1, <1>2, <1>3, <1>5, <1>7, <1>a DEF Sole, CallStands
<1>11. IsServed(b)'
  <2>1. c \in CallsOn(b)' /\ ~Untouched(c)'
    BY <1>5, <1>a DEF Sole, Untouched
  <2>2. QED BY <1>2, <2>1 DEF IsServed
<1>12. QED BY <1>8, <1>9, <1>10, <1>11 DEF BroadcastIsSound

\* The launch, or its failure: the new process is the only one.
LEMMA LaunchStep ==
    ASSUME CloudTypeOK, CloudTypeOK', ServerIsSound, NEW c \in Callers, NEW w \in Workers, Launch(c, w),
           NEW b \in Broadcasts, b = call[c].of, BroadcastIsSound(b)
    PROVE  BroadcastIsSound(b)'
<1>0. CallStep(c)
  BY DEF CallStep
<1>a. Sole(c, b)
  BY <1>0, TheCall
<1>1. /\ UNCHANGED <<rows, entry, file>> /\ call[c].pc = "launch" /\ call[c] \in Call
  BY DEF Launch, CloudTypeOK
<1>2. /\ call'[c].pc # "idle" => call'[c].op = call[c].op /\ call'[c].of = b
      /\ server = "up" /\ server' = "up"
  BY <1>0, CallGoes
<1>3. entry[b] = Nobody /\ Servers(b) = {} /\ Senders(b) = {} /\ rows[b].desired = "running"
      /\ call[c].op \notin {"stop", "delete"}
  BY <1>1, <1>a DEF Sole, BroadcastIsSound, CallStands, Servers, CloudTypeOK, ServerIsSound, CallsAreSound
<1>4. CASE Goto(c, "undo") /\ UNCHANGED <<thread, proc>>
  <2>1. Servers(b)' = {} /\ Senders(b)' = {} /\ call'[c].pc = "undo"
    BY <1>1, <1>3, <1>4 DEF Servers, Senders, Serving, Goto, CloudTypeOK, Call
  <2>2. Alone(b)' /\ OnFile(b)' /\ OneCall(b)' /\ Held(b)' /\ EndIsMeant(b)' /\ LoopIsWanted(b)'
        /\ EntryServes(b)'
    BY <1>1, <1>3, <2>1, <1>a
       DEF Sole, Alone, OnFile, Held, EndIsMeant, LoopIsWanted, EntryServes
  <2>3. CallStands(b)'
    BY <1>1, <1>2, <1>3, <1>4, <2>1, <1>a DEF Sole, CallStands
  <2>4. IsServed(b)'
    <3>1. c \in CallsOn(b)' /\ ~Untouched(c)'
      BY <2>1, <1>a DEF Sole, Untouched
    <3>2. QED BY <1>2, <3>1 DEF IsServed
  <2>5. QED BY <2>2, <2>3, <2>4 DEF BroadcastIsSound
<1>5. CASE /\ w \in FreeWorkers /\ call' = [call EXCEPT ![c].pc = "save", ![c].w = w]
           /\ thread' = [thread EXCEPT ![w] = NewThread(b)] /\ proc' = [proc EXCEPT ![w] = "alive"]
  <2>1. call'[c].pc = "save" /\ call'[c].w = w
    BY <1>1, <1>5 DEF CloudTypeOK, Call
  <2>2. thread'[w] = NewThread(b) /\ proc'[w] = "alive"
    BY <1>5 DEF CloudTypeOK
  <2>3. rows'[b].desired = "running"
    BY <1>1, <1>3
  <2>4. \A v \in Workers : v # w => thread'[v] = thread[v] /\ proc'[v] = proc[v]
    BY <1>5 DEF CloudTypeOK
  <2>5. Servers(b)' = {w} /\ Senders(b)' = {w}
    BY <1>3, <2>2, <2>4 DEF Servers, Senders, Serving, NewThread
  <2>6. Alone(b)' /\ OnFile(b)' /\ OneCall(b)' /\ Held(b)'
    <3>1. Alone(b)' /\ OnFile(b)'
      BY <2>2, <2>5 DEF Alone, OnFile, NewThread
    <3>2. OneCall(b)' /\ CallsOn(b)' = {c}
      BY <2>1, <1>a DEF Sole
    <3>3. Held(b)'
      BY <2>1, <2>5, <3>2 DEF Held
    <3>4. QED BY <3>1, <3>2, <3>3
  <2>7. EntryServes(b)'
    BY <1>1, <1>3 DEF EntryServes
  <2>8. CallStands(b)'
    BY <1>1, <1>2, <1>3, <2>1, <2>2, <2>3, <2>5, <1>a DEF Sole, CallStands, NewThread
  <2>9. LoopIsWanted(b)' /\ EndIsMeant(b)'
    BY <2>2, <2>3, <2>5 DEF LoopIsWanted, EndIsMeant, NewThread
  <2>10. IsServed(b)'
    <3>1. c \in CallsOn(b)' /\ ~Untouched(c)'
      BY <2>1, <1>a DEF Sole, Untouched
    <3>2. QED BY <1>2, <3>1 DEF IsServed
  <2>11. QED BY <2>6, <2>7, <2>8, <2>9, <2>10 DEF BroadcastIsSound
<1>6. QED BY <1>4, <1>5 DEF Launch

\* The session file of what has been launched, whose thread then begins.
LEMMA SaveStep ==
    ASSUME CloudTypeOK, CloudTypeOK', ServerIsSound, NEW c \in Callers, Save(c),
           NEW b \in Broadcasts, b = call[c].of, BroadcastIsSound(b)
    PROVE  BroadcastIsSound(b)'
<1>0. CallStep(c)
  BY DEF CallStep
<1>a. Sole(c, b)
  BY <1>0, TheCall
<1>1. PICK w \in Workers : /\ w = call[c].w /\ thread[w].pc = "start" /\ thread[w].of = b
                           /\ ~thread[w].stop
  BY DEF Save, ServerIsSound, LaunchesAreSound
<1>2. /\ UNCHANGED <<entry, proc>> /\ call[c].pc = "save" /\ call[c] \in Call
      /\ thread'[w].pc = "check" /\ thread'[w].of = b /\ ~thread'[w].stop
      /\ \A v \in Workers : v # w => thread'[v] = thread[v]
      /\ file'[b] = w /\ call'[c].pc = "insert" /\ call'[c].w = w
  BY <1>1 DEF Save, Goto, CloudTypeOK, Thread, Call
<1>3. /\ call'[c].op = call[c].op /\ call'[c].of = b /\ server = "up" /\ server' = "up"
  BY <1>0, <1>2, CallGoes
<1>4. CallsOn(b)' = {c} /\ OneCall(b)'
  BY <1>2, <1>a DEF Sole
<1>5. /\ entry[b] = Nobody /\ rows[b].desired = "running" /\ call[c].op \notin {"stop", "delete"}
  BY <1>2, <1>a DEF Sole, BroadcastIsSound, CallStands, ServerIsSound, CallsAreSound
<1>6. rows'[b].desired = "running"
  BY <1>5 DEF Save, recorded, CloudTypeOK, Row
<1>7. w \in Servers(b) /\ Servers(b)' = Servers(b) /\ Senders(b)' = Senders(b)
  BY <1>1, <1>2 DEF Servers, Senders, Serving
<1>8. Servers(b) = {w} /\ \A v \in Senders(b) : v = w
  BY <1>7 DEF BroadcastIsSound, Alone
<1>9. Alone(b)' /\ OnFile(b)' /\ Held(b)'
  BY <1>2, <1>4, <1>7, <1>8 DEF Alone, OnFile, Held
<1>10. EntryServes(b)'
  BY <1>2, <1>5 DEF EntryServes
<1>11. CallStands(b)'
  BY <1>2, <1>3, <1>4, <1>5, <1>6, <1>7 DEF CallStands
<1>12. LoopIsWanted(b)' /\ EndIsMeant(b)'
  BY <1>2, <1>6, <1>7, <1>8 DEF LoopIsWanted, EndIsMeant
<1>13. IsServed(b)'
  <2>1. c \in CallsOn(b)' /\ ~Untouched(c)'
    BY <1>2, <1>4 DEF Untouched
  <2>2. QED BY <1>3, <2>1 DEF IsServed
<1>14. QED BY <1>4, <1>9, <1>10, <1>11, <1>12, <1>13 DEF BroadcastIsSound

\* The entry in the map, of a worker that is still in its loop.
LEMMA InsertStep ==
    ASSUME CloudTypeOK, CloudTypeOK', ServerIsSound, NEW c \in Callers, Insert(c),
           NEW b \in Broadcasts, b = call[c].of, BroadcastIsSound(b)
    PROVE  BroadcastIsSound(b)'
<1>0. CallStep(c)
  BY DEF CallStep
<1>a. Sole(c, b)
  BY <1>0, TheCall
<1>1. /\ UNCHANGED <<rows, thread, proc, file>> /\ call[c].pc = "insert" /\ entry'[b] = call[c].w
      /\ call'[c].pc = "idle" /\ b \notin dark' /\ call[c].w # Nobody
  BY <1>a DEF Sole, Insert, Return, Idle, CloudTypeOK, BroadcastIsSound, CallStands, Servers
<1>2. CallsOn(b)' = {} /\ OneCall(b)' /\ server' = "up"
  BY <1>0, <1>1, <1>a, CallGoes DEF Sole
<1> DEFINE w == call[c].w
<1>3. /\ w \in Servers(b) /\ ~thread[w].stop /\ thread[w].pc \in {"check", "tick", "save"}
      /\ rows[b].desired = "running"
  BY <1>1, <1>a DEF Sole, BroadcastIsSound, CallStands
<1>4. Servers(b) = {w} /\ \A v \in Senders(b) : v = w
  BY <1>3 DEF BroadcastIsSound, Alone
<1>5. Servers(b)' = Servers(b) /\ Senders(b)' = Senders(b)
  BY <1>1 DEF Servers, Senders, Serving
<1>6. Alone(b)' /\ OnFile(b)'
  BY <1>1, <1>5 DEF BroadcastIsSound, Alone, OnFile, Exists
<1>7. Held(b)' /\ EntryServes(b)' /\ CallStands(b)'
  BY <1>1, <1>2, <1>3, <1>4, <1>5 DEF Held, EntryServes, CallStands
<1>8. LoopIsWanted(b)' /\ EndIsMeant(b)'
  BY <1>1, <1>3, <1>4, <1>5 DEF LoopIsWanted, EndIsMeant
<1>9. IsServed(b)'
  BY <1>1, <1>2 DEF IsServed
<1>10. QED BY <1>2, <1>6, <1>7, <1>8, <1>9 DEF BroadcastIsSound

\* The undo of a start: no worker was left, and the intent goes.
LEMMA UndoStep ==
    ASSUME CloudTypeOK, CloudTypeOK', ServerIsSound, NEW c \in Callers, Undo(c),
           NEW b \in Broadcasts, b = call[c].of, BroadcastIsSound(b)
    PROVE  BroadcastIsSound(b)'
<1>0. CallStep(c)
  BY DEF CallStep
<1>a. Sole(c, b)
  BY <1>0, TheCall
<1>1. /\ UNCHANGED <<entry, thread, proc, file>> /\ call[c].pc = "undo" /\ call'[c].pc = "idle"
      /\ entry[b] = Nobody
  <2>1. UNCHANGED <<entry, thread, proc, file>> /\ call[c].pc = "undo" /\ call'[c].pc = "idle"
    BY DEF Undo, Return, Idle, CloudTypeOK
  <2>2. entry[b] = Nobody
    BY <2>1, <1>a DEF Sole, BroadcastIsSound, CallStands
  <2>3. QED BY <2>1, <2>2
<1>2. CallsOn(b)' = {} /\ OneCall(b)' /\ server' = "up"
  BY <1>0, <1>1, <1>a, CallGoes DEF Sole
<1>3. rows'[b].desired # "running" /\ (Exists(b)' => Exists(b))
  BY DEF Undo, release, Exists, CloudTypeOK, Row
<1>4. Servers(b) = {}
  BY <1>1, <1>a DEF Sole, Servers
<1>5. Servers(b)' = {} /\ Senders(b)' = Senders(b)
  BY <1>1, <1>4 DEF Servers, Senders, Serving
<1>6. Alone(b)' /\ OnFile(b)'
  BY <1>1, <1>3, <1>5 DEF BroadcastIsSound, Alone, OnFile
<1>7. Held(b)' /\ EntryServes(b)' /\ CallStands(b)' /\ LoopIsWanted(b)' /\ EndIsMeant(b)'
  BY <1>1, <1>2, <1>5 DEF Held, EntryServes, CallStands, LoopIsWanted, EndIsMeant
<1>8. IsServed(b)'
  BY <1>2, <1>3 DEF IsServed, Wanted
<1>9. QED BY <1>2, <1>6, <1>7, <1>8 DEF BroadcastIsSound

\* The release of the slot: the worker is still in its loop, and a stop is now
\* on its way to it.
LEMMA ReleaseStep ==
    ASSUME CloudTypeOK, CloudTypeOK', ServerIsSound, NEW c \in Callers, Release(c),
           NEW b \in Broadcasts, b = call[c].of, BroadcastIsSound(b)
    PROVE  BroadcastIsSound(b)'
<1>0. CallStep(c)
  BY DEF CallStep
<1>a. Sole(c, b)
  BY <1>0, TheCall
<1>1. /\ UNCHANGED <<entry, thread, proc, file, dark>> /\ call[c].pc = "release"
      /\ call[c].op \in {"stop", "delete", "restart"} /\ call[c] \in Call /\ rows[b] \in Row
  BY DEF Release, CloudTypeOK, Call, Operation, ServerIsSound, CallsAreSound
<1>2. Servers(b)' = Servers(b) /\ Senders(b)' = Senders(b)
  BY <1>1 DEF Servers, Senders, Serving
<1>3. \A w \in Servers(b) :
          entry[b] = w /\ thread[w].pc \in {"check", "tick", "save"} /\ rows[b].desired = "running"
  BY <1>1, <1>a DEF Sole
<1>4. OneCall(b)' /\ server = "up" /\ server' = "up"
  BY <1>0, <1>a, CallGoes DEF Sole
<1>5. CASE Exists(b)
  <2>1. /\ call'[c].pc = "halt" /\ call'[c].op = call[c].op /\ CallsOn(b)' = {c}
    BY <1>1, <1>5, <1>a DEF Sole, Release, Goto, CloudTypeOK, Call
  <2>2. /\ call[c].op = "restart" => rows' = rows
        /\ call[c].op # "restart" => rows'[b].desired = "stopped"
        /\ Exists(b)'
    BY <1>1, <1>5 DEF Release, release, CloudTypeOK, Row, Exists
  <2>3. Alone(b)' /\ OnFile(b)' /\ EntryServes(b)' /\ Held(b)'
    BY <1>1, <1>2, <1>3, <1>5 DEF BroadcastIsSound, Alone, OnFile, EntryServes, Held
  <2>4. CallStands(b)'
    BY <1>1, <2>1, <2>2 DEF CallStands
  <2>5. LoopIsWanted(b)' /\ EndIsMeant(b)'
    BY <1>1, <1>2, <1>3, <2>1, <2>2 DEF LoopIsWanted, EndIsMeant
  <2>6. IsServed(b)'
    <3>1. c \in CallsOn(b)' /\ ~Untouched(c)'
      BY <2>1 DEF Untouched
    <3>2. QED BY <1>4, <3>1 DEF IsServed
  <2>7. QED BY <1>4, <2>3, <2>4, <2>5, <2>6 DEF BroadcastIsSound
<1>6. CASE ~Exists(b)
  <2>1. call'[c].pc = "idle" /\ CallsOn(b)' = {} /\ rows' = rows /\ rows[b].desired = "gone"
    <3>1. call'[c].pc = "idle" /\ rows' = rows /\ rows[b].desired = "gone"
      BY <1>1, <1>6 DEF Release, Return, Idle, CloudTypeOK, Exists
    <3>2. QED BY <3>1, <1>a DEF Sole
  <2>2. Servers(b) = {}
    BY <1>3, <2>1 
  <2>3. Alone(b)' /\ OnFile(b)' /\ EntryServes(b)'
    BY <1>1, <1>2, <2>1 DEF BroadcastIsSound, Alone, OnFile, EntryServes, Exists
  <2>4. Held(b)' /\ CallStands(b)' /\ LoopIsWanted(b)' /\ EndIsMeant(b)'
    BY <1>2, <2>1, <2>2 DEF Held, CallStands, LoopIsWanted, EndIsMeant
  <2>5. IsServed(b)'
    BY <1>4, <2>1 DEF IsServed, Wanted
  <2>6. QED BY <1>4, <2>3, <2>4, <2>5 DEF BroadcastIsSound
<1>7. QED BY <1>5, <1>6

\* The halt: the entry goes from the map to the call, and the flag is set.
LEMMA HaltStep ==
    ASSUME CloudTypeOK, CloudTypeOK', ServerIsSound, NEW c \in Callers, Halt(c),
           NEW b \in Broadcasts, b = call[c].of, BroadcastIsSound(b)
    PROVE  BroadcastIsSound(b)'
<1>0. CallStep(c)
  BY DEF CallStep
<1>a. Sole(c, b)
  BY <1>0, TheCall
<1>1. /\ UNCHANGED <<rows, proc, file>> /\ call[c].pc = "halt" /\ call[c] \in Call
      /\ entry'[b] = Nobody
      /\ call'[c].pc = "join" /\ call'[c].w = entry[b] /\ call'[c].op = call[c].op
      /\ call[c].op \in {"stop", "delete", "restart"}
  BY DEF Halt, CloudTypeOK, Call, Operation, ServerIsSound, CallsAreSound
<1>2. CallsOn(b) = {c} /\ CallsOn(b)' = {c} /\ OneCall(b)' /\ server' = "up"
      /\ \A w \in Servers(b) : entry[b] = w
  BY <1>0, <1>1, <1>a, CallGoes DEF Sole
<1>3. \A w \in Workers : thread'[w].pc = thread[w].pc /\ thread'[w].of = thread[w].of
  <2>1. CASE entry[b] = Nobody
    BY <2>1 DEF Halt
  <2>2. CASE entry[b] # Nobody
    <3>1. entry[b] \in Workers /\ thread' = [thread EXCEPT ![entry[b]].stop = TRUE]
      BY <2>2 DEF Halt, CloudTypeOK
    <3>2. QED BY <3>1 DEF CloudTypeOK, Thread
  <2>3. QED BY <2>1, <2>2
<1>4. Servers(b)' = Servers(b) /\ Senders(b)' = Senders(b)
  BY <1>1, <1>3 DEF Servers, Senders, Serving
<1>5. Alone(b)' /\ OnFile(b)'
  BY <1>1, <1>3, <1>4 DEF BroadcastIsSound, Alone, OnFile, Exists, Senders
<1>6. EntryServes(b)' /\ Held(b)'
  BY <1>1, <1>2, <1>4 DEF EntryServes, Held
<1>7. CallStands(b)'
  BY <1>1, <1>2 DEF BroadcastIsSound, CallStands
<1>8. LoopIsWanted(b)'
  BY <1>1, <1>2, <1>3, <1>4 DEF BroadcastIsSound, LoopIsWanted, Servers
<1>9. EndIsMeant(b)'
  BY <1>1, <1>2, <1>4 DEF EndIsMeant
<1>10. IsServed(b)'
  <2>1. c \in CallsOn(b)' /\ ~Untouched(c)'
    BY <1>1, <1>2 DEF Untouched
  <2>2. QED BY <1>2, <2>1 DEF IsServed
<1>11. QED BY <1>2, <1>5, <1>6, <1>7, <1>8, <1>9, <1>10 DEF BroadcastIsSound

\* After the join: the state of the row, and for a delete the row itself.
LEMMA RecordAndDeleteSteps ==
    ASSUME CloudTypeOK, CloudTypeOK', ServerIsSound, NEW c \in Callers, Record(c) \/ Delete(c),
           NEW b \in Broadcasts, b = call[c].of, BroadcastIsSound(b)
    PROVE  BroadcastIsSound(b)'
<1>0. CallStep(c)
  BY DEF CallStep
<1>a. Sole(c, b)
  BY <1>0, TheCall
<1>1. /\ UNCHANGED <<entry, thread, proc, dark>> /\ call[c].pc \in {"record", "delete"} /\ call[c] \in Call
      /\ rows[b] \in Row /\ entry[b] = Nobody /\ Idle.pc = "idle"
  <2>1. UNCHANGED <<entry, thread, proc, dark>> /\ call[c].pc \in {"record", "delete"}
    BY DEF Record, Delete
  <2>2. entry[b] = Nobody
    BY <2>1, <1>a DEF Sole, BroadcastIsSound, CallStands
  <2>3. QED BY <2>1, <2>2 DEF CloudTypeOK, Idle
<1>2. Servers(b) = {} /\ OneCall(b)' /\ server' = "up"
  BY <1>0, <1>1, <1>a, CallGoes DEF Sole, Servers
<1>3. Servers(b)' = {} /\ Senders(b)' = Senders(b)
  BY <1>1, <1>2 DEF Servers, Senders, Serving
<1>4. Alone(b)' /\ Held(b)' /\ EntryServes(b)' /\ LoopIsWanted(b)' /\ EndIsMeant(b)'
  BY <1>1, <1>3 DEF BroadcastIsSound, Alone, Held, EntryServes, LoopIsWanted, EndIsMeant
<1>5. CASE Record(c)
  <2>1. /\ rows'[b].desired = rows[b].desired /\ file' = file
        /\ call'[c].pc = IF call[c].op = "restart" THEN "subscription" ELSE "after"
        /\ call'[c].op = call[c].op /\ call[c].pc = "record"
    BY <1>1, <1>5 DEF Record, recorded, Goto, CloudTypeOK, Call, Row
  <2>2. CallsOn(b)' = {c}
    BY <2>1, <1>a DEF Sole
  <2>3. OnFile(b)'
    BY <1>1, <1>3, <2>1 DEF BroadcastIsSound, OnFile, Exists
  <2>4. CallStands(b)'
    <3>1. call[c].op \in {"stop", "delete"} => rows'[b].desired # "running"
      BY <2>1, <1>a DEF Sole, BroadcastIsSound, CallStands
    <3>2. call'[c].pc \in {"subscription", "after"} /\ entry'[b] = Nobody
      BY <1>1, <2>1
    <3>3. QED BY <2>1, <2>2, <3>1, <3>2 DEF CallStands
  <2>5. c \in CallsOn(b)' /\ ~Untouched(c)'
    BY <1>1, <2>1, <2>2 DEF Untouched, ServerIsSound, CallsAreSound
  <2>6. IsServed(b)'
    BY <1>2, <2>5 DEF IsServed
  <2>7. QED BY <1>2, <1>4, <2>3, <2>4, <2>6 DEF BroadcastIsSound
<1>6. CASE Delete(c)
  <2>1. rows'[b].desired = "gone" /\ call'[c].pc = "idle"
    BY <1>1, <1>6 DEF Delete, Return, CloudTypeOK
  <2>2. CallsOn(b)' = {}
    BY <2>1, <1>a DEF Sole
  <2>3. OnFile(b)' /\ CallStands(b)' /\ IsServed(b)'
    BY <1>2, <2>1, <2>2 DEF OnFile, Exists, CallStands, IsServed, Wanted
  <2>4. QED BY <1>2, <1>4, <2>3 DEF BroadcastIsSound
<1>7. QED BY <1>5, <1>6

\* A step of a call keeps what holds of every broadcast.
LEMMA CallStepBroadcasts ==
    ASSUME CloudTypeOK, CloudTypeOK', ServerIsSound, NEW c \in Callers, CallStep(c),
           NEW b \in Broadcasts, BroadcastIsSound(b)
    PROVE  BroadcastIsSound(b)'
<1>1. CASE b # call[c].of
  BY <1>1, CallStepFrame, Frame
<1>2. CASE b = call[c].of
  BY <1>2, QuietCallSteps, ClaimStep, CleanStep, LaunchStep, SaveStep, InsertStep, UndoStep, ReleaseStep,
     HaltStep, RecordAndDeleteSteps DEF CallStep
<1>3. QED BY <1>1, <1>2

-----------------------------------------------------------------------------
(* The steps of a worker *)

\* What a tick of a worker of b does.
TickGoes(w, b) ==
    /\ thread[w].pc = "tick" /\ thread'[w].pc = "save"
    /\ thread'[w].of = b /\ thread'[w].stop = thread[w].stop
    /\ \A v \in Workers : v # w => thread'[v] = thread[v] /\ proc'[v] = proc[v]
    /\ UNCHANGED <<rows, entitled, entry, file, call, pass, server, boots, raced, dark>>

\* ... whatever Ticked has made of its thread.
LEMMA TickIs ==
    ASSUME CloudTypeOK, ServerIsSound, NEW w \in Workers, NEW due \in BOOLEAN, NEW launched \in BOOLEAN,
           WorkerTick(w, due, launched), NEW b \in Broadcasts, b = thread[w].of
    PROVE  TickGoes(w, b)
<1>0. thread[w].pc = "tick" /\ thread[w] \in Thread
  BY DEF WorkerTick, CloudTypeOK
<1> DEFINE next == Ticked(w, due, launched)
<1>1. PICK t \in Thread, p \in {"none", "alive", "exited"} :
        next = <<t, p>> /\ t.of = b /\ t.pc = "tick" /\ t.stop = thread[w].stop
  BY <1>0, TickedIs DEF ServerIsSound, WorkersAreSound
<1>2. next[1] = t /\ next[2] = p
  BY <1>1
<1> DEFINE u == [t EXCEPT !.pc = "save"]
<1>3. /\ thread' = [thread EXCEPT ![w] = u] /\ proc' = [proc EXCEPT ![w] = p]
      /\ UNCHANGED <<rows, entitled, entry, file, call, pass, server, boots, raced, dark>>
  BY <1>2 DEF WorkerTick
<1>4. u.of = b /\ u.stop = thread[w].stop /\ u.pc = "save"
  BY <1>1 DEF Thread
<1> HIDE DEF u, next
<1>5. thread'[w] = u /\ \A v \in Workers : v # w => thread'[v] = thread[v] /\ proc'[v] = proc[v]
  BY <1>3 DEF CloudTypeOK
<1>6. QED BY <1>0, <1>3, <1>4, <1>5 DEF TickGoes

\* What follows it: session.json is written, and the loop goes on or is left.
SaveGoes(w, b) ==
    /\ thread[w].pc = "save" /\ thread'[w].of = b /\ thread'[w].stop = thread[w].stop
    /\ \A v \in Workers : v # w => thread'[v] = thread[v] /\ proc'[v] = proc[v]
    /\ thread'[w].pc \in {"check", "tell"}
    /\ thread'[w].pc = "tell" => proc'[w] = "none"
    /\ thread'[w].pc = "tell" => rows'[b].desired # "running"
    /\ thread'[w].pc = "tell" /\ Exists(b) => rows'[b].desired = "stopped" /\ rows'[b].runtime # "Running"
    /\ thread'[w].pc = "tell" /\ CallsOn(b) # {} => b \in raced'
    /\ thread'[w].pc = "check" => rows'[b].desired = rows[b].desired
    /\ thread'[w].pc = "check" => thread'[w].restarts <= MaxRestarts
    /\ Exists(b)' => Exists(b)
    /\ ~Exists(b) => rows' = rows
    /\ file'[b] = w \/ file'[b] = Nobody
    /\ proc'[w] = "alive" => proc[w] = "alive" /\ file'[b] = w
    /\ \A d \in Broadcasts : d # b => rows'[d] = rows[d] /\ file'[d] = file[d]
    /\ raced \subseteq raced' /\ \A d \in Broadcasts : d # b => (d \in raced' <=> d \in raced)
    /\ UNCHANGED <<entitled, entry, call, pass, server, boots, dark>>

\* ... in the step that writes session.json and looks at the worker.
LEMMA SaveIs ==
    ASSUME CloudTypeOK, ServerIsSound, NEW w \in Workers, NEW played \in BOOLEAN, WorkerSave(w, played),
           NEW b \in Broadcasts, b = thread[w].of
    PROVE  SaveGoes(w, b)
<1>0. thread[w].pc = "save" /\ thread[w] \in Thread /\ rows[b] \in Row
      /\ proc[w] \in {"none", "alive", "exited"}
  BY DEF WorkerSave, CloudTypeOK
<1> DEFINE over == gives_up(thread[w].restarts)
           ends == played \/ over
<1>1. /\ thread' = [thread EXCEPT ![w].pc = IF ends THEN "tell" ELSE "check"]
      /\ proc' = IF ends THEN [proc EXCEPT ![w] = "none"] ELSE proc
      /\ file' = [file EXCEPT ![b] = IF ends \/ proc[w] = "none" THEN Nobody ELSE w]
      /\ raced' = IF ends /\ CallsOn(b) # {} THEN raced \cup {b} ELSE raced
      /\ UNCHANGED <<entitled, entry, call, pass, server, boots, dark>>
  BY DEF WorkerSave, WorkerGoto
<1>2. over \/ thread[w].restarts <= MaxRestarts
  BY <1>0 DEF gives_up, Thread
<1>3. /\ ends /\ Exists(b) =>
            \/ rows' = [rows EXCEPT ![b].desired = "stopped", ![b].runtime = "Stopped"]
            \/ rows' = [rows EXCEPT ![b].desired = "stopped", ![b].runtime = "Failed"]
      /\ ~Exists(b) => rows' = rows
      /\ ~ends /\ Exists(b) => rows' = recorded(b, "Failed") \/ rows' = recorded(b, "Running")
  BY DEF WorkerSave
<1>4. ends \/ thread[w].restarts <= MaxRestarts
  BY <1>2
<1> HIDE DEF over, ends
<1>5. /\ ends => rows'[b].desired # "running"
      /\ ends /\ Exists(b) => rows'[b].desired = "stopped" /\ rows'[b].runtime # "Running"
      /\ ~ends => rows'[b].desired = rows[b].desired
      /\ Exists(b)' => Exists(b)
      /\ \A d \in Broadcasts : d # b => rows'[d] = rows[d]
  BY <1>0, <1>3 DEF recorded, Exists, CloudTypeOK, Row
<1>6. /\ thread'[w].pc = (IF ends THEN "tell" ELSE "check")
      /\ thread'[w].of = b /\ thread'[w].stop = thread[w].stop /\ thread'[w].restarts = thread[w].restarts
      /\ \A v \in Workers : v # w => thread'[v] = thread[v]
  BY <1>0, <1>1 DEF CloudTypeOK, Thread
<1>7. /\ \A v \in Workers : v # w => proc'[v] = proc[v]
      /\ ends => proc'[w] = "none"
      /\ ~ends => proc'[w] = proc[w]
      /\ file'[b] = IF ends \/ proc[w] = "none" THEN Nobody ELSE w
      /\ \A d \in Broadcasts : d # b => file'[d] = file[d]
  BY <1>1 DEF CloudTypeOK
<1>8. /\ ends /\ CallsOn(b) # {} => b \in raced'
      /\ raced \subseteq raced' /\ \A d \in Broadcasts : d # b => (d \in raced' <=> d \in raced)
  BY <1>1
<1>9. QED BY <1>0, <1>1, <1>3, <1>4, <1>5, <1>6, <1>7, <1>8 DEF SaveGoes

\* What the other steps of a worker of b do, and what they leave alone.
WorkerGoes(w, b) ==
    /\ \A v \in Workers : v # w => thread'[v] = thread[v] /\ proc'[v] = proc[v]
    /\ \A d \in Broadcasts : d # b => rows'[d] = rows[d] /\ file'[d] = file[d] /\ entry'[d] = entry[d]
    /\ rows'[b].desired = rows[b].desired
    /\ file'[b] = file[b] \/ file'[b] = Nobody
    /\ entry'[b] = entry[b] \/ entry'[b] = Nobody
    /\ Serving(w)' => Serving(w) /\ thread'[w].of = b /\ thread'[w].restarts = thread[w].restarts
                      /\ thread'[w].stop = thread[w].stop
    /\ proc'[w] = "alive" => proc[w] = "alive" /\ thread'[w].of = b
    /\ UNCHANGED <<entitled, call, pass, server, boots, raced, dark>>

\* ... each of them.
LEMMA WorkerStepIs ==
    ASSUME CloudTypeOK, ServerIsSound, NEW w \in Workers,
           WorkerCheck(w) \/ WorkerTell(w) \/ WorkerRemove(w) \/ Exit(w),
           NEW b \in Broadcasts, b = thread[w].of
    PROVE  WorkerGoes(w, b)
<1> USE DEF WorkerGoes
<1>0. thread[w] \in Thread /\ rows[b] \in Row /\ proc[w] \in {"none", "alive", "exited"}
  BY DEF CloudTypeOK
<1>1. CASE WorkerCheck(w)
  <2>1. /\ thread' = [thread EXCEPT ![w].pc = "remove"] \/ thread' = [thread EXCEPT ![w].pc = "tick"]
        /\ rows' = rows \/ rows' = recorded(b, "Stopped")
        /\ proc' = proc \/ proc' = [proc EXCEPT ![w] = "none"]
        /\ file' = file \/ file' = [file EXCEPT ![b] = Nobody]
        /\ UNCHANGED <<entry, entitled, call, pass, server, boots, raced, dark>>
    BY <1>1 DEF WorkerCheck, WorkerGoto, StopEngine
  <2>2. /\ \A d \in Broadcasts : d # b => rows'[d] = rows[d] /\ file'[d] = file[d]
        /\ rows'[b].desired = rows[b].desired
        /\ file'[b] = file[b] \/ file'[b] = Nobody
    BY <1>0, <2>1 DEF recorded, CloudTypeOK, Row
  <2>3. /\ \A v \in Workers : v # w => thread'[v] = thread[v] /\ proc'[v] = proc[v]
        /\ thread'[w].of = b /\ thread'[w].restarts = thread[w].restarts /\ thread'[w].stop = thread[w].stop
        /\ proc'[w] = "alive" => proc[w] = "alive"
    BY <1>0, <2>1 DEF CloudTypeOK, Thread
  <2>4. Serving(w)
    BY <1>1 DEF WorkerCheck, Serving
  <2>5. QED BY <2>1, <2>2, <2>3, <2>4
<1>2. CASE WorkerTell(w)
  BY <1>0, <1>2 DEF WorkerTell, WorkerGoto, CloudTypeOK, Thread, Serving
<1>3. CASE WorkerRemove(w)
  <2>1. proc[w] = "none" /\ proc'[w] = "none"
    BY <1>3 DEF WorkerRemove, ServerIsSound, WorkersAreSound
  <2>2. thread'[w] = Ended
    BY <1>3 DEF WorkerRemove, CloudTypeOK
  <2>3. ~Serving(w)'
    BY <2>2 DEF Serving, Ended
  <2>4. QED BY <1>3, <2>1, <2>3 DEF WorkerRemove, CloudTypeOK
<1>4. CASE Exit(w)
  BY <1>4 DEF Exit, CloudTypeOK, Serving
<1>5. QED BY <1>1, <1>2, <1>3, <1>4

\* A step of a worker, and the exit of its process, keep what holds of the
\* whole server.
LEMMA WorkerStepServer ==
    ASSUME CloudTypeOK, CloudTypeOK', ServerIsSound, NEW w \in Workers, WorkerStep(w) \/ Exit(w)
    PROVE  ServerIsSound'
<1> DEFINE b == thread[w].of
<1>0. /\ b \in Broadcasts /\ thread[w] \in Thread /\ Mine(w, b)
      /\ \A d \in Broadcasts : entry[d] # Nobody => Mine(entry[d], d)
      /\ \A d \in Broadcasts : file[d] # Nobody => Mine(file[d], d)
      /\ \A c \in Callers : call[c].w # Nobody =>
             call[c].pc \in {"save", "insert", "join"} /\ Mine(call[c].w, call[c].of)
  BY DEF CloudTypeOK, Thread, Mine, ServerIsSound, NamesAreRight
<1> HIDE DEF b
<1>1. CASE WorkerCheck(w) \/ WorkerTell(w) \/ WorkerRemove(w) \/ Exit(w)
  <2>1. /\ \A v \in Workers : v # w => thread'[v] = thread[v] /\ proc'[v] = proc[v]
        /\ \A d \in Broadcasts : (entry'[d] = entry[d] \/ entry'[d] = Nobody)
                                 /\ (file'[d] = file[d] \/ file'[d] = Nobody)
        /\ Serving(w)' => Serving(w) /\ thread'[w].of = b /\ thread'[w].restarts = thread[w].restarts
        /\ proc'[w] = "alive" => proc[w] = "alive" /\ thread'[w].of = b
        /\ UNCHANGED <<call, pass, server>>
    <3>1. WorkerGoes(w, b)
      BY <1>0, <1>1, WorkerStepIs DEF b
    <3>2. QED BY <1>0, <3>1 DEF WorkerGoes
  <2>2. \A v \in Workers : Busy(v)' => Busy(v) /\ thread'[v].of = thread[v].of
    BY <2>1 DEF Busy, Serving, b
  <2>3. NamesAreRight'
    BY <1>0, <2>1, <2>2, NamesFrame
  <2>4. WorkersAreSound'
    <3>1. thread'[w].pc \in {"tell", "remove"} => proc'[w] = "none"
      BY <1>0, <1>1 DEF WorkerCheck, StopEngine, WorkerGoto, WorkerTell, WorkerRemove, Exit, Ended,
                        CloudTypeOK, Thread, ServerIsSound, WorkersAreSound
    <3>2. thread'[w].pc \in {"start", "check", "tick"} => thread[w].pc \in {"start", "check", "tick"}
      BY <1>0, <1>1 DEF WorkerCheck, WorkerGoto, WorkerTell, WorkerRemove, Exit, Ended, CloudTypeOK, Thread
    <3>3. thread'[w].pc \in {"start", "check", "tick"} => thread'[w].restarts <= MaxRestarts
      BY <2>1, <3>2 DEF Serving, ServerIsSound, WorkersAreSound
    <3>4. QED BY <2>1, <3>1, <3>3 DEF ServerIsSound, WorkersAreSound
  <2>5. CallsAreSound' /\ PhasesAreSound'
    BY <2>1 DEF ServerIsSound, CallsAreSound, PhasesAreSound, Serving
  <2>7. LaunchesAreSound'
    <3>1. thread'[w].pc = "start" \/ thread[w].pc = "start" => thread'[w] = thread[w]
      BY <1>0, <1>1 DEF WorkerCheck, WorkerGoto, WorkerTell, WorkerRemove, Exit, Ended, CloudTypeOK, Thread
    <3>2. QED BY <2>1, <3>1, LaunchesFrame DEF ServerIsSound
  <2>6. QED BY <2>3, <2>4, <2>5, <2>7 DEF ServerIsSound
<1>2. ASSUME NEW due \in BOOLEAN, NEW launched \in BOOLEAN, WorkerTick(w, due, launched)
      PROVE  ServerIsSound'
  <2>1. /\ thread[w].pc = "tick" /\ thread'[w].pc = "save" /\ thread'[w].of = b
        /\ \A v \in Workers : v # w => thread'[v] = thread[v] /\ proc'[v] = proc[v]
        /\ UNCHANGED <<entry, file, call, pass, server>>
    <3>1. TickGoes(w, b)
      BY <1>0, <1>2, TickIs DEF b
    <3>2. QED BY <3>1 DEF TickGoes
  <2>2. \A v \in Workers : Busy(v)' => Busy(v) /\ thread'[v].of = thread[v].of
    BY <2>1 DEF Busy, Serving, b
  <2>3. NamesAreRight'
    BY <1>0, <2>1, <2>2, NamesFrame
  <2>4. WorkersAreSound'
    BY <2>1 DEF ServerIsSound, WorkersAreSound
  <2>5. CallsAreSound' /\ PhasesAreSound'
    BY <2>1 DEF ServerIsSound, CallsAreSound, PhasesAreSound, Serving
  <2>6. LaunchesAreSound'
    BY <2>1, LaunchesFrame DEF ServerIsSound
  <2>7. QED BY <2>3, <2>4, <2>5, <2>6 DEF ServerIsSound
<1>4. ASSUME NEW played \in BOOLEAN, WorkerSave(w, played)
      PROVE  ServerIsSound'
  <2>1. /\ thread[w].pc = "save" /\ thread'[w].of = b
        /\ \A v \in Workers : v # w => thread'[v] = thread[v] /\ proc'[v] = proc[v]
        /\ thread'[w].pc \in {"check", "tell"}
        /\ thread'[w].pc = "tell" => proc'[w] = "none"
        /\ thread'[w].pc = "check" => thread'[w].restarts <= MaxRestarts
        /\ file'[b] = w \/ file'[b] = Nobody
        /\ \A d \in Broadcasts : d # b => file'[d] = file[d]
        /\ UNCHANGED <<entry, call, pass, server>>
    <3>1. SaveGoes(w, b)
      BY <1>0, <1>4, SaveIs DEF b
    <3>2. QED BY <3>1 DEF SaveGoes
  <2>2. \A v \in Workers : Busy(v)' => Busy(v) /\ thread'[v].of = thread[v].of
    BY <2>1 DEF Busy, Serving, b
  <2>3. \A d \in Broadcasts : file'[d] # Nobody => Mine(file'[d], d)
    BY <1>0, <2>1
  <2>4. NamesAreRight'
    BY <1>0, <2>1, <2>2, <2>3, NamesFrame
  <2>5. WorkersAreSound'
    BY <2>1 DEF ServerIsSound, WorkersAreSound
  <2>6. CallsAreSound' /\ PhasesAreSound'
    BY <2>1 DEF ServerIsSound, CallsAreSound, PhasesAreSound, Serving
  <2>7. LaunchesAreSound'
    BY <2>1, LaunchesFrame DEF ServerIsSound
  <2>8. QED BY <2>4, <2>5, <2>6, <2>7 DEF ServerIsSound
<1>3. QED BY <1>1, <1>2, <1>4 DEF WorkerStep

\* Such a step is about the broadcast of the worker.
LEMMA WorkerStepFrame ==
    ASSUME CloudTypeOK, ServerIsSound, NEW w \in Workers, WorkerStep(w) \/ Exit(w),
           NEW b \in Broadcasts, b # thread[w].of
    PROVE  Stays(b)
<1> DEFINE a == thread[w].of
<1>0. a \in Broadcasts /\ b # a
  BY DEF CloudTypeOK, Thread
<1> HIDE DEF a
<1>1. /\ \A v \in Workers : v # w => thread'[v] = thread[v] /\ proc'[v] = proc[v]
      /\ rows'[b] = rows[b] /\ file'[b] = file[b] /\ entry'[b] = entry[b]
      /\ Serving(w)' \/ proc'[w] = "alive" => thread'[w].of = a
      /\ UNCHANGED <<call, pass, server, dark>>
  <2>1. CASE WorkerCheck(w) \/ WorkerTell(w) \/ WorkerRemove(w) \/ Exit(w)
    <3>1. WorkerGoes(w, a)
      BY <1>0, <2>1, WorkerStepIs DEF a
    <3>2. QED BY <1>0, <3>1 DEF WorkerGoes
  <2>2. ASSUME NEW due \in BOOLEAN, NEW launched \in BOOLEAN, WorkerTick(w, due, launched)
        PROVE  /\ \A v \in Workers : v # w => thread'[v] = thread[v] /\ proc'[v] = proc[v]
               /\ rows'[b] = rows[b] /\ file'[b] = file[b] /\ entry'[b] = entry[b]
               /\ thread'[w].of = a
               /\ UNCHANGED <<call, pass, server, dark>>
    <3>1. TickGoes(w, a)
      BY <1>0, <2>2, TickIs DEF a
    <3>2. QED BY <1>0, <3>1 DEF TickGoes
  <2>4. ASSUME NEW played \in BOOLEAN, WorkerSave(w, played)
        PROVE  /\ \A v \in Workers : v # w => thread'[v] = thread[v] /\ proc'[v] = proc[v]
               /\ rows'[b] = rows[b] /\ file'[b] = file[b] /\ entry'[b] = entry[b]
               /\ thread'[w].of = a
               /\ UNCHANGED <<call, pass, server, dark>>
    <3>1. SaveGoes(w, a)
      BY <1>0, <2>4, SaveIs DEF a
    <3>2. QED BY <1>0, <3>1 DEF SaveGoes
  <2>3. QED BY <2>1, <2>2, <2>4 DEF WorkerStep
<1>2. CallsOn(b)' = CallsOn(b)
  BY <1>1 DEF CallsOn
<1>3. \A v \in Workers : v \in Servers(b) \cup Senders(b) \/ v \in (Servers(b) \cup Senders(b))' => v # w
  BY <1>0, <1>1 DEF Servers, Senders, a
<1>4. QED BY <1>1, <1>3 DEF Stays

\* A worker of a broadcast is its only one; the map names it or a call holds it.
LEMMA TheWorker ==
    ASSUME CloudTypeOK, ServerIsSound, NEW b \in Broadcasts, BroadcastIsSound(b),
           NEW w \in Workers, Serving(w), thread[w].of = b
    PROVE  /\ Servers(b) = {w} /\ \A v \in Senders(b) : v = w
           /\ \A c \in CallsOn(b) : /\ CallsOn(b) = {c}
                                    /\ call[c].pc \in {"save", "insert", "join"} \/ entry[b] = w
                                    /\ call[c].pc \in {"save", "insert", "join"} => call[c].w = w
                                    /\ call[c].pc \notin {"clean", "launch", "undo", "record", "after", "delete"}
           /\ CallsOn(b) = {} => entry[b] = w
<1>1. w \in Servers(b)
  BY DEF Servers
<1>2. Servers(b) = {w} /\ \A v \in Senders(b) : v = w
  BY <1>1 DEF BroadcastIsSound, Alone
<1>3. ASSUME NEW c \in CallsOn(b) PROVE CallsOn(b) = {c}
  BY <1>3 DEF BroadcastIsSound, OneCall
<1>4. entry[b] = w \/ \E c \in CallsOn(b) : call[c].w = w
  BY <1>1 DEF BroadcastIsSound, Held
<1>5. ASSUME NEW c \in CallsOn(b)
      PROVE  /\ call[c].pc \in {"save", "insert", "join"} \/ call[c].w = Nobody
             /\ call[c].pc \in {"clean", "launch", "save", "insert", "undo",
                                "join", "record", "after", "delete"} => entry[b] = Nobody
  BY DEF CallsOn, ServerIsSound, NamesAreRight, BroadcastIsSound, CallStands
<1>6. w # Nobody
  OBVIOUS
<1>7. QED BY <1>2, <1>3, <1>4, <1>5, <1>6

\* A worker reads the stop or the intent, and leaves its loop or stays in it.
LEMMA WorkerCheckStep ==
    ASSUME CloudTypeOK, CloudTypeOK', ServerIsSound, NEW w \in Workers, WorkerCheck(w),
           NEW b \in Broadcasts, b = thread[w].of, BroadcastIsSound(b)
    PROVE  BroadcastIsSound(b)'
<1>0. thread[w] \in Thread /\ thread[w].pc = "check" /\ Serving(w)
  BY DEF CloudTypeOK, WorkerCheck, Serving
<1>1. WorkerGoes(w, b)
  BY WorkerStepIs
<1>2. /\ Servers(b) = {w} /\ \A v \in Senders(b) : v = w
      /\ \A c \in CallsOn(b) : /\ CallsOn(b) = {c}
                               /\ call[c].pc \in {"save", "insert", "join"} \/ entry[b] = w
                               /\ call[c].pc \in {"save", "insert", "join"} => call[c].w = w
                               /\ call[c].pc \notin {"clean", "launch", "undo", "record", "after", "delete"}
      /\ CallsOn(b) = {} => entry[b] = w
  BY <1>0, TheWorker
<1>3. UNCHANGED <<call, entry, server, pass, dark>> /\ rows'[b].desired = rows[b].desired
  BY <1>1 DEF WorkerGoes, WorkerCheck
<1>4. /\ \/ thread'[w].pc = "remove" /\ (thread[w].stop \/ rows[b].desired # "running") /\ proc'[w] # "alive"
         \/ thread'[w].pc = "tick" /\ proc'[w] = proc[w] /\ file'[b] = file[b]
      /\ thread'[w].of = b /\ thread'[w].stop = thread[w].stop
  BY <1>0 DEF WorkerCheck, WorkerGoto, StopEngine, CloudTypeOK, Thread
<1>5. Servers(b)' = {w} /\ \A v \in Senders(b)' : v \in Senders(b)
  BY <1>0, <1>1, <1>2, <1>4 DEF WorkerGoes, Servers, Senders, Serving
<1>6. CallsOn(b)' = CallsOn(b) /\ (Exists(b)' <=> Exists(b))
  BY <1>3 DEF CallsOn, Exists
<1>7. Alone(b)' /\ OneCall(b)'
  BY <1>2, <1>5, <1>6 DEF Alone, OneCall
<1>8. OnFile(b)'
  <2>1. ASSUME Exists(b), NEW v \in Senders(b)' PROVE file'[b] = v
    <3>1. v = w /\ v \in Senders(b) /\ proc'[w] = "alive"
      BY <1>2, <1>5, <2>1 DEF Senders
    <3>2. file'[b] = file[b]
      BY <1>4, <3>1
    <3>3. file[b] = w
      BY <1>0, <2>1, <3>1 DEF BroadcastIsSound, OnFile
    <3>4. QED BY <3>1, <3>2, <3>3
  <2>2. QED BY <1>6, <2>1 DEF OnFile
<1>9. Held(b)' /\ EntryServes(b)'
  BY <1>2, <1>3, <1>4, <1>5, <1>6 DEF BroadcastIsSound, Held, EntryServes
<1>10. IsServed(b)'
  BY <1>3, <1>6 DEF BroadcastIsSound, IsServed, Untouched, Wanted
<1>11. CASE thread'[w].pc = "tick"
  <2>1. CallStands(b)'
    BY <1>2, <1>3, <1>4, <1>5, <1>6, <1>11 DEF BroadcastIsSound, CallStands
  <2>2. LoopIsWanted(b)' /\ EndIsMeant(b)'
    BY <1>0, <1>2, <1>3, <1>5, <1>6, <1>11 DEF BroadcastIsSound, LoopIsWanted, EndIsMeant
  <2>3. QED BY <1>7, <1>8, <1>9, <1>10, <2>1, <2>2 DEF BroadcastIsSound
<1>12. CASE thread'[w].pc # "tick"
  <2>1. thread'[w].pc = "remove" /\ (thread[w].stop \/ rows[b].desired # "running")
    BY <1>4, <1>12
  <2>2. \A c \in CallsOn(b) : call[c].pc \notin {"save", "insert"}
    <3>1. \A c \in CallsOn(b) : call[c].pc # "insert"
      BY <1>2, <2>1 DEF BroadcastIsSound, CallStands
    <3>2. \A c \in CallsOn(b) : call[c].pc # "save"
      BY <1>0, <1>2 DEF ServerIsSound, LaunchesAreSound, CallsOn
    <3>3. QED BY <3>1, <3>2
  <2>3. CallStands(b)'
    BY <1>2, <1>3, <1>6, <2>2 DEF BroadcastIsSound, CallStands
  <2>4. LoopIsWanted(b)'
    BY <1>5, <2>1 DEF LoopIsWanted
  <2>5. \/ \E c \in CallsOn(b) : call[c].pc = "join" /\ call[c].w = w
        \/ /\ rows[b].desired # "running"
           /\ \A c \in CallsOn(b) : call[c].pc = "halt" /\ call[c].op \in {"stop", "delete"}
    <3>1. CASE thread[w].stop
      <4>1. entry[b] # w
        BY <3>1 DEF BroadcastIsSound, EntryServes
      <4>2. QED BY <1>2, <2>2, <4>1
    <3>2. CASE rows[b].desired # "running"
      <4>1. \E c \in CallsOn(b) : call[c].op \in {"stop", "delete"} /\ call[c].pc \in {"halt", "join"}
        BY <1>0, <1>2, <3>2 DEF BroadcastIsSound, LoopIsWanted
      <4>2. QED BY <1>2, <3>2, <4>1
    <3>3. QED BY <2>1, <3>1, <3>2
  <2>6. EndIsMeant(b)'
    BY <1>3, <1>5, <1>6, <2>5 DEF EndIsMeant
  <2>7. QED BY <1>7, <1>8, <1>9, <1>10, <2>3, <2>4, <2>6 DEF BroadcastIsSound
<1>13. QED BY <1>11, <1>12

\* A tick may relaunch the process, which is not on file yet.
LEMMA WorkerTickStep ==
    ASSUME CloudTypeOK, CloudTypeOK', ServerIsSound, NEW w \in Workers, NEW b \in Broadcasts,
           b = thread[w].of, TickGoes(w, b), BroadcastIsSound(b)
    PROVE  BroadcastIsSound(b)'
<1>0. thread[w] \in Thread /\ thread[w].pc = "tick" /\ thread'[w].pc = "save" /\ Serving(w)
  BY DEF CloudTypeOK, TickGoes, Serving
<1>1. thread'[w].stop = thread[w].stop /\ UNCHANGED <<rows, call, entry, file, server, pass, dark>>
  BY DEF TickGoes
<1>2. /\ Servers(b) = {w} /\ \A v \in Senders(b) : v = w
      /\ \A c \in CallsOn(b) : /\ CallsOn(b) = {c}
                               /\ call[c].pc \in {"save", "insert", "join"} \/ entry[b] = w
                               /\ call[c].pc \in {"save", "insert", "join"} => call[c].w = w
                               /\ call[c].pc \notin {"clean", "launch", "undo", "record", "after", "delete"}
      /\ CallsOn(b) = {} => entry[b] = w
  BY <1>0, TheWorker
<1>3. Servers(b)' = {w} /\ \A v \in Senders(b)' : v = w
  BY <1>2 DEF TickGoes, Servers, Senders, Serving
<1>4. CallsOn(b)' = CallsOn(b)
  BY <1>1 DEF CallsOn
<1>5. Alone(b)' /\ OneCall(b)' /\ OnFile(b)'
  BY <1>0, <1>2, <1>3, <1>4 DEF Alone, OneCall, OnFile
<1>6. Held(b)' /\ EntryServes(b)'
  BY <1>1, <1>2, <1>3, <1>4 DEF BroadcastIsSound, Held, EntryServes
<1>7. CallStands(b)'
  <2>1. CallStands(b)
    BY DEF BroadcastIsSound
  <2>2. \A c \in CallsOn(b) : (call[c].pc = "insert" => call[c].w = w) /\ call[c].pc # "launch"
    BY <1>2
  <2>3. QED BY <1>0, <1>1, <1>3, <1>4, <2>1, <2>2 DEF CallStands
<1>8. LoopIsWanted(b)' /\ EndIsMeant(b)'
  BY <1>0, <1>1, <1>2, <1>3, <1>4 DEF BroadcastIsSound, LoopIsWanted, EndIsMeant
<1>9. IsServed(b)'
  BY <1>1, <1>4 DEF BroadcastIsSound, IsServed, Untouched, Wanted
<1>10. QED BY <1>5, <1>6, <1>7, <1>8, <1>9 DEF BroadcastIsSound

\* What is on file is then the process, and a broadcast is ended on which there
\* is no call.
LEMMA WorkerSaveStep ==
    ASSUME CloudTypeOK, CloudTypeOK', ServerIsSound, NEW w \in Workers, NEW b \in Broadcasts,
           b = thread[w].of, SaveGoes(w, b), BroadcastIsSound(b), b \notin raced'
    PROVE  BroadcastIsSound(b)'
<1>0. thread[w] \in Thread /\ thread[w].pc = "save" /\ Serving(w)
  BY DEF CloudTypeOK, SaveGoes, Serving
<1>2. /\ Servers(b) = {w} /\ \A v \in Senders(b) : v = w
      /\ \A c \in CallsOn(b) : /\ CallsOn(b) = {c}
                               /\ call[c].pc \in {"save", "insert", "join"} \/ entry[b] = w
                               /\ call[c].pc \in {"save", "insert", "join"} => call[c].w = w
                               /\ call[c].pc \notin {"clean", "launch", "undo", "record", "after", "delete"}
      /\ CallsOn(b) = {} => entry[b] = w
  BY <1>0, TheWorker
<1>3. UNCHANGED <<call, entry, server, pass, dark>>
  BY DEF SaveGoes
<1>4. Servers(b)' = {w} /\ \A v \in Senders(b)' : v = w
  BY <1>2 DEF SaveGoes, Servers, Senders, Serving
<1>5. CallsOn(b)' = CallsOn(b)
  BY <1>3 DEF CallsOn
<1>6. Alone(b)' /\ OneCall(b)'
  BY <1>2, <1>4, <1>5 DEF Alone, OneCall
<1>7. OnFile(b)'
  BY <1>4 DEF OnFile, SaveGoes, Senders
<1>8. Held(b)' /\ EntryServes(b)'
  BY <1>2, <1>3, <1>4, <1>5 DEF BroadcastIsSound, Held, EntryServes, SaveGoes
<1>9. CASE thread'[w].pc = "check"
  <2>1. rows'[b].desired = rows[b].desired
    BY <1>9 DEF SaveGoes
  <2>2. CallStands(b)'
    <3>1. CallStands(b)
      BY DEF BroadcastIsSound
    <3>2. thread'[w].stop = thread[w].stop
      BY DEF SaveGoes
    <3>3. \A c \in CallsOn(b) : call[c].pc = "insert" => call[c].w = w
      BY <1>2
    <3>4. \A c \in CallsOn(b) : call[c].pc # "launch"
      BY <1>2
    <3>5. QED BY <1>3, <1>4, <1>5, <1>9, <2>1, <3>1, <3>2, <3>3, <3>4 DEF CallStands
  <2>3. LoopIsWanted(b)' /\ EndIsMeant(b)'
    BY <1>0, <1>2, <1>3, <1>4, <1>5, <1>9, <2>1 DEF BroadcastIsSound, LoopIsWanted, EndIsMeant
  <2>4. IsServed(b)'
    BY <1>3, <1>5, <2>1 DEF BroadcastIsSound, IsServed, Untouched, Wanted
  <2>5. QED BY <1>6, <1>7, <1>8, <2>2, <2>3, <2>4 DEF BroadcastIsSound
<1>10. CASE thread'[w].pc = "tell"
  <2>1. CallsOn(b) = {} /\ rows'[b].desired # "running"
    BY <1>10 DEF SaveGoes
  <2>2. CallStands(b)' /\ LoopIsWanted(b)' /\ EndIsMeant(b)'
    BY <1>4, <1>5, <1>10, <2>1 DEF CallStands, LoopIsWanted, EndIsMeant
  <2>3. IsServed(b)'
    BY <1>2, <1>3, <2>1 DEF BroadcastIsSound, IsServed, Wanted
  <2>4. QED BY <1>6, <1>7, <1>8, <2>2, <2>3 DEF BroadcastIsSound
<1>11. QED BY <1>9, <1>10 DEF SaveGoes

\* YouTube is told, the entry is removed, or the process exits.
LEMMA WorkerEndSteps ==
    ASSUME CloudTypeOK, CloudTypeOK', ServerIsSound, NEW w \in Workers,
           WorkerTell(w) \/ WorkerRemove(w) \/ Exit(w),
           NEW b \in Broadcasts, b = thread[w].of, BroadcastIsSound(b)
    PROVE  BroadcastIsSound(b)'
<1>0. thread[w] \in Thread
  BY DEF CloudTypeOK
<1>1. WorkerGoes(w, b)
  BY WorkerStepIs
<1>2. UNCHANGED <<rows, file, call, server, pass, dark>>
  BY DEF WorkerTell, WorkerRemove, Exit
<1>3. CallsOn(b)' = CallsOn(b) /\ (Exists(b)' <=> Exists(b)) /\ OneCall(b)'
  BY <1>2 DEF CallsOn, Exists, BroadcastIsSound, OneCall
<1>4. \A v \in Senders(b)' : v \in Senders(b)
  BY <1>1 DEF WorkerGoes, Senders
<1>5. OnFile(b)'
  <2>1. \A v \in Senders(b)' : thread[v].pc \in {"start", "save"} => thread'[v].pc = thread[v].pc
    BY <1>0 DEF WorkerTell, WorkerRemove, Exit, WorkerGoto, Senders, CloudTypeOK, Thread, Ended
  <2>2. QED BY <1>2, <1>3, <1>4, <2>1 DEF BroadcastIsSound, OnFile
<1>6. CASE WorkerTell(w) \/ Exit(w)
  <2>1. /\ \A v \in Workers : /\ thread'[v].of = thread[v].of /\ thread'[v].stop = thread[v].stop
                              /\ \/ thread'[v].pc = thread[v].pc
                                 \/ thread[v].pc = "tell" /\ thread'[v].pc = "remove"
        /\ entry' = entry
    BY <1>6 DEF WorkerTell, WorkerGoto, Exit, CloudTypeOK, Thread
  <2>2. Servers(b)' = Servers(b)
    BY <2>1 DEF Servers, Serving
  <2>3. Alone(b)' /\ Held(b)' /\ EntryServes(b)'
    BY <1>2, <1>3, <1>4, <2>1, <2>2 DEF BroadcastIsSound, Alone, Held, EntryServes, Servers
  <2>4. CallStands(b)'
    BY <1>2, <1>3, <1>4, <2>1, <2>2 DEF BroadcastIsSound, CallStands, Servers
  <2>5. LoopIsWanted(b)' /\ EndIsMeant(b)'
    BY <1>2, <1>3, <2>1, <2>2 DEF BroadcastIsSound, LoopIsWanted, EndIsMeant, Servers
  <2>6. IsServed(b)'
    BY <1>2, <1>3, <2>1 DEF BroadcastIsSound, IsServed, Untouched, Wanted
  <2>7. QED BY <1>3, <1>5, <2>3, <2>4, <2>5, <2>6 DEF BroadcastIsSound
<1>7. CASE WorkerRemove(w)
  <2>1. thread[w].pc = "remove" /\ Serving(w) /\ entry'[b] = Nobody /\ ~Serving(w)'
    BY <1>7 DEF WorkerRemove, Serving, CloudTypeOK, Ended
  <2>2. Servers(b) = {w} /\ (CallsOn(b) = {} \/ \E c \in CallsOn(b) : CallsOn(b) = {c})
    BY <2>1, TheWorker
  <2>3. Servers(b)' = {}
    BY <1>1, <2>1, <2>2 DEF WorkerGoes, Servers, Serving
  <2>4. \/ \E c \in CallsOn(b) : call[c].pc = "join" /\ call[c].w = w
        \/ /\ rows[b].desired # "running"
           /\ \A c \in CallsOn(b) : call[c].pc = "halt" /\ call[c].op \in {"stop", "delete"}
    BY <2>1, <2>2 DEF BroadcastIsSound, EndIsMeant
  <2>5. Alone(b)' /\ Held(b)' /\ EntryServes(b)' /\ LoopIsWanted(b)' /\ EndIsMeant(b)'
    BY <1>4, <2>1, <2>3 DEF BroadcastIsSound, Alone, Held, EntryServes, LoopIsWanted, EndIsMeant
  <2>6. \A c \in CallsOn(b) : call[c].pc \in {"join", "halt"}
    BY <2>2, <2>4
  <2>7. CallStands(b)'
    BY <1>2, <1>3, <2>1, <2>6 DEF BroadcastIsSound, CallStands
  <2>8. IsServed(b)'
    <3>1. CASE rows[b].desired # "running"
      BY <1>2, <2>1, <3>1 DEF BroadcastIsSound, IsServed, Wanted
    <3>2. CASE \E c \in CallsOn(b) : call[c].pc = "join"
      <4>1. server = "up"
        BY <3>2 DEF ServerIsSound, PhasesAreSound, CallsOn
      <4>2. \E c \in CallsOn(b)' : ~Untouched(c)'
        BY <1>2, <1>3, <3>2 DEF Untouched
      <4>3. QED BY <1>2, <4>1, <4>2 DEF IsServed
    <3>3. QED BY <2>4, <3>1, <3>2
  <2>9. QED BY <1>3, <1>5, <2>5, <2>7, <2>8 DEF BroadcastIsSound
<1>8. QED BY <1>6, <1>7

\* A step of a worker keeps what holds of every broadcast that is not raced.
LEMMA WorkerStepBroadcasts ==
    ASSUME CloudTypeOK, CloudTypeOK', ServerIsSound, NEW w \in Workers, WorkerStep(w) \/ Exit(w),
           NEW b \in Broadcasts, b \notin raced', BroadcastIsSound(b)
    PROVE  BroadcastIsSound(b)'
<1>1. CASE b # thread[w].of
  BY <1>1, WorkerStepFrame, Frame
<1>2. CASE b = thread[w].of
  <2>1. CASE WorkerCheck(w)
    BY <1>2, <2>1, WorkerCheckStep
  <2>2. ASSUME NEW due \in BOOLEAN, NEW launched \in BOOLEAN, WorkerTick(w, due, launched)
        PROVE  BroadcastIsSound(b)'
    <3>1. TickGoes(w, b)
      BY <1>2, <2>2, TickIs
    <3>2. QED BY <1>2, <3>1, WorkerTickStep
  <2>5. ASSUME NEW played \in BOOLEAN, WorkerSave(w, played) PROVE BroadcastIsSound(b)'
    <3>1. SaveGoes(w, b)
      BY <1>2, <2>5, SaveIs
    <3>2. QED BY <1>2, <3>1, WorkerSaveStep
  <2>3. CASE WorkerTell(w) \/ WorkerRemove(w) \/ Exit(w)
    BY <1>2, <2>3, WorkerEndSteps
  <2>4. QED BY <2>1, <2>2, <2>3, <2>5 DEF WorkerStep
<1>3. QED BY <1>1, <1>2

-----------------------------------------------------------------------------
(* What begins an operation *)

\* The beginning of an operation keeps what holds of the whole server ...
LEMMA BeginServer ==
    ASSUME CloudTypeOK, CloudTypeOK', ServerIsSound, NEW c \in Callers, NEW op \in Operation,
           NEW b \in Broadcasts, Begin(c, op, b), pass'.kind = pass.kind
    PROVE  ServerIsSound'
<1>1. /\ UNCHANGED <<entry, thread, proc, file, server>> /\ server = "up"
      /\ \A d \in Callers : d # c => call'[d] = call[d]
      /\ call'[c] = [pc |-> IF op = "start" THEN "subscription" ELSE "release", op |-> op, of |-> b, w |-> Nobody]
  BY DEF Begin, CloudTypeOK
<1>2. NamesAreRight'
  <2>1. \A w \in Workers : Busy(w)' => Busy(w) /\ thread'[w].of = thread[w].of
    BY <1>1 DEF Busy, Serving
  <2>2. QED BY <1>1, <2>1, NamesFrame DEF ServerIsSound, NamesAreRight
<1>3. WorkersAreSound'
  BY <1>1 DEF ServerIsSound, WorkersAreSound
<1>4. CallsAreSound'
  BY <1>1 DEF ServerIsSound, CallsAreSound, Operation
<1>5. PhasesAreSound'
  BY <1>1 DEF ServerIsSound, PhasesAreSound
<1>7. LaunchesAreSound'
  <2>1. call[c].pc = "idle" /\ call'[c].pc # "save" /\ call'[c].w = Nobody
    BY <1>1 DEF Begin
  <2>2. QED BY <1>1, <2>1, LaunchesFrame DEF ServerIsSound
<1>6. QED BY <1>2, <1>3, <1>4, <1>5, <1>7 DEF ServerIsSound

\* ... and of every broadcast on which nothing else was under way.
LEMMA BeginBroadcasts ==
    ASSUME CloudTypeOK, CloudTypeOK', ServerIsSound, NEW c \in Callers, NEW op \in Operation,
           NEW a \in Broadcasts, Begin(c, op, a),
           NEW b \in Broadcasts, b \notin raced', BroadcastIsSound(b)
    PROVE  BroadcastIsSound(b)'
<1>1. /\ UNCHANGED <<rows, entry, thread, proc, file, server, dark>> /\ server = "up" /\ call[c].pc = "idle"
      /\ \A d \in Callers : d # c => call'[d] = call[d]
      /\ call'[c] = [pc |-> IF op = "start" THEN "subscription" ELSE "release", op |-> op, of |-> a, w |-> Nobody]
  BY DEF Begin, CloudTypeOK
<1>2. CASE b # a
  <2>1. Stays(b)
    BY <1>1, <1>2 DEF Stays, CallsOn, Servers, Senders, Serving
  <2>2. QED BY <2>1, Frame
<1>3. CASE b = a
  <2>1. CallsOn(b) = {} /\ ~Ending(b)
    BY <1>3 DEF Begin
  <2>2. /\ CallsOn(b)' = {c} /\ Untouched(c)' /\ call'[c].op = op
        /\ call'[c].pc = (IF op = "start" THEN "subscription" ELSE "release")
    <3>1. \A d \in Callers : d # c => d \notin CallsOn(b)'
      BY <1>1, <2>1 DEF CallsOn
    <3>2. c \in CallsOn(b)'
      BY <1>1, <1>3 DEF CallsOn
    <3>3. QED BY <1>1, <3>1, <3>2 DEF CallsOn, Untouched
  <2>3. Servers(b)' = Servers(b) /\ Senders(b)' = Senders(b)
    BY <1>1 DEF Servers, Senders, Serving
  <2>4. OneCall(b)' /\ Alone(b)' /\ OnFile(b)'
    BY <1>1, <2>2, <2>3 DEF BroadcastIsSound, OneCall, Alone, OnFile, Exists
  <2>5. Held(b)' /\ EntryServes(b)'
    BY <1>1, <2>1, <2>3 DEF BroadcastIsSound, Held, EntryServes
  <2>6. CallStands(b)'
    BY <2>2 DEF CallStands
  <2>7. LoopIsWanted(b)' /\ EndIsMeant(b)'
    BY <1>1, <2>1, <2>3 DEF BroadcastIsSound, LoopIsWanted, EndIsMeant, Ending, Servers
  <2>8. IsServed(b)'
    BY <1>1, <2>1 DEF BroadcastIsSound, IsServed, Wanted
  <2>9. QED BY <2>4, <2>5, <2>6, <2>7, <2>8 DEF BroadcastIsSound
<1>4. QED BY <1>2, <1>3

-----------------------------------------------------------------------------
(* The server *)

\* A step that only lays out a pass of the scheduler, or changes who has paid.
LEMMA PassSteps ==
    ASSUME CloudTypeOK, CloudTypeOK', ServerIsSound,
           \/ ResumeHeldBack \/ ExpireLapsed \/ (PassStep /\ PassOver)
           \/ \E u \in Users, on \in BOOLEAN : Subscribe(u, on)
    PROVE  /\ ServerIsSound' /\ raced' = raced
           /\ \A b \in Broadcasts : BroadcastIsSound(b) => BroadcastIsSound(b)'
<1>1. UNCHANGED <<rows, entry, thread, proc, file, call, server, raced, dark>>
  BY DEF ResumeHeldBack, ExpireLapsed, PassStep, Subscribe
<1>2. /\ server = "boot" => pass' = pass
      /\ server # "boot" => pass'.kind # "recover"
  BY DEF ResumeHeldBack, ExpireLapsed, PassStep, Subscribe, SchedulerFree, NoPass, ServerIsSound,
         PhasesAreSound
<1>3. ServerIsSound'
  <2>1. NamesAreRight' /\ WorkersAreSound' /\ LaunchesAreSound' /\ CallsAreSound'
    BY <1>1 DEF ServerIsSound, NamesAreRight, WorkersAreSound, LaunchesAreSound, CallsAreSound, Mine, Serving
  <2>2. PhasesAreSound'
    BY <1>1, <1>2 DEF ServerIsSound, PhasesAreSound, Serving
  <2>3. QED BY <2>1, <2>2 DEF ServerIsSound
<1>4. ASSUME NEW b \in Broadcasts, BroadcastIsSound(b) PROVE BroadcastIsSound(b)'
  <2>1. Stays(b)
    BY <1>1, <1>2 DEF Stays
  <2>2. QED BY <1>4, <2>1, Frame
<1>5. QED BY <1>1, <1>3, <1>4

\* A server that starts finds processes and rows only, and means to recover
\* every row that wants to run.
LEMMA BootStep ==
    ASSUME CloudTypeOK, CloudTypeOK', ServerIsSound, Boot
    PROVE  /\ ServerIsSound'
           /\ \A b \in Broadcasts : BroadcastIsSound(b) => BroadcastIsSound(b)'
<1>1. /\ UNCHANGED <<rows, entry, thread, proc, file, call, dark>> /\ server = "down" /\ server' = "boot"
      /\ pass'.kind = "recover" /\ pass'.todo = Wanted
  BY DEF Boot
<1>2. /\ \A c \in Callers : call[c].pc = "idle"
      /\ \A b \in Broadcasts : entry[b] = Nobody
      /\ \A w \in Workers : ~Serving(w)
  BY <1>1 DEF ServerIsSound, PhasesAreSound
<1>3. ServerIsSound'
  <2>1. NamesAreRight' /\ WorkersAreSound' /\ LaunchesAreSound' /\ CallsAreSound'
    BY <1>1 DEF ServerIsSound, NamesAreRight, WorkersAreSound, LaunchesAreSound, CallsAreSound, Mine, Serving
  <2>2. PhasesAreSound'
    BY <1>1, <1>2 DEF PhasesAreSound
  <2>3. QED BY <2>1, <2>2 DEF ServerIsSound
<1>4. ASSUME NEW b \in Broadcasts, BroadcastIsSound(b) PROVE BroadcastIsSound(b)'
  <2>1. CallsOn(b)' = {} /\ Servers(b)' = {} /\ Senders(b)' = Senders(b)
    BY <1>1, <1>2 DEF CallsOn, Servers, Senders, Serving
  <2>2. OneCall(b)' /\ Alone(b)' /\ Held(b)' /\ EntryServes(b)' /\ CallStands(b)'
    BY <1>1, <1>2, <1>4, <2>1 DEF BroadcastIsSound, OneCall, Alone, Held, EntryServes, CallStands
  <2>3. OnFile(b)' /\ LoopIsWanted(b)' /\ EndIsMeant(b)'
    BY <1>1, <1>4, <2>1 DEF BroadcastIsSound, OnFile, Exists, LoopIsWanted, EndIsMeant
  <2>4. IsServed(b)'
    BY <1>1, <1>2 DEF IsServed, Wanted
  <2>5. QED BY <2>2, <2>3, <2>4 DEF BroadcastIsSound
<1>5. QED BY <1>3, <1>4

\* The memory of the server goes: what stays of a broadcast is at most a
\* process, and the file that names it.
LEMMA DeathSteps ==
    ASSUME CloudTypeOK, CloudTypeOK', ServerIsSound, Crash \/ Shutdown
    PROVE  /\ ServerIsSound' /\ raced \subseteq raced'
           /\ \A b \in Broadcasts \ raced' : BroadcastIsSound(b) => BroadcastIsSound(b)'
<1>1. PICK left : /\ Die(left)
                  /\ \/ left = Workers /\ UNCHANGED file
                     \/ /\ left = Workers \ {entry[b] : b \in Live}
                        /\ file' = [b \in Broadcasts |-> IF b \in Live THEN Nobody ELSE file[b]]
  BY DEF Crash, Shutdown
<1>2. \A b \in Broadcasts : rows'[b].desired = rows[b].desired
  <2>1. CASE Crash
    BY <2>1 DEF Crash
  <2>2. CASE Shutdown
    <3>1. ASSUME NEW b \in Broadcasts PROVE [rows[b] EXCEPT !.runtime = "Stopped"].desired = rows[b].desired
      BY DEF CloudTypeOK, Row
    <3>2. \A b \in Broadcasts : rows'[b] = rows[b] \/ rows'[b] = [rows[b] EXCEPT !.runtime = "Stopped"]
      BY <2>2 DEF Shutdown
    <3>3. QED BY <3>1, <3>2
  <2>3. QED BY <2>1, <2>2
<1>3. /\ server' = "down" /\ pass' = NoPass /\ raced' = raced \cup Unnamed
      /\ \A b \in Broadcasts : entry'[b] = Nobody
      /\ \A c \in Callers : call'[c] = Idle
  BY <1>1 DEF Die
<1>4. ASSUME NEW w \in Workers
      PROVE  /\ thread'[w].pc = "done"
             /\ proc'[w] = "alive" => proc[w] = "alive" /\ w \in left /\ thread'[w].of = thread[w].of
  <2>1. CASE proc[w] = "alive" /\ w \in left
    <3>1. thread'[w] = [Ended EXCEPT !.of = thread[w].of]
      BY <1>1, <2>1 DEF Die
    <3>2. QED BY <2>1, <3>1 DEF Ended
  <2>2. CASE ~(proc[w] = "alive" /\ w \in left)
    <3>1. thread'[w] = Ended /\ proc'[w] = "none"
      BY <1>1, <2>2 DEF Die
    <3>2. QED BY <3>1 DEF Ended
  <2>3. QED BY <2>1, <2>2
<1>5. \A b \in Broadcasts : file'[b] = file[b] \/ file'[b] = Nobody
  BY <1>1
<1>6. ServerIsSound'
  <2>1. \A w \in Workers : Busy(w)' => Busy(w) /\ thread'[w].of = thread[w].of
    BY <1>4 DEF Busy, Serving
  <2>2. NamesAreRight'
    BY <1>3, <1>5, <2>1, NamesFrame DEF ServerIsSound, NamesAreRight, Idle
  <2>3. WorkersAreSound' /\ LaunchesAreSound' /\ CallsAreSound' /\ PhasesAreSound'
    BY <1>3, <1>4 DEF WorkersAreSound, LaunchesAreSound, CallsAreSound, PhasesAreSound, Serving, Idle, NoPass
  <2>4. QED BY <2>2, <2>3 DEF ServerIsSound
<1>7. ASSUME NEW b \in Broadcasts \ raced', BroadcastIsSound(b) PROVE BroadcastIsSound(b)'
  <2>1. CallsOn(b)' = {} /\ Servers(b)' = {} /\ \A w \in Senders(b)' : w \in Senders(b) /\ w \in left
    BY <1>3, <1>4 DEF CallsOn, Servers, Senders, Serving, Idle
  <2>2. OneCall(b)' /\ Alone(b)' /\ Held(b)' /\ EntryServes(b)' /\ CallStands(b)'
    BY <1>3, <1>7, <2>1 DEF BroadcastIsSound, OneCall, Alone, Held, EntryServes, CallStands
  <2>3. LoopIsWanted(b)' /\ EndIsMeant(b)' /\ IsServed(b)'
    BY <1>3, <2>1 DEF LoopIsWanted, EndIsMeant, IsServed
  <2>4. OnFile(b)'
    <3>1. \A w \in Senders(b) : file[b] = w
      BY <1>3, <1>7 DEF Unnamed
    <3>2. CASE file'[b] = file[b]
      BY <2>1, <3>1, <3>2 DEF OnFile
    <3>3. CASE file'[b] # file[b]
      <4>1. left = Workers \ {entry[d] : d \in Live} /\ b \in Live
        BY <1>1, <3>3
      <4>2. entry[b] \in Servers(b) /\ entry[b] \notin left
        BY <1>7, <4>1 DEF BroadcastIsSound, EntryServes, Live
      <4>3. \A w \in Senders(b) : w = entry[b]
        BY <1>7, <4>2 DEF BroadcastIsSound, Alone
      <4>4. QED BY <2>1, <4>2, <4>3 DEF OnFile
    <3>4. QED BY <3>2, <3>3
  <2>5. QED BY <2>2, <2>3, <2>4 DEF BroadcastIsSound
<1>8. QED BY <1>3, <1>6, <1>7

\* So it is of a server that dies in recovery; what it had just launched has no
\* file.
LEMMA RecoverDeathSteps ==
    ASSUME CloudTypeOK, CloudTypeOK', ServerIsSound, NEW w \in Workers, RecoverDies(w)
    PROVE  /\ ServerIsSound' /\ raced \subseteq raced'
           /\ \A d \in Broadcasts \ raced' : BroadcastIsSound(d) => BroadcastIsSound(d)'
<1>1. PICK b \in Broadcasts : b = NextOf(pass.todo)
  BY NextOfIn DEF RecoverDies, CloudTypeOK
<1>2. /\ server' = "down" /\ pass' = NoPass /\ raced' = raced \cup Unnamed \cup {b}
      /\ w \in FreeWorkers /\ UNCHANGED <<rows, file>>
      /\ \A d \in Broadcasts : entry'[d] = Nobody
      /\ \A c \in Callers : call'[c] = Idle
  BY <1>1 DEF RecoverDies
<1>3. thread'[w].pc = "done" /\ thread'[w].of = b
  <2>1. thread'[w] = [Ended EXCEPT !.of = b]
    BY <1>1 DEF RecoverDies
  <2>2. QED BY <2>1 DEF Ended
<1>4. ASSUME NEW v \in Workers, v # w
      PROVE  /\ thread'[v].pc = "done"
             /\ proc'[v] = "alive" => proc[v] = "alive" /\ thread'[v].of = thread[v].of
  <2>1. CASE cleaned(b)[v] = "alive"
    <3>1. thread'[v] = [Ended EXCEPT !.of = thread[v].of]
      BY <1>1, <1>4, <2>1 DEF RecoverDies
    <3>2. proc[v] = "alive"
      BY <2>1 DEF cleaned
    <3>3. QED BY <3>1, <3>2 DEF Ended
  <2>2. CASE cleaned(b)[v] # "alive"
    <3>1. thread'[v] = Ended /\ proc'[v] = "none"
      BY <1>1, <1>4, <2>2 DEF RecoverDies
    <3>2. QED BY <3>1 DEF Ended
  <2>3. QED BY <2>1, <2>2
<1>5. ServerIsSound'
  <2>1. \A d \in Broadcasts : file[d] # Nobody => file[d] \in Workers /\ file[d] # w /\ Mine(file[d], d)
    BY <1>2 DEF FreeWorkers, CloudTypeOK, ServerIsSound, NamesAreRight
  <2>2. \A d \in Broadcasts : file'[d] # Nobody => Mine(file[d], d)'
    BY <1>2, <1>4, <2>1 DEF Mine, Serving
  <2>3. NamesAreRight'
    BY <1>2, <2>2 DEF NamesAreRight, Idle
  <2>4. WorkersAreSound' /\ LaunchesAreSound' /\ CallsAreSound' /\ PhasesAreSound'
    BY <1>2, <1>3, <1>4
       DEF WorkersAreSound, LaunchesAreSound, CallsAreSound, PhasesAreSound, Serving, Idle, NoPass
  <2>5. QED BY <2>3, <2>4 DEF ServerIsSound
<1>6. ASSUME NEW d \in Broadcasts \ raced', BroadcastIsSound(d) PROVE BroadcastIsSound(d)'
  <2>1. d # b /\ \A v \in Senders(d) : file[d] = v
    BY <1>2, <1>6 DEF Unnamed
  <2>2. CallsOn(d)' = {} /\ Servers(d)' = {} /\ \A v \in Senders(d)' : v \in Senders(d)
    BY <1>2, <1>3, <1>4, <2>1 DEF CallsOn, Servers, Senders, Serving, Idle
  <2>3. OneCall(d)' /\ Alone(d)' /\ Held(d)' /\ EntryServes(d)' /\ CallStands(d)'
    BY <1>2, <1>6, <2>2 DEF BroadcastIsSound, OneCall, Alone, Held, EntryServes, CallStands
  <2>4. LoopIsWanted(d)' /\ EndIsMeant(d)' /\ IsServed(d)'
    BY <1>2, <2>2 DEF LoopIsWanted, EndIsMeant, IsServed
  <2>5. OnFile(d)'
    BY <1>2, <2>1, <2>2 DEF OnFile
  <2>6. QED BY <2>3, <2>4, <2>5 DEF BroadcastIsSound
<1>7. QED BY <1>2, <1>5, <1>6

\* The thread of a recovered worker: launched, saved and begun.
Begun(b) == [NewThread(b) EXCEPT !.pc = "check"]

\* Recovery keeps what holds of the whole server ...
LEMMA RecoverServer ==
    ASSUME CloudTypeOK, CloudTypeOK', ServerIsSound, Recover
    PROVE  ServerIsSound'
<1>0. /\ server = "boot" /\ pass.kind = "recover" /\ \A c \in Callers : call[c].pc = "idle"
      /\ UNCHANGED <<call, raced>>
      /\ pass \in [kind : {"none", "resume", "expire", "recover"}, todo : SUBSET Broadcasts, room : Int]
  BY DEF Recover, ServerIsSound, PhasesAreSound, CloudTypeOK
<1>1. CASE pass.todo = {}
  <2>1. UNCHANGED <<entry, thread, proc, file>> /\ server' = "up" /\ pass'.kind = "none"
    BY <1>1 DEF Recover, NoPass
  <2>2. NamesAreRight' /\ WorkersAreSound' /\ LaunchesAreSound' /\ CallsAreSound'
    BY <1>0, <2>1
       DEF ServerIsSound, NamesAreRight, WorkersAreSound, LaunchesAreSound, CallsAreSound, Mine, Serving
  <2>3. PhasesAreSound'
    BY <2>1 DEF PhasesAreSound
  <2>4. QED BY <2>2, <2>3 DEF ServerIsSound
<1>2. CASE pass.todo # {}
  <2>1. PICK b \in Broadcasts : b = NextOf(pass.todo) /\ server' = "boot"
    BY <1>0, <1>2, NextOfIn DEF Recover
  <2>2. RecoverHold(b) \/ (\E complete \in BOOLEAN : RecoverRefused(b, complete))
          \/ \E w \in Workers : RecoverStart(b, w)
    BY <1>2, <2>1 DEF Recover
  <2>3. pass'.kind = "recover"
    BY <1>0, <2>2 DEF RecoverHold, RecoverRefused, RecoverStart
  <2>4. PhasesAreSound' /\ CallsAreSound'
    BY <1>0, <2>1, <2>3 DEF PhasesAreSound, ServerIsSound, CallsAreSound
  <2>5. CASE UNCHANGED <<entry, thread, proc, file>>
    <3>1. NamesAreRight' /\ WorkersAreSound' /\ LaunchesAreSound'
      BY <1>0, <2>5 DEF ServerIsSound, NamesAreRight, WorkersAreSound, LaunchesAreSound, Mine, Serving
    <3>2. QED BY <2>4, <3>1 DEF ServerIsSound
  <2>6. ASSUME NEW w \in Workers, RecoverStart(b, w) PROVE ServerIsSound'
    <3>1. /\ w \in FreeWorkers /\ thread' = [thread EXCEPT ![w] = Begun(b)]
          /\ proc' = [cleaned(b) EXCEPT ![w] = "alive"]
          /\ file' = [file EXCEPT ![b] = w] /\ entry' = [entry EXCEPT ![b] = w]
      BY <2>6 DEF RecoverStart, Begun
    <3>2. thread'[w] = Begun(b) /\ Mine(w, b)'
      BY <3>1 DEF CloudTypeOK, Begun, NewThread, Mine
    <3>3. \A v \in Workers : v # w => /\ thread'[v] = thread[v]
                                      /\ proc'[v] = "alive" => proc[v] = "alive"
                                      /\ proc[v] = "none" => proc'[v] = "none"
      BY <3>1 DEF CloudTypeOK, cleaned
    <3>4. \A v \in Workers : \A d \in Broadcasts : v # w /\ Mine(v, d) => Mine(v, d)'
      BY <3>3 DEF Mine, Serving
    <3>5. \A d \in Broadcasts : /\ entry[d] \in Workers \cup {Nobody} /\ entry[d] # w
                                /\ file[d] \in Workers \cup {Nobody} /\ file[d] # w
                                /\ entry[d] # Nobody => Mine(entry[d], d)
                                /\ file[d] # Nobody => Mine(file[d], d)
      BY <3>1 DEF FreeWorkers, CloudTypeOK, ServerIsSound, NamesAreRight
    <3>6. \A d \in Broadcasts : /\ (entry'[d] = w /\ d = b) \/ entry'[d] = entry[d]
                                /\ (file'[d] = w /\ d = b) \/ file'[d] = file[d]
      BY <3>1 DEF CloudTypeOK
    <3>7. \A c \in Callers : call'[c].w = Nobody
      BY <1>0 DEF ServerIsSound, NamesAreRight
    <3>8. (\A d \in Broadcasts : (entry[d] # Nobody => Mine(entry[d], d))
                                 /\ (file[d] # Nobody => Mine(file[d], d)))'
      <4>1. ASSUME NEW d \in Broadcasts, NEW v \in Workers, v = entry'[d] \/ v = file'[d]
            PROVE  Mine(v, d)'
        BY <3>2, <3>4, <3>5, <3>6, <4>1
      <4>2. \A d \in Broadcasts : entry'[d] \in Workers \cup {Nobody} /\ file'[d] \in Workers \cup {Nobody}
        BY DEF CloudTypeOK
      <4>3. QED BY <4>1, <4>2
    <3>9. NamesAreRight'
      BY <3>7, <3>8 DEF NamesAreRight
    <3>10. WorkersAreSound'
      BY <3>2, <3>3 DEF ServerIsSound, WorkersAreSound, Begun, NewThread
    <3>11. LaunchesAreSound'
      BY <1>0, <3>2, <3>3 DEF ServerIsSound, LaunchesAreSound, Begun, NewThread
    <3>12. QED BY <2>4, <3>9, <3>10, <3>11 DEF ServerIsSound
  <2>7. QED BY <2>2, <2>5, <2>6 DEF RecoverHold, RecoverRefused
<1>3. QED BY <1>1, <1>2

\* ... and of every broadcast: the row that is started has no worker, and its
\* orphan, if it has one, is on file.
LEMMA RecoverBroadcasts ==
    ASSUME CloudTypeOK, CloudTypeOK', ServerIsSound, Recover, NEW d \in Broadcasts, BroadcastIsSound(d)
    PROVE  BroadcastIsSound(d)'
<1>0. /\ server = "boot" /\ UNCHANGED <<call, raced>> /\ CallsOn(d) = {} /\ CallsOn(d)' = {}
      /\ pass \in [kind : {"none", "resume", "expire", "recover"}, todo : SUBSET Broadcasts, room : Int]
  BY DEF Recover, ServerIsSound, PhasesAreSound, CloudTypeOK, CallsOn
<1>1. OneCall(d)' /\ CallStands(d)'
  BY <1>0 DEF OneCall, CallStands
<1>2. CASE pass.todo = {}
  <2>1. UNCHANGED <<rows, entry, thread, proc, file, dark>> /\ server' = "up"
    BY <1>2 DEF Recover
  <2>2. Servers(d)' = Servers(d) /\ Senders(d)' = Senders(d)
    BY <2>1 DEF Servers, Senders, Serving
  <2>3. Alone(d)' /\ OnFile(d)' /\ EntryServes(d)' /\ Held(d)'
    BY <1>0, <2>1, <2>2 DEF BroadcastIsSound, Alone, OnFile, EntryServes, Held, Exists
  <2>4. LoopIsWanted(d)' /\ EndIsMeant(d)'
    BY <1>0, <2>1, <2>2 DEF BroadcastIsSound, LoopIsWanted, EndIsMeant
  <2>5. IsServed(d)'
    BY <1>0, <1>2, <2>1 DEF BroadcastIsSound, IsServed, Wanted
  <2>6. QED BY <1>1, <2>3, <2>4, <2>5 DEF BroadcastIsSound
<1>3. CASE pass.todo # {}
  <2>1. PICK b \in Broadcasts : b = NextOf(pass.todo) /\ b \in pass.todo /\ server' = "boot"
    BY <1>0, <1>3, NextOfIn DEF Recover
  <2>2. RecoverHold(b) \/ (\E complete \in BOOLEAN : RecoverRefused(b, complete))
          \/ \E w \in Workers : RecoverStart(b, w)
    BY <1>3, <2>1 DEF Recover
  <2>3. pass'.todo = pass.todo \ {b}
    BY <1>0, <2>2 DEF RecoverHold, RecoverRefused, RecoverStart
  <2>4. d = b => entry[b] = Nobody /\ rows[b].desired = "running" /\ Servers(b) = {}
    BY <1>0, <2>1 DEF BroadcastIsSound, IsServed, Held, Wanted, Servers
  <2>5. CASE /\ UNCHANGED <<entry, thread, proc, file>> /\ dark' = dark \cup {b}
             /\ \/ rows' = [rows EXCEPT ![b].runtime = "Stopped", ![b].held = TRUE]
                \/ rows' = [rows EXCEPT ![b].desired = "stopped", ![b].runtime = "Failed"]
                \/ rows' = rows
    <3>1. Servers(d)' = Servers(d) /\ Senders(d)' = Senders(d)
      BY <2>5 DEF Servers, Senders, Serving
    <3>2. CASE d # b
      <4>1. rows'[d] = rows[d]
        BY <2>1, <2>5, <3>2 DEF CloudTypeOK
      <4>2. Stays(d)
        BY <1>0, <2>1, <2>3, <2>5, <3>2, <4>1 DEF Stays
      <4>3. QED BY <4>2, Frame
    <3>3. CASE d = b
      <4>1. Exists(d) /\ Servers(d)' = {} /\ d \in dark' /\ d \notin pass'.todo
        BY <2>3, <2>4, <2>5, <3>1, <3>3 DEF Exists
      <4>2. Alone(d)' /\ OnFile(d)' /\ EntryServes(d)' /\ Held(d)'
        BY <2>4, <2>5, <3>1, <3>3, <4>1 DEF BroadcastIsSound, Alone, OnFile, EntryServes, Held
      <4>3. LoopIsWanted(d)' /\ EndIsMeant(d)' /\ IsServed(d)'
        BY <2>1, <4>1 DEF LoopIsWanted, EndIsMeant, IsServed
      <4>4. QED BY <1>1, <4>2, <4>3 DEF BroadcastIsSound
    <3>4. QED BY <3>2, <3>3
  <2>6. ASSUME NEW w \in Workers, RecoverStart(b, w) PROVE BroadcastIsSound(d)'
    <3>1. /\ thread[w].pc = "done" /\ proc[w] = "none" /\ thread' = [thread EXCEPT ![w] = Begun(b)]
          /\ proc' = [cleaned(b) EXCEPT ![w] = "alive"]
          /\ file' = [file EXCEPT ![b] = w] /\ entry' = [entry EXCEPT ![b] = w]
          /\ rows' = recorded(b, "Running") /\ dark' = dark
      BY <2>6 DEF RecoverStart, FreeWorkers, Begun
    <3>2. thread'[w] = Begun(b) /\ proc'[w] = "alive"
      BY <3>1 DEF CloudTypeOK, cleaned
    <3>3. \A v \in Workers : v # w => thread'[v] = thread[v] /\ proc'[v] = cleaned(b)[v]
      BY <3>1 DEF CloudTypeOK, cleaned
    <3>4. CASE d # b
      <4>1. rows'[d] = rows[d] /\ entry'[d] = entry[d] /\ file'[d] = file[d]
        BY <2>1, <3>1, <3>4 DEF recorded, CloudTypeOK
      <4>2. \A v \in Workers : v # w /\ proc'[v] # proc[v] => thread[v].of = b
        BY <2>1, <3>3 DEF cleaned, ServerIsSound, NamesAreRight, Mine, CloudTypeOK
      <4>3. \A v \in Workers : v \in Servers(d) \cup Senders(d) \/ v \in (Servers(d) \cup Senders(d))' => v # w
        BY <3>1, <3>2, <3>4 DEF Servers, Senders, Serving, Begun, NewThread
      <4>4. Stays(d)
        BY <1>0, <2>1, <2>3, <3>1, <3>3, <3>4, <4>1, <4>2, <4>3 DEF Stays, Servers, Senders
      <4>5. QED BY <4>4, Frame
    <3>5. CASE d = b
      <4>1. Servers(b) = {} /\ \A v \in Senders(b) : file[b] = v
        BY <2>4, <3>5 DEF BroadcastIsSound, OnFile, Exists, Servers, Senders, Serving
      <4>2. \A v \in Workers : v # w => v \notin Senders(b)'
        BY <3>3, <4>1 DEF Senders, cleaned
      <4>3. Servers(b)' = {w} /\ Senders(b)' = {w}
        BY <3>2, <3>3, <4>1, <4>2 DEF Servers, Senders, Serving, Begun, NewThread
      <4>4. entry'[b] = w /\ file'[b] = w /\ rows'[b].desired = "running"
        BY <2>1, <2>4, <3>1, <3>5 DEF recorded, CloudTypeOK, Row
      <4>5. Alone(d)' /\ OnFile(d)' /\ Held(d)'
        BY <3>5, <4>3, <4>4 DEF Alone, OnFile, Held
      <4>6. EntryServes(d)' /\ LoopIsWanted(d)' /\ EndIsMeant(d)'
        BY <3>2, <3>5, <4>3, <4>4 DEF EntryServes, LoopIsWanted, EndIsMeant, Begun, NewThread
      <4>7. IsServed(d)'
        BY <2>1, <2>3, <3>5, <4>4 DEF IsServed
      <4>8. QED BY <1>1, <4>5, <4>6, <4>7 DEF BroadcastIsSound
    <3>6. QED BY <3>4, <3>5
  <2>7. QED BY <2>2, <2>5, <2>6 DEF RecoverHold, RecoverRefused
<1>4. QED BY <1>2, <1>3

-----------------------------------------------------------------------------
(* The invariant, and what follows from it *)

\* The invariant holds when the server is first started.
LEMMA InitInvariant == Init => IInv
<1> SUFFICES ASSUME Init PROVE IInv
  OBVIOUS
<1>1. /\ entry = [b \in Broadcasts |-> Nobody] /\ thread = [w \in Workers |-> Ended]
      /\ proc = [w \in Workers |-> "none"] /\ file = [b \in Broadcasts |-> Nobody]
      /\ call = [c \in Callers |-> Idle] /\ pass = NoPass /\ server = "down" /\ boots = 0
      /\ raced = {} /\ dark = {} /\ entitled = Users
  BY DEF Init
<1>2. CloudTypeOK
  <2>1. rows \in [Broadcasts -> Row]
    BY DEF Init, Row, RuntimeState
  <2>2. QED BY <1>1, <2>1, DefaultTypes DEF CloudTypeOK
<1>3. /\ \A w \in Workers : thread[w].pc = "done" /\ proc[w] = "none"
      /\ \A c \in Callers : call[c].pc = "idle" /\ call[c].w = Nobody /\ call[c].op = "start"
      /\ \A b \in Broadcasts : entry[b] = Nobody /\ file[b] = Nobody
  BY <1>1 DEF Ended, Idle
<1>4. ServerIsSound
  BY <1>1, <1>3 DEF ServerIsSound, NamesAreRight, WorkersAreSound, LaunchesAreSound, CallsAreSound,
     PhasesAreSound, Serving, NoPass
<1>5. ASSUME NEW b \in Broadcasts PROVE BroadcastIsSound(b)
  <2>1. CallsOn(b) = {} /\ Servers(b) = {} /\ Senders(b) = {}
    BY <1>3 DEF CallsOn, Servers, Senders, Serving
  <2>2. QED
    BY <1>1, <1>3, <2>1 DEF BroadcastIsSound, OneCall, Alone, OnFile, Held, EntryServes, CallStands,
       LoopIsWanted, EndIsMeant, IsServed
<1>6. QED BY <1>2, <1>4, <1>5 DEF IInv

\* Every step keeps it.
LEMMA StepInvariant == IInv /\ [Next]_vars => IInv'
<1> SUFFICES ASSUME IInv, [Next]_vars PROVE IInv'
  OBVIOUS
<1>0. CloudTypeOK /\ ServerIsSound /\ WorkersAreSound /\ \A b \in Broadcasts \ raced : BroadcastIsSound(b)
  BY DEF IInv, ServerIsSound
<1>1. ASSUME NEW c \in Callers, CallStep(c) PROVE IInv'
  <2>1. CloudTypeOK' /\ raced' = raced
    BY <1>0, <1>1, CallStepTypes, CallGoes
  <2>2. ServerIsSound'
    BY <1>0, <1>1, <2>1, CallStepServer
  <2>3. \A b \in Broadcasts \ raced' : BroadcastIsSound(b)'
    BY <1>0, <1>1, <2>1, CallStepBroadcasts
  <2>4. QED BY <2>1, <2>2, <2>3 DEF IInv
<1>2. ASSUME NEW w \in Workers, WorkerStep(w) \/ Exit(w) PROVE IInv'
  <2>1. CloudTypeOK'
    BY <1>0, <1>2, WorkerStepTypes, ServerStepTypes
  <2>2. raced \subseteq raced'
    BY <1>2 DEF WorkerStep, WorkerCheck, WorkerTick, WorkerSave, WorkerTell, WorkerRemove, Exit
  <2>3. ServerIsSound'
    BY <1>0, <1>2, <2>1, WorkerStepServer
  <2>4. \A b \in Broadcasts \ raced' : BroadcastIsSound(b)'
    BY <1>0, <1>2, <2>1, <2>2, WorkerStepBroadcasts
  <2>5. QED BY <2>1, <2>3, <2>4 DEF IInv
<1>3. ASSUME NEW c \in Callers, NEW op \in Operation, NEW b \in Broadcasts, Begin(c, op, b),
             pass'.kind = pass.kind, CloudTypeOK'
      PROVE  IInv'
  <2>1. raced \subseteq raced'
    BY <1>3 DEF Begin
  <2>2. ServerIsSound'
    BY <1>0, <1>3, BeginServer
  <2>3. \A d \in Broadcasts \ raced' : BroadcastIsSound(d)'
    BY <1>0, <1>3, <2>1, BeginBroadcasts
  <2>4. QED BY <1>3, <2>2, <2>3 DEF IInv
<1>4. ASSUME NEW c \in Requests, NEW op \in Operation, NEW b \in Broadcasts, Request(c, op, b) PROVE IInv'
  <2>1. CloudTypeOK'
    BY <1>0, <1>4, ServerStepTypes
  <2>2. c \in Callers /\ Begin(c, op, b) /\ pass' = pass
    BY <1>4 DEF Request, Callers
  <2>3. QED BY <1>3, <2>1, <2>2
<1>5. ASSUME NEW op \in Operation, NEW b \in Broadcasts, Scheduled(op, b) PROVE IInv'
  <2>1. CloudTypeOK'
    BY <1>0, <1>5, ServerStepTypes
  <2>2. Clock \in Callers /\ Begin(Clock, op, b) /\ pass' = pass
    BY <1>5 DEF Scheduled, Callers
  <2>3. QED BY <1>3, <2>1, <2>2
<1>6. ASSUME PassStep, ~PassOver PROVE IInv'
  <2>1. CloudTypeOK'
    BY <1>0, <1>6, ServerStepTypes
  <2>2. NextOf(pass.todo) \in Broadcasts /\ Clock \in Callers
    BY <1>0, <1>6, NextOfIn DEF PassOver, CloudTypeOK, Callers
  <2>3. PICK op \in Operation : Begin(Clock, op, NextOf(pass.todo))
    BY <1>6 DEF PassStep, Operation
  <2>4. pass'.kind = pass.kind
    BY <1>0, <1>6 DEF PassStep, CloudTypeOK
  <2>5. QED BY <1>3, <2>1, <2>2, <2>3, <2>4
<1>7. ASSUME \/ ResumeHeldBack \/ ExpireLapsed \/ (PassStep /\ PassOver)
             \/ \E u \in Users, on \in BOOLEAN : Subscribe(u, on)
      PROVE  IInv'
  <2>1. CloudTypeOK'
    BY <1>0, <1>7, ServerStepTypes
  <2>2. QED BY <1>0, <1>7, <2>1, PassSteps DEF IInv
<1>8. ASSUME Boot PROVE IInv'
  <2>1. CloudTypeOK' /\ raced' = raced
    BY <1>0, <1>8, ServerStepTypes DEF Boot
  <2>2. QED BY <1>0, <1>8, <2>1, BootStep DEF IInv
<1>9. ASSUME Recover PROVE IInv'
  <2>1. CloudTypeOK' /\ raced' = raced
    BY <1>0, <1>9, ServerStepTypes DEF Recover
  <2>2. QED BY <1>0, <1>9, <2>1, RecoverServer, RecoverBroadcasts DEF IInv
<1>10. ASSUME Crash \/ Shutdown PROVE IInv'
  <2>1. CloudTypeOK'
    BY <1>0, <1>10, ServerStepTypes
  <2>2. QED BY <1>0, <1>10, <2>1, DeathSteps DEF IInv
<1>13. ASSUME NEW w \in Workers, RecoverDies(w) PROVE IInv'
  <2>1. CloudTypeOK'
    BY <1>0, <1>13, ServerStepTypes
  <2>2. QED BY <1>0, <1>13, <2>1, RecoverDeathSteps DEF IInv
<1>11. CASE UNCHANGED vars
  <2>1. CloudTypeOK'
    BY <1>0, <1>11 DEF vars, CloudTypeOK
  <2>2. ServerIsSound'
    BY <1>0, <1>11 DEF vars, ServerIsSound, NamesAreRight, WorkersAreSound, LaunchesAreSound,
       CallsAreSound, PhasesAreSound, Mine, Serving
  <2>3. ASSUME NEW b \in Broadcasts \ raced PROVE BroadcastIsSound(b)'
    <3>1. BroadcastIsSound(b)
      BY <1>0 DEF IInv
    <3>2. /\ (CallsOn(b) = {c \in Callers : call[c].pc # "idle" /\ call[c].of = b})'
          /\ CallsOn(b)' = CallsOn(b) /\ Senders(b)' = Senders(b) /\ Servers(b)' = Servers(b)
          /\ Wanted' = Wanted /\ Exists(b)' = Exists(b)
          /\ \A c : Untouched(c)' = Untouched(c)
      BY <1>11 DEF vars, CallsOn, Senders, Servers, Serving, Wanted, Exists, Untouched
    <3>3. QED BY <1>11, <3>1, <3>2 DEF vars, BroadcastIsSound, OneCall, Alone, OnFile, Held, EntryServes,
             CallStands, LoopIsWanted, EndIsMeant, IsServed
  <2>4. raced' = raced
    BY <1>11 DEF vars
  <2>5. QED BY <2>1, <2>2, <2>3, <2>4 DEF IInv
<1>12. QED
  BY <1>1, <1>2, <1>4, <1>5, <1>6, <1>7, <1>8, <1>9, <1>10, <1>11, <1>13 DEF Next

\* The invariant holds throughout.
THEOREM CloudInvariance == Spec => []IInv
<1>1. Init => IInv
  BY InitInvariant
<1>2. IInv /\ [Next]_vars => IInv'
  BY StepInvariant
<1>3. QED BY <1>1, <1>2, PTL DEF Spec

\* The state of the manager has its declared shape.
THEOREM CloudTypeCorrect == Spec => []CloudTypeOK
<1>1. IInv => CloudTypeOK
  BY DEF IInv
<1>2. QED BY <1>1, CloudInvariance, PTL

\* manager.rs: a broadcast never has two FFmpeg processes publishing to its
\* key, as long as no two operations on it overlap and the server has not died
\* between a launch and the write of its session file: whatever fails, exits, is
\* recovered or restarted, and for any number of broadcasts and workers.
THEOREM OneSender == Spec => []OneSenderUnlessRaced
<1>1. IInv => OneSenderUnlessRaced
  <2>1. ASSUME IInv, NEW b \in Broadcasts \ raced PROVE Cardinality(Senders(b)) <= 1
    <3>1. \A v, w \in Senders(b) : v = w
      BY <2>1 DEF IInv, BroadcastIsSound, Alone
    <3>2. CASE Senders(b) = {}
      BY <3>2, FS_EmptySet
    <3>3. CASE Senders(b) # {}
      <4>1. PICK w : Senders(b) = {w}
        BY <3>1, <3>3
      <4>2. Cardinality({w}) = 1
        BY FS_Singleton
      <4>3. QED BY <4>1, <4>2
    <3>4. QED BY <3>2, <3>3
  <2>2. QED BY <2>1 DEF OneSenderUnlessRaced
<1>2. QED BY <1>1, CloudInvariance, PTL

\* manager.rs: what is meant to run has a worker in its loop whenever the
\* server is up and nothing is under way: no start, recovery or restart that
\* was not refused is lost.
THEOREM WantedHasWorker == Spec => []WantedHasWorkerUnlessRaced
<1>1. IInv => WantedHasWorkerUnlessRaced
  <2>1. ASSUME IInv, NEW b \in (Wanted \ raced) \ dark, server = "up", CallsOn(b) = {}, ~Ending(b)
        PROVE  /\ entry[b] # Nobody /\ thread[entry[b]].of = b
               /\ thread[entry[b]].pc \in {"check", "tick", "save"}
    <3>1. b \in Broadcasts /\ BroadcastIsSound(b)
      BY <2>1 DEF IInv, Wanted
    <3>2. entry[b] # Nobody
      BY <2>1, <3>1 DEF BroadcastIsSound, IsServed
    <3>3. entry[b] \in Servers(b)
      BY <3>1, <3>2 DEF BroadcastIsSound, EntryServes
    <3>4. thread[entry[b]] \in Thread /\ entry[b] \in Workers
      BY <2>1, <3>3 DEF IInv, CloudTypeOK, Servers
    <3>5. thread[entry[b]].pc # "start"
      BY <2>1, <3>1, <3>4 DEF IInv, ServerIsSound, LaunchesAreSound
    <3>6. QED BY <2>1, <3>2, <3>3, <3>4, <3>5 DEF Servers, Serving, Ending, Thread, ThreadPc
  <2>2. QED BY <2>1 DEF WantedHasWorkerUnlessRaced
<1>2. QED BY <1>1, CloudInvariance, PTL

\* manager.rs stop_with: YouTube is told that a broadcast is over only when no
\* worker of it is left to publish.
THEOREM TellsYoutubeLast == Spec => YoutubeEndsLast
<1> DEFINE Tells == \A c \in Callers :
             call[c].pc = "after" /\ call'[c] # call[c] /\ server' = "up" /\ call[c].of \notin raced
             => \A w \in Senders(call[c].of) : ~Serving(w)
<1>1. IInv => Tells
  <2>1. ASSUME IInv, NEW c \in Callers, call[c].pc = "after", call[c].of \notin raced,
               NEW w \in Senders(call[c].of), Serving(w)
        PROVE  FALSE
    <3>1. PICK b \in Broadcasts : b = call[c].of
      BY <2>1 DEF IInv, CloudTypeOK, Call
    <3>2. c \in CallsOn(b) /\ w \in Workers /\ thread[w].of = b
      BY <2>1, <3>1 DEF CallsOn, Senders
    <3>3. CloudTypeOK /\ ServerIsSound /\ BroadcastIsSound(b)
      BY <2>1, <3>1 DEF IInv
    <3>4. call[c].pc # "after"
      BY <2>1, <3>2, <3>3, TheWorker
    <3>5. QED BY <2>1, <3>4
  <2>2. QED BY <2>1
<1>2. IInv /\ [Next]_vars => [Tells]_vars
  BY <1>1
<1>3. QED BY <1>2, CloudInvariance, PTL DEF Spec, YoutubeEndsLast

\* manager.rs clean_orphan_process, runtime.rs persist: whatever publishes for a
\* broadcast that still exists is named by its session file, so that the next
\* start can kill it, but for the moment between a launch and the write of that
\* file, in which its worker is about to write it.  A dead server has no worker:
\* what it leaves is on file, unless it died in that moment, which is what raced
\* then records.
THEOREM SendersAreOnFile ==
    Spec => [](\A b \in Broadcasts \ raced : Exists(b) => \A w \in Senders(b) :
                   file[b] = w \/ (Serving(w) /\ thread[w].pc \in {"start", "save"}))
<1>1. IInv => \A b \in Broadcasts \ raced : Exists(b) => \A w \in Senders(b) :
                  file[b] = w \/ (Serving(w) /\ thread[w].pc \in {"start", "save"})
  BY DEF IInv, BroadcastIsSound, OnFile, Serving
<1>2. QED BY <1>1, CloudInvariance, PTL
-----------------------------------------------------------------------------
(* How senders and workers come and go *)

\* A worker that a call has just launched for the broadcast of the call.
Launched(w, c) ==
    /\ call[c].pc = "launch" /\ thread[w].pc = "done" /\ proc[w] = "none"
    /\ thread'[w] = NewThread(call[c].of)

\* A step of a call sets up no worker but the one it launches, and moves none on
\* but that one.
LEMMA CallMoves ==
    ASSUME CloudTypeOK, ServerIsSound, NEW c \in Callers, CallStep(c), NEW w \in Workers
    PROVE  \/ /\ thread'[w].pc = thread[w].pc \/ (thread[w].pc = "start" /\ thread'[w].pc = "check")
              /\ thread'[w].of = thread[w].of
              /\ proc'[w] = "alive" => proc[w] = "alive"
           \/ Launched(w, c)
<1>1. CASE Clean(c)
  BY <1>1 DEF Clean, cleaned, CloudTypeOK
<1>2. ASSUME NEW v \in Workers, Launch(c, v)
      PROVE  \/ thread'[w] = thread[w] /\ proc'[w] = proc[w]
             \/ Launched(w, c)
  <2>1. CASE UNCHANGED <<thread, proc>>
    BY <2>1
  <2>2. CASE /\ v \in FreeWorkers /\ thread' = [thread EXCEPT ![v] = NewThread(call[c].of)]
             /\ proc' = [proc EXCEPT ![v] = "alive"]
    BY <1>2, <2>2 DEF Launch, Launched, FreeWorkers, CloudTypeOK
  <2>3. QED BY <1>2, <2>1, <2>2 DEF Launch
<1>3. CASE Halt(c)
  BY <1>3, HaltTells
<1>4. CASE Subscription(c) \/ Claim(c) \/ SpawnCheck(c) \/ Insert(c) \/ Undo(c) \/ Release(c) \/ Join(c)
           \/ Record(c) \/ After(c) \/ Delete(c)
  <2>1. UNCHANGED <<thread, proc>>
    BY <1>4 DEF Subscription, Claim, SpawnCheck, Insert, Undo, Release, Join, Record, After, Delete
  <2>2. QED BY <2>1
<1>6. CASE Save(c)
  <2>1. PICK v \in Workers : v = call[c].w /\ thread[v].pc = "start"
    BY <1>6 DEF Save, ServerIsSound, LaunchesAreSound
  <2>2. /\ thread'[v].pc = "check" /\ thread'[v].of = thread[v].of /\ proc' = proc
        /\ \A x \in Workers : x # v => thread'[x] = thread[x]
    BY <1>6, <2>1 DEF Save, CloudTypeOK, Thread
  <2>3. QED BY <2>1, <2>2
<1>5. QED BY <1>1, <1>2, <1>3, <1>4, <1>6 DEF CallStep

\* A step of a worker moves no other, and leaves its own in service unless it
\* is the last.
LEMMA WorkerMoves ==
    ASSUME CloudTypeOK, ServerIsSound, NEW v \in Workers, WorkerStep(v) \/ Exit(v), NEW w \in Workers
    PROVE  /\ w # v => thread'[w] = thread[w] /\ proc'[w] = proc[w]
           /\ proc'[v] = "alive" => (proc[v] = "alive" \/ Serving(v)) /\ thread'[v].of = thread[v].of
           /\ Serving(v) => \/ Serving(v)' /\ thread'[v].of = thread[v].of
                            \/ thread[v].pc = "remove" /\ rows' = rows
<1> DEFINE b == thread[v].of
<1>0. b \in Broadcasts /\ thread[v] \in Thread
  BY DEF CloudTypeOK, Thread
<1>1. CASE WorkerCheck(v) \/ WorkerTell(v) \/ WorkerRemove(v) \/ Exit(v)
  <2>1. WorkerGoes(v, b)
    BY <1>0, <1>1, WorkerStepIs
  <2>2. CASE WorkerCheck(v) \/ WorkerTell(v) \/ Exit(v)
    <3>1. thread'[v].of = b /\ (Serving(v)' <=> Serving(v))
      BY <1>0, <2>2 DEF WorkerCheck, WorkerTell, Exit, WorkerGoto, Serving, CloudTypeOK, Thread
    <3>2. QED BY <2>1, <3>1 DEF WorkerGoes
  <2>3. CASE WorkerRemove(v)
    <3>1. thread[v].pc = "remove" /\ rows' = rows
      BY <2>3 DEF WorkerRemove
    <3>2. QED BY <2>1, <3>1 DEF WorkerGoes
  <2>4. QED BY <1>1, <2>2, <2>3
<1>2. ASSUME NEW due \in BOOLEAN, NEW launched \in BOOLEAN, WorkerTick(v, due, launched)
      PROVE  /\ w # v => thread'[w] = thread[w] /\ proc'[w] = proc[w]
             /\ Serving(v) /\ Serving(v)' /\ thread'[v].of = thread[v].of
  <2>1. TickGoes(v, b)
    BY <1>0, <1>2, TickIs
  <2>2. QED BY <2>1 DEF TickGoes, Serving
<1>4. ASSUME NEW played \in BOOLEAN, WorkerSave(v, played)
      PROVE  /\ w # v => thread'[w] = thread[w] /\ proc'[w] = proc[w]
             /\ Serving(v) /\ Serving(v)' /\ thread'[v].of = thread[v].of
  <2>1. SaveGoes(v, b)
    BY <1>0, <1>4, SaveIs
  <2>2. QED BY <2>1 DEF SaveGoes, Serving
<1>3. QED BY <1>1, <1>2, <1>4 DEF WorkerStep

\* The steps that move no worker at all.
LEMMA OthersMoveNone ==
    ASSUME \/ \E c \in Requests, op \in Operation, b \in Broadcasts : Request(c, op, b)
           \/ \E op \in Operation, b \in Broadcasts : Scheduled(op, b)
           \/ ResumeHeldBack \/ ExpireLapsed \/ PassStep \/ Boot
           \/ \E u \in Users, on \in BOOLEAN : Subscribe(u, on)
           \/ UNCHANGED vars
    PROVE  UNCHANGED <<rows, thread, proc>>
BY DEF Request, Scheduled, Begin, ResumeHeldBack, ExpireLapsed, PassStep, Boot, Subscribe, vars

\* Recovery sets up a worker that was free, and moves none in service.
LEMMA RecoverMoves ==
    ASSUME CloudTypeOK, Recover, NEW w \in Workers, Serving(w)
    PROVE  thread'[w] = thread[w]
<1>1. CASE UNCHANGED thread
  BY <1>1
<1>2. ASSUME NEW b, NEW v \in Workers, RecoverStart(b, v) PROVE thread'[w] = thread[w]
  <2>1. v \in FreeWorkers /\ thread' = [thread EXCEPT ![v] = Begun(b)]
    BY <1>2 DEF RecoverStart, Begun
  <2>2. w # v
    BY <2>1 DEF FreeWorkers, Serving
  <2>3. QED BY <2>1, <2>2 DEF CloudTypeOK
<1>3. QED BY <1>1, <1>2 DEF Recover, RecoverHold, RecoverRefused

\* A process that begins to publish for a broadcast is launched by a call on
\* it, or relaunched by its worker.
LEMMA SenderBegins ==
    ASSUME CloudTypeOK, ServerIsSound, [Next]_vars, server # "boot", NEW b \in Broadcasts,
           NEW w \in Senders(b)', w \notin Senders(b)
    PROVE  w \in Servers(b) \/ \E c \in CallsOn(b) : call[c].pc = "launch"
<1>0. w \in Workers /\ proc'[w] = "alive" /\ thread'[w].of = b
  BY DEF Senders
<1>1. ASSUME NEW c \in Callers, CallStep(c)
      PROVE  \E d \in CallsOn(b) : call[d].pc = "launch"
  <2>1. ~(thread'[w].of = thread[w].of /\ proc[w] = "alive")
    BY <1>0 DEF Senders
  <2>2. Launched(w, c)
    BY <1>0, <1>1, <2>1, CallMoves
  <2>3. call[c].pc = "launch" /\ call[c].of = b
    BY <1>0, <2>2 DEF Launched, NewThread
  <2>4. QED BY <2>3 DEF CallsOn
<1>2. ASSUME NEW v \in Workers, WorkerStep(v) \/ Exit(v) PROVE w \in Servers(b)
  <2>1. v = w
    BY <1>0, <1>2, WorkerMoves DEF Senders
  <2>2. (proc[w] = "alive" \/ Serving(w)) /\ thread[w].of = b
    BY <1>0, <1>2, <2>1, WorkerMoves
  <2>3. QED BY <1>0, <2>2 DEF Servers, Senders
<1>3. ~Recover /\ \A v \in Workers : ~RecoverDies(v)
  BY DEF Recover, RecoverDies
<1>4. ASSUME Crash \/ Shutdown PROVE FALSE
  <2>1. PICK left : Die(left)
    BY <1>4 DEF Crash, Shutdown
  <2>2. proc[w] = "alive" /\ w \in left
    BY <1>0, <2>1 DEF Die
  <2>3. thread'[w] = [Ended EXCEPT !.of = thread[w].of]
    BY <1>0, <2>1, <2>2 DEF Die
  <2>4. thread'[w].of = thread[w].of
    BY <2>3 DEF Ended
  <2>5. QED BY <1>0, <2>2, <2>4 DEF Senders
<1>5. ASSUME UNCHANGED <<rows, thread, proc>> PROVE FALSE
  BY <1>0, <1>5 DEF Senders
<1>6. QED BY <1>1, <1>2, <1>3, <1>4, <1>5, OthersMoveNone DEF Next

\* A race is not forgotten.
LEMMA RacedStays == [Next]_vars => raced \subseteq raced'
<1> SUFFICES ASSUME [Next]_vars PROVE raced \subseteq raced'
  OBVIOUS
<1>1. ASSUME NEW c \in Callers, CallStep(c) PROVE raced' = raced
  BY <1>1 DEF CallStep, Subscription, Claim, SpawnCheck, Clean, Launch, Save, Insert, Undo, Release, Halt,
     Join, Record, After, Delete
<1>2. ASSUME NEW w \in Workers, WorkerStep(w) \/ Exit(w) PROVE raced \subseteq raced'
  BY <1>2 DEF WorkerStep, WorkerCheck, WorkerTick, WorkerSave, WorkerTell, WorkerRemove, Exit
<1>3. ASSUME NEW c, NEW op, NEW b, Begin(c, op, b) PROVE raced \subseteq raced'
  BY <1>3 DEF Begin
<1>4. ASSUME \/ ResumeHeldBack \/ ExpireLapsed \/ Boot \/ Recover \/ Crash \/ Shutdown
             \/ \E u \in Users, on \in BOOLEAN : Subscribe(u, on)
             \/ \E w \in Workers : RecoverDies(w)
      PROVE  raced \subseteq raced'
  BY <1>4 DEF ResumeHeldBack, ExpireLapsed, Boot, Recover, Crash, Shutdown, Die, Subscribe, RecoverDies
<1>5. ASSUME PassStep PROVE raced \subseteq raced'
  BY <1>3, <1>5 DEF PassStep
<1>6. QED BY <1>1, <1>2, <1>3, <1>4, <1>5 DEF Next, Request, Scheduled, vars

\* manager.rs restart, spawn_worker and the relaunch of a worker: as long as the
\* operations on a broadcast do not overlap, no step takes its key over from
\* one FFmpeg to another: the one that publishes is gone before the next begins.
THEOREM HandoverHasAGap ==
    Spec => [][\A b \in Broadcasts \ raced' :
                  server # "boot" /\ Senders(b) # {} /\ Senders(b)' # {} => Senders(b)' = Senders(b)]_vars
<1> DEFINE Gap == \A b \in Broadcasts \ raced' :
                  server # "boot" /\ Senders(b) # {} /\ Senders(b)' # {} => Senders(b)' = Senders(b)
<1>1. IInv /\ IInv' /\ [Next]_vars => Gap
  <2>1. ASSUME IInv, IInv', [Next]_vars, NEW b \in Broadcasts \ raced', server # "boot",
               NEW v \in Senders(b), NEW w \in Senders(b)'
        PROVE  Senders(b)' = Senders(b)
    <3>1. CloudTypeOK /\ ServerIsSound /\ b \in Broadcasts
      BY <2>1 DEF IInv
    <3>2. BroadcastIsSound(b) /\ BroadcastIsSound(b)'
      <4>1. b \notin raced
        BY <2>1, RacedStays
      <4>2. QED BY <2>1, <4>1 DEF IInv
    <3>3. Senders(b) = {v} /\ Senders(b)' = {w}
      BY <3>2 DEF BroadcastIsSound, Alone
    <3>4. CASE w \in Senders(b)
      BY <3>3, <3>4
    <3>5. CASE w \in Servers(b)
      <4>1. v = w
        BY <3>2, <3>5 DEF BroadcastIsSound, Alone
      <4>2. QED BY <3>3, <4>1
    <3>6. ASSUME NEW c \in CallsOn(b), call[c].pc = "launch" PROVE FALSE
      BY <3>2, <3>3, <3>6 DEF BroadcastIsSound, CallStands
    <3>7. QED BY <2>1, <3>1, <3>4, <3>5, <3>6, SenderBegins
  <2>2. QED BY <2>1
<1>2. IInv /\ IInv' /\ [Next]_vars => [Gap]_vars
  BY <1>1
<1>3. QED BY <1>2, CloudInvariance, PTL DEF Spec

-----------------------------------------------------------------------------
(* What the dashboard shows of a broadcast whose worker has ended *)

\* The row of a broadcast whose worker is past its loop does not show it on the
\* air, nor does one that has been deleted.
EndIsShown(b) ==
    /\ \A w \in Servers(b) : thread[w].pc \in {"tell", "remove"} => rows[b].runtime # "Running"
    /\ ~Exists(b) => rows[b].runtime = "Stopped"

\* A step that leaves the workers of the broadcast where they are keeps this,
\* unless it writes that the broadcast is on the air.
LEMMA ShownFrame ==
    ASSUME NEW b \in Broadcasts, EndIsShown(b),
           \A w \in Workers : w \in Servers(b)' /\ thread'[w].pc \in {"tell", "remove"} =>
               w \in Servers(b) /\ thread[w].pc \in {"tell", "remove"},
           \/ rows'[b] = rows[b]
           \/ rows'[b].desired = "gone" /\ rows'[b].runtime = "Stopped"
           \/ rows'[b].desired # "gone" /\ rows'[b].runtime # "Running"
    PROVE  EndIsShown(b)'
BY DEF EndIsShown, Servers, Exists

\* A step that is about another broadcast keeps it.
LEMMA StaysShown ==
    ASSUME NEW b \in Broadcasts, EndIsShown(b), Stays(b)
    PROVE  EndIsShown(b)'
<1>1. rows'[b] = rows[b]
  BY DEF Stays
<1>2. ASSUME NEW w \in Workers, w \in Servers(b)' PROVE thread'[w] = thread[w] /\ w \in Servers(b)
  <2>1. thread'[w] = thread[w]
    BY <1>2 DEF Stays
  <2>2. QED BY <1>2, <2>1 DEF Servers, Serving
<1>3. QED BY <1>1, <1>2, ShownFrame

\* A call writes that the broadcast is on the air when it launches a worker,
\* and then there is no other.
LEMMA CallStepShows ==
    ASSUME CloudTypeOK, ServerIsSound, NEW c \in Callers, CallStep(c),
           NEW b \in Broadcasts, BroadcastIsSound(b), EndIsShown(b)
    PROVE  EndIsShown(b)'
<1>1. CASE b # call[c].of
  <2>1. Stays(b)
    BY <1>1, CallStepFrame
  <2>2. QED BY <2>1, StaysShown
<1>2. CASE b = call[c].of
  <2>1. \A w \in Workers : w \in Servers(b)' /\ thread'[w].pc \in {"tell", "remove"} =>
            w \in Servers(b) /\ thread[w].pc \in {"tell", "remove"}
    <3>1. ASSUME NEW w \in Workers, Launched(w, c) PROVE thread'[w].pc = "start"
      BY <3>1 DEF Launched, NewThread
    <3>2. ASSUME NEW w \in Workers, thread'[w].pc = thread[w].pc, thread'[w].of = thread[w].of
          PROVE  w \in Servers(b)' => w \in Servers(b)
      BY <3>2 DEF Servers, Serving
    <3>3. QED BY <3>1, <3>2, CallMoves
  <2>2. rows \in [Broadcasts -> Row]
    BY DEF CloudTypeOK
  <2>3. CASE \/ Subscription(c) \/ SpawnCheck(c) \/ Clean(c) \/ Insert(c) \/ Halt(c) \/ Join(c) \/ After(c)
             \/ \E w \in Workers : Launch(c, w)
    <3>1. rows' = rows
      BY <2>3 DEF Subscription, SpawnCheck, Clean, Insert, Halt, Join, After, Launch
    <3>2. QED BY <2>1, <3>1, ShownFrame
  <2>4. CASE Claim(c)
    <3>1. rows' = rows \/ rows' = [rows EXCEPT ![b].desired = "running", ![b].runtime = "Preparing",
                                              ![b].held = FALSE]
      BY <1>2, <2>4 DEF Claim, claim
    <3>2. rows'[b] = rows[b] \/ (rows'[b].desired # "gone" /\ rows'[b].runtime # "Running")
      BY <2>2, <3>1 DEF Row
    <3>3. QED BY <2>1, <3>2, ShownFrame
  <2>5. CASE Undo(c) \/ Release(c)
    <3>1. rows' = rows \/ rows' = release(b)
      BY <1>2, <2>5 DEF Undo, Release
    <3>2. rows'[b] = rows[b] \/ (rows'[b].desired # "gone" /\ rows'[b].runtime # "Running")
      BY <2>2, <3>1 DEF Row, release
    <3>3. QED BY <2>1, <3>2, ShownFrame
  <2>6. CASE Record(c)
    <3>1. rows'[b] = rows[b] \/ (rows'[b].desired # "gone" /\ rows'[b].runtime # "Running")
      BY <1>2, <2>2, <2>6 DEF Record, recorded, Exists, Row
    <3>2. QED BY <2>1, <3>1, ShownFrame
  <2>7. CASE Delete(c)
    <3>1. rows'[b].desired = "gone" /\ rows'[b].runtime = "Stopped"
      BY <1>2, <2>2, <2>7 DEF Delete
    <3>2. QED BY <2>1, <3>1, ShownFrame
  <2>8. CASE Save(c)
    <3>1. PICK w \in Workers : w = call[c].w /\ thread[w].pc = "start" /\ thread[w].of = b
      BY <1>2, <2>8 DEF Save, ServerIsSound, LaunchesAreSound
    <3>2. Servers(b) = {w}
      BY <3>1, TheWorker DEF Serving
    <3>3. \A v \in Workers : ~(v \in Servers(b)' /\ thread'[v].pc \in {"tell", "remove"})
      BY <2>1, <3>1, <3>2
    <3>4. rows' = recorded(b, "Running")
      BY <1>2, <2>8 DEF Save
    <3>5. ~Exists(b)' => rows'[b] = rows[b] /\ ~Exists(b)
      BY <2>2, <3>4 DEF recorded, Exists, Row
    <3>6. QED BY <3>3, <3>5 DEF EndIsShown, Servers
  <2>9. QED BY <2>3, <2>4, <2>5, <2>6, <2>7, <2>8 DEF CallStep
<1>3. QED BY <1>1, <1>2

\* A worker that leaves its loop writes that the broadcast is off the air.
LEMMA WorkerStepShows ==
    ASSUME CloudTypeOK, ServerIsSound, NEW w \in Workers, WorkerStep(w) \/ Exit(w),
           NEW b \in Broadcasts, BroadcastIsSound(b), EndIsShown(b)
    PROVE  EndIsShown(b)'
<1>0. thread[w] \in Thread /\ rows \in [Broadcasts -> Row]
  BY DEF CloudTypeOK
<1>1. CASE b # thread[w].of
  <2>1. Stays(b)
    BY <1>1, WorkerStepFrame
  <2>2. QED BY <2>1, StaysShown
<1>2. CASE b = thread[w].of
  <2>1. \A v \in Workers : v # w => thread'[v] = thread[v]
    BY WorkerMoves
  <2>2. Serving(w) => Servers(b) = {w}
    BY <1>2, TheWorker
  <2>3. CASE WorkerCheck(w)
    <3>1. CASE thread'[w].pc = "tick" /\ rows' = rows
      BY <2>1, <3>1, ShownFrame DEF Servers, Serving
    <3>2. CASE rows' = recorded(b, "Stopped")
      <4>1. IF Exists(b) THEN rows'[b].desired # "gone" /\ rows'[b].runtime = "Stopped" ELSE rows'[b] = rows[b]
        BY <1>0, <3>2 DEF recorded, Exists, Row
      <4>2. QED BY <4>1 DEF EndIsShown, Exists
    <3>3. CASE WorkerGoto(w, "tick") /\ rows' = rows
      <4>1. thread'[w].pc = "tick"
        BY <1>0, <3>3 DEF WorkerGoto, CloudTypeOK
      <4>2. QED BY <3>1, <3>3, <4>1
    <3>4. rows' = recorded(b, "Stopped") \/ (WorkerGoto(w, "tick") /\ rows' = rows)
      BY <1>2, <2>3 DEF WorkerCheck
    <3>5. QED BY <3>2, <3>3, <3>4
  <2>4. ASSUME NEW due \in BOOLEAN, NEW launched \in BOOLEAN, WorkerTick(w, due, launched)
        PROVE  EndIsShown(b)'
    <3>1. TickGoes(w, b)
      BY <1>2, <2>4, TickIs
    <3>2. thread'[w].pc = "save" /\ rows' = rows
      BY <3>1 DEF TickGoes
    <3>3. QED BY <2>1, <3>2, ShownFrame DEF Servers, Serving
  <2>7. ASSUME NEW played \in BOOLEAN, WorkerSave(w, played) PROVE EndIsShown(b)'
    <3>1. SaveGoes(w, b)
      BY <1>2, <2>7, SaveIs
    <3>2. Servers(b) = {w}
      BY <2>2, <3>1 DEF SaveGoes, Serving
    <3>3. CASE ~Exists(b)
      <4>1. rows' = rows
        BY <3>1, <3>3 DEF SaveGoes
      <4>2. QED BY <3>3, <4>1 DEF EndIsShown, Exists
    <3>4. CASE Exists(b) /\ thread'[w].pc = "check"
      <4>1. Exists(b)'
        BY <3>1, <3>4 DEF SaveGoes, Exists
      <4>2. \A v \in Servers(b)' : v = w
        BY <2>1, <3>2 DEF Servers, Serving
      <4>3. QED BY <3>4, <4>1, <4>2 DEF EndIsShown
    <3>5. CASE Exists(b) /\ thread'[w].pc = "tell"
      <4>1. rows'[b].desired = "stopped" /\ rows'[b].runtime # "Running"
        BY <3>1, <3>5 DEF SaveGoes
      <4>2. QED BY <4>1 DEF EndIsShown, Exists
    <3>6. QED BY <3>1, <3>3, <3>4, <3>5 DEF SaveGoes
  <2>5. CASE WorkerTell(w) \/ WorkerRemove(w) \/ Exit(w)
    <3>1. /\ rows' = rows
          /\ \/ thread' = thread
             \/ thread[w].pc = "tell" /\ thread' = [thread EXCEPT ![w].pc = "remove"]
             \/ thread' = [thread EXCEPT ![w] = Ended]
      BY <2>5 DEF WorkerTell, WorkerRemove, Exit, WorkerGoto
    <3>2. w \in Servers(b)' /\ thread'[w].pc \in {"tell", "remove"} =>
              w \in Servers(b) /\ thread[w].pc \in {"tell", "remove"}
      BY <1>0, <1>2, <3>1 DEF Servers, Serving, Ended, Thread, CloudTypeOK
    <3>3. \A v \in Workers : v \in Servers(b)' /\ thread'[v].pc \in {"tell", "remove"} =>
              v \in Servers(b) /\ thread[v].pc \in {"tell", "remove"}
      BY <2>1, <3>2 DEF Servers, Serving
    <3>4. QED BY <3>1, <3>3, ShownFrame
  <2>6. QED BY <2>3, <2>4, <2>5, <2>7 DEF WorkerStep
<1>3. QED BY <1>1, <1>2

\* Recovery starts a broadcast that has no worker.
LEMMA RecoverShows ==
    ASSUME CloudTypeOK, ServerIsSound, Recover, NEW d \in Broadcasts, BroadcastIsSound(d), EndIsShown(d)
    PROVE  EndIsShown(d)'
<1>0. /\ server = "boot" /\ CallsOn(d) = {} /\ rows \in [Broadcasts -> Row] /\ pass.todo \subseteq Broadcasts
  BY DEF Recover, ServerIsSound, PhasesAreSound, CloudTypeOK, CallsOn
<1>1. CASE UNCHANGED <<rows, thread>>
  BY <1>1, ShownFrame DEF Servers, Serving
<1>2. CASE pass.todo # {}
  <2>1. PICK b \in Broadcasts : b = NextOf(pass.todo) /\ b \in pass.todo
    BY <1>0, <1>2, NextOfIn
  <2>2. RecoverHold(b) \/ (\E complete \in BOOLEAN : RecoverRefused(b, complete))
          \/ \E w \in Workers : RecoverStart(b, w)
    BY <1>2, <2>1 DEF Recover
  <2>3. d = b => entry[b] = Nobody /\ rows[b].desired = "running" /\ Servers(b) = {}
    BY <1>0, <2>1 DEF BroadcastIsSound, IsServed, Held, Wanted, Servers
  <2>4. ASSUME RecoverHold(b) \/ \E complete \in BOOLEAN : RecoverRefused(b, complete)
        PROVE  EndIsShown(d)'
    <3>1. /\ thread' = thread
          /\ \/ rows' = [rows EXCEPT ![b].runtime = "Stopped", ![b].held = TRUE]
             \/ rows' = [rows EXCEPT ![b].desired = "stopped", ![b].runtime = "Failed"]
             \/ rows' = rows
      BY <2>4 DEF RecoverHold, RecoverRefused
    <3>2. rows'[d] = rows[d] \/ (rows'[d].desired # "gone" /\ rows'[d].runtime # "Running")
      BY <1>0, <2>3, <3>1 DEF Row
    <3>3. QED BY <3>1, <3>2, ShownFrame DEF Servers, Serving
  <2>5. ASSUME NEW w \in Workers, RecoverStart(b, w) PROVE EndIsShown(d)'
    <3>1. /\ thread' = [thread EXCEPT ![w] = Begun(b)] /\ rows' = recorded(b, "Running")
      BY <2>5 DEF RecoverStart, Begun
    <3>2. /\ thread'[w].pc = "check" /\ \A v \in Workers : v # w => thread'[v] = thread[v]
      BY <3>1 DEF CloudTypeOK, Begun, NewThread
    <3>3. CASE d # b
      <4>1. rows'[d] = rows[d]
        BY <1>0, <3>1, <3>3 DEF recorded
      <4>2. QED BY <3>2, <4>1, ShownFrame DEF Servers, Serving
    <3>4. CASE d = b
      <4>1. rows'[d].desired = "running"
        BY <1>0, <2>3, <3>1, <3>4 DEF recorded, Row
      <4>2. \A v \in Servers(d)' : v = w
        BY <2>3, <3>2, <3>4 DEF Servers, Serving
      <4>3. QED BY <3>2, <4>1, <4>2 DEF EndIsShown, Exists
    <3>5. QED BY <3>3, <3>4
  <2>6. QED BY <2>2, <2>4, <2>5
<1>3. CASE pass.todo = {}
  BY <1>1, <1>3 DEF Recover
<1>4. QED BY <1>2, <1>3

\* A server that dies leaves no worker, and deletes nothing.
LEMMA DeathShows ==
    ASSUME CloudTypeOK, Crash \/ Shutdown \/ \E w \in Workers : RecoverDies(w),
           NEW b \in Broadcasts, EndIsShown(b)
    PROVE  EndIsShown(b)'
<1>1. \A w \in Workers : thread'[w].pc = "done"
  BY DEF Crash, Shutdown, Die, RecoverDies, Ended
<1>2. rows[b] \in Row
  BY DEF CloudTypeOK
<1>3. rows'[b] = rows[b] \/ (Exists(b) /\ rows'[b] = [rows[b] EXCEPT !.runtime = "Stopped"])
  BY DEF Crash, Shutdown, RecoverDies
<1>4. ~Exists(b)' => rows'[b].runtime = "Stopped"
  BY <1>2, <1>3 DEF EndIsShown, Exists, Row
<1>5. QED BY <1>1, <1>4 DEF EndIsShown, Servers, Serving

\* Outside a race, this holds throughout.
LEMMA EndsAreShown == Spec => [](\A b \in Broadcasts \ raced : EndIsShown(b))
<1> DEFINE Shown == \A b \in Broadcasts \ raced : EndIsShown(b)
<1>1. Init => Shown
  <2>1. ASSUME Init, NEW b \in Broadcasts PROVE EndIsShown(b)
    <3>1. \A w \in Workers : thread[w].pc = "done"
      BY <2>1 DEF Init, Ended
    <3>2. Exists(b)
      BY <2>1 DEF Init, Exists
    <3>3. QED BY <3>1, <3>2 DEF EndIsShown, Servers
  <2>2. QED BY <2>1
<1>2. IInv /\ Shown /\ [Next]_vars => Shown'
  <2>1. ASSUME IInv, Shown, [Next]_vars, NEW b \in Broadcasts, b \notin raced' PROVE EndIsShown(b)'
    <3>1. CloudTypeOK /\ ServerIsSound /\ BroadcastIsSound(b) /\ EndIsShown(b)
      BY <2>1, RacedStays DEF IInv
    <3>2. ASSUME NEW c \in Callers, CallStep(c) PROVE EndIsShown(b)'
      BY <3>1, <3>2, CallStepShows
    <3>3. ASSUME NEW w \in Workers, WorkerStep(w) \/ Exit(w) PROVE EndIsShown(b)'
      BY <3>1, <3>3, WorkerStepShows
    <3>4. CASE Recover
      BY <3>1, <3>4, RecoverShows
    <3>5. CASE Crash \/ Shutdown \/ \E w \in Workers : RecoverDies(w)
      BY <3>1, <3>5, DeathShows
    <3>6. CASE UNCHANGED <<rows, thread, proc>>
      BY <3>1, <3>6, ShownFrame DEF Servers, Serving
    <3>7. QED BY <2>1, <3>2, <3>3, <3>4, <3>5, <3>6, OthersMoveNone DEF Next
  <2>2. QED BY <2>1
<1>3. QED BY <1>1, <1>2, CloudInvariance, PTL DEF Spec

\* manager.rs run_until_stopped: as long as the operations on a broadcast do
\* not overlap, a broadcast that loses its worker in a server that stays up is
\* no longer shown as being on the air.
THEOREM LeavingIsShown ==
    Spec => [][\A b \in Broadcasts \ raced' :
                  server' = "up" /\ Servers(b) # {} /\ Servers(b)' = {} => rows'[b].runtime # "Running"]_vars
<1> DEFINE Shown == \A b \in Broadcasts \ raced : EndIsShown(b)
           Leaves == \A b \in Broadcasts \ raced' :
                  server' = "up" /\ Servers(b) # {} /\ Servers(b)' = {} => rows'[b].runtime # "Running"
<1>1. IInv /\ Shown /\ [Next]_vars => Leaves
  <2>1. ASSUME IInv, Shown, [Next]_vars, NEW b \in Broadcasts \ raced', server' = "up",
               NEW w \in Servers(b), Servers(b)' = {}
        PROVE  rows'[b].runtime # "Running"
    <3>1. CloudTypeOK /\ ServerIsSound /\ EndIsShown(b)
      BY <2>1, RacedStays DEF IInv
    <3>2. Serving(w) /\ thread[w].of = b /\ w \in Workers /\ ~(Serving(w)' /\ thread'[w].of = b)
      BY <2>1 DEF Servers
    <3>3. ASSUME NEW c \in Callers, CallStep(c) PROVE FALSE
      BY <3>1, <3>2, <3>3, CallMoves DEF Launched, Serving
    <3>4. ASSUME NEW v \in Workers, WorkerStep(v) \/ Exit(v)
          PROVE  rows' = rows /\ thread[w].pc = "remove"
      BY <3>1, <3>2, <3>4, WorkerMoves DEF Serving
    <3>5. ~Recover
      BY <3>1, <3>2, RecoverMoves DEF Serving
    <3>6. ~(Crash \/ Shutdown \/ \E v \in Workers : RecoverDies(v))
      BY <2>1 DEF Crash, Shutdown, Die, RecoverDies
    <3>7. ~UNCHANGED <<rows, thread, proc>>
      BY <3>2 DEF Serving
    <3>8. rows' = rows /\ thread[w].pc = "remove"
      BY <2>1, <3>3, <3>4, <3>5, <3>6, <3>7, OthersMoveNone DEF Next
    <3>9. QED BY <2>1, <3>1, <3>8 DEF EndIsShown
  <2>2. QED BY <2>1
<1>2. IInv /\ Shown /\ [Next]_vars => [Leaves]_vars
  BY <1>1
<1>3. QED BY <1>2, CloudInvariance, EndsAreShown, PTL DEF Spec

-----------------------------------------------------------------------------
(* Slots: what the plans and the machine have room for *)

SlotsOf(u) == {b \in Holding : Owner[b] = u}

Encodes == Holding \cap Encoding

\* A claim was granted to b, in a transaction that counted the slots.
Granted(b) ==
    /\ Holding' = Holding \cup {b} /\ b \notin Holding
    /\ Cardinality(SlotsOf(Owner[b])) < Allowed
    /\ b \in Encoding => Cardinality(Encodes) < EncodeBudget

\* Slots are counted by a natural number.
LEMMA SlotsAreFinite ==
    ASSUME CloudTypeOK, NEW T, T \subseteq Broadcasts
    PROVE  IsFiniteSet(T) /\ Cardinality(T) \in Nat
BY FS_Subset, FS_CardinalityType

\* Rows that are written with no intent to run, or with the intent and the mark
\* they had, take no slot.
LEMMA WriteTakesNoSlot ==
    ASSUME CloudTypeOK,
           \A b \in Broadcasts : rows'[b].desired = "running" /\ ~rows'[b].held =>
               rows[b].desired = "running" /\ ~rows[b].held
    PROVE  Holding' \subseteq Holding
BY DEF Holding, Wanted

\* A step of a call takes a slot only where it is granted one.
LEMMA CallSlots ==
    ASSUME CloudTypeOK, NEW c \in Callers, CallStep(c)
    PROVE  Holding' \subseteq Holding \/ Granted(call[c].of)
<1> DEFINE b == call[c].of
<1>0. b \in Broadcasts /\ rows \in [Broadcasts -> Row]
  BY DEF CloudTypeOK, Call
<1> HIDE DEF b
<1>1. CASE Claim(c)
  <2>1. rows' = rows \/ rows' = claim(b)
    BY <1>1 DEF Claim, b
  <2>2. CASE rows' = rows
    BY <2>2, WriteTakesNoSlot
  <2>3. CASE rows' # rows
    <3>1. /\ b \notin Holding
          /\ ~(Cardinality({d \in Holding : Owner[d] = Owner[b]}) >= Allowed)
          /\ ~(b \in Encoding /\ Cardinality(Holding \cap Encoding) >= EncodeBudget)
          /\ rows' = [rows EXCEPT ![b].desired = "running", ![b].runtime = "Preparing", ![b].held = FALSE]
      BY <2>1, <2>3 DEF claim
    <3>2. /\ rows'[b].desired = "running" /\ ~rows'[b].held
          /\ \A d \in Broadcasts : d # b => rows'[d] = rows[d]
      BY <1>0, <3>1 DEF Row
    <3>3. Holding' = Holding \cup {b}
      BY <1>0, <3>2 DEF Holding, Wanted
    <3>4. /\ Cardinality({d \in Holding : Owner[d] = Owner[b]}) \in Nat
          /\ Cardinality(Holding \cap Encoding) \in Nat
      BY SlotsAreFinite DEF Holding, Wanted
    <3>5. /\ Cardinality({d \in Holding : Owner[d] = Owner[b]}) < Allowed
          /\ b \in Encoding => Cardinality(Holding \cap Encoding) < EncodeBudget
      BY <3>1, <3>4
    <3>6. Granted(b)
      BY <3>1, <3>3, <3>5 DEF Granted, SlotsOf, Encodes
    <3>7. QED BY <3>6 DEF b
  <2>4. QED BY <2>2, <2>3
<1>2. CASE Undo(c) \/ Release(c)
  <2>1. rows' = rows \/ rows' = release(b)
    BY <1>2 DEF Undo, Release, b
  <2>2. QED BY <1>0, <2>1, WriteTakesNoSlot DEF release, Row
<1>3. CASE Record(c)
  BY <1>0, <1>3, WriteTakesNoSlot DEF Record, recorded, Row, b
<1>4. CASE Delete(c)
  BY <1>0, <1>4, WriteTakesNoSlot DEF Delete, b
<1>5. CASE Save(c)
  <2>1. rows' = recorded(b, "Running")
    BY <1>5 DEF Save, b
  <2>2. QED BY <1>0, <2>1, WriteTakesNoSlot DEF recorded, Row
<1>6. CASE \/ Subscription(c) \/ SpawnCheck(c) \/ Clean(c) \/ Insert(c) \/ Halt(c) \/ Join(c) \/ After(c)
           \/ \E w \in Workers : Launch(c, w)
  <2>1. rows' = rows
    BY <1>6 DEF Subscription, SpawnCheck, Clean, Insert, Halt, Join, After, Launch
  <2>2. QED BY <2>1, WriteTakesNoSlot
<1>7. QED BY <1>1, <1>2, <1>3, <1>4, <1>5, <1>6 DEF CallStep

\* No worker takes a slot.
LEMMA WorkerSlots ==
    ASSUME CloudTypeOK, NEW w \in Workers, WorkerStep(w) \/ Exit(w)
    PROVE  Holding' \subseteq Holding
<1> DEFINE b == thread[w].of
<1>0. rows \in [Broadcasts -> Row]
  BY DEF CloudTypeOK
<1>1. CASE WorkerCheck(w)
  <2>1. rows' = rows \/ rows' = recorded(b, "Stopped")
    BY <1>1 DEF WorkerCheck
  <2>2. QED BY <1>0, <2>1, WriteTakesNoSlot DEF recorded, Row
<1>2. ASSUME NEW played, WorkerSave(w, played) PROVE Holding' \subseteq Holding
  <2>1. \/ rows' = rows
        \/ rows' = [rows EXCEPT ![b].desired = "stopped", ![b].runtime = "Stopped"]
        \/ rows' = [rows EXCEPT ![b].desired = "stopped", ![b].runtime = "Failed"]
        \/ \E s : rows' = recorded(b, s)
    BY <1>2 DEF WorkerSave
  <2>2. ASSUME NEW s, rows' = recorded(b, s) PROVE Holding' \subseteq Holding
    BY <1>0, <2>2, WriteTakesNoSlot DEF recorded, Row
  <2>3. QED BY <1>0, <2>1, <2>2, WriteTakesNoSlot DEF Row
<1>3. CASE \/ \E due, launched \in BOOLEAN : WorkerTick(w, due, launched)
           \/ WorkerTell(w) \/ WorkerRemove(w) \/ Exit(w)
  <2>1. rows' = rows
    BY <1>3 DEF WorkerTick, WorkerTell, WorkerRemove, Exit
  <2>2. QED BY <2>1, WriteTakesNoSlot
<1>4. QED BY <1>1, <1>2, <1>3 DEF WorkerStep

\* Neither does recovery, nor the death of the server.
LEMMA ServerSlots ==
    ASSUME CloudTypeOK, Recover \/ Crash \/ Shutdown \/ \E w \in Workers : RecoverDies(w)
    PROVE  Holding' \subseteq Holding
<1>0. rows \in [Broadcasts -> Row]
  BY DEF CloudTypeOK
<1>1. ASSUME NEW b, RecoverHold(b) \/ \E complete \in BOOLEAN : RecoverRefused(b, complete)
      PROVE  Holding' \subseteq Holding
  <2>1. \/ rows' = [rows EXCEPT ![b].runtime = "Stopped", ![b].held = TRUE]
        \/ rows' = [rows EXCEPT ![b].desired = "stopped", ![b].runtime = "Failed"]
        \/ rows' = rows
    BY <1>1 DEF RecoverHold, RecoverRefused
  <2>2. QED BY <1>0, <2>1, WriteTakesNoSlot DEF Row
<1>2. ASSUME NEW b, NEW w \in Workers, RecoverStart(b, w) PROVE Holding' \subseteq Holding
  <2>1. rows' = recorded(b, "Running")
    BY <1>2 DEF RecoverStart
  <2>2. QED BY <1>0, <2>1, WriteTakesNoSlot DEF recorded, Row
<1>3. CASE rows' = rows
  BY <1>3, WriteTakesNoSlot
<1>4. CASE Shutdown
  <2>1. \A b \in Broadcasts : rows'[b] = rows[b] \/ rows'[b] = [rows[b] EXCEPT !.runtime = "Stopped"]
    BY <1>4 DEF Shutdown
  <2>2. QED BY <1>0, <2>1, WriteTakesNoSlot DEF Row
<1>5. QED BY <1>1, <1>2, <1>3, <1>4 DEF Recover, Crash, RecoverDies

\* Whatever happens, a slot is taken only where there was room.
LEMMA SlotsAreGranted ==
    ASSUME CloudTypeOK, [Next]_vars
    PROVE  Holding' \subseteq Holding \/ \E b \in Broadcasts : Granted(b)
<1>1. \A c \in Callers : call[c].of \in Broadcasts
  BY DEF CloudTypeOK, Call
<1>2. UNCHANGED <<rows, thread, proc>> => Holding' \subseteq Holding
  BY WriteTakesNoSlot
<1>3. QED BY <1>1, <1>2, CallSlots, WorkerSlots, ServerSlots, OthersMoveNone DEF Next

\* entitlement.rs claim_stream_slot_within: no account ever holds more slots
\* than its plan allows, and no step takes the encodes of the machine over its
\* budget, whatever operations overlap.
THEOREM SlotsAreWithinLimits ==
    Spec => /\ [](\A u \in Users : Cardinality(SlotsOf(u)) <= Allowed)
            /\ [][Cardinality(Encodes') > Cardinality(Encodes) => Cardinality(Encodes') <= EncodeBudget]_vars
<1> DEFINE Kept == \A u \in Users : Cardinality(SlotsOf(u)) <= Allowed
           Grows == Cardinality(Encodes') > Cardinality(Encodes) => Cardinality(Encodes') <= EncodeBudget
<1>1. Init => Kept
  <2>1. ASSUME Init, NEW u \in Users PROVE Cardinality(SlotsOf(u)) <= Allowed
    <3>1. Cardinality({b \in Broadcasts : Owner[b] = u /\ rows[b].desired = "running"}) <= Allowed
      BY <2>1 DEF Init
    <3>2. SlotsOf(u) = {b \in Broadcasts : Owner[b] = u /\ rows[b].desired = "running"}
      BY <2>1 DEF Init, SlotsOf, Holding, Wanted
    <3>3. QED BY <3>1, <3>2
  <2>2. QED BY <2>1
<1>2. CloudTypeOK /\ CloudTypeOK' /\ Kept /\ [Next]_vars => Kept'
  <2>1. ASSUME CloudTypeOK, CloudTypeOK', Kept, [Next]_vars, NEW u \in Users
        PROVE  Cardinality(SlotsOf(u)') <= Allowed
    <3>1. /\ IsFiniteSet(SlotsOf(u)) /\ Cardinality(SlotsOf(u)) \in Nat
          /\ IsFiniteSet(SlotsOf(u)') /\ Cardinality(SlotsOf(u)') \in Nat
      BY <2>1, SlotsAreFinite DEF SlotsOf, Holding, Wanted
    <3>2. CASE SlotsOf(u)' \subseteq SlotsOf(u)
      BY <2>1, <3>1, <3>2, FS_Subset
    <3>3. ASSUME NEW b \in Broadcasts, Granted(b), Owner[b] = u PROVE Cardinality(SlotsOf(u)') <= Allowed
      <4>1. SlotsOf(u)' = SlotsOf(u) \cup {b} /\ b \notin SlotsOf(u)
        BY <3>3 DEF Granted, SlotsOf
      <4>2. Cardinality(SlotsOf(u)') = Cardinality(SlotsOf(u)) + 1
        BY <3>1, <4>1, FS_AddElement
      <4>3. Cardinality(SlotsOf(u)) < Allowed
        BY <3>3 DEF Granted
      <4>4. QED BY <3>1, <4>2, <4>3
    <3>4. ASSUME NEW b \in Broadcasts, Granted(b), Owner[b] # u PROVE SlotsOf(u)' \subseteq SlotsOf(u)
      BY <3>4 DEF Granted, SlotsOf
    <3>5. Holding' \subseteq Holding => SlotsOf(u)' \subseteq SlotsOf(u)
      BY DEF SlotsOf
    <3>6. QED BY <2>1, <3>2, <3>3, <3>4, <3>5, SlotsAreGranted
  <2>2. QED BY <2>1
<1>3. CloudTypeOK /\ CloudTypeOK' /\ [Next]_vars => Grows
  <2>1. ASSUME CloudTypeOK, CloudTypeOK', [Next]_vars PROVE Grows
    <3>1. /\ IsFiniteSet(Encodes) /\ Cardinality(Encodes) \in Nat
          /\ IsFiniteSet(Encodes') /\ Cardinality(Encodes') \in Nat
      BY <2>1, SlotsAreFinite DEF Encodes, Holding, Wanted
    <3>2. CASE Encodes' \subseteq Encodes
      <4>1. Cardinality(Encodes') <= Cardinality(Encodes)
        BY <3>1, <3>2, FS_Subset
      <4>2. QED BY <3>1, <4>1
    <3>3. ASSUME NEW b \in Broadcasts, Granted(b), b \in Encoding PROVE Cardinality(Encodes') <= EncodeBudget
      <4>1. Encodes' = Encodes \cup {b} /\ b \notin Encodes
        BY <3>3 DEF Granted, Encodes
      <4>2. Cardinality(Encodes') = Cardinality(Encodes) + 1
        BY <3>1, <4>1, FS_AddElement
      <4>3. Cardinality(Encodes) < EncodeBudget
        BY <3>3 DEF Granted
      <4>4. QED BY <3>1, <4>2, <4>3
    <3>4. ASSUME NEW b \in Broadcasts, Granted(b), b \notin Encoding PROVE Encodes' \subseteq Encodes
      BY <3>4 DEF Granted, Encodes
    <3>5. Holding' \subseteq Holding => Encodes' \subseteq Encodes
      BY DEF Encodes
    <3>6. QED BY <2>1, <3>2, <3>3, <3>4, <3>5, SlotsAreGranted
  <2>2. QED BY <2>1
<1>4. CloudTypeOK /\ CloudTypeOK' /\ [Next]_vars => [Grows]_vars
  BY <1>3
<1>5. Spec => []Kept
  BY <1>1, <1>2, CloudTypeCorrect, PTL DEF Spec
<1>6. Spec => [][Grows]_vars
  BY <1>4, CloudTypeCorrect, PTL DEF Spec
<1>7. QED BY <1>5, <1>6
=============================================================================
