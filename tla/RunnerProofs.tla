---------------------------- MODULE RunnerProofs ----------------------------
(***************************************************************************)
(* The split deployment, for any number of request threads, processes,     *)
(* roles and boots: the lease leaves one process with workers, and a HALT  *)
(* that was answered leaves none.  Then the schedule: whatever its rows    *)
(* and the length of a day, the scheduler acts on what is open, and on     *)
(* every occurrence once.                                                  *)
(***************************************************************************)
EXTENDS Runner, CloudSchedule, FiniteSetTheorems, WellFoundedInduction, TLAPS

USE RunnerAssumption

Steps == {"idle", "claim", "start", "awaits_start", "failed", "release", "halt",
          "awaits_halt", "record", "end"}
Call == [pc : Steps, n : Nat, halted : BOOLEAN, alone : BOOLEAN]
Command == [cmd : {"START", "HALT"}, from : Clients, n : Nat]

RunnerTypeOK ==
    /\ desired \in {"Stopped", "Running"} /\ entitled \in BOOLEAN
    /\ youtube \in {"open", "ended"}
    /\ call \in [Clients -> Call]
    /\ proc \in [Owners -> {"off", "booting", "recovering", "up"}]
    /\ boots \in Nat
    /\ locked \in Owners \cup {Nobody} /\ socket \in Owners \cup {Nobody}
    /\ backlog \in [Owners -> Seq(Command)]
    /\ worker \in [Owners -> {"none", "run", "ending"}]

\* A process that lives holds the lease, and a dead one has left no worker
\* and no connection behind.
Leased(p) == IF proc[p] # "off" THEN locked = p
                                ELSE worker[p] = "none" /\ backlog[p] = <<>>

\* The HALT of the call that c is in.
ItsHalt(m, c) == m.cmd = "HALT" /\ m.from = c /\ m.n = call[c].n

\* No command in a backlog is from a call that its client has yet to make.
NoneFromLater(p) == \A i \in DOMAIN backlog[p] : backlog[p][i].n <= call[backlog[p][i].from].n

\* A call has sent no HALT before it comes to the step that sends it.
HaltNotYetSent(c) ==
    call[c].pc \in {"claim", "start", "awaits_start", "release", "halt"} =>
        \A p \in Owners : \A i \in DOMAIN backlog[p] : ~ItsHalt(backlog[p][i], c)

\* The stops that no start has crossed.
Stopping(c) == call[c].alone /\ call[c].pc \in {"halt", "awaits_halt", "record", "end"}

NoStartAfter(p, i) == \A j \in DOMAIN backlog[p] : i < j => backlog[p][j].cmd # "START"

\* Nobody wants the broadcast, what is still in a backlog and starts it is
\* ahead of the HALT, and once that was answered nothing runs.
StopIsKept(c) ==
    Stopping(c) =>
        /\ desired = "Stopped"
        /\ \A p \in Owners : \A i \in DOMAIN backlog[p] :
              ItsHalt(backlog[p][i], c) => NoStartAfter(p, i)
        /\ call[c].halted => \A p \in Owners : worker[p] = "none" /\ NoStartAfter(p, 0)

\* Only a stop that has recorded its intent is alone, and only an answered
\* one has halted.
HistoryIsRight(c) ==
    /\ call[c].alone => call[c].pc \notin {"claim", "start", "awaits_start", "release"}
    /\ call[c].halted => call[c].pc \in {"record", "end", "idle"}

RunnerInv ==
    /\ RunnerTypeOK
    /\ \A p \in Owners : Leased(p) /\ NoneFromLater(p)
    /\ \A c \in Clients : HaltNotYetSent(c) /\ HistoryIsRight(c) /\ StopIsKept(c)

----------------------------------------------------------------------------
(* What a backlog is after a command joins it, and after one is answered.  *)

\* A command joins a backlog at its end.
LEMMA Joined ==
    ASSUME NEW S, NEW s \in Seq(S), NEW m \in S
    PROVE  /\ Append(s, m) \in Seq(S)
           /\ DOMAIN Append(s, m) = DOMAIN s \cup {Len(s) + 1}
           /\ \A i \in DOMAIN s : i \in Nat /\ i < Len(s) + 1 /\ Append(s, m)[i] = s[i]
           /\ Append(s, m)[Len(s) + 1] = m
           /\ Append(s, m) # <<>>
OBVIOUS

\* The first command leaves it, and the others move up.
LEMMA Left ==
    ASSUME NEW S, NEW s \in Seq(S), s # <<>>
    PROVE  /\ Tail(s) \in Seq(S)
           /\ \A i \in DOMAIN Tail(s) :
                 i \in Nat /\ i > 0 /\ i + 1 \in DOMAIN s /\ Tail(s)[i] = s[i + 1]
           /\ 1 \in DOMAIN s /\ Head(s) = s[1] /\ s[1] \in S
OBVIOUS

\* A thread that has made no call yet.
LEMMA NoCallIsCall == NoCall \in Call
<1>1. "idle" \in Steps /\ 0 \in Nat /\ FALSE \in BOOLEAN
  BY DEF Steps
<1>2. QED BY <1>1, Zenon DEF NoCall, Call

\* A call that begins is one of the next number, with no history.
LEMMA Begun ==
    ASSUME RunnerTypeOK, NEW c \in Clients, NEW pc \in {"claim", "release"}, Begin(c, pc)
    PROVE  /\ call' \in [Clients -> Call]
           /\ call'[c].pc = pc /\ call'[c].n = call[c].n + 1
           /\ call'[c].alone = FALSE /\ call'[c].halted = FALSE
           /\ \A d \in Clients \ {c} : call'[d] = call[d]
<1> DEFINE new == [NoCall EXCEPT !.pc = pc, !.n = call[c].n + 1]
<1>1. new \in Call
  <2>1. pc \in Steps
    BY DEF Steps
  <2>2. call[c].n + 1 \in Nat
    BY DEF RunnerTypeOK, Call
  <2>3. NoCall \in Call
    BY NoCallIsCall
  <2>4. QED BY <2>1, <2>2, <2>3 DEF Call
<1>2. new.pc = pc /\ new.n = call[c].n + 1 /\ new.alone = FALSE /\ new.halted = FALSE
  BY DEF NoCall
<1>3. call' = [call EXCEPT ![c] = new]
  BY DEF Begin
<1> HIDE DEF new
<1> QED BY <1>1, <1>2, <1>3 DEF RunnerTypeOK

\* What is left of a call whose step and history change.
SameCall(new, r, pc) == new \in Call /\ new.pc = pc /\ new.n = r.n

\* A call that goes to another step is still that call.
LEMMA CallStep ==
    ASSUME NEW r \in Call, NEW pc \in Steps
    PROVE  /\ SameCall([r EXCEPT !.pc = pc], r, pc)
           /\ [r EXCEPT !.pc = pc].alone = r.alone
           /\ [r EXCEPT !.pc = pc].halted = r.halted
BY DEF Call, SameCall

\* A call goes to another step, and keeps everything else.
LEMMA Gone ==
    ASSUME RunnerTypeOK, NEW c \in Clients, NEW pc, Goto(c, pc),
           pc \in {"idle", "start", "failed", "halt", "record", "end", "awaits_halt"}
    PROVE  /\ call' \in [Clients -> Call]
           /\ call'[c].pc = pc /\ call'[c].n = call[c].n
           /\ call'[c].alone = call[c].alone /\ call'[c].halted = call[c].halted
           /\ \A d \in Clients \ {c} : call'[d] = call[d]
<1>1. pc \in Steps
  BY DEF Steps
<1>2. call[c] \in Call
  BY DEF RunnerTypeOK
<1> DEFINE new == [call[c] EXCEPT !.pc = pc]
<1>3. SameCall(new, call[c], pc) /\ new.alone = call[c].alone /\ new.halted = call[c].halted
  BY <1>1, <1>2, CallStep
<1>4. call' = [call EXCEPT ![c] = new]
  BY DEF Goto
<1> HIDE DEF new
<1> QED BY <1>3, <1>4 DEF RunnerTypeOK, SameCall

\* What a start does to every call: its history is that it was crossed.
LEMMA CallCrossed ==
    ASSUME NEW r \in Call
    PROVE  /\ [r EXCEPT !.alone = FALSE] \in Call
           /\ [r EXCEPT !.alone = FALSE].pc = r.pc /\ [r EXCEPT !.alone = FALSE].n = r.n
           /\ [r EXCEPT !.alone = FALSE].halted = r.halted
           /\ [r EXCEPT !.alone = FALSE].alone = FALSE
BY DEF Call

\* Calls that are crossed stay what they were but for that.
LEMMA AllCrossed ==
    ASSUME NEW f \in [Clients -> Call], call' = Disturbed(f)
    PROVE  /\ call' \in [Clients -> Call]
           /\ \A d \in Clients : /\ call'[d].n = f[d].n /\ call'[d].pc = f[d].pc
                                 /\ call'[d].halted = f[d].halted
                                 /\ call'[d].alone = FALSE
<1>1. call' = [d \in Clients |-> [f[d] EXCEPT !.alone = FALSE]]
  BY DEF Disturbed
<1>2. \A d \in Clients : f[d] \in Call
  OBVIOUS
<1>3. ASSUME NEW d \in Clients
      PROVE  /\ call'[d] \in Call /\ call'[d].n = f[d].n /\ call'[d].pc = f[d].pc
             /\ call'[d].halted = f[d].halted /\ call'[d].alone = FALSE
  <2> DEFINE r == f[d]
  <2>1. r \in Call
    BY <1>2
  <2>2. call'[d] = [r EXCEPT !.alone = FALSE]
    BY <1>1
  <2>3. r = f[d]
    OBVIOUS
  <2> HIDE DEF r
  <2>4. QED BY <2>1, <2>2, <2>3, CallCrossed
<1>4. QED BY <1>1, <1>3

\* A start crosses every stop that is under way.
LEMMA Crossed ==
    ASSUME RunnerTypeOK, NEW c \in Clients, NEW pc,
           call' = Disturbed([call EXCEPT ![c].pc = pc]),
           pc \in {"start", "awaits_start"}
    PROVE  /\ call' \in [Clients -> Call]
           /\ call'[c].pc = pc
           /\ \A d \in Clients : /\ call'[d].n = call[d].n /\ call'[d].alone = FALSE
                                 /\ call'[d].halted = call[d].halted
                                 /\ d # c => call'[d].pc = call[d].pc
<1> DEFINE f == [call EXCEPT ![c].pc = pc]
<1>1. /\ f \in [Clients -> Call] /\ f[c].pc = pc
      /\ \A d \in Clients : /\ f[d].n = call[d].n /\ f[d].halted = call[d].halted
                            /\ d # c => f[d].pc = call[d].pc
  <2>1. pc \in Steps
    BY DEF Steps
  <2>2. call \in [Clients -> Call]
    BY DEF RunnerTypeOK
  <2>3. [call[c] EXCEPT !.pc = pc] \in Call
    BY <2>1, <2>2 DEF Call
  <2>4. f = [call EXCEPT ![c] = [call[c] EXCEPT !.pc = pc]]
    OBVIOUS
  <2> HIDE DEF f
  <2>5. f \in [Clients -> Call]
    BY <2>2, <2>3, <2>4
  <2>6. QED BY <2>2, <2>4, <2>5 DEF Call
<1>2. call' = Disturbed(f)
  OBVIOUS
<1> HIDE DEF f
<1>3. /\ call' \in [Clients -> Call]
      /\ \A d \in Clients : /\ call'[d].n = f[d].n /\ call'[d].pc = f[d].pc
                            /\ call'[d].halted = f[d].halted /\ call'[d].alone = FALSE
  BY <1>1, <1>2, AllCrossed
<1> QED BY <1>1, <1>3

\* The same of a stop that recorded its intent.
LEMMA CallAlone ==
    ASSUME NEW r \in Call, NEW pc \in Steps
    PROVE  /\ SameCall([r EXCEPT !.pc = pc, !.alone = TRUE], r, pc)
           /\ [r EXCEPT !.pc = pc, !.alone = TRUE].alone = TRUE
           /\ [r EXCEPT !.pc = pc, !.alone = TRUE].halted = r.halted
BY DEF Call, SameCall

\* The same of a call whose HALT was answered.
LEMMA CallHalted ==
    ASSUME NEW r \in Call, NEW pc \in Steps
    PROVE  /\ SameCall([r EXCEPT !.pc = pc, !.halted = TRUE], r, pc)
           /\ [r EXCEPT !.pc = pc, !.halted = TRUE].alone = r.alone
           /\ [r EXCEPT !.pc = pc, !.halted = TRUE].halted = TRUE
BY DEF Call, SameCall

\* The same of a call whose START was answered.
LEMMA CallNotHalted ==
    ASSUME NEW r \in Call, NEW pc \in Steps
    PROVE  /\ SameCall([r EXCEPT !.pc = pc, !.halted = FALSE], r, pc)
           /\ [r EXCEPT !.pc = pc, !.halted = FALSE].alone = r.alone
           /\ [r EXCEPT !.pc = pc, !.halted = FALSE].halted = FALSE
BY DEF Call, SameCall

\* A stop that recorded the intent is, for now, crossed by no start.
LEMMA Released ==
    ASSUME RunnerTypeOK, NEW c \in Clients, ReleaseSlot(c)
    PROVE  /\ call' \in [Clients -> Call]
           /\ call'[c].pc = "halt" /\ call'[c].n = call[c].n
           /\ call'[c].alone = TRUE /\ call'[c].halted = call[c].halted
           /\ \A d \in Clients \ {c} : call'[d] = call[d]
<1> DEFINE new == [call[c] EXCEPT !.pc = "halt", !.alone = TRUE]
<1>1. "halt" \in Steps
  BY DEF Steps
<1>2. /\ new \in Call /\ new.pc = "halt" /\ new.n = call[c].n
      /\ new.alone = TRUE /\ new.halted = call[c].halted
  <2>1. call[c] \in Call
    BY DEF RunnerTypeOK
  <2>2. QED BY <1>1, <2>1, CallAlone DEF SameCall
<1>3. call' = [call EXCEPT ![c] = new]
  BY DEF ReleaseSlot
<1> HIDE DEF new
<1> QED BY <1>2, <1>3 DEF RunnerTypeOK

\* A start of the owning process itself crosses every stop as well.
LEMMA OwnCrossed ==
    ASSUME RunnerTypeOK, call' = Disturbed(call)
    PROVE  /\ call' \in [Clients -> Call]
           /\ \A d \in Clients : /\ call'[d].n = call[d].n /\ call'[d].pc = call[d].pc
                                 /\ call'[d].halted = call[d].halted
                                 /\ call'[d].alone = FALSE
BY AllCrossed DEF RunnerTypeOK

\* The API dies with every call it had, and the commands it sent stay.
LEMMA ApiDied ==
    ASSUME RunnerTypeOK, ApiDies
    PROVE  /\ call' \in [Clients -> Call]
           /\ \A d \in Clients : /\ call'[d].n = call[d].n /\ call'[d].pc = "idle"
                                 /\ call'[d].halted = call[d].halted
<1>1. call' = [d \in Clients |-> [call[d] EXCEPT !.pc = "idle"]]
  BY DEF ApiDies
<1>2. "idle" \in Steps
  BY DEF Steps
<1>3. \A d \in Clients : /\ [call[d] EXCEPT !.pc = "idle"] \in Call
                         /\ [call[d] EXCEPT !.pc = "idle"].n = call[d].n
                         /\ [call[d] EXCEPT !.pc = "idle"].pc = "idle"
                         /\ [call[d] EXCEPT !.pc = "idle"].halted = call[d].halted
  <2>1. \A d \in Clients : call[d] \in Call
    BY DEF RunnerTypeOK
  <2>2. QED BY <1>2, <2>1, CallStep DEF SameCall
<1> QED BY <1>1, <1>3

\* The reply to a command moves the thread that still waits for it, if any.
Replied(m) ==
    \/ call' = call
    \/ /\ call' \in [Clients -> Call]
       /\ call[m.from].n = m.n /\ call[m.from].pc \in {"awaits_start", "awaits_halt"}
       /\ call'[m.from].n = call[m.from].n
       /\ call'[m.from].alone = call[m.from].alone
       /\ \/ m.cmd = "HALT" /\ call'[m.from].pc = "record" /\ call'[m.from].halted = TRUE
          \/ /\ m.cmd = "START" /\ call'[m.from].pc \in {"idle", "failed"}
             /\ call'[m.from].halted = FALSE
       /\ \A d \in Clients \ {m.from} : call'[d] = call[d]

\* Answer is such a reply, whether the command succeeded or not.
LEMMA Answered ==
    ASSUME RunnerTypeOK, NEW m \in Command, NEW yes \in BOOLEAN, Answer(m, yes, "failed")
    PROVE  Replied(m)
<1> DEFINE c == m.from
<1>1. c \in Clients /\ m.cmd \in {"START", "HALT"}
  BY DEF Command
<1>2. call[c] \in Call
  BY <1>1 DEF RunnerTypeOK
<1>3. CASE ~(call[c].n = m.n /\ call[c].pc \in {"awaits_start", "awaits_halt"})
  BY <1>3 DEF Answer, Replied
<1>4. CASE /\ call[c].n = m.n /\ call[c].pc \in {"awaits_start", "awaits_halt"}
           /\ m.cmd = "HALT"
  <2> DEFINE new == [call[c] EXCEPT !.pc = "record", !.halted = TRUE]
  <2>1. "record" \in Steps
    BY DEF Steps
  <2>2. call' = [call EXCEPT ![c] = new]
    BY <1>4 DEF Answer
  <2>3. /\ new \in Call /\ new.n = call[c].n /\ new.pc = "record"
        /\ new.alone = call[c].alone /\ new.halted = TRUE
    BY <1>2, <2>1, CallHalted DEF SameCall
  <2> HIDE DEF new
  <2>4. /\ call' \in [Clients -> Call] /\ call'[c] = new
        /\ \A d \in Clients \ {c} : call'[d] = call[d]
    BY <1>1, <2>2, <2>3 DEF RunnerTypeOK
  <2> QED BY <1>4, <2>3, <2>4 DEF Replied
<1>5. CASE /\ call[c].n = m.n /\ call[c].pc \in {"awaits_start", "awaits_halt"}
           /\ m.cmd = "START"
  <2>1. PICK pc : pc \in {"idle", "failed"} /\ pc = IF yes THEN "idle" ELSE "failed"
    OBVIOUS
  <2> DEFINE new == [call[c] EXCEPT !.pc = pc, !.halted = FALSE]
  <2>2. pc \in Steps
    BY <2>1 DEF Steps
  <2>3. call' = [call EXCEPT ![c] = new]
    BY <1>5, <2>1 DEF Answer
  <2>4. /\ new \in Call /\ new.n = call[c].n /\ new.pc = pc
        /\ new.alone = call[c].alone /\ new.halted = FALSE
    BY <1>2, <2>2, CallNotHalted DEF SameCall
  <2> HIDE DEF new
  <2>5. /\ call' \in [Clients -> Call] /\ call'[c] = new
        /\ \A d \in Clients \ {c} : call'[d] = call[d]
    BY <1>1, <2>3, <2>4 DEF RunnerTypeOK
  <2> QED BY <1>5, <2>1, <2>4, <2>5 DEF Replied
<1> QED BY <1>1, <1>3, <1>4, <1>5

----------------------------------------------------------------------------
(* The request threads.  Most of their steps leave the processes alone;    *)
(* what such a step owes to the invariant is said of each call by itself.  *)

Early == {"claim", "start", "awaits_start", "release", "halt"}

\* A call goes on without going back, or a new one begins.
CallGoesOn(d) ==
    \/ call'[d].n = call[d].n /\ (call'[d].pc \in Early => call[d].pc \in Early)
    \/ call'[d].n = call[d].n + 1

\* A stop goes on as it was, or has just recorded its intent.
StopGoesOn(d) ==
    Stopping(d)' =>
        /\ desired' = "Stopped"
        /\ \/ /\ Stopping(d) /\ call'[d].n = call[d].n
              /\ call'[d].halted = call[d].halted
           \/ call'[d].pc = "halt" /\ ~call'[d].halted

Undisturbed == UNCHANGED <<proc, locked, backlog, worker>>

\* The commands of a backlog are commands.
LEMMA CommandsAreTyped ==
    ASSUME RunnerTypeOK
    PROVE  /\ \A p \in Owners : backlog[p] \in Seq(Command)
           /\ \A p \in Owners : \A i \in DOMAIN backlog[p] :
                 /\ backlog[p][i] \in Command /\ backlog[p][i].from \in Clients
                 /\ backlog[p][i].n \in Nat
<1>1. \A p \in Owners : backlog[p] \in Seq(Command)
  BY DEF RunnerTypeOK
<1>2. \A p \in Owners : \A i \in DOMAIN backlog[p] : backlog[p][i] \in Command
  BY <1>1
<1>3. \A m \in Command : m.from \in Clients /\ m.n \in Nat
  BY DEF Command
<1>4. QED BY <1>1, <1>2, <1>3

\* Steps of the API that send nothing.
LEMMA QuietStep ==
    ASSUME RunnerInv, RunnerTypeOK', Undisturbed,
           \A d \in Clients : CallGoesOn(d) /\ StopGoesOn(d) /\ HistoryIsRight(d)'
    PROVE  RunnerInv'
<1>1. \A p \in Owners : Leased(p)'
  BY DEF RunnerInv, Leased, Undisturbed
<1>2. /\ \A p \in Owners : backlog[p] \in Seq(Command)
      /\ \A p \in Owners : \A i \in DOMAIN backlog[p] :
            /\ backlog[p][i] \in Command /\ backlog[p][i].from \in Clients
            /\ backlog[p][i].n \in Nat
  BY CommandsAreTyped DEF RunnerInv
<1>3. \A d \in Clients : call[d].n \in Nat /\ call'[d].n \in Nat /\ call[d].n <= call'[d].n
  <2>1. \A d \in Clients : call[d] \in Call /\ call'[d] \in Call
    BY DEF RunnerInv, RunnerTypeOK
  <2>2. \A d \in Clients : call[d].n \in Nat /\ call'[d].n \in Nat
    BY <2>1 DEF Call
  <2>3. QED BY <2>2 DEF CallGoesOn
<1>4. \A p \in Owners : NoneFromLater(p)'
  BY <1>2, <1>3 DEF RunnerInv, NoneFromLater, Undisturbed
<1>5. ASSUME NEW c \in Clients PROVE HaltNotYetSent(c)'
  <2>1. CASE call'[c].n = call[c].n /\ (call'[c].pc \in Early => call[c].pc \in Early)
    BY <2>1 DEF RunnerInv, HaltNotYetSent, ItsHalt, Early, Undisturbed
  <2>2. CASE call'[c].n = call[c].n + 1
    BY <1>2, <1>3, <2>2 DEF RunnerInv, HaltNotYetSent, ItsHalt, NoneFromLater, Undisturbed
  <2>3. QED BY <2>1, <2>2 DEF CallGoesOn
<1>6. ASSUME NEW c \in Clients PROVE StopIsKept(c)'
  <2>1. SUFFICES ASSUME Stopping(c)' PROVE StopIsKept(c)'
    BY DEF StopIsKept
  <2>2. desired' = "Stopped"
    BY <2>1 DEF StopGoesOn
  <2>3. CASE Stopping(c) /\ call'[c].n = call[c].n /\ call'[c].halted = call[c].halted
    BY <2>2, <2>3 DEF RunnerInv, StopIsKept, NoStartAfter, ItsHalt, Undisturbed
  <2>4. CASE call'[c].pc = "halt" /\ ~call'[c].halted
    BY <1>5, <2>2, <2>4 DEF StopIsKept, HaltNotYetSent, NoStartAfter, Undisturbed
  <2>5. QED BY <2>1, <2>3, <2>4 DEF StopGoesOn
<1>7. QED BY <1>1, <1>4, <1>5, <1>6 DEF RunnerInv

\* A call begins: a start, or a stop.
LEMMA BeginStep ==
    ASSUME RunnerInv, NEW c \in Clients, NEW pc \in {"claim", "release"}, Begin(c, pc)
    PROVE  RunnerInv'
<1>1. /\ call' \in [Clients -> Call]
      /\ call'[c].pc = pc /\ call'[c].n = call[c].n + 1
      /\ call'[c].alone = FALSE /\ call'[c].halted = FALSE
      /\ \A d \in Clients \ {c} : call'[d] = call[d]
  BY Begun DEF RunnerInv
<1>2. UNCHANGED <<desired, entitled, youtube, proc, boots, locked, socket, backlog, worker>>
  BY DEF Begin, intentVars, processVars
<1>3. RunnerTypeOK'
  BY <1>1, <1>2 DEF RunnerInv, RunnerTypeOK
<1>4. ASSUME NEW d \in Clients PROVE CallGoesOn(d) /\ StopGoesOn(d) /\ HistoryIsRight(d)'
  <2>1. CASE d = c
    BY <1>1, <2>1 DEF CallGoesOn, StopGoesOn, Stopping, HistoryIsRight
  <2>2. CASE d # c
    BY <1>1, <1>2, <2>2 DEF RunnerInv, CallGoesOn, StopGoesOn, Stopping, HistoryIsRight,
                            StopIsKept
  <2>3. QED BY <2>1, <2>2
<1>5. QED BY <1>2, <1>3, <1>4, QuietStep DEF Undisturbed

\* A call goes to a later step, and nothing else moves but the intent, which
\* only ever becomes a stop, and what YouTube was told.
LEMMA GotoStep ==
    ASSUME RunnerInv, NEW c \in Clients, NEW pc, Goto(c, pc),
           \/ call[c].pc = "claim" /\ pc = "idle"
           \/ call[c].pc = "failed" /\ pc = "idle"
           \/ call[c].pc \in {"start", "awaits_start"} /\ pc = "failed"
           \/ call[c].pc \in {"halt", "awaits_halt"} /\ pc = "record"
           \/ call[c].pc = "record" /\ pc = "end"
           \/ call[c].pc = "end" /\ pc = "idle",
           desired' \in {desired, "Stopped"}, youtube' \in {youtube, "ended"},
           UNCHANGED <<entitled, boots, socket>>, Undisturbed
    PROVE  RunnerInv'
<1>1. /\ call' \in [Clients -> Call]
      /\ call'[c].pc = pc /\ call'[c].n = call[c].n
      /\ call'[c].alone = call[c].alone /\ call'[c].halted = call[c].halted
      /\ \A d \in Clients \ {c} : call'[d] = call[d]
  BY Gone DEF RunnerInv
<1>2. RunnerTypeOK'
  BY <1>1 DEF RunnerInv, RunnerTypeOK, Undisturbed
<1>3. \A d \in Clients : Stopping(d) => desired = "Stopped"
  BY DEF RunnerInv, StopIsKept
<1>4. ASSUME NEW d \in Clients PROVE CallGoesOn(d) /\ StopGoesOn(d) /\ HistoryIsRight(d)'
  <2>1. CASE d = c
    <3>1. CallGoesOn(d)
      BY <1>1, <2>1 DEF CallGoesOn, Early
    <3>2. StopGoesOn(d)
      BY <1>1, <1>3, <2>1 DEF RunnerInv, HistoryIsRight, StopGoesOn, Stopping
    <3>3. HistoryIsRight(d)'
      BY <1>1, <2>1 DEF RunnerInv, HistoryIsRight
    <3>4. QED BY <3>1, <3>2, <3>3
  <2>2. CASE d # c
    BY <1>1, <1>3, <2>2 DEF RunnerInv, CallGoesOn, StopGoesOn, Stopping, HistoryIsRight
  <2>3. QED BY <2>1, <2>2
<1>5. QED BY <1>2, <1>4, QuietStep

\* The slot of the broadcast is claimed, or refused to who is not entitled.
LEMMA ClaimStep ==
    ASSUME RunnerInv, NEW c \in Clients, Claim(c)
    PROVE  RunnerInv'
<1>1. UNCHANGED <<entitled, youtube, proc, boots, locked, socket, backlog, worker>>
  BY DEF Claim, processVars
<1>2. CASE ~entitled
  BY <1>1, <1>2, GotoStep DEF Claim, At, Undisturbed
<1>3. CASE entitled
  <2>1. call' = Disturbed([call EXCEPT ![c].pc = "start"]) /\ desired' = "Running"
    BY <1>3 DEF Claim
  <2>2. /\ call' \in [Clients -> Call]
        /\ call'[c].pc = "start"
        /\ \A d \in Clients : /\ call'[d].n = call[d].n /\ call'[d].alone = FALSE
                              /\ call'[d].halted = call[d].halted
                              /\ d # c => call'[d].pc = call[d].pc
    BY <2>1, Crossed DEF RunnerInv
  <2>3. RunnerTypeOK'
    BY <1>1, <2>1, <2>2 DEF RunnerInv, RunnerTypeOK
  <2>4. call[c].pc = "claim"
    BY DEF Claim, At
  <2>5. ASSUME NEW d \in Clients PROVE CallGoesOn(d) /\ StopGoesOn(d) /\ HistoryIsRight(d)'
    BY <2>2, <2>4 DEF RunnerInv, CallGoesOn, StopGoesOn, Stopping, HistoryIsRight, Early
  <2>6. QED BY <1>1, <2>3, <2>5, QuietStep DEF Undisturbed
<1>4. QED BY <1>2, <1>3

\* A stop gives the slot back and records its intent.
LEMMA ReleaseStep ==
    ASSUME RunnerInv, NEW c \in Clients, ReleaseSlot(c)
    PROVE  RunnerInv'
<1>1. /\ call' \in [Clients -> Call]
      /\ call'[c].pc = "halt" /\ call'[c].n = call[c].n
      /\ call'[c].alone = TRUE /\ call'[c].halted = call[c].halted
      /\ \A d \in Clients \ {c} : call'[d] = call[d]
  BY Released DEF RunnerInv
<1>2. /\ UNCHANGED <<entitled, youtube, proc, boots, locked, socket, backlog, worker>>
      /\ desired' = "Stopped" /\ call[c].pc = "release"
  BY DEF ReleaseSlot, At, processVars
<1>3. RunnerTypeOK'
  BY <1>1, <1>2 DEF RunnerInv, RunnerTypeOK
<1>4. call[c].halted = FALSE
  <2>1. call[c].halted \in BOOLEAN
    BY DEF RunnerInv, RunnerTypeOK, Call
  <2>2. QED BY <1>2, <2>1 DEF RunnerInv, HistoryIsRight
<1>5. ASSUME NEW d \in Clients PROVE CallGoesOn(d) /\ StopGoesOn(d) /\ HistoryIsRight(d)'
  <2>1. CASE d = c
    BY <1>1, <1>2, <1>4, <2>1 DEF CallGoesOn, StopGoesOn, Stopping, HistoryIsRight, Early
  <2>2. CASE d # c
    BY <1>1, <1>2, <2>2 DEF RunnerInv, CallGoesOn, StopGoesOn, Stopping, HistoryIsRight
  <2>3. QED BY <2>1, <2>2
<1>6. QED BY <1>2, <1>3, <1>5, QuietStep DEF Undisturbed

\* The API dies.
LEMMA ApiDiesStep ==
    ASSUME RunnerInv, ApiDies
    PROVE  RunnerInv'
<1>1. /\ call' \in [Clients -> Call]
      /\ \A d \in Clients : /\ call'[d].n = call[d].n /\ call'[d].pc = "idle"
                            /\ call'[d].halted = call[d].halted
  BY ApiDied DEF RunnerInv
<1>2. UNCHANGED <<desired, entitled, youtube, proc, boots, locked, socket, backlog, worker>>
  BY DEF ApiDies, intentVars, processVars
<1>3. RunnerTypeOK'
  BY <1>1, <1>2 DEF RunnerInv, RunnerTypeOK
<1>4. ASSUME NEW d \in Clients PROVE CallGoesOn(d) /\ StopGoesOn(d) /\ HistoryIsRight(d)'
  BY <1>1 DEF CallGoesOn, StopGoesOn, Stopping, HistoryIsRight, Early
<1>5. QED BY <1>2, <1>3, <1>4, QuietStep DEF Undisturbed

\* A subscription lapses.
LEMMA LapseStep ==
    ASSUME RunnerInv, Lapse
    PROVE  RunnerInv'
<1>1. UNCHANGED <<desired, youtube, call, proc, boots, locked, socket, backlog, worker>>
  BY DEF Lapse, processVars
<1>2. RunnerTypeOK'
  BY <1>1 DEF RunnerInv, RunnerTypeOK, Lapse
<1>3. ASSUME NEW d \in Clients PROVE CallGoesOn(d) /\ StopGoesOn(d) /\ HistoryIsRight(d)'
  BY <1>1 DEF RunnerInv, CallGoesOn, StopGoesOn, Stopping, HistoryIsRight, StopIsKept
<1>4. QED BY <1>1, <1>2, <1>3, QuietStep DEF Undisturbed

\* What a command that joins a backlog leaves of the backlogs.
Joins(p, m) ==
    /\ p \in Owners /\ proc[p] = "up" /\ m \in Command
    /\ backlog' \in [Owners -> Seq(Command)]
    /\ \A q \in Owners \ {p} : backlog'[q] = backlog[q]
    /\ DOMAIN backlog'[p] = DOMAIN backlog[p] \cup {Len(backlog[p]) + 1}
    /\ \A i \in DOMAIN backlog[p] : /\ i \in Nat /\ i < Len(backlog[p]) + 1
                                    /\ backlog'[p][i] = backlog[p][i]
    /\ backlog'[p][Len(backlog[p]) + 1] = m
    /\ UNCHANGED <<desired, entitled, youtube, proc, boots, locked, socket, worker>>

\* A command that is sent joins the backlog of a process that is up.
LEMMA SendJoins ==
    ASSUME RunnerInv, NEW c \in Clients, NEW pc, NEW cmd \in {"START", "HALT"},
           Send(c, pc, cmd)
    PROVE  \E p \in Owners : Joins(p, [cmd |-> cmd, from |-> c, n |-> call[c].n])
<1> DEFINE m == [cmd |-> cmd, from |-> c, n |-> call[c].n]
<1>1. m \in Command
  <2>1. call[c].n \in Nat
    BY DEF RunnerInv, RunnerTypeOK, Call
  <2>2. QED BY <2>1 DEF Command
<1>2. PICK p \in Owners : /\ Listening(p)
                          /\ backlog' = [backlog EXCEPT ![p] = Append(backlog[p], m)]
  BY DEF Send
<1> HIDE DEF m
<1>3. backlog \in [Owners -> Seq(Command)]
  BY DEF RunnerInv, RunnerTypeOK
<1>4. /\ Append(backlog[p], m) \in Seq(Command)
      /\ DOMAIN Append(backlog[p], m) = DOMAIN backlog[p] \cup {Len(backlog[p]) + 1}
      /\ \A i \in DOMAIN backlog[p] : /\ i \in Nat /\ i < Len(backlog[p]) + 1
                                      /\ Append(backlog[p], m)[i] = backlog[p][i]
      /\ Append(backlog[p], m)[Len(backlog[p]) + 1] = m
  BY <1>1, <1>3, Joined
<1>5. /\ backlog' \in [Owners -> Seq(Command)] /\ backlog'[p] = Append(backlog[p], m)
      /\ \A q \in Owners \ {p} : backlog'[q] = backlog[q]
  BY <1>2, <1>3, <1>4
<1>6. /\ proc[p] = "up"
      /\ UNCHANGED <<desired, entitled, youtube, proc, boots, locked, socket, worker>>
  BY <1>2 DEF Listening, Send, intentVars, processVars
<1>7. Joins(p, m)
  BY <1>1, <1>4, <1>5, <1>6 DEF Joins
<1>8. QED BY <1>7 DEF m

\* A START is sent: it crosses every stop.
LEMMA SendStartStep ==
    ASSUME RunnerInv, NEW c \in Clients, SendStart(c)
    PROVE  RunnerInv'
<1>1. PICK p \in Owners : Joins(p, [cmd |-> "START", from |-> c, n |-> call[c].n])
  BY SendJoins DEF SendStart
<1>2. /\ call' \in [Clients -> Call]
      /\ call'[c].pc = "awaits_start"
      /\ \A d \in Clients : /\ call'[d].n = call[d].n /\ call'[d].alone = FALSE
                            /\ call'[d].halted = call[d].halted
                            /\ d # c => call'[d].pc = call[d].pc
  BY Crossed DEF RunnerInv, SendStart
<1>3. call[c].pc = "start"
  BY DEF SendStart, Send, At
<1> DEFINE m == [cmd |-> "START", from |-> c, n |-> call[c].n]
<1>4. m \in Command /\ m.cmd = "START" /\ m.from = c /\ m.n = call[c].n
  BY <1>1 DEF Joins
<1> HIDE DEF m
<1>5. Joins(p, m)
  BY <1>1 DEF m
<1>6. RunnerTypeOK'
  BY <1>2, <1>5 DEF RunnerInv, RunnerTypeOK, Joins
<1>7. \A q \in Owners : Leased(q)'
  BY <1>5 DEF RunnerInv, Leased, Joins
<1>8. ASSUME NEW q \in Owners PROVE NoneFromLater(q)'
  <2>1. \A i \in DOMAIN backlog[q] : backlog[q][i].from \in Clients
    BY CommandsAreTyped DEF RunnerInv
  <2>2. \A d \in Clients : call'[d].n = call[d].n
    BY <1>2
  <2>3. CASE q = p
    <3>1. call[c].n \in Nat
      BY DEF RunnerInv, RunnerTypeOK, Call
    <3>2. QED BY <1>4, <1>5, <2>1, <2>2, <2>3, <3>1 DEF RunnerInv, NoneFromLater, Joins
  <2>4. CASE q # p
    <3>1. backlog'[q] = backlog[q]
      BY <1>5, <2>4 DEF Joins
    <3>2. NoneFromLater(q)
      BY DEF RunnerInv
    <3>3. QED BY <2>1, <2>2, <3>1, <3>2 DEF NoneFromLater
  <2>5. QED BY <2>3, <2>4
<1>9. ASSUME NEW d \in Clients
      PROVE  HaltNotYetSent(d)' /\ HistoryIsRight(d)' /\ StopIsKept(d)'
  <2>1. HaltNotYetSent(d)'
    <3>1. SUFFICES ASSUME call'[d].pc \in Early, NEW q \in Owners, NEW i \in DOMAIN backlog'[q],
                          backlog'[q][i].cmd = "HALT", backlog'[q][i].from = d,
                          backlog'[q][i].n = call'[d].n
                   PROVE  FALSE
      BY DEF HaltNotYetSent, ItsHalt, Early
    <3>2. call[d].pc \in Early /\ backlog'[q][i].n = call[d].n
      BY <1>2, <1>3, <3>1 DEF Early
    <3>3. i \in DOMAIN backlog[q] /\ backlog'[q][i] = backlog[q][i]
      BY <1>4, <1>5, <3>1 DEF Joins
    <3>4. QED BY <3>1, <3>2, <3>3 DEF RunnerInv, HaltNotYetSent, ItsHalt, Early
  <2>2. HistoryIsRight(d)' /\ StopIsKept(d)'
    <3>1. d = c => call[d].halted = FALSE
      BY <1>3 DEF RunnerInv, RunnerTypeOK, Call, HistoryIsRight
    <3>2. QED BY <1>2, <3>1 DEF RunnerInv, HistoryIsRight, StopIsKept, Stopping
  <2>3. QED BY <2>1, <2>2
<1>10. QED BY <1>6, <1>7, <1>8, <1>9 DEF RunnerInv

\* A HALT is sent: what could still start the broadcast is ahead of it.
LEMMA SendHaltStep ==
    ASSUME RunnerInv, NEW c \in Clients, SendHalt(c)
    PROVE  RunnerInv'
<1>1. PICK p \in Owners : Joins(p, [cmd |-> "HALT", from |-> c, n |-> call[c].n])
  BY SendJoins DEF SendHalt
<1>2. /\ call' \in [Clients -> Call]
      /\ call'[c].pc = "awaits_halt" /\ call'[c].n = call[c].n
      /\ call'[c].alone = call[c].alone /\ call'[c].halted = call[c].halted
      /\ \A d \in Clients \ {c} : call'[d] = call[d]
  BY Gone DEF RunnerInv, SendHalt
<1>3. call[c].pc = "halt"
  BY DEF SendHalt, Send, At
<1> DEFINE m == [cmd |-> "HALT", from |-> c, n |-> call[c].n]
<1>4. m \in Command /\ m.cmd = "HALT" /\ m.from = c /\ m.n = call[c].n
  BY <1>1 DEF Joins
<1> HIDE DEF m
<1>5. Joins(p, m)
  BY <1>1 DEF m
<1>6. RunnerTypeOK'
  BY <1>2, <1>5 DEF RunnerInv, RunnerTypeOK, Joins
<1>7. \A q \in Owners : Leased(q)'
  BY <1>5 DEF RunnerInv, Leased, Joins
<1>8. ASSUME NEW q \in Owners PROVE NoneFromLater(q)'
  <2>1. \A i \in DOMAIN backlog[q] : backlog[q][i].from \in Clients
    BY CommandsAreTyped DEF RunnerInv
  <2>2. \A d \in Clients : call'[d].n = call[d].n
    BY <1>2
  <2>3. CASE q = p
    <3>1. call[c].n \in Nat
      BY DEF RunnerInv, RunnerTypeOK, Call
    <3>2. QED BY <1>4, <1>5, <2>1, <2>2, <2>3, <3>1 DEF RunnerInv, NoneFromLater, Joins
  <2>4. CASE q # p
    <3>1. backlog'[q] = backlog[q]
      BY <1>5, <2>4 DEF Joins
    <3>2. NoneFromLater(q)
      BY DEF RunnerInv
    <3>3. QED BY <2>1, <2>2, <3>1, <3>2 DEF NoneFromLater
  <2>5. QED BY <2>3, <2>4
<1>9. ASSUME NEW d \in Clients PROVE HaltNotYetSent(d)'
  <2>1. SUFFICES ASSUME call'[d].pc \in Early, NEW q \in Owners, NEW i \in DOMAIN backlog'[q],
                        backlog'[q][i].cmd = "HALT", backlog'[q][i].from = d,
                        backlog'[q][i].n = call'[d].n
                 PROVE  FALSE
    BY DEF HaltNotYetSent, ItsHalt, Early
  <2>2. d # c /\ call[d].pc \in Early /\ backlog'[q][i].n = call[d].n
    BY <1>2, <2>1 DEF Early
  <2>3. i \in DOMAIN backlog[q] /\ backlog'[q][i] = backlog[q][i]
    BY <1>4, <1>5, <2>1, <2>2 DEF Joins
  <2>4. QED BY <2>1, <2>2, <2>3 DEF RunnerInv, HaltNotYetSent, ItsHalt, Early
<1>10. ASSUME NEW d \in Clients PROVE HistoryIsRight(d)'
  <2>1. call[c].halted = FALSE
    BY <1>3 DEF RunnerInv, RunnerTypeOK, Call, HistoryIsRight
  <2>2. QED BY <1>2, <2>1 DEF RunnerInv, HistoryIsRight
<1>11. ASSUME NEW d \in Clients, Stopping(d)' PROVE StopIsKept(d)'
  <2>1. /\ Stopping(d) /\ desired' = "Stopped" /\ UNCHANGED worker
        /\ call'[d].n = call[d].n /\ call'[d].halted = call[d].halted
    BY <1>2, <1>3, <1>5, <1>11 DEF RunnerInv, StopIsKept, Stopping, Joins
  <2>2. ASSUME NEW q \in Owners, NEW i \in DOMAIN backlog'[q], backlog'[q][i].cmd = "START"
        PROVE  i \in DOMAIN backlog[q] /\ backlog'[q][i] = backlog[q][i]
    BY <1>4, <1>5, <2>2 DEF Joins
  <2>3. ASSUME NEW q \in Owners, NEW i \in DOMAIN backlog'[q],
               backlog'[q][i].cmd = "HALT", backlog'[q][i].from = d,
               backlog'[q][i].n = call'[d].n,
               NEW j \in DOMAIN backlog'[q], i < j, backlog'[q][j].cmd = "START"
        PROVE  FALSE
    <3>1. j \in DOMAIN backlog[q] /\ backlog'[q][j] = backlog[q][j]
      BY <2>2, <2>3
    <3>2. i \in DOMAIN backlog[q] /\ backlog'[q][i] = backlog[q][i]
      <4>1. Len(backlog[q]) \in Nat
        BY CommandsAreTyped DEF RunnerInv
      <4>2. QED BY <1>5, <2>3, <3>1, <4>1 DEF Joins
    <3>3. ItsHalt(backlog[q][i], d)
      BY <2>1, <2>3, <3>2 DEF ItsHalt
    <3>4. QED BY <2>1, <2>3, <3>1, <3>2, <3>3 DEF RunnerInv, StopIsKept, NoStartAfter
  <2>4. ASSUME call[d].halted, NEW q \in Owners
        PROVE  worker'[q] = "none" /\ NoStartAfter(q, 0)'
    <3>1. worker[q] = "none" /\ NoStartAfter(q, 0)
      BY <2>1, <2>4 DEF RunnerInv, StopIsKept
    <3>2. QED BY <2>1, <2>2, <3>1 DEF NoStartAfter
  <2>5. QED BY <2>1, <2>3, <2>4 DEF StopIsKept, NoStartAfter, ItsHalt
<1>12. QED BY <1>6, <1>7, <1>8, <1>9, <1>10, <1>11 DEF RunnerInv, StopIsKept

----------------------------------------------------------------------------
(* The owning processes. *)

\* A process that is up, or has a worker or a connection, holds the lease,
\* and the others have nothing.
LEMMA TheLease ==
    ASSUME RunnerInv, NEW p \in Owners,
           proc[p] # "off" \/ worker[p] # "none" \/ backlog[p] # <<>>
    PROVE  /\ locked = p
           /\ \A q \in Owners \ {p} : /\ proc[q] = "off" /\ worker[q] = "none"
                                      /\ backlog[q] = <<>>
BY DEF RunnerInv, Leased

\* What the steps of a process that touch neither a call nor a backlog owe:
\* an answered stop keeps its workers down.
LEMMA OwnerStep ==
    ASSUME RunnerInv, RunnerTypeOK', UNCHANGED <<call, backlog, desired>>,
           \A q \in Owners : Leased(q)',
           \A d \in Clients : Stopping(d) /\ call[d].halted =>
                                  \A q \in Owners : worker'[q] = "none"
    PROVE  RunnerInv'
<1>1. \A q \in Owners : NoneFromLater(q)'
  BY DEF RunnerInv, NoneFromLater
<1>2. ASSUME NEW d \in Clients PROVE HaltNotYetSent(d)' /\ HistoryIsRight(d)'
  BY DEF RunnerInv, HaltNotYetSent, HistoryIsRight, ItsHalt
<1>3. ASSUME NEW d \in Clients PROVE StopIsKept(d)'
  <2>1. Stopping(d)' <=> Stopping(d)
    BY DEF Stopping
  <2>2. QED BY <2>1 DEF RunnerInv, StopIsKept, NoStartAfter, ItsHalt
<1>4. QED BY <1>1, <1>2, <1>3 DEF RunnerInv

\* The lease is taken by one process, and refused to the others.
LEMMA AcquireStep ==
    ASSUME RunnerInv, NEW p \in Owners, acquire(p)
    PROVE  RunnerInv'
<1>1. RoleOf[p] \in {"All", "Runner"}
  BY DEF RunnerAssumption
<1>2. takes_the_lease(RoleOf[p])
  BY <1>1 DEF takes_the_lease, owns_workers
<1>3. /\ proc[p] = "off" /\ boots' = boots + 1
      /\ locked' = IF locked = Nobody THEN p ELSE locked
      /\ proc' = [proc EXCEPT ![p] = IF locked = Nobody THEN "booting" ELSE "off"]
      /\ UNCHANGED <<desired, entitled, youtube, call, socket, backlog, worker>>
  BY <1>2 DEF acquire, intentVars
<1>4. RunnerTypeOK'
  BY <1>3 DEF RunnerInv, RunnerTypeOK
<1>5. ASSUME NEW q \in Owners PROVE Leased(q)'
  BY <1>3 DEF RunnerInv, RunnerTypeOK, Leased, RunnerAssumption
<1>6. QED BY <1>3, <1>4, <1>5, OwnerStep DEF RunnerInv, StopIsKept

\* A worker starts in a process only if none runs there.
LEMMA SpawnTypes ==
    ASSUME RunnerTypeOK, NEW p \in Owners, NEW ok \in BOOLEAN, spawn_worker(p, ok)
    PROVE  /\ worker' \in [Owners -> {"none", "run", "ending"}]
           /\ \A q \in Owners \ {p} : worker'[q] = worker[q]
BY DEF RunnerTypeOK, spawn_worker

\* A process that boots starts the broadcast again, if it is wanted.
LEMMA RecoverStep ==
    ASSUME RunnerInv, NEW p \in Owners, recover_all(p)
    PROVE  RunnerInv'
<1>1. /\ proc[p] = "booting" /\ proc' = [proc EXCEPT ![p] = "recovering"]
      /\ UNCHANGED <<desired, entitled, youtube, call, boots, locked, socket, backlog>>
  BY DEF recover_all, intentVars
<1>2. locked = p /\ \A q \in Owners \ {p} : proc[q] = "off" /\ worker[q] = "none"
                                           /\ backlog[q] = <<>>
  BY <1>1, TheLease
<1>3. /\ worker' \in [Owners -> {"none", "run", "ending"}]
      /\ \A q \in Owners \ {p} : worker'[q] = worker[q]
      /\ worker' = worker \/ desired = "Running"
  <2>1. CASE desired = "Running" /\ entitled
    BY <2>1, SpawnTypes DEF RunnerInv, recover_all
  <2>2. CASE ~(desired = "Running" /\ entitled)
    BY <2>2 DEF RunnerInv, RunnerTypeOK, recover_all
  <2>3. QED BY <2>1, <2>2
<1>4. RunnerTypeOK'
  BY <1>1, <1>3 DEF RunnerInv, RunnerTypeOK
<1>5. ASSUME NEW q \in Owners PROVE Leased(q)'
  BY <1>1, <1>2, <1>3 DEF RunnerInv, RunnerTypeOK, Leased
<1>6. \A d \in Clients : Stopping(d) /\ call[d].halted => \A q \in Owners : worker'[q] = "none"
  BY <1>3 DEF RunnerInv, StopIsKept
<1>7. QED BY <1>1, <1>4, <1>5, <1>6, OwnerStep

\* The socket of a dead runner is replaced.
LEMMA BindStep ==
    ASSUME RunnerInv, NEW p \in Owners, bind(p)
    PROVE  RunnerInv'
<1>1. /\ proc[p] = "recovering" /\ proc' = [proc EXCEPT ![p] = "up"]
      /\ socket' \in {p, socket}
      /\ UNCHANGED <<desired, entitled, youtube, call, boots, locked, backlog, worker>>
  BY DEF bind, intentVars
<1>2. RunnerTypeOK'
  BY <1>1 DEF RunnerInv, RunnerTypeOK
<1>3. ASSUME NEW q \in Owners PROVE Leased(q)'
  BY <1>1 DEF RunnerInv, RunnerTypeOK, Leased
<1>4. QED BY <1>1, <1>2, <1>3, OwnerStep DEF RunnerInv, StopIsKept

\* A worker reads the stop, and ends.
LEMMA WorkerStep ==
    ASSUME RunnerInv, NEW p \in Owners, WorkerReads(p) \/ WorkerEnds(p)
    PROVE  RunnerInv'
<1>1. /\ worker[p] # "none"
      /\ worker' = [worker EXCEPT ![p] = "ending"] \/ worker' = [worker EXCEPT ![p] = "none"]
      /\ UNCHANGED <<desired, entitled, youtube, call, proc, boots, locked, socket, backlog>>
  BY DEF WorkerReads, WorkerEnds, intentVars, processVars
<1>2. RunnerTypeOK'
  BY <1>1 DEF RunnerInv, RunnerTypeOK
<1>3. ASSUME NEW q \in Owners PROVE Leased(q)'
  BY <1>1 DEF RunnerInv, RunnerTypeOK, Leased
<1>4. \A d \in Clients : ~(Stopping(d) /\ call[d].halted)
  BY <1>1 DEF RunnerInv, StopIsKept
<1>5. QED BY <1>1, <1>2, <1>3, <1>4, OwnerStep

\* The process starts the broadcast on its own account: every stop under
\* way is crossed.
LEMMA OwnStartStep ==
    ASSUME RunnerInv, NEW p \in Owners, OwnStart(p)
    PROVE  RunnerInv'
<1>1. PICK ok \in BOOLEAN :
          /\ spawn_worker(p, ok)
          /\ desired' = IF ok \/ worker[p] # "none" THEN "Running" ELSE "Stopped"
  BY DEF OwnStart
<1>2. /\ proc[p] = "up" /\ call' = Disturbed(call)
      /\ UNCHANGED <<entitled, youtube, proc, boots, locked, socket, backlog>>
  BY DEF OwnStart, processVars
<1>3. /\ worker' \in [Owners -> {"none", "run", "ending"}]
      /\ \A q \in Owners \ {p} : worker'[q] = worker[q]
  BY <1>1, SpawnTypes DEF RunnerInv
<1>4. /\ call' \in [Clients -> Call]
      /\ \A d \in Clients : /\ call'[d].n = call[d].n /\ call'[d].pc = call[d].pc
                            /\ call'[d].halted = call[d].halted
                            /\ call'[d].alone = FALSE
  BY <1>2, OwnCrossed DEF RunnerInv
<1>5. RunnerTypeOK'
  BY <1>1, <1>2, <1>3, <1>4 DEF RunnerInv, RunnerTypeOK
<1>6. ASSUME NEW q \in Owners PROVE Leased(q)'
  BY <1>2, <1>3 DEF RunnerInv, Leased
<1>7. ASSUME NEW q \in Owners PROVE NoneFromLater(q)'
  <2>1. \A i \in DOMAIN backlog[q] : backlog[q][i].from \in Clients
    BY CommandsAreTyped DEF RunnerInv
  <2>2. QED BY <1>2, <1>4, <2>1 DEF RunnerInv, NoneFromLater
<1>8. ASSUME NEW d \in Clients
      PROVE  HaltNotYetSent(d)' /\ HistoryIsRight(d)' /\ StopIsKept(d)'
  BY <1>2, <1>4 DEF RunnerInv, HaltNotYetSent, ItsHalt, HistoryIsRight, StopIsKept, Stopping
<1>9. QED BY <1>5, <1>6, <1>7, <1>8 DEF RunnerInv

\* A process goes, and takes with it its workers, its connections and the lock.
LEMMA OwnerGoneStep ==
    ASSUME RunnerInv, NEW p \in Owners, OwnerGone(p)
    PROVE  RunnerInv'
<1>1. /\ proc[p] # "off" /\ proc' = [proc EXCEPT ![p] = "off"]
      /\ locked' = IF locked = p THEN Nobody ELSE locked
      /\ worker' = [worker EXCEPT ![p] = "none"] /\ backlog' = [backlog EXCEPT ![p] = <<>>]
      /\ UNCHANGED <<desired, entitled, youtube, call, boots, socket>>
  BY DEF OwnerGone, intentVars
<1>2. locked = p /\ \A q \in Owners \ {p} : /\ proc[q] = "off" /\ worker[q] = "none"
                                           /\ backlog[q] = <<>>
  BY <1>1, TheLease
<1>3. /\ <<>> \in Seq(Command) /\ backlog' \in [Owners -> Seq(Command)]
      /\ \A q \in Owners : backlog'[q] = <<>> /\ proc'[q] = "off" /\ worker'[q] = "none"
  BY <1>1, <1>2 DEF RunnerInv, RunnerTypeOK
<1>4. RunnerTypeOK'
  BY <1>1, <1>3 DEF RunnerInv, RunnerTypeOK
<1>5. ASSUME NEW q \in Owners PROVE Leased(q)' /\ NoneFromLater(q)'
  BY <1>3 DEF Leased, NoneFromLater
<1>6. ASSUME NEW d \in Clients
      PROVE  HaltNotYetSent(d)' /\ HistoryIsRight(d)' /\ StopIsKept(d)'
  BY <1>1, <1>3 DEF RunnerInv, HaltNotYetSent, HistoryIsRight, StopIsKept, Stopping, NoStartAfter
<1>7. QED BY <1>4, <1>5, <1>6 DEF RunnerInv

\* What the answer to the first command of a backlog leaves.
Serves(p, m) ==
    /\ m \in Command /\ 1 \in DOMAIN backlog[p] /\ m = backlog[p][1]
    /\ proc[p] = "up" /\ locked = p
    /\ backlog' \in [Owners -> Seq(Command)]
    /\ \A q \in Owners \ {p} : /\ backlog[q] = <<>> /\ backlog'[q] = <<>>
                               /\ worker[q] = "none" /\ worker'[q] = "none"
    /\ \A i \in DOMAIN backlog'[p] : /\ i \in Nat /\ i > 0 /\ i + 1 \in DOMAIN backlog[p]
                                     /\ backlog'[p][i] = backlog[p][i + 1]
    /\ worker' \in [Owners -> {"none", "run", "ending"}]
    /\ Replied(m)
    /\ m.cmd = "HALT" => worker'[p] = "none"
    /\ UNCHANGED <<desired, entitled, youtube, proc, boots, locked, socket>>

\* serve is that, and the command is the one that arrived first.
LEMMA ServeIs ==
    ASSUME RunnerInv, NEW p \in Owners, serve(p)
    PROVE  \E m : Serves(p, m)
<1>1. PICK m : m = Head(backlog[p])
  OBVIOUS
<1>2. /\ proc[p] = "up" /\ backlog[p] # <<>>
      /\ IF m.cmd = "START" THEN serve_start(p, m) ELSE serve_halt(p, m)
      /\ backlog' = [backlog EXCEPT ![p] = Tail(backlog[p])]
      /\ UNCHANGED <<desired, entitled, youtube, proc, boots, locked, socket>>
  BY <1>1 DEF serve, Next1, intentVars, processVars
<1>3. backlog \in [Owners -> Seq(Command)] /\ backlog[p] \in Seq(Command)
  BY DEF RunnerInv, RunnerTypeOK
<1>4. /\ Tail(backlog[p]) \in Seq(Command)
      /\ \A i \in DOMAIN Tail(backlog[p]) : /\ i \in Nat /\ i > 0 /\ i + 1 \in DOMAIN backlog[p]
                                            /\ Tail(backlog[p])[i] = backlog[p][i + 1]
      /\ 1 \in DOMAIN backlog[p] /\ m = backlog[p][1] /\ m \in Command
  BY <1>1, <1>2, <1>3, Left
<1>5. /\ backlog' \in [Owners -> Seq(Command)] /\ backlog'[p] = Tail(backlog[p])
      /\ \A q \in Owners \ {p} : backlog'[q] = backlog[q]
  BY <1>2, <1>3, <1>4
<1>6. locked = p /\ \A q \in Owners \ {p} : /\ proc[q] = "off" /\ worker[q] = "none"
                                           /\ backlog[q] = <<>>
  BY <1>2, TheLease
<1>7. m.cmd \in {"START", "HALT"}
  BY <1>4 DEF Command
<1>8. /\ worker' \in [Owners -> {"none", "run", "ending"}]
      /\ \A q \in Owners \ {p} : worker'[q] = worker[q]
      /\ Replied(m)
      /\ m.cmd = "HALT" => worker'[p] = "none"
  <2>1. CASE m.cmd = "START"
    <3>1. PICK ok \in BOOLEAN :
              spawn_worker(p, ok) /\ Answer(m, ok \/ (entitled /\ worker[p] # "none"), "failed")
      BY <1>2, <2>1 DEF serve_start
    <3>2. PICK yes \in BOOLEAN : yes = (ok \/ (entitled /\ worker[p] # "none"))
      BY DEF RunnerInv, RunnerTypeOK
    <3>3. Answer(m, yes, "failed")
      BY <3>1, <3>2 DEF Answer
    <3>4. Replied(m)
      BY <1>4, <3>3, Answered DEF RunnerInv
    <3>5. QED BY <2>1, <3>1, <3>4, SpawnTypes DEF RunnerInv
  <2>2. CASE m.cmd = "HALT"
    <3>1. worker' = [worker EXCEPT ![p] = "none"] /\ Answer(m, TRUE, "failed")
      BY <1>2, <2>2 DEF serve_halt
    <3>2. Replied(m)
      BY <1>4, <3>1, Answered DEF RunnerInv
    <3>3. QED BY <3>1, <3>2 DEF RunnerInv, RunnerTypeOK
  <2>3. QED BY <1>7, <2>1, <2>2
<1>9. Serves(p, m)
  BY <1>2, <1>4, <1>5, <1>6, <1>8 DEF Serves
<1>10. QED BY <1>9

\* A reply leaves the calls of the right type, with the same numbers.
LEMMA RepliedCalls ==
    ASSUME RunnerInv, NEW m \in Command, Replied(m)
    PROVE  /\ m.from \in Clients /\ call' \in [Clients -> Call]
           /\ \A d \in Clients : /\ call'[d].n = call[d].n /\ call'[d].alone = call[d].alone
                                 /\ call'[d] = call[d] \/ d = m.from
<1>1. m.from \in Clients
  BY DEF Command
<1>2. QED BY <1>1 DEF Replied, RunnerInv, RunnerTypeOK

\* One command is answered: a START brings a worker, which no stop has heard
\* the last of; after a HALT there is none.
LEMMA ServeStep ==
    ASSUME RunnerInv, NEW p \in Owners, serve(p)
    PROVE  RunnerInv'
<1>1. PICK m : Serves(p, m)
  BY ServeIs
<1>2. m \in Command /\ Replied(m) /\ m.cmd \in {"START", "HALT"}
  BY <1>1 DEF Serves, Command
<1>3. /\ m.from \in Clients /\ call' \in [Clients -> Call]
      /\ \A d \in Clients : /\ call'[d].n = call[d].n /\ call'[d].alone = call[d].alone
                            /\ call'[d] = call[d] \/ d = m.from
  BY <1>2, RepliedCalls
<1>4. RunnerTypeOK'
  BY <1>1, <1>3 DEF RunnerInv, RunnerTypeOK, Serves
<1>5. ASSUME NEW q \in Owners PROVE Leased(q)'
  BY <1>1 DEF RunnerInv, Leased, Serves
<1>6. ASSUME NEW q \in Owners PROVE NoneFromLater(q)'
  <2>1. \A i \in DOMAIN backlog[p] : backlog[p][i].from \in Clients
    BY CommandsAreTyped DEF RunnerInv
  <2>2. CASE q = p
    <3>1. \A i \in DOMAIN backlog'[p] : i + 1 \in DOMAIN backlog[p]
                                         /\ backlog'[p][i] = backlog[p][i + 1]
      BY <1>1 DEF Serves
    <3>2. \A i \in DOMAIN backlog[p] : /\ backlog[p][i].n <= call[backlog[p][i].from].n
                                        /\ call'[backlog[p][i].from].n = call[backlog[p][i].from].n
      BY <1>3, <2>1 DEF RunnerInv, NoneFromLater
    <3>3. QED BY <2>2, <3>1, <3>2 DEF NoneFromLater
  <2>3. CASE q # p
    BY <1>1, <2>3 DEF NoneFromLater, Serves
  <2>4. QED BY <2>2, <2>3
<1>7. ASSUME NEW q \in Owners, NEW i \in DOMAIN backlog'[q]
      PROVE  /\ q = p /\ i \in Nat /\ i > 0 /\ i + 1 \in DOMAIN backlog[p]
             /\ backlog'[q][i] = backlog[p][i + 1]
  BY <1>1, <1>7 DEF Serves
<1>8. ASSUME NEW d \in Clients PROVE HaltNotYetSent(d)'
  <2>1. SUFFICES ASSUME call'[d].pc \in Early, NEW q \in Owners, NEW i \in DOMAIN backlog'[q],
                        backlog'[q][i].cmd = "HALT", backlog'[q][i].from = d,
                        backlog'[q][i].n = call'[d].n
                 PROVE  FALSE
    BY DEF HaltNotYetSent, ItsHalt, Early
  <2>2. call[d].pc \in Early
    BY <1>2, <1>3, <2>1 DEF Replied, Early
  <2>3. QED BY <1>3, <1>7, <2>1, <2>2 DEF RunnerInv, HaltNotYetSent, ItsHalt, Early
<1>9. call[m.from].pc = "awaits_start" => m.cmd = "START" \/ m.n # call[m.from].n
  BY <1>1, <1>2, <1>3 DEF RunnerInv, HaltNotYetSent, ItsHalt, Serves
<1>10. ASSUME NEW d \in Clients PROVE HistoryIsRight(d)'
  BY <1>2, <1>3 DEF RunnerInv, HistoryIsRight, Replied
<1>11. ASSUME NEW d \in Clients, Stopping(d)' PROVE StopIsKept(d)'
  <2>1. desired' = desired
    BY <1>1 DEF Serves
  <2>2. CASE call'[d] = call[d]
    <3>1. Stopping(d) /\ StopIsKept(d)
      BY <1>11, <2>2 DEF RunnerInv, Stopping
    <3>2. ASSUME NEW q \in Owners, NEW i \in DOMAIN backlog'[q], ItsHalt(backlog'[q][i], d)
          PROVE  NoStartAfter(q, i)'
      BY <1>7, <3>1, <3>2 DEF StopIsKept, NoStartAfter, ItsHalt
    <3>3. ASSUME call'[d].halted, NEW q \in Owners
          PROVE  worker'[q] = "none" /\ NoStartAfter(q, 0)'
      <4>1. /\ NoStartAfter(p, 0)
            /\ \A j \in DOMAIN backlog[p] : j > 0
        BY <1>1, <2>2, <3>1, <3>3 DEF StopIsKept, RunnerInv, RunnerTypeOK
      <4>2. m.cmd = "HALT"
        BY <1>1, <1>2, <4>1 DEF NoStartAfter, Serves
      <4>3. worker'[q] = "none"
        BY <1>1, <4>2 DEF Serves
      <4>4. QED BY <1>7, <4>1, <4>3 DEF NoStartAfter
    <3>4. QED BY <2>1, <2>2, <3>1, <3>2, <3>3 DEF StopIsKept, ItsHalt
  <2>3. CASE call'[d] # call[d]
    <3>1. /\ d = m.from /\ m.cmd = "HALT" /\ m.n = call[d].n
          /\ call[d].pc \in {"awaits_start", "awaits_halt"} /\ call[d].alone
      BY <1>2, <1>3, <1>11, <2>3 DEF Replied, Stopping
    <3>2. Stopping(d) /\ StopIsKept(d)
      BY <1>9, <3>1 DEF RunnerInv, Stopping
    <3>3. NoStartAfter(p, 1)
      BY <1>1, <3>1, <3>2 DEF StopIsKept, ItsHalt, Serves
    <3>4. \A q \in Owners : \A i \in DOMAIN backlog'[q] : backlog'[q][i].cmd # "START"
      BY <1>7, <3>3 DEF NoStartAfter
    <3>5. \A q \in Owners : worker'[q] = "none"
      BY <1>1, <3>1 DEF Serves
    <3>6. QED BY <2>1, <3>2, <3>4, <3>5 DEF StopIsKept, NoStartAfter
  <2>4. QED BY <2>2, <2>3
<1>12. QED BY <1>4, <1>5, <1>6, <1>8, <1>10, <1>11 DEF RunnerInv, StopIsKept

----------------------------------------------------------------------------
\* At first nothing runs and nothing is under way.
LEMMA RunnerInitInv ==
    ASSUME RunnerInit
    PROVE  RunnerInv
<1>1. RunnerTypeOK
  <2>1. call \in [Clients -> Call]
    BY NoCallIsCall DEF RunnerInit
  <2>2. <<>> \in Seq(Command)
    OBVIOUS
  <2>3. backlog \in [Owners -> Seq(Command)]
    BY <2>2 DEF RunnerInit
  <2>4. QED BY <2>1, <2>3 DEF RunnerInit, RunnerTypeOK
<1>2. ASSUME NEW p \in Owners PROVE Leased(p) /\ NoneFromLater(p)
  BY DEF RunnerInit, Leased, NoneFromLater
<1>3. ASSUME NEW c \in Clients
      PROVE  HaltNotYetSent(c) /\ HistoryIsRight(c) /\ StopIsKept(c)
  BY DEF RunnerInit, HaltNotYetSent, HistoryIsRight, StopIsKept, Stopping, NoCall
<1>4. QED BY <1>1, <1>2, <1>3 DEF RunnerInv

\* Every action keeps the invariant.
LEMMA RunnerStepInv ==
    ASSUME RunnerInv, [RunnerNext]_runnerVars
    PROVE  RunnerInv'
<1>1. ASSUME NEW c \in Clients, Start(c) PROVE RunnerInv'
  BY <1>1, BeginStep DEF Start
<1>2. ASSUME NEW c \in Clients, Claim(c) PROVE RunnerInv'
  BY <1>2, ClaimStep
<1>3. ASSUME NEW c \in Clients, SendStart(c) PROVE RunnerInv'
  BY <1>3, SendStartStep
<1>4. ASSUME NEW c \in Clients, StartFails(c) PROVE RunnerInv'
  BY <1>4, GotoStep DEF StartFails, At, processVars, Undisturbed
<1>5. ASSUME NEW c \in Clients, Stop(c) PROVE RunnerInv'
  BY <1>5, BeginStep DEF Stop
<1>6. ASSUME NEW c \in Clients, ReleaseSlot(c) PROVE RunnerInv'
  BY <1>6, ReleaseStep
<1>7. ASSUME NEW c \in Clients, SendHalt(c) PROVE RunnerInv'
  BY <1>7, SendHaltStep
<1>8. ASSUME NEW c \in Clients, RecordStopped(c) PROVE RunnerInv'
  BY <1>8, GotoStep DEF RecordStopped, At, intentVars, processVars, Undisturbed
<1>9. ASSUME NEW c \in Clients, after_stop(c) PROVE RunnerInv'
  BY <1>9, GotoStep DEF after_stop, At, processVars, Undisturbed
<1>10. ASSUME NEW c \in Clients, CallFails(c) PROVE RunnerInv'
  <2>1. UNCHANGED <<desired, entitled, youtube, proc, boots, locked, socket, backlog, worker>>
    BY <1>10 DEF CallFails, intentVars, processVars
  <2>2. \/ call[c].pc \in {"start", "awaits_start"} /\ Goto(c, "failed")
        \/ call[c].pc \in {"halt", "awaits_halt"} /\ Goto(c, "record")
    BY <1>10 DEF CallFails, Unanswered, TimesOut, At
  <2>3. QED BY <2>1, <2>2, GotoStep DEF Undisturbed
<1>11. ASSUME NEW p \in Owners, acquire(p) PROVE RunnerInv'
  BY <1>11, AcquireStep
<1>12. ASSUME NEW p \in Owners, recover_all(p) PROVE RunnerInv'
  BY <1>12, RecoverStep
<1>13. ASSUME NEW p \in Owners, bind(p) PROVE RunnerInv'
  BY <1>13, BindStep
<1>14. ASSUME NEW p \in Owners, serve(p) PROVE RunnerInv'
  BY <1>14, ServeStep
<1>15. ASSUME NEW p \in Owners, WorkerReads(p) \/ WorkerEnds(p) PROVE RunnerInv'
  BY <1>15, WorkerStep
<1>16. ASSUME NEW p \in Owners, OwnStart(p) PROVE RunnerInv'
  BY <1>16, OwnStartStep
<1>17. ASSUME NEW p \in Owners, OwnerGone(p) PROVE RunnerInv'
  BY <1>17, OwnerGoneStep
<1>18. CASE UNCHANGED runnerVars
  <2>1. Undisturbed /\ UNCHANGED <<desired, entitled, youtube, call, boots, socket>>
    BY <1>18 DEF runnerVars, Undisturbed
  <2>2. RunnerTypeOK'
    BY <2>1 DEF RunnerInv, RunnerTypeOK, Undisturbed
  <2>3. ASSUME NEW d \in Clients PROVE CallGoesOn(d) /\ StopGoesOn(d) /\ HistoryIsRight(d)'
    BY <2>1 DEF RunnerInv, CallGoesOn, StopGoesOn, Stopping, HistoryIsRight, StopIsKept
  <2>4. QED BY <2>1, <2>2, <2>3, QuietStep
<1>19. QED
  BY <1>1, <1>2, <1>3, <1>4, <1>5, <1>6, <1>7, <1>8, <1>9, <1>10, <1>11, <1>12, <1>13, <1>14,
     <1>15, <1>16, <1>17, <1>18, ApiDiesStep, LapseStep
  DEF RunnerNext, ClientNext, OwnerNext

\* The inductive invariant: types, the lease, what the backlogs hold of the
\* calls that are under way, and what a stop leaves behind.
THEOREM RunnerInvariance == RunnerSpec => []RunnerInv
<1>1. RunnerInit => RunnerInv
  BY RunnerInitInv
<1>2. RunnerInv /\ [RunnerNext]_runnerVars => RunnerInv'
  BY RunnerStepInv
<1>3. QED BY <1>1, <1>2, PTL DEF RunnerSpec

\* At most one process owns workers, whatever roles are started (lease.rs).
THEOREM OneProcessOwnsWorkers == RunnerSpec => []OneOwner
<1>1. RunnerInv => OneOwner
  <2>1. SUFFICES ASSUME RunnerInv PROVE OneOwner
    OBVIOUS
  <2> DEFINE owning == {p \in Owners : worker[p] # "none"}
  <2>2. owning \subseteq {locked}
    BY <2>1 DEF RunnerInv, Leased
  <2>3. /\ Cardinality({locked}) = 1 /\ IsFiniteSet({locked})
        /\ Cardinality(owning) <= Cardinality({locked})
    BY <2>2, FS_Singleton, FS_Subset
  <2>4. QED BY <2>3 DEF OneOwner
<1>2. QED BY <1>1, RunnerInvariance, PTL

\* Workers and connections belong to the live process that holds the lock:
\* while the lock is free there are none, and the next boot finds none to
\* start twice (lease.rs, main.rs).
THEOREM WorkersHoldTheLease ==
    RunnerSpec => [](\A p \in Owners : worker[p] # "none" \/ backlog[p] # <<>> =>
                                          locked = p /\ proc[p] # "off")
<1>1. RunnerInv => \A p \in Owners : worker[p] # "none" \/ backlog[p] # <<>> =>
                                        locked = p /\ proc[p] # "off"
  BY DEF RunnerInv, Leased
<1>2. QED BY <1>1, RunnerInvariance, PTL

\* A HALT that was answered is kept: the worker is down when YouTube's
\* broadcast is ended, unless a start has crossed the stop.
THEOREM HaltIsKept == RunnerSpec => EndedAfterHalt
<1>1. RunnerInv /\ [RunnerNext]_runnerVars =>
        [\A c \in Clients :
            after_stop(c) /\ call[c].halted /\ call[c].alone =>
                \A p \in Owners : worker[p] = "none"]_runnerVars
  BY DEF RunnerInv, StopIsKept, Stopping, after_stop, At
<1>2. QED BY <1>1, RunnerInvariance, PTL DEF RunnerSpec, EndedAfterHalt

----------------------------------------------------------------------------
(* The schedule.  Division by the length of a day first: its quotient and  *)
(* remainder are the only ones that fit.                                   *)

\* A whole number of days more or less is at least a day.
LEMMA DaysApart ==
    ASSUME NEW d \in Nat \ {0}, NEW q \in Int, NEW r \in Int, q < r
    PROVE  q * d + d <= r * d
<1>1. PICK k \in Nat : r = q + 1 + k
  <2>1. r - q - 1 \in Nat /\ r = q + 1 + (r - q - 1)
    OBVIOUS
  <2>2. QED BY <2>1
<1>2. r * d = q * d + d + k * d
  BY <1>1
<1>3. k * d \in Nat /\ q * d \in Int
  OBVIOUS
<1>4. QED BY <1>2, <1>3

\* The quotient and the remainder, and what they add up to.
LEMMA Division ==
    ASSUME NEW d \in Nat \ {0}, NEW a \in Int
    PROVE  /\ a \div d \in Int /\ a % d \in 0..(d - 1)
           /\ a = (a \div d) * d + (a % d)
BY SMT

\* No other quotient and remainder add up to it.
LEMMA DivisionIsUnique ==
    ASSUME NEW d \in Nat \ {0}, NEW q \in Int, NEW r \in 0..(d - 1)
    PROVE  (q * d + r) \div d = q /\ (q * d + r) % d = r
<1> DEFINE a == q * d + r
<1>1. a \in Int
  OBVIOUS
<1>2. /\ a \div d \in Int /\ a % d \in 0..(d - 1)
      /\ a = (a \div d) * d + (a % d)
  BY <1>1, Division
<1>3. PICK p \in Int : p = a \div d
  BY <1>2
<1>4. PICK m \in 0..(d - 1) : m = a % d
  BY <1>2
<1>5. q * d + r = p * d + m
  BY <1>2, <1>3, <1>4
<1>6. p * d \in Int /\ q * d \in Int
  OBVIOUS
<1>7. ~(p < q)
  BY <1>5, <1>6, DaysApart
<1>8. ~(q < p)
  BY <1>5, <1>6, DaysApart
<1>9. p = q
  BY <1>7, <1>8
<1>10. m = r
  BY <1>5, <1>6, <1>9
<1>11. QED BY <1>3, <1>4, <1>9, <1>10

\* A date, as the local day and the time of day of a start.
TimeOfDay(s) == (s.start + s.offset) % DAY
OnDay(s, day) == day * DAY + TimeOfDay(s) - s.offset

Schedule == [enabled : BOOLEAN, start : Int, stop : Int, days : SUBSET (0..6), offset : Int]

\* The instant of a schedule on a local day lies on that day, and a whole
\* number of days from the start; those are all that do.
LEMMA OnDayIs ==
    ASSUME NEW s \in Schedule, NEW day \in Int
    PROVE  /\ OnDay(s, day) \in Int
           /\ LocalDay(s, OnDay(s, day)) = day
           /\ (OnDay(s, day) - s.start) % DAY = 0
<1>1. /\ s.start \in Int /\ s.offset \in Int /\ s.start + s.offset \in Int
      /\ DAY \in Nat \ {0}
  BY ScheduleAssumption DEF Schedule
<1>2. PICK time \in 0..(DAY - 1) : time = TimeOfDay(s)
  BY <1>1, Division DEF TimeOfDay
<1>3. PICK first \in Int : first = (s.start + s.offset) \div DAY
  BY <1>1, Division
<1>4. s.start + s.offset = first * DAY + time
  BY <1>1, <1>2, <1>3, Division DEF TimeOfDay
<1>5. OnDay(s, day) = day * DAY + time - s.offset
  BY <1>2 DEF OnDay
<1>6. first * DAY \in Int /\ day * DAY \in Int /\ time \in Int
  BY <1>1
<1>7. OnDay(s, day) \in Int /\ OnDay(s, day) + s.offset = day * DAY + time
  BY <1>1, <1>5, <1>6
<1>8. LocalDay(s, OnDay(s, day)) = day
  BY <1>1, <1>7, DivisionIsUnique DEF LocalDay
<1>9. OnDay(s, day) - s.start = (day - first) * DAY
  <2>1. (day - first) * DAY = day * DAY - first * DAY
    BY <1>1
  <2>2. QED BY <1>1, <1>4, <1>5, <1>6, <2>1
<1>10. (OnDay(s, day) - s.start) % DAY = 0
  <2>1. day - first \in Int /\ 0 \in 0..(DAY - 1)
    BY <1>1
  <2>2. ((day - first) * DAY + 0) % DAY = 0
    BY <1>1, <2>1, DivisionIsUnique
  <2>3. (day - first) * DAY + 0 = (day - first) * DAY
    BY <1>1
  <2>4. QED BY <1>9, <2>2, <2>3
<1>11. QED BY <1>7, <1>8, <1>10

\* An instant a whole number of days from the start is the one of its day.
LEMMA IsOnItsDay ==
    ASSUME NEW s \in Schedule, NEW o \in Int, (o - s.start) % DAY = 0
    PROVE  LocalDay(s, o) \in Int /\ o = OnDay(s, LocalDay(s, o))
<1>1. /\ s.start \in Int /\ s.offset \in Int /\ s.start + s.offset \in Int
      /\ DAY \in Nat \ {0} /\ o - s.start \in Int /\ o + s.offset \in Int
  BY ScheduleAssumption DEF Schedule
<1>2. PICK time \in 0..(DAY - 1) : time = TimeOfDay(s)
  BY <1>1, Division DEF TimeOfDay
<1>3. PICK first \in Int : first = (s.start + s.offset) \div DAY
  BY <1>1, Division
<1>4. s.start + s.offset = first * DAY + time
  BY <1>1, <1>2, <1>3, Division DEF TimeOfDay
<1>5. PICK k \in Int : o - s.start = k * DAY
  <2>1. PICK k \in Int : k = (o - s.start) \div DAY
    BY <1>1, Division
  <2>2. o - s.start = k * DAY + 0
    BY <1>1, <2>1, Division
  <2>3. k * DAY + 0 = k * DAY
    BY <1>1
  <2>4. QED BY <2>2, <2>3
<1>6. o + s.offset = (k + first) * DAY + time
  <2>1. (k + first) * DAY = k * DAY + first * DAY
    BY <1>1
  <2>2. PICK kDays \in Int, firstDays \in Int :
            kDays = k * DAY /\ firstDays = first * DAY
    BY <1>1
  <2>3. o - s.start = kDays /\ s.start + s.offset = firstDays + time
    BY <1>4, <1>5, <2>2
  <2>4. o + s.offset = (kDays + firstDays) + time
    <3>1. PICK start \in Int, offset \in Int : start = s.start /\ offset = s.offset
      BY <1>1
    <3>2. time \in Int
      BY <1>1
    <3>3. o - start = kDays /\ start + offset = firstDays + time
      BY <2>3, <3>1
    <3>4. o + offset = (kDays + firstDays) + time
      BY <3>2, <3>3
    <3>5. QED BY <3>1, <3>4
  <2>5. QED BY <2>1, <2>2, <2>4
<1>7. k + first \in Int
  OBVIOUS
<1>8. LocalDay(s, o) = k + first
  <2>1. ((k + first) * DAY + time) \div DAY = k + first
    BY <1>1, <1>7, DivisionIsUnique
  <2>2. QED BY <1>6, <2>1 DEF LocalDay
<1>9. (k + first) * DAY \in Int
  BY <1>1, <1>7
<1>10. OnDay(s, k + first) = o
  BY <1>1, <1>2, <1>6, <1>9 DEF OnDay
<1>11. QED BY <1>7, <1>8, <1>10

\* Days follow each other: a later instant is on no earlier day, and the
\* instants of two days are in the order of the days, at least a day apart.
LEMMA DaysAreOrdered ==
    ASSUME NEW s \in Schedule
    PROVE  /\ \A t \in Int, u \in Int : t <= u =>
                /\ LocalDay(s, t) \in Int /\ LocalDay(s, u) \in Int
                /\ LocalDay(s, t) <= LocalDay(s, u)
                /\ u - t < DAY => LocalDay(s, u) <= LocalDay(s, t) + 1
           /\ \A d \in Int, e \in Int : d < e => OnDay(s, d) + DAY <= OnDay(s, e)
<1>1. s.offset \in Int /\ s.start + s.offset \in Int /\ DAY \in Nat \ {0}
  BY ScheduleAssumption DEF Schedule
<1>2. ASSUME NEW t \in Int, NEW u \in Int, t <= u
      PROVE  /\ LocalDay(s, t) \in Int /\ LocalDay(s, u) \in Int
             /\ LocalDay(s, t) <= LocalDay(s, u)
             /\ u - t < DAY => LocalDay(s, u) <= LocalDay(s, t) + 1
  <2>1. PICK d \in Int, m \in 0..(DAY - 1) :
           d = LocalDay(s, t) /\ t + s.offset = d * DAY + m
    <3>1. t + s.offset \in Int
      BY <1>1
    <3>2. /\ (t + s.offset) \div DAY \in Int /\ (t + s.offset) % DAY \in 0..(DAY - 1)
          /\ t + s.offset = ((t + s.offset) \div DAY) * DAY + ((t + s.offset) % DAY)
      BY <1>1, <3>1, Division
    <3>3. QED BY <3>2, Zenon DEF LocalDay
  <2>2. PICK e \in Int, n \in 0..(DAY - 1) :
           e = LocalDay(s, u) /\ u + s.offset = e * DAY + n
    <3>1. u + s.offset \in Int
      BY <1>1
    <3>2. /\ (u + s.offset) \div DAY \in Int /\ (u + s.offset) % DAY \in 0..(DAY - 1)
          /\ u + s.offset = ((u + s.offset) \div DAY) * DAY + ((u + s.offset) % DAY)
      BY <1>1, <3>1, Division
    <3>3. QED BY <3>2, Zenon DEF LocalDay
  <2>3. d * DAY \in Int /\ e * DAY \in Int
    BY <1>1
  <2>4. ~(e < d)
    BY <1>1, <1>2, <2>1, <2>2, <2>3, DaysApart
  <2>5. ASSUME u - t < DAY, d + 1 < e PROVE FALSE
    <3>1. (d + 1) * DAY + DAY <= e * DAY /\ (d + 1) * DAY = d * DAY + DAY
      BY <1>1, <2>5, DaysApart
    <3>2. QED BY <1>1, <2>1, <2>2, <2>3, <2>5, <3>1
  <2>6. QED BY <2>1, <2>2, <2>4, <2>5
<1>3. ASSUME NEW d \in Int, NEW e \in Int, d < e
      PROVE  OnDay(s, d) + DAY <= OnDay(s, e)
  <2>1. d * DAY + DAY <= e * DAY /\ d * DAY \in Int /\ e * DAY \in Int
    BY <1>1, <1>3, DaysApart
  <2>2. PICK time \in Int : time = TimeOfDay(s)
    BY <1>1, Division DEF TimeOfDay
  <2>3. QED BY <1>1, <2>1, <2>2 DEF OnDay
<1>4. QED BY <1>2, <1>3

----------------------------------------------------------------------------
(* What next_occurrence finds, looking back over eight days, against what  *)
(* Occurs says without looking back.                                       *)

\* A set of numbers has a least one, and Min is that.
LEMMA LeastNumber ==
    ASSUME NEW T, T \subseteq Nat, T # {}
    PROVE  Min(T) \in T /\ \A m \in T : Min(T) <= m
<1>1. PICK n \in T : \A m \in T : ~(<<m, n>> \in OpToRel(<, Nat))
  BY NatLessThanWellFounded, WFMin
<1>2. ASSUME NEW m \in T PROVE n <= m
  <2>1. m \in Nat /\ n \in Nat
    OBVIOUS
  <2>2. ~(m < n)
    BY <1>1, <2>1 DEF OpToRel
  <2>3. QED BY <2>1, <2>2
<1>3. QED BY <1>1, <1>2 DEF Min

\* Of one number, it is the least.
LEMMA LeastOfOne ==
    ASSUME NEW o \in Int
    PROVE  Min({o}) = o
BY DEF Min

\* The days, counted back from an instant's, on which a start has come.
Fits(s, t) == {back \in 0..7 : /\ (LocalDay(s, t) - back) % 7 \in s.days
                               /\ OnDay(s, LocalDay(s, t) - back) \in s.start..t}

\* next_occurrence, in terms of the days that fit.
LEMMA NextUnfolds ==
    ASSUME NEW s, NEW t
    PROVE  next_occurrence(s, t) =
             IF s.days = {} THEN {s.start}
             ELSE IF Fits(s, t) = {} THEN {}
             ELSE {OnDay(s, LocalDay(s, t) - Min(Fits(s, t)))}
BY DEF next_occurrence, Fits, OnDay, TimeOfDay, day_enabled

LastOf(s, t, o) == \A later \in (o + 1)..t : ~Occurs(s, later)

\* An occurrence begun by t is on the day that it was found on, counting back.
LEMMA FoundBack ==
    ASSUME NEW s \in Schedule, s.days # {}, NEW t \in Int, NEW o \in Int, o <= t,
           Occurs(s, o), NEW L \in Int, L = LocalDay(s, t)
    PROVE  /\ L - LocalDay(s, o) \in Nat
           /\ o = OnDay(s, L - (L - LocalDay(s, o)))
           /\ L - LocalDay(s, o) <= 7 => L - LocalDay(s, o) \in Fits(s, t)
           /\ t - o < DAY => L - LocalDay(s, o) <= 1
<1>1. o >= s.start /\ (o - s.start) % DAY = 0 /\ LocalDay(s, o) % 7 \in s.days
  BY DEF Occurs
<1>2. PICK d \in Int : d = LocalDay(s, o) /\ o = OnDay(s, d)
  BY <1>1, IsOnItsDay
<1>3. d <= L /\ (t - o < DAY => L <= d + 1)
  BY <1>2, DaysAreOrdered
<1>4. L - (L - d) = d /\ L - d \in Nat
  BY <1>3
<1>5. s.start \in Int
  BY DEF Schedule
<1>6. L - d <= 7 => L - d \in Fits(s, t)
  BY <1>1, <1>2, <1>4, <1>5 DEF Fits
<1>7. QED BY <1>2, <1>3, <1>4, <1>6

\* What is found is an occurrence, and the latest there is.
LEMMA NextIsAnOccurrence ==
    ASSUME NEW s \in Schedule, NEW t \in Int, NEW o \in next_occurrence(s, t)
    PROVE  o \in Int /\ Occurs(s, o) /\ LastOf(s, t, o)
<1>1. s.start \in Int
  BY DEF Schedule
<1>2. CASE s.days = {}
  BY <1>1, <1>2, NextUnfolds DEF Occurs, LastOf
<1>3. CASE s.days # {}
  <2>1. Fits(s, t) # {} /\ o = OnDay(s, LocalDay(s, t) - Min(Fits(s, t)))
    BY <1>3, NextUnfolds
  <2>2. PICK k : k = Min(Fits(s, t))
    OBVIOUS
  <2>3. PICK L \in Int : L = LocalDay(s, t)
    BY DaysAreOrdered
  <2>4. k \in Fits(s, t) /\ \A m \in Fits(s, t) : k <= m
    BY <2>1, <2>2, LeastNumber DEF Fits
  <2>5. /\ k \in 0..7 /\ L - k \in Int /\ (L - k) % 7 \in s.days
        /\ o = OnDay(s, L - k) /\ o \in s.start..t
    BY <2>1, <2>2, <2>3, <2>4 DEF Fits
  <2>6. o \in Int /\ LocalDay(s, o) = L - k /\ (o - s.start) % DAY = 0
    BY <2>5, OnDayIs
  <2>7. Occurs(s, o)
    BY <1>1, <1>3, <2>5, <2>6 DEF Occurs
  <2>8. ASSUME NEW later \in (o + 1)..t, Occurs(s, later) PROVE FALSE
    <3>1. later \in Int /\ o < later /\ later <= t /\ o <= later
      BY <2>6, <2>8
    <3>2. PICK d \in Int : d = LocalDay(s, later)
      BY <3>1, DaysAreOrdered
    <3>3. /\ L - d \in Nat /\ later = OnDay(s, L - (L - d))
          /\ L - d <= 7 => L - d \in Fits(s, t)
      <4>1. /\ L - LocalDay(s, later) \in Nat
            /\ later = OnDay(s, L - (L - LocalDay(s, later)))
            /\ L - LocalDay(s, later) <= 7 => L - LocalDay(s, later) \in Fits(s, t)
        BY <1>3, <2>3, <2>8, <3>1, FoundBack
      <4>2. QED BY <3>2, <4>1
    <3>4. L - k <= d
      BY <2>6, <3>1, <3>2, DaysAreOrdered
    <3>5. k <= L - d
      BY <2>4, <2>5, <3>3, <3>4
    <3>6. d = L - k /\ L - (L - d) = d
      BY <2>5, <3>4, <3>5
    <3>7. QED BY <2>5, <3>1, <3>3, <3>6
  <2>9. QED BY <2>6, <2>7, <2>8 DEF LastOf
<1>4. QED BY <1>2, <1>3

\* An occurrence that began within the last day, and is the latest, is found.
LEMMA LatestIsFound ==
    ASSUME NEW s \in Schedule, NEW t \in Int, NEW o \in Int, o <= t, t - o < DAY,
           Occurs(s, o), LastOf(s, t, o)
    PROVE  next_occurrence(s, t) = {o}
<1>1. CASE s.days = {}
  BY <1>1, NextUnfolds DEF Occurs
<1>2. CASE s.days # {}
  <2>1. PICK L \in Int : L = LocalDay(s, t)
    BY DaysAreOrdered
  <2>2. PICK d \in Int : d = LocalDay(s, o)
    BY DaysAreOrdered
  <2>3. L - d \in Fits(s, t) /\ o = OnDay(s, L - (L - d)) /\ L - (L - d) = d
    BY <1>2, <2>1, <2>2, FoundBack
  <2>4. PICK p : next_occurrence(s, t) = {p} /\ p = OnDay(s, L - Min(Fits(s, t)))
    BY <1>2, <2>1, <2>3, NextUnfolds
  <2>5. p \in Int /\ Occurs(s, p) /\ LastOf(s, t, p)
    BY <2>4, NextIsAnOccurrence
  <2>6. Min(Fits(s, t)) \in Fits(s, t)
    <3>1. Fits(s, t) \subseteq Nat
      BY DEF Fits
    <3>2. QED BY <2>3, <3>1, LeastNumber
  <2>7. p <= t
    <3>1. s.start \in Int
      BY DEF Schedule
    <3>2. QED BY <2>1, <2>4, <2>6, <3>1 DEF Fits
  <2>8. p = o
    BY <2>5, <2>7 DEF LastOf
  <2>9. QED BY <2>4, <2>8
<1>3. QED BY <1>1, <1>2

----------------------------------------------------------------------------
(* What the scheduler decides. *)

\* The conditions of decide on an occurrence that was found.
Due(s, ran, t) ==
    {o \in next_occurrence(s, t) :
        /\ ran < o /\ o <= t /\ t - o <= CATCH_UP
        /\ s.stop # Never => t < o + (s.stop - s.start)}

\* decide, in terms of what is due.
LEMMA DecideUnfolds ==
    ASSUME NEW s, NEW ran, NEW wanted, NEW t
    PROVE  decide(s, ran, wanted, t) =
             IF ~s.enabled THEN Nothing
             ELSE IF wanted = "Running"
             THEN IF s.stop # Never /\ ran # Never /\ t >= ran + (s.stop - s.start)
                  THEN [do |-> "stop", occurrence |-> ran]
                  ELSE Nothing
             ELSE IF Due(s, ran, t) = {} THEN Nothing
                  ELSE [do |-> "mark", occurrence |-> Min(Due(s, ran, t))]
BY DEF decide, Due

\* What is found is one occurrence at most.
LEMMA DueIsOne ==
    ASSUME NEW s \in Schedule, NEW ran \in Int, NEW t \in Int, NEW o \in Due(s, ran, t)
    PROVE  o \in Int /\ o \in next_occurrence(s, t) /\ Due(s, ran, t) = {o}
<1>1. o \in next_occurrence(s, t) /\ o \in Int
  BY NextIsAnOccurrence DEF Due
<1>2. PICK p : next_occurrence(s, t) = {p}
  BY <1>1, NextUnfolds
<1>3. QED BY <1>1, <1>2 DEF Due

Passes == [do : {"nothing", "mark", "start", "stop"}, occurrence : Int]

\* Between passes there is nothing to do.
LEMMA NothingIsAPass == Nothing \in Passes /\ Nothing.do = "nothing"
<1>1. "nothing" \in {"nothing", "mark", "start", "stop"} /\ Never \in Int
  BY DEF Never
<1>2. QED BY <1>1, Zenon DEF Nothing, Passes

\* A decision is well typed, and what it marks has begun and was not acted on.
LEMMA DecideTypes ==
    ASSUME NEW s \in Schedule, NEW ran \in Int, NEW wanted, NEW t \in Int
    PROVE  LET d == decide(s, ran, wanted, t)
           IN  d \in Passes /\ (d.do = "mark" => /\ d.occurrence \in Due(s, ran, t)
                                                 /\ s.enabled /\ wanted # "Running")
<1>1. CASE decide(s, ran, wanted, t) = Nothing
  BY <1>1, NothingIsAPass
<1>2. CASE decide(s, ran, wanted, t) = [do |-> "stop", occurrence |-> ran]
  BY <1>2 DEF Passes
<1>3. CASE /\ s.enabled /\ wanted # "Running" /\ Due(s, ran, t) # {}
           /\ decide(s, ran, wanted, t) = [do |-> "mark", occurrence |-> Min(Due(s, ran, t))]
  <2>1. PICK o \in Due(s, ran, t) : TRUE
    BY <1>3
  <2>2. o \in Int /\ Min(Due(s, ran, t)) = o
    BY <2>1, DueIsOne, LeastOfOne
  <2>3. QED BY <1>3, <2>1, <2>2 DEF Passes
<1>4. QED BY <1>1, <1>2, <1>3, DecideUnfolds

\* And it marks whatever is due, if nobody has the broadcast on air.
LEMMA DueIsMarked ==
    ASSUME NEW s \in Schedule, s.enabled, NEW ran \in Int, NEW wanted, wanted # "Running",
           NEW t \in Int, Due(s, ran, t) # {}
    PROVE  decide(s, ran, wanted, t).do = "mark"
BY DecideUnfolds

\* What is caught up with began less than a day ago.
LEMMA CatchUpIsShort == CATCH_UP \in Int /\ CATCH_UP < DAY
<1>1. DAY \in Nat \ {0}
  BY ScheduleAssumption
<1>2. /\ DAY \div 4 \in Int /\ DAY % 4 \in 0..3 /\ DAY = (DAY \div 4) * 4 + (DAY % 4)
  BY <1>1
<1>3. PICK q \in Int, r \in 0..3 : q = DAY \div 4 /\ DAY = q * 4 + r
  BY <1>2
<1>4. q < DAY
  BY <1>1, <1>3
<1>5. QED BY <1>3, <1>4 DEF CATCH_UP

----------------------------------------------------------------------------
ScheduleTypeOK ==
    /\ row \in Schedule
    /\ last_run \in Int /\ last_run >= Never
    /\ wish \in {"Stopped", "Running"} /\ serving \in BOOLEAN
    /\ instant \in 0..MaxInstant /\ deaths \in Nat
    /\ todo \in Passes
    /\ attempts \in [0..MaxInstant -> Nat]
    /\ playing \in Int

\* What is about to be marked was not acted on, and will count as run.
MarkIsNew == todo.do = "mark" => todo.occurrence \in 0..MaxInstant /\ last_run < todo.occurrence

\* Nothing later than the last run was acted on, and nothing twice.
ActedOnIsPast == \A o \in 0..MaxInstant :
                    attempts[o] <= 1 /\ (attempts[o] # 0 => o <= last_run)

ScheduleInv == ScheduleTypeOK /\ MarkIsNew /\ ActedOnIsPast

\* No occurrence has been acted on at first.
LEMMA ScheduleInitInv ==
    ASSUME ScheduleInit
    PROVE  ScheduleInv
<1>1. row \in Schedule
  BY ScheduleAssumption DEF ScheduleInit, Schedule
<1>2. 0 \in 0..MaxInstant
  BY ScheduleAssumption
<1>3. ScheduleTypeOK
  BY <1>1, <1>2, NothingIsAPass DEF ScheduleInit, ScheduleTypeOK, Never
<1>4. MarkIsNew /\ ActedOnIsPast
  BY NothingIsAPass DEF ScheduleInit, MarkIsNew, ActedOnIsPast
<1>5. QED BY <1>3, <1>4 DEF ScheduleInv

\* Every action keeps the invariant.
LEMMA ScheduleStepInv ==
    ASSUME ScheduleInv, [ScheduleNext]_scheduleVars
    PROVE  ScheduleInv'
<1> USE DEF ScheduleInv
<1>1. CASE scheduled_broadcasts
  <2>1. /\ todo' = decide(row, last_run, wish, instant)
        /\ UNCHANGED <<deaths, row, last_run, wish, instant, serving, attempts, playing>>
    BY <1>1 DEF scheduled_broadcasts
  <2>2. instant \in Int /\ last_run \in Int /\ last_run >= Never /\ row \in Schedule
    BY ScheduleAssumption DEF ScheduleTypeOK
  <2>3. /\ todo' \in Passes
        /\ todo'.do = "mark" => todo'.occurrence \in Due(row, last_run, instant)
    BY <2>1, <2>2, DecideTypes
  <2>4. ASSUME NEW o \in Due(row, last_run, instant) PROVE o \in 0..MaxInstant /\ last_run < o
    <3>1. o \in Int /\ last_run < o /\ o <= instant
      BY <2>2, DueIsOne DEF Due
    <3>2. QED BY <2>2, <3>1, ScheduleAssumption DEF ScheduleTypeOK, Never
  <2>5. ScheduleTypeOK' /\ ActedOnIsPast'
    BY <2>1, <2>3 DEF ScheduleTypeOK, ActedOnIsPast
  <2>6. MarkIsNew'
    BY <2>1, <2>3, <2>4 DEF MarkIsNew
  <2>7. QED BY <2>5, <2>6
<1>2. CASE mark_scheduled_run
  <2>1. PICK o \in 0..MaxInstant : o = todo.occurrence /\ last_run < o
    BY <1>2 DEF mark_scheduled_run, Pass, MarkIsNew
  <2>2. /\ last_run' = o /\ todo' = [todo EXCEPT !.do = "start"]
        /\ attempts' = [attempts EXCEPT ![o] = attempts[o] + 1]
        /\ UNCHANGED <<deaths, row, wish, instant, serving, playing>>
    BY <1>2, <2>1 DEF mark_scheduled_run
  <2>3. o \in Int /\ o >= 0 /\ o \in Nat
    BY <2>1, ScheduleAssumption
  <2>4. todo' \in Passes /\ todo'.do = "start"
    BY <2>2 DEF ScheduleTypeOK, Passes
  <2>5. ScheduleTypeOK'
    BY <2>2, <2>3, <2>4 DEF ScheduleTypeOK, Never
  <2>6. attempts[o] = 0
    BY <2>1, <2>3 DEF ActedOnIsPast, ScheduleTypeOK
  <2>7. ActedOnIsPast'
    <3> DEFINE acted == [attempts EXCEPT ![o] = attempts[o] + 1]
    <3>1. attempts \in [0..MaxInstant -> Nat] /\ attempts' = acted /\ last_run' = o
      BY <2>2 DEF ScheduleTypeOK
    <3>2. acted[o] = 1 /\ \A p \in (0..MaxInstant) \ {o} : acted[p] = attempts[p]
      BY <2>1, <2>6, <3>1
    <3> HIDE DEF acted
    <3>3. QED BY <2>1, <2>3, <3>1, <3>2 DEF ActedOnIsPast, ScheduleTypeOK
  <2>8. QED BY <2>4, <2>5, <2>7 DEF MarkIsNew
<1>3. CASE ScheduledStart \/ ScheduledStop \/ ServerDies
  <2>1. /\ UNCHANGED <<row, last_run, instant, attempts>>
        /\ todo' = Nothing /\ wish' \in {wish, "Running", "Stopped"}
        /\ playing' \in {playing, todo.occurrence, Never}
        /\ serving' \in {serving, FALSE} /\ deaths' \in {deaths, deaths + 1}
    BY <1>3 DEF ScheduledStart, ScheduledStop, ServerDies
  <2>2. todo.occurrence \in Int /\ Never \in Int
    BY DEF ScheduleTypeOK, Passes, Never
  <2>3. serving' \in BOOLEAN
    BY <2>1 DEF ScheduleTypeOK
  <2>4. wish' \in {"Stopped", "Running"} /\ playing' \in Int /\ deaths' \in Nat
    BY <2>1, <2>2 DEF ScheduleTypeOK
  <2>5. ScheduleTypeOK'
    BY <2>1, <2>3, <2>4, NothingIsAPass DEF ScheduleTypeOK
  <2>6. QED BY <2>1, <2>5, NothingIsAPass DEF MarkIsNew, ActedOnIsPast
<1>4. CASE UserStarts \/ UserStops \/ ServerBoots \/ InstantPasses \/ UNCHANGED scheduleVars
  <2>1. /\ UNCHANGED <<row, last_run, todo, attempts, deaths>>
        /\ wish' \in {wish, "Running", "Stopped"} /\ playing' \in {playing, ByHand, Never}
        /\ serving' \in {serving, TRUE}
        /\ instant' = instant \/ (instant < MaxInstant /\ instant' = instant + 1)
    BY <1>4 DEF UserStarts, UserStops, ServerBoots, InstantPasses, scheduleVars
  <2>2. serving' \in BOOLEAN
    BY <2>1 DEF ScheduleTypeOK
  <2>3. wish' \in {"Stopped", "Running"} /\ playing' \in Int
    BY <2>1 DEF ScheduleTypeOK, ByHand, Never
  <2>4. instant' \in 0..MaxInstant
    BY <2>1, ScheduleAssumption DEF ScheduleTypeOK
  <2>5. ScheduleTypeOK'
    BY <2>1, <2>2, <2>3, <2>4 DEF ScheduleTypeOK
  <2>6. QED BY <2>1, <2>5 DEF MarkIsNew, ActedOnIsPast
<1>5. ASSUME NEW s \in Rows, UserEdits(s) PROVE ScheduleInv'
  <2>1. /\ row' = s /\ playing' \in {Never, ByHand}
        /\ UNCHANGED <<deaths, last_run, wish, instant, serving, todo, attempts>>
    BY <1>5 DEF UserEdits
  <2>2. s \in Schedule
    BY ScheduleAssumption DEF Schedule
  <2>3. ScheduleTypeOK'
    BY <2>1, <2>2 DEF ScheduleTypeOK, ByHand, Never
  <2>4. QED BY <2>1, <2>3 DEF MarkIsNew, ActedOnIsPast
<1>6. QED BY <1>1, <1>2, <1>3, <1>4, <1>5 DEF ScheduleNext, PassNext

\* The inductive invariant: types, and what last_run remembers of the runs.
THEOREM ScheduleInvariance == ScheduleSpec => []ScheduleInv
<1>1. ScheduleInit => ScheduleInv
  BY ScheduleInitInv
<1>2. ScheduleInv /\ [ScheduleNext]_scheduleVars => ScheduleInv'
  BY ScheduleStepInv
<1>3. QED BY <1>1, <1>2, PTL DEF ScheduleSpec

\* In every state the decision is the right one: it marks an occurrence when,
\* and only when, one is open, and then the latest.
LEMMA Exact ==
    ASSUME ScheduleInv
    PROVE  DecisionIsExact
<1> DEFINE Open(o) == /\ row.enabled /\ wish = "Stopped" /\ Occurs(row, o)
                      /\ last_run < o /\ instant - o \in 0..CATCH_UP
                      /\ row.stop # Never => instant < o + (row.stop - row.start)
                      /\ \A later \in (o + 1)..instant : ~Occurs(row, later)
           now == decide(row, last_run, wish, instant)
<1>1. /\ row \in Schedule /\ instant \in Int /\ last_run \in Int /\ wish \in {"Stopped", "Running"}
      /\ CATCH_UP \in Int /\ CATCH_UP < DAY /\ DAY \in Int
  BY CatchUpIsShort, ScheduleAssumption DEF ScheduleInv, ScheduleTypeOK
<1>2. ASSUME now.do = "mark" PROVE Open(now.occurrence)
  <2>1. PICK o : /\ o = now.occurrence /\ o \in Due(row, last_run, instant)
                 /\ row.enabled /\ wish # "Running"
    BY <1>1, <1>2, DecideTypes
  <2>2. o \in Int /\ o \in next_occurrence(row, instant)
    BY <1>1, <2>1, DueIsOne
  <2>3. Occurs(row, o) /\ LastOf(row, instant, o)
    BY <1>1, <2>2, NextIsAnOccurrence
  <2>4. /\ last_run < o /\ o <= instant /\ instant - o <= CATCH_UP
        /\ row.stop # Never => instant < o + (row.stop - row.start)
    BY <2>1 DEF Due
  <2>5. instant - o \in 0..CATCH_UP
    BY <1>1, <2>2, <2>4
  <2>6. Open(o)
    BY <1>1, <2>1, <2>3, <2>4, <2>5 DEF LastOf
  <2>7. QED BY <2>1, <2>6
<1>3. ASSUME NEW o \in 0..instant, Open(o) PROVE now.do = "mark"
  <2>1. o \in Int /\ o <= instant /\ instant - o <= CATCH_UP /\ instant - o < DAY
    BY <1>1, <1>3
  <2>2. next_occurrence(row, instant) = {o}
    BY <1>1, <1>3, <2>1, LatestIsFound DEF LastOf
  <2>3. o \in Due(row, last_run, instant)
    BY <1>3, <2>1, <2>2 DEF Due
  <2>4. QED BY <1>1, <1>3, <2>3, DueIsMarked
<1>4. QED BY <1>2, <1>3 DEF DecisionIsExact

\* The scheduler acts on every occurrence it should, exactly, and on none
\* twice, however the user interferes and wherever the server dies
\* (schedule.rs, run_schedules).
THEOREM ScheduleIsServed == ScheduleSpec => []OccurrencesAreServedOnce
<1>1. ScheduleInv => OccurrencesAreServedOnce
  BY Exact DEF OccurrencesAreServedOnce, OccurrenceOnce, ScheduleInv, ActedOnIsPast
<1>2. QED BY <1>1, ScheduleInvariance, PTL

=============================================================================
