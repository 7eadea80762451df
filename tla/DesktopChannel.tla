--------------------------- MODULE DesktopChannel ---------------------------
(***************************************************************************)
(* The desktop's hand on the user's YouTube channel (youtube_service.rs,   *)
(* provision.rs, lib.rs): the broadcast a start provisions before FFmpeg   *)
(* runs, the thread that takes it live and the one that ends it, driven by *)
(* a tick that reads the runtime and acts on what it read after the        *)
(* runtime's lock is gone.  What the tick does for the chat bot touches    *)
(* only the bot, and is in ChatBot.                                        *)
(*                                                                         *)
(* A broadcast is a number, in the order of creation; 1 may be one the     *)
(* user made for another time.  A window stands for every scheduled start  *)
(* within REUSE_TOLERANCE_SECS of its own.  The saved key names one stream *)
(* of the channel, so a bound broadcast is bound to that one.              *)
(***************************************************************************)
EXTENDS Naturals, FiniteSets

CONSTANTS Windows,     \* windows, 1..n, started in order or again
          MaxMade,     \* bound: broadcasts on the channel
          MaxTroubles  \* bound: calls that fail, disconnections, crashes

ASSUME ChannelAssumption == Windows \subseteq Nat \ {0} /\ MaxMade \in Nat /\ MaxTroubles \in Nat

VARIABLES
    show,         \* the runtime: off, a step of before_stream, waiting, live
    tube,         \* the channel's broadcasts, as YouTube keeps them
    live_session, \* the broadcast this session provisioned
    GOING_LIVE,   \* the go-live thread
    finishing,    \* some finish thread has not yet taken the session
    ending,       \* broadcasts finish threads are completing
    noticed,         \* what the tick read of the runtime
    past          \* history: troubles, broadcasts left, a finish that is late

channelVars == <<show, tube, live_session, GOING_LIVE, finishing, ending, noticed, past>>

Ids == 1..MaxMade
NoId == 0
Elsewhere == 0
NoSession == [id |-> NoId, auto |-> FALSE, went_live |-> FALSE]
NoBroadcast == [there |-> FALSE, window |-> Elsewhere, life |-> "none", bound |-> FALSE,
                auto |-> FALSE]
NoThread == [pc |-> "none", id |-> NoId]
Off == [pc |-> "off", window |-> Elsewhere, id |-> NoId]
threads == <<GOING_LIVE, finishing, ending, noticed>>

Trouble == past.troubles < MaxTroubles /\ past' = [past EXCEPT !.troubles = @ + 1]
OnAir == show.pc \in {"waiting", "live"}
InStep(pc) == show.pc = pc /\ UNCHANGED threads
MoveTo(pc) == show' = [show EXCEPT !.pc = pc]

(* A refused preparation leaves a manual start undone; a scheduled one goes *)
(* by the policy, which may be to broadcast all the same.                  *)
Refused ==
    \/ show' = Off
    \/ show' = [Off EXCEPT !.pc = "waiting", !.id = IF show.pc = "apply" THEN show.id ELSE NoId]

----------------------------------------------------------------------------
(* prepare_for_broadcast_reason, step by step, under the runtime's lock.   *)

(* Nothing is wanted of the channel, or Google has said the day is over:    *)
(* the stream starts without, and the session stays what it was.           *)
prepare_inner(w) ==
    /\ show.pc = "off"
    /\ \E pc \in {"waiting", "list"} :
          /\ show' = [Off EXCEPT !.pc = pc, !.window = IF pc = "list" THEN w ELSE Elsewhere]
    /\ past' = [past EXCEPT !.late = finishing \/ noticed = "off"]
    /\ UNCHANGED <<tube, live_session, threads>>

(* The broadcast of this window that is neither under way nor over. *)
choose_broadcast(w) ==
    {b \in Ids : tube[b].there /\ tube[b].life = "ready" /\ tube[b].window = w}

FindBroadcast ==
    /\ InStep("list")
    /\ IF choose_broadcast(show.window) = {}
       THEN MoveTo("insert")
       ELSE \E b \in choose_broadcast(show.window) :
               show' = [show EXCEPT !.pc = "bind", !.id = b]
    /\ UNCHANGED <<tube, live_session, past>>

(* YouTube may not grant the auto start it is asked for. *)
create_broadcast(answered) ==
    /\ InStep("insert")
    /\ \E b \in Ids, auto \in BOOLEAN :
          /\ ~tube[b].there /\ \A c \in Ids : c < b => tube[c].there
          /\ tube' = [tube EXCEPT ![b] = [there |-> TRUE, window |-> show.window, life |-> "ready",
                                          bound |-> FALSE, auto |-> auto]]
          /\ IF answered
             THEN show' = [show EXCEPT !.pc = "bind", !.id = b] /\ UNCHANGED past
             ELSE Refused /\ Trouble
    /\ UNCHANGED live_session

(* The bind is asked for only if it is needed; the session is noted as soon *)
(* as the broadcast is bound, before the metadata.                         *)
bind_broadcast ==
    /\ InStep("bind")
    /\ tube' = [tube EXCEPT ![show.id].bound = TRUE]
    /\ live_session' = [id |-> show.id, auto |-> tube[show.id].auto, went_live |-> FALSE]
    /\ show' = [show EXCEPT !.pc = "apply", !.window = Elsewhere]
    /\ past' = IF live_session.id \in {NoId, show.id} THEN past
               ELSE [past EXCEPT !.left = @ \cup {live_session.id}]

apply_to ==
    /\ InStep("apply")
    /\ MoveTo("waiting")
    /\ UNCHANGED <<tube, live_session, past>>

(* Any call may fail, the answer of a bind may be lost, and the metadata    *)
(* may not take.                                                           *)
PrepareFails ==
    /\ show.pc \in {"list", "insert", "bind", "apply"}
    /\ \/ UNCHANGED tube
       \/ show.pc = "bind" /\ tube' = [tube EXCEPT ![show.id].bound = TRUE]
    /\ Refused
    /\ \/ Trouble
       \/ show.pc = "insert" /\ (\A b \in Ids : tube[b].there) /\ UNCHANGED past
    /\ UNCHANGED <<live_session, threads>>

----------------------------------------------------------------------------
(* The stream, and what YouTube does by itself. *)

StreamMoves ==
    /\ \/ show.pc = "waiting" /\ MoveTo("live")
       \/ show.pc = "live" /\ MoveTo("waiting")
       \/ OnAir /\ show' = Off
    /\ UNCHANGED <<tube, live_session, threads, past>>

YoutubeMoves(b) ==
    /\ tube[b].auto /\ tube[b].bound
    /\ \/ /\ show.pc = "live" /\ tube[b].life = "ready"
          /\ tube' = [tube EXCEPT ![b].life = "live"]
       \/ /\ show.pc # "live" /\ tube[b].life = "live"
          /\ tube' = [tube EXCEPT ![b].life = "complete"]
    /\ UNCHANGED <<show, live_session, threads, past>>

----------------------------------------------------------------------------
(* The tick reads the runtime, which a start holds on to, and lets go. *)
TickReads ==
    /\ noticed = "none" /\ (OnAir \/ show.pc = "off")
    /\ noticed' = show.pc
    /\ UNCHANGED <<show, tube, live_session, GOING_LIVE, finishing, ending, past>>

\* Mutant: a dropped connection is the end of the broadcast.
mut_youtube_follow_broadcast ==
    /\ noticed # "none" /\ noticed' = "none"
    /\ finishing' = (finishing \/ (noticed # "live" /\ live_session # NoSession))
    /\ GOING_LIVE' =
          IF /\ noticed = "live" /\ GOING_LIVE = NoThread
             /\ live_session # NoSession /\ ~live_session.went_live
          THEN [NoThread EXCEPT !.pc = "spawned"] ELSE GOING_LIVE
    /\ UNCHANGED <<show, tube, live_session, ending, past>>

(* Off air the session's broadcast is to be finished; on air one that is    *)
(* not yet live is asked after, one thread at a time.                      *)
youtube_follow_broadcast ==
    /\ noticed # "none" /\ noticed' = "none"
    /\ finishing' = (finishing \/ (noticed = "off" /\ live_session # NoSession))
    /\ GOING_LIVE' =
          IF /\ noticed = "live" /\ GOING_LIVE = NoThread
             /\ live_session # NoSession /\ ~live_session.went_live
          THEN [NoThread EXCEPT !.pc = "spawned"] ELSE GOING_LIVE
    /\ UNCHANGED <<show, tube, live_session, ending, past>>

(* The go-live thread takes the session it finds and asks after that one:   *)
(* a broadcast that is live needs nothing, one that starts by itself is    *)
(* left to, and another is taken live once its stream is active.  A        *)
(* broadcast whose session is gone by then has nobody left to end it.      *)
GoLiveFinds ==
    /\ GOING_LIVE = [pc |-> "spawned", id |-> NoId]
    /\ GOING_LIVE' = IF live_session = NoSession \/ live_session.went_live THEN NoThread
                     ELSE [pc |-> "asks", id |-> live_session.id]
    /\ UNCHANGED <<show, tube, live_session, finishing, ending, noticed, past>>

go_live_step(b) ==
    CASE tube[b].life = "live"                  -> "AlreadyLive"
      [] tube[b].life # "live" /\ show.pc # "live" -> "WaitForStream"
      [] tube[b].life # "live" /\ show.pc = "live" -> IF tube[b].auto THEN "AutoStart" ELSE "Transition"

try_go_live ==
    /\ GOING_LIVE.pc = "asks"
    /\ LET b == GOING_LIVE.id
           Marks == GOING_LIVE' = [GOING_LIVE EXCEPT !.pc = "marks"]
           Ends == GOING_LIVE' = NoThread
       IN \/ go_live_step(b) = "AlreadyLive" /\ Marks /\ UNCHANGED <<tube, past>>
          \/ /\ go_live_step(b) \in {"WaitForStream", "AutoStart"}
             /\ Ends /\ UNCHANGED <<tube, past>>
          \/ /\ go_live_step(b) = "Transition" /\ tube[b].life = "ready"
             /\ tube' = [tube EXCEPT ![b].life = "live"]
             /\ past' = [past EXCEPT !.left = IF live_session.id = b THEN @ ELSE @ \cup {b}]
             /\ Marks \/ Ends \* the answer may be lost, or say it has not begun
          \/ tube[b].life = "complete" /\ Ends /\ UNCHANGED <<tube, past>>
          \/ Ends /\ Trouble /\ UNCHANGED tube
    /\ UNCHANGED <<show, live_session, finishing, ending, noticed>>

(* What it marks is the session of now. *)
GoLiveMarks ==
    /\ GOING_LIVE.pc = "marks" /\ GOING_LIVE' = NoThread
    /\ live_session' = [live_session EXCEPT !.went_live = live_session # NoSession]
    /\ UNCHANGED <<show, tube, finishing, ending, noticed, past>>

(* finish_broadcast: the session is taken, and its broadcast completed      *)
(* unless it is one that starts by itself and never did.                   *)
FinishTakes ==
    /\ finishing /\ finishing' = FALSE
    /\ live_session' = NoSession
    /\ ending' = IF live_session = NoSession \/ (live_session.auto /\ ~live_session.went_live)
                 THEN ending ELSE ending \cup {live_session.id}
    /\ UNCHANGED <<show, tube, GOING_LIVE, noticed, past>>

(* YouTube completes what is live and refuses the rest; a call that fails   *)
(* is not made again.                                                      *)
FinishEnds(b) ==
    /\ b \in ending /\ ending' = ending \ {b}
    /\ \/ /\ tube' = [tube EXCEPT ![b].life = IF @ = "live" THEN "complete" ELSE @]
          /\ UNCHANGED past
       \/ /\ past.troubles < MaxTroubles
          /\ past' = [past EXCEPT !.troubles = @ + 1, !.left = @ \cup {b}]
          /\ UNCHANGED tube
    /\ UNCHANGED <<show, live_session, GOING_LIVE, finishing, noticed>>

----------------------------------------------------------------------------
(* The process ends and comes back: the session and the threads are gone. *)
AppRestarts ==
    /\ past.troubles < MaxTroubles
    /\ past' = [troubles |-> past.troubles + 1, late |-> FALSE,
                left |-> {b \in Ids : tube[b].there}]
    /\ show' = Off /\ live_session' = NoSession
    /\ GOING_LIVE' = NoThread /\ finishing' = FALSE /\ ending' = {} /\ noticed' = "none"
    /\ UNCHANGED tube

----------------------------------------------------------------------------
ChannelInit ==
    /\ tube \in {[b \in Ids |-> IF b = 1 /\ users
                                THEN [NoBroadcast EXCEPT !.there = TRUE, !.life = "ready"]
                                ELSE NoBroadcast] : users \in BOOLEAN}
    /\ show = Off /\ live_session = NoSession
    /\ GOING_LIVE = NoThread /\ finishing = FALSE /\ ending = {} /\ noticed = "none"
    /\ past = [troubles |-> 0, left |-> {}, late |-> FALSE]

ChannelNext ==
    \/ \E w \in Windows : prepare_inner(w)
    \/ FindBroadcast \/ \E answered \in BOOLEAN : create_broadcast(answered)
    \/ bind_broadcast \/ apply_to \/ PrepareFails
    \/ StreamMoves \/ \E b \in Ids : YoutubeMoves(b)
    \/ TickReads \/ youtube_follow_broadcast
    \/ GoLiveFinds \/ try_go_live \/ GoLiveMarks
    \/ FinishTakes \/ \E b \in Ids : FinishEnds(b)
    \/ AppRestarts

ChannelSpec == ChannelInit /\ [][ChannelNext]_channelVars

----------------------------------------------------------------------------
(* "A retry inside the window must not leave two behind", and a broadcast   *)
(* the user set up for another time is not bound, renamed or begun.        *)
OneBroadcastPerWindow ==
    /\ \A w \in Windows : Cardinality(choose_broadcast(w)) <= 1
    /\ \A b \in Ids : tube[b].there /\ tube[b].window = Elsewhere =>
           tube[b].life = "ready" /\ ~tube[b].bound

(* While the stream that bound a broadcast runs, through a metadata that    *)
(* did not take and a dropped connection, the session to take live and to  *)
(* end is that broadcast's, unless it was begun before a finish of the     *)
(* stream before it had got to the session.                                *)
AirHasItsSession == OnAir /\ show.id # NoId /\ ~past.late => live_session.id = show.id

(* "End the broadcast on the channel too, so nothing is left live with      *)
(* nothing publishing to it": once the stream is over and the threads have *)
(* run, what does not stop by itself was completed, but for a call that    *)
(* failed and a session that was replaced or lost before it was finished.  *)
Settled ==
    /\ show.pc = "off" /\ noticed = "none" /\ live_session = NoSession
    /\ GOING_LIVE = NoThread /\ ~finishing /\ ending = {}
NothingLeftLive ==
    Settled => \A b \in Ids : tube[b].life = "live" => tube[b].auto \/ b \in past.left

(* What the desktop does on the channel: one broadcast per window, the      *)
(* session is the one on air, and what it leaves is not left live.         *)
ChannelIsKept == OneBroadcastPerWindow /\ AirHasItsSession /\ NothingLeftLive
=============================================================================
