---------------------------- MODULE CloudYoutube ---------------------------
(***************************************************************************)
(* A broadcast and its other half on YouTube: create_broadcast with a      *)
(* connected channel, what a start and a stop ask of YouTube, the worker's *)
(* watch over it (youtube.rs, api.rs and YoutubeWatch in manager.rs), and  *)
(* the verdict of the operator's audit (audit.rs).                         *)
(*                                                                         *)
(* One request at a time is under way; the worker polls beside it.  Every  *)
(* call to YouTube is a step that may fail, and so is every write that the *)
(* next one waits for.  Tokens are YoutubeAccounts'.                       *)
(***************************************************************************)
EXTENDS Naturals, FiniteSets

CONSTANTS MaxMade,     \* bound: broadcasts ever made on YouTube
          MaxStreams,  \* bound: streams ever made
          MaxMeddling, \* bound: what happens on YouTube by itself or in Studio
          LIMIT        \* YoutubeWatch::LIMIT, polls of the fast phase

ASSUME YoutubeAssumption == MaxStreams \in Nat

VARIABLES
    yrow,     \* the broadcast's row: there, youtube ids, youtube_status, and
              \*   whether it points away from the destination they go with
    dest,     \* that destination: there, whose key is sealed for it (0: none)
    tube,     \* YouTube: broadcasts by number, streams made
    sender,   \* the stream FFmpeg pushes to, 0 when nothing does
    watch,    \* YoutubeWatch
    req,      \* the request under way
    seen      \* history: changed on YouTube since the start asked, a create
              \*   refused late, a renewal cut off before the row was written,
              \*   moved by its owner since it was last provisioned

youtubeVars == <<yrow, dest, tube, sender, watch, req, seen>>

NoRow == [there |-> FALSE, yb |-> 0, ys |-> 0, away |-> FALSE, status |-> "none"]
NoDest == [there |-> FALSE, key |-> 0]
Idle0 == [pc |-> "idle", then |-> "idle", yb |-> 0, ys |-> 0]
NoWatch(auto) == [polls |-> 0, settled |-> FALSE, auto |-> auto]

Elsewhere == MaxStreams + 1  \* what any other destination's key leads to

Made == DOMAIN tube.life
Connected == yrow.there /\ yrow.yb # 0
set_youtube_status(s) == yrow' = [yrow EXCEPT !.status = s]

----------------------------------------------------------------------------
(* Calls.  A failed one is written to the row (explain), unless it failed  *)
(* for want of a token.                                                    *)

At(pc) == req.pc = pc
Goto(pc) == req' = [req EXCEPT !.pc = pc]
Finish == req' = Idle0
explain == yrow' \in {yrow, [yrow EXCEPT !.status = "error"]}

(* broadcasts.insert: it starts by itself and has no preview. *)
create_broadcast_on_youtube(then) ==
    LET y == Cardinality(Made) + 1 IN
    /\ y <= MaxMade
    /\ tube' = [tube EXCEPT !.life = [b \in Made \cup {y} |-> IF b = y THEN "ready" ELSE @[b]],
                            !.bound = [b \in Made \cup {y} |-> IF b = y THEN 0 ELSE @[b]],
                            !.monitor = [b \in Made \cup {y} |-> IF b = y THEN FALSE ELSE @[b]]]
    /\ req' = [req EXCEPT !.pc = then, !.yb = y]

----------------------------------------------------------------------------
(* POST /broadcasts for a connected channel. *)

reserve_youtube_destination ==
    /\ At("idle") /\ ~yrow.there /\ ~dest.there
    /\ dest' = [NoDest EXCEPT !.there = TRUE]
    /\ req' = [Idle0 EXCEPT !.pc = "row", !.then = "undo"]
    /\ UNCHANGED <<yrow, tube, sender, watch, seen>>

(* The row, its items and its metadata: each may refuse, and what is there *)
(* by then stays.                                                          *)
InsertRow ==
    /\ At("row")
    /\ \/ yrow' = [NoRow EXCEPT !.there = TRUE] /\ Goto("fill") /\ UNCHANGED seen
       \/ Finish /\ seen' = [seen EXCEPT !.late = TRUE] /\ UNCHANGED yrow
    /\ UNCHANGED <<dest, tube, sender, watch>>

FillRow ==
    /\ At("fill")
    /\ \/ Goto("insert") /\ UNCHANGED seen
       \/ Finish /\ seen' = [seen EXCEPT !.late = TRUE]
    /\ UNCHANGED <<yrow, dest, tube, sender, watch>>

(* provision, also the second half of a renewal.  What fails is undone     *)
(* when the broadcast is new, and is the start's failure otherwise.        *)
Fails0 == IF req.then = "undo" THEN Goto("undo") ELSE Finish

provision_insert ==
    /\ At("insert")
    /\ \/ create_broadcast_on_youtube("stream") /\ UNCHANGED yrow
       \/ Fails0 /\ explain /\ UNCHANGED tube
    /\ UNCHANGED <<dest, sender, watch, seen>>

provision_stream ==
    /\ At("stream")
    /\ \/ /\ tube.streams < MaxStreams
          /\ tube' = [tube EXCEPT !.streams = @ + 1]
          /\ req' = [req EXCEPT !.pc = "bind", !.ys = tube.streams + 1]
          /\ UNCHANGED yrow
       \/ Fails0 /\ explain /\ UNCHANGED tube
    /\ UNCHANGED <<dest, sender, watch, seen>>

(* YouTube answers with the binding it has. *)
provision_bind ==
    /\ At("bind")
    /\ \/ tube' = [tube EXCEPT !.bound[req.yb] = req.ys] /\ Goto("dest") /\ UNCHANGED yrow
       \/ Fails0 /\ explain /\ UNCHANGED tube
    /\ UNCHANGED <<dest, sender, watch, seen>>

(* The destination is filled in place, or a new one is made when the row   *)
(* points elsewhere, and its key is sealed.                                *)
upsert_youtube_destination ==
    /\ At("dest")
    /\ \/ /\ dest' = IF yrow.away THEN dest ELSE [there |-> TRUE, key |-> req.ys]
          /\ Goto("attach")
       \/ Fails0 /\ UNCHANGED dest
    /\ UNCHANGED <<yrow, tube, sender, watch, seen>>

(* Then the row learns of its other half, which is the destination's from  *)
(* now on, and is pointed at it.  Each of the two writes may fail, and by  *)
(* then a renewal has replaced the key that the row's stream goes with.    *)
Attached == [yrow EXCEPT !.yb = req.yb, !.ys = req.ys, !.status = "waiting"]

attach_youtube ==
    /\ At("attach")
    /\ \/ /\ yrow' = [Attached EXCEPT !.away = FALSE]
          /\ dest' = [there |-> TRUE, key |-> req.ys]
          /\ req' = [Idle0 EXCEPT !.pc = IF req.then = "undo" THEN "idle" ELSE "spawn"]
          /\ seen' = [seen EXCEPT !.torn = FALSE, !.moved = FALSE]
       \/ /\ yrow' = Attached /\ Fails0
          /\ dest' = [there |-> TRUE, key |-> req.ys]
          /\ seen' = [seen EXCEPT !.torn = FALSE]
       \/ /\ Fails0 /\ UNCHANGED <<yrow, dest>>
          /\ seen' = [seen EXCEPT !.torn = @ \/ (req.then = "spawn" /\ ~yrow.away)]
    /\ UNCHANGED <<tube, sender, watch>>

(* Nothing half-made: the row, then the destination, which stays as long   *)
(* as the row does.  Neither is tried again.                               *)
UndoCreate ==
    /\ At("undo") /\ Finish
    /\ \/ yrow' = NoRow /\ dest' = NoDest /\ UNCHANGED seen
       \/ /\ yrow' \in {yrow, NoRow} /\ seen' = [seen EXCEPT !.late = TRUE]
          /\ UNCHANGED dest
    /\ UNCHANGED <<tube, sender, watch>>

----------------------------------------------------------------------------
(* A start.  before_start asks YouTube about the broadcast of the row: one *)
(* that is complete is replaced, one that lost its stream is bound again.  *)

Start0 ==
    /\ At("idle") /\ Connected /\ sender = 0
    /\ Goto("check")
    /\ UNCHANGED <<yrow, dest, tube, sender, watch, seen>>

\* Mutant: the broadcast is used as found, ended ones included.
mut_before_start ==
    /\ At("check")
    /\ seen' = [seen EXCEPT !.since = tube.bound[yrow.yb] \notin {0, yrow.ys}]
    /\ Goto("spawn") /\ set_youtube_status("waiting")
    /\ UNCHANGED <<dest, tube, sender, watch>>

(* One bound to another stream is left as it is. *)
before_start ==
    /\ At("check")
    /\ seen' = [seen EXCEPT !.since = /\ tube.life[yrow.yb] # "complete"
                                     /\ tube.bound[yrow.yb] \notin {0, yrow.ys}]
    /\ \/ Finish /\ explain
       \/ tube.life[yrow.yb] = "complete" /\ Goto("renew") /\ set_youtube_status("complete")
       \/ /\ tube.life[yrow.yb] # "complete" /\ tube.bound[yrow.yb] = 0
          /\ Goto("rebind") /\ UNCHANGED yrow
       \/ /\ tube.life[yrow.yb] # "complete" /\ tube.bound[yrow.yb] # 0
          /\ Goto("spawn") /\ set_youtube_status("waiting")
    /\ UNCHANGED <<dest, tube, sender, watch>>

Rebind ==
    /\ At("rebind")
    /\ \/ /\ tube' = [tube EXCEPT !.bound[yrow.yb] = yrow.ys]
          /\ \/ Goto("spawn") /\ set_youtube_status("waiting")
             \/ Finish /\ UNCHANGED yrow
       \/ Finish /\ explain /\ UNCHANGED tube
    /\ UNCHANGED <<dest, sender, watch, seen>>

(* A new broadcast on the old stream, or, when YouTube does not bind it,   *)
(* everything anew.                                                        *)
renew ==
    /\ At("renew")
    /\ \/ create_broadcast_on_youtube("again") /\ UNCHANGED yrow
       \/ Finish /\ explain /\ UNCHANGED tube
    /\ UNCHANGED <<dest, sender, watch, seen>>

RenewBind ==
    /\ At("again")
    /\ \/ /\ tube' = [tube EXCEPT !.bound[req.yb] = yrow.ys]
          /\ \/ /\ yrow' = [yrow EXCEPT !.yb = req.yb, !.status = "waiting"]
                /\ req' = [Idle0 EXCEPT !.pc = "spawn"]
             \/ Finish /\ UNCHANGED yrow
       \/ req' = [Idle0 EXCEPT !.pc = "insert", !.then = "spawn"] /\ UNCHANGED <<tube, yrow>>
       \/ Finish /\ explain /\ UNCHANGED tube
    /\ UNCHANGED <<dest, sender, watch, seen>>

(* The worker sends with the key of the destination that the row points    *)
(* at.                                                                     *)
spawn ==
    /\ At("spawn")
    /\ sender' \in {0, IF yrow.away THEN Elsewhere ELSE dest.key}
    /\ Finish
    /\ UNCHANGED <<yrow, dest, tube, watch, seen>>

----------------------------------------------------------------------------
(* The worker's watch ends with it. *)
SenderEnds == sender' = 0 /\ watch' = NoWatch(watch.auto)

(* A stop: the worker is joined first.  YouTube is told when it says the   *)
(* broadcast is live; complete is written whatever it answers.             *)

Stop0(then) ==
    /\ At("idle") /\ Connected
    /\ SenderEnds
    /\ req' = [Idle0 EXCEPT !.pc = "end", !.then = then]
    /\ UNCHANGED <<yrow, dest, tube, seen>>

(* A restart ends the process and not the broadcast. *)
Restart0 ==
    /\ At("idle") /\ Connected /\ sender # 0
    /\ SenderEnds
    /\ Goto("check")
    /\ UNCHANGED <<yrow, dest, tube, seen>>

Ended == Goto(req.then) /\ set_youtube_status("complete")

after_stop ==
    /\ At("end")
    /\ \/ tube.life[yrow.yb] = "live" /\ Goto("transition") /\ UNCHANGED yrow
       \/ /\ tube.life[yrow.yb] # "live"
          /\ Ended
       \/ Ended                                 \* no answer
    /\ UNCHANGED <<dest, tube, sender, watch, seen>>

complete_on_youtube ==
    /\ At("transition")
    /\ tube' \in {tube, [tube EXCEPT !.life[yrow.yb] = "complete"]}
    /\ Ended
    /\ UNCHANGED <<dest, sender, watch, seen>>

(* The row goes once the broadcast has been stopped; its destination stays *)
(* until it is deleted too, which no broadcast may be using.               *)
delete_broadcast ==
    /\ At("delete")
    /\ yrow' = NoRow /\ Finish
    /\ seen' = [seen EXCEPT !.torn = FALSE, !.moved = FALSE]
    /\ UNCHANGED <<dest, tube, sender, watch>>

delete_destination ==
    /\ At("idle") /\ dest.there /\ (yrow.there => yrow.away)
    /\ dest' = NoDest
    /\ UNCHANGED <<yrow, tube, sender, watch, req, seen>>

(* An edit is saved whatever YouTube says to it.  It may move the          *)
(* broadcast to another destination, from the next start on, and back; its *)
(* half on YouTube stays what it was.                                      *)
sync_metadata(saved) == yrow' \in {saved, [saved EXCEPT !.status = "error"]}

update_broadcast_owned ==
    /\ At("idle") /\ Connected
    /\ \E away \in {yrow.away, TRUE, ~dest.there} :
          /\ sync_metadata([yrow EXCEPT !.away = away])
          /\ seen' = [seen EXCEPT !.moved = @ \/ away]
    /\ UNCHANGED <<dest, tube, sender, watch, req>>

(* Recovery begins with before_start as well. *)
ServerDies0 ==
    /\ req # Idle0 \/ sender # 0
    /\ SenderEnds /\ Finish
    /\ seen' = [seen EXCEPT !.late = @ \/ req.then = "undo",
                            !.torn = @ \/ (req.pc = "attach" /\ ~yrow.away)]
    /\ UNCHANGED <<yrow, dest, tube>>

----------------------------------------------------------------------------
(* The watch. *)

Active == sender # 0 /\ sender = yrow.ys

status_for(life, active) ==
    IF life \in {"live", "complete", "testing"} THEN life
    ELSE IF active THEN "ready" ELSE "waiting"

NeedsTransition(life, active, monitor) ==
    life = "testing" \/ (life = "ready" /\ active /\ monitor)

\* Mutant: the watch gives up for good once it has slowed down.
mut_maybe_poll == sender # 0 /\ ~watch.settled /\ watch.polls < LIMIT

maybe_poll == sender # 0 /\ ~watch.settled

Polled == [watch EXCEPT !.polls = IF @ < LIMIT THEN @ + 1 ELSE @]

(* Both lists answered.  A broadcast that cannot start by itself is moved  *)
(* when the server is set to.                                              *)
poll_status ==
    LET life == tube.life[yrow.yb] IN
    /\ maybe_poll /\ Connected
    /\ \/ /\ NeedsTransition(life, Active, tube.monitor[yrow.yb]) /\ watch.auto
          /\ tube' = [tube EXCEPT !.life[yrow.yb] = "live"]
          /\ set_youtube_status("live")
       \/ set_youtube_status(status_for(life, Active)) /\ UNCHANGED tube
    /\ watch' = [Polled EXCEPT !.settled = (yrow'.status = "complete")]
    /\ UNCHANGED <<dest, sender, req, seen>>

PollFails ==
    /\ maybe_poll /\ Connected
    /\ explain
    /\ watch' = Polled
    /\ UNCHANGED <<dest, tube, sender, req, seen>>

----------------------------------------------------------------------------
(* YouTube by itself: the ingest takes a bound broadcast live, or into the *)
(* preview when it has one; without its stream a live one ends.  A person  *)
(* in Studio does anything.  A broadcast that nothing names any more is    *)
(* left as it is.                                                          *)

Named == Made \cap {yrow.yb, req.yb}

Meddled == seen.meddling < MaxMeddling
           /\ seen' = [seen EXCEPT !.meddling = @ + 1, !.since = TRUE]

IngestArrives(y) ==
    /\ y \in Named /\ tube.life[y] = "ready" /\ sender # 0 /\ tube.bound[y] = sender
    /\ tube' = [tube EXCEPT !.life[y] = IF tube.monitor[y] THEN "testing" ELSE "live"]
    /\ UNCHANGED <<yrow, dest, sender, watch, req, seen>>

AutoStop(y) ==
    /\ y \in Named /\ tube.life[y] = "live" /\ tube.bound[y] # sender
    /\ Meddled
    /\ tube' = [tube EXCEPT !.life[y] = "complete"]
    /\ UNCHANGED <<yrow, dest, sender, watch, req>>

Studio(y) ==
    /\ y \in Named
    /\ Meddled
    /\ \/ tube.life[y] = "testing" /\ tube' = [tube EXCEPT !.life[y] = "live"]
       \/ tube.life[y] # "complete" /\ tube' = [tube EXCEPT !.life[y] = "complete"]
       \/ \E s \in 0..tube.streams : tube' = [tube EXCEPT !.bound[y] = s]
    /\ UNCHANGED <<yrow, dest, sender, watch, req>>

----------------------------------------------------------------------------
(* The audit's word for a broadcast, from what YouTube says and whether a  *)
(* process of ours is alive.                                               *)
classify(life, active, bound, stored, encoder) ==
    CASE bound # stored -> "mismatch"
      [] bound = stored /\ life = "live" -> IF encoder THEN "confirmed" ELSE "mismatch"
      [] bound = stored /\ life = "testing" -> "stuck"
      [] bound = stored /\ life = "ready" -> IF active THEN "stuck" ELSE "not_active"
      [] OTHER -> IF encoder THEN "mismatch" ELSE "unknown"

Verdict == classify(tube.life[yrow.yb], Active, tube.bound[yrow.yb], yrow.ys, sender # 0)

----------------------------------------------------------------------------
(* A broadcast may have been made by an older build, with a preview. *)
YoutubeInit ==
    /\ \/ yrow = NoRow /\ dest = NoDest
          /\ tube = [life |-> <<>>, bound |-> <<>>, monitor |-> <<>>, streams |-> 0]
       \/ /\ yrow = [there |-> TRUE, yb |-> 1, ys |-> 1, away |-> FALSE,
                    status |-> "waiting"]
          /\ dest = [there |-> TRUE, key |-> 1]
          /\ tube = [life |-> <<"ready">>, bound |-> <<1>>, monitor |-> <<TRUE>>, streams |-> 1]
    /\ sender = 0 /\ req = Idle0
    /\ \E auto \in BOOLEAN : watch = NoWatch(auto)
    /\ seen = [since |-> FALSE, late |-> FALSE, torn |-> FALSE, moved |-> FALSE,
                meddling |-> 0]

YoutubeNext ==
    \/ reserve_youtube_destination \/ InsertRow \/ FillRow
    \/ provision_insert \/ provision_stream \/ provision_bind
    \/ upsert_youtube_destination \/ attach_youtube \/ UndoCreate
    \/ Start0 \/ before_start \/ Rebind \/ renew \/ RenewBind \/ spawn
    \/ Stop0("idle") \/ Stop0("delete") \/ Restart0 \/ after_stop \/ complete_on_youtube
    \/ delete_broadcast \/ delete_destination \/ update_broadcast_owned \/ ServerDies0
    \/ poll_status \/ PollFails
    \/ \E y \in 1..MaxMade : IngestArrives(y) \/ AutoStop(y) \/ Studio(y)

YoutubeSpec == YoutubeInit /\ [][YoutubeNext]_youtubeVars

(* The worker polls for as long as it runs, and YouTube answers sometimes. *)
YoutubeFairness == SF_youtubeVars(poll_status)

----------------------------------------------------------------------------
(* What we send arrives in the broadcast the row names, which has not      *)
(* ended; unless that changed on YouTube's side after the start had asked, *)
(* it is bound to a foreign stream, or a renewal was once cut off between  *)
(* sealing the new key and writing the row, which leaves the old stream to *)
(* be bound by every later renewal.  Only an owner who has moved the       *)
(* broadcast since it was provisioned has it sent elsewhere, where nothing *)
(* we say of YouTube is about what is sent.                                *)
SendsToWhatIsWatched ==
    sender # 0 /\ ~seen.since /\ ~seen.torn =>
        \/ /\ sender = yrow.ys
           /\ tube.bound[yrow.yb] = sender /\ tube.life[yrow.yb] # "complete"
        \/ sender = Elsewhere /\ seen.moved

(* "Nothing half-made is left behind": once the request is over, the       *)
(* broadcast of a connected channel has its YouTube half and, unless its   *)
(* owner has moved it, the destination that goes with it, and that has the *)
(* key; unless the playlist or the metadata was refused, or undoing it     *)
(* failed, or the server died, after the first write.                      *)
NothingHalfMade ==
    req = Idle0 /\ ~seen.late /\ ~seen.torn =>
        /\ yrow.there => yrow.yb # 0 /\ (dest.there \/ seen.moved)
        /\ dest.there => dest.key # 0 /\ (yrow.there => dest.key = yrow.ys)

(* "CONFIRMED LIVE is the only verdict that needs nothing": viewers of the *)
(* broadcast then have a picture.  The audit compares YouTube's binding    *)
(* with the row and not with the key in use, so after a renewal cut off    *)
(* between the two, or a move, it can confirm what we do not send to.      *)
ConfirmedMeansWatched ==
    Connected /\ Verdict = "confirmed" /\ ~seen.torn =>
        /\ tube.life[yrow.yb] = "live" /\ sender # 0
        /\ tube.bound[yrow.yb] = sender \/ (sender = Elsewhere /\ seen.moved)

(* The channel's side of a broadcast is whole: nothing half made is left,  *)
(* what is sent arrives where the row says, and what is called confirmed   *)
(* has a picture.                                                          *)
ChannelIsWhole == SendsToWhatIsWatched /\ NothingHalfMade /\ ConfirmedMeansWatched

(* However long it takes YouTube, and whoever ends it there: the row of a  *)
(* sending broadcast says what YouTube says in the end, until the watch    *)
(* has seen it complete.                                                   *)
StatusCatchesUp ==
    LET Behind == /\ Connected /\ sender # 0
                  /\ tube.life[yrow.yb] \in {"live", "complete", "testing"} \ {yrow.status}
    IN  (Behind /\ ~watch.settled) ~> ~Behind

(* "Every caller reaches here having just had an answer from YouTube":     *)
(* complete is never written of a broadcast that YouTube shows as live.    *)
StatusIsAnAnswer ==
    [][yrow'.status = "complete" /\ yrow.status # "complete" =>
         tube'.life[yrow.yb] # "live"]_youtubeVars

============================================================================
