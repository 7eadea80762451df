------------------------------- MODULE ChatBot -------------------------------
(***************************************************************************)
(* The desktop's chat bot (bot.rs, chat.rs): the thread of one broadcast's *)
(* bot, the rotation of its messages, and the tick's half that attaches a  *)
(* bot to what is on air and lets it go (lib.rs, youtube_service.rs).  A   *)
(* bot that is let go is stopped by a thread of its own, so the next one   *)
(* may run beside it.                                                      *)
(***************************************************************************)
EXTENDS Naturals, Sequences

CONSTANTS Bots,    \* bots at a time: the attached one and those on their way out
          Texts,   \* what a message may say
          Lists    \* the active messages, as lists of texts

Silence == "none"

ASSUME ListsAreTexts == Lists \subseteq Seq(Texts) /\ Silence \notin Texts

VARIABLES
    settings, \* ChatSettings and the active messages, as saved
    bots,     \* the bots' threads
    attached, \* YoutubeService.bot
    LOOKING,  \* the WORKING thread that looks up the broadcast on air
    token     \* a refresh token is kept

chatVars == <<settings, bots, attached, LOOKING, token>>

Nobody == 0

(* sending is the text of the call under way.  The last three fields are   *)
(* history: the text the chat heard last from this bot, whether the bot    *)
(* was told so, which texts it heard twice running (one the bot knew to be *)
(* posted, or one whose answer was lost), and how many it heard after the  *)
(* bot had been let go.                                                    *)
NoBot == [pc |-> "none", stop |-> FALSE, chat |-> FALSE, cursor |-> 0, last_sent |-> Silence,
          due |-> FALSE, sending |-> Silence,
          heard |-> Silence, told |-> TRUE, again |-> {}, after |-> 0]
is_running(b) == bots[b].pc \notin {"none", "ended"}
bot_is_running == attached \in Bots /\ is_running(attached)

(* Whether a failure ends the bot: its chat is off or over, the login has   *)
(* expired or the day's allowance is gone.                                 *)
Failures == {"LL-CHAT-001", "LL-CHAT-002", "LL-CHAT-003", "LL-YOUTUBE-002", "LL-YOUTUBE-005",
             "LL-YOUTUBE-004"}
is_fatal_for_bot(code) ==
    code \in {"LL-CHAT-002", "LL-CHAT-003", "LL-YOUTUBE-002", "LL-YOUTUBE-005"}

----------------------------------------------------------------------------
(* ChatScheduler.  The next text and the cursor after it: a text that would *)
(* repeat the last one is stepped past.                                    *)
Following(n, i) == (i + 1) % n

Sequential(active, cursor) ==
    [text |-> active[cursor + 1], cursor |-> Following(Len(active), cursor)]

Random(active, cursor, last, avoid, rand) ==
    LET n == Len(active)
        again == avoid /\ n > 1 /\ active[rand + 1] = last
    IN [text |-> active[(IF again THEN Following(n, rand) ELSE rand) + 1], cursor |-> cursor]

\* Mutant: only the random order minds the last message.
mut_pick(active, order, avoid, cursor, last, rand) ==
    IF order = "sequential" THEN Sequential(active, cursor)
    ELSE Random(active, cursor, last, avoid, rand)

pick(active, order, avoid, cursor, last, rand) ==
    LET n == Len(active)
        chosen == IF order = "sequential" THEN Sequential(active, cursor)
                  ELSE Random(active, cursor, last, avoid, rand)
        other == active[chosen.cursor + 1]
    IN IF avoid /\ n > 1 /\ chosen.text = last
       THEN [text |-> IF other # last THEN other ELSE chosen.text,
             cursor |-> Following(n, chosen.cursor)]
       ELSE chosen

Picks(b) ==
    {pick(settings.active, settings.order, settings.avoid_repeats, bots[b].cursor,
          bots[b].last_sent, rand) : rand \in 0..(Len(settings.active) - 1)}

mark_sent(bot, text) == [bot EXCEPT !.last_sent = text, !.due = FALSE]

(* The message has reached the chat, whatever the bot learns of it. *)
Posted(bot, text, told) ==
    [bot EXCEPT !.heard = text, !.told = told,
                !.again = IF text # bot.heard THEN bot.again
                          ELSE bot.again \cup {IF bot.told THEN "known" ELSE "unknown"},
                !.after = IF bot.stop THEN bot.after + 1 ELSE bot.after]

----------------------------------------------------------------------------
(* The bot's thread. *)

Runs(b, pc) == bots[b].pc = pc /\ ~bots[b].stop
Becomes(b, bot) == bots' = [bots EXCEPT ![b] = bot]

(* What a thread knew goes with it; the history stays. *)
Ended(bot) == [NoBot EXCEPT !.pc = "ended", !.again = bot.again, !.after = bot.after]
Fails(b, code, bot) ==
    Becomes(b, IF is_fatal_for_bot(code) THEN Ended(bot) ELSE [bot EXCEPT !.pc = "paused"])
Ours == UNCHANGED <<settings, attached, LOOKING, token>>

(* The broadcast's chat is looked for until there is one; the rotation then *)
(* starts from the top.                                                    *)
FindChat(b) ==
    /\ Runs(b, "running") /\ ~bots[b].chat /\ token
    /\ \/ Becomes(b, [NoBot EXCEPT !.pc = "running", !.chat = TRUE, !.due = settings.send_on_start])
       \/ UNCHANGED bots
       \/ \E code \in Failures : Fails(b, code, bots[b])
    /\ Ours

IntervalPasses(b) ==
    /\ bots[b].chat /\ ~bots[b].due /\ is_running(b)
    /\ Becomes(b, [bots[b] EXCEPT !.due = TRUE])
    /\ Ours

(* The cursor has moved on by the time a send fails. *)
Send(b) ==
    /\ Runs(b, "running") /\ bots[b].chat /\ bots[b].due
    /\ \E p \in Picks(b) :
          LET bot == [bots[b] EXCEPT !.cursor = p.cursor]
          IN  IF token THEN Becomes(b, [bot EXCEPT !.pc = "sending", !.sending = p.text])
              ELSE Fails(b, "LL-YOUTUBE-001", bot)
    /\ Ours

(* The call returns, also to a bot that has been told to stop meanwhile.   *)
(* An answer that does not come, or cannot be read, is an error although   *)
(* the message is in the chat; it counts as not sent.                      *)
SendReturns(b) ==
    LET bot == [bots[b] EXCEPT !.sending = Silence]
        text == bots[b].sending
    IN
    /\ bots[b].pc = "sending"
    /\ \/ Becomes(b, [mark_sent(Posted(bot, text, TRUE), text) EXCEPT !.pc = "running"])
       \/ Fails(b, "LL-YOUTUBE-004", Posted(bot, text, FALSE))
       \/ \E code \in Failures : Fails(b, code, bot)
    /\ Ours

BackoffEnds(b) ==
    /\ Runs(b, "paused")
    /\ Becomes(b, [bots[b] EXCEPT !.pc = "running"])
    /\ Ours

(* A bot without a token waits out its backoff as for any other failure. *)
NoToken(b) ==
    /\ Runs(b, "running") /\ ~bots[b].chat /\ ~token
    /\ Fails(b, "LL-YOUTUBE-001", bots[b])
    /\ Ours

(* Asked to stop, it may post one message more on the way out; nothing is   *)
(* made of the answer.                                                     *)
Leave(b) ==
    /\ bots[b].pc \in {"running", "paused"} /\ bots[b].stop
    /\ \/ /\ settings.send_on_end /\ bots[b].chat /\ token
          /\ \E p \in Picks(b) : Becomes(b, Ended(Posted(bots[b], p.text, FALSE)))
       \/ Becomes(b, Ended(bots[b]))
    /\ Ours

----------------------------------------------------------------------------
(* The service and the tick. *)

(* The bot leaves the service at once; its thread is told, and waited for,  *)
(* by another.                                                             *)
Detached == IF bot_is_running THEN [bots EXCEPT ![attached].stop = TRUE] ELSE bots
stop_bot == bots' = Detached /\ attached' = Nobody

(* What the tick does for the bot: off air it is let go, and on air, with   *)
(* an account and an allowance left, a bot that does not run is looked for. *)
FollowOffAir == attached # Nobody /\ stop_bot /\ UNCHANGED <<settings, LOOKING, token>>

FollowOnAir ==
    /\ token /\ settings.enabled
    /\ ~bot_is_running
    /\ LOOKING = FALSE /\ LOOKING' = TRUE
    /\ UNCHANGED <<settings, bots, attached, token>>

(* The broadcast on air is found, or not; one that already has its bot      *)
(* keeps it, else the old bot is stopped and a new one started.            *)
start_bot_for ==
    /\ LOOKING /\ LOOKING' = FALSE
    /\ \/ UNCHANGED <<bots, attached>>
       \/ /\ ~bot_is_running
          /\ \E b \in Bots :
                /\ ~is_running(b)
                /\ bots' = [Detached EXCEPT ![b] = [NoBot EXCEPT !.pc = "running"]]
                /\ attached' = b
    /\ UNCHANGED <<settings, token>>

(* Consent's thread keeps the refresh token Google gave; a failure leaves   *)
(* what there was.                                                         *)
begin_connect == ~token /\ token' = TRUE /\ UNCHANGED <<settings, bots, attached, LOOKING>>

disconnect == token /\ token' = FALSE /\ stop_bot /\ UNCHANGED <<settings, LOOKING>>

----------------------------------------------------------------------------
ChatSettings == [enabled : {TRUE}, order : {"sequential", "random"}, active : Lists,
                 send_on_start : BOOLEAN, send_on_end : BOOLEAN, avoid_repeats : {TRUE}]

ChatInit ==
    /\ settings \in ChatSettings
    /\ bots = [b \in Bots |-> NoBot] /\ attached = Nobody /\ LOOKING = FALSE /\ token = TRUE

ChatNext ==
    \/ \E b \in Bots : \/ FindChat(b) \/ IntervalPasses(b) \/ Send(b) \/ SendReturns(b)
                       \/ BackoffEnds(b) \/ NoToken(b) \/ Leave(b)
    \/ FollowOffAir \/ FollowOnAir \/ start_bot_for \/ begin_connect \/ disconnect

ChatSpec == ChatInit /\ [][ChatNext]_chatVars

----------------------------------------------------------------------------
(* "Never post the same text twice running", for as much as a bot can know: *)
(* through failed sends, retries and the farewell it repeats no text that   *)
(* it was told is in the chat, as long as its messages differ.             *)
Distinct(active) == \A i, j \in DOMAIN active : active[i] = active[j] => i = j
Varied == Distinct(settings.active) /\ Len(settings.active) > 1

ChatNeverDoubles == Varied => \A b \in Bots : "known" \notin bots[b].again

(* One bot at a time is not on its way out, and that is the attached one.   *)
OneBotStays == \A b \in Bots : is_running(b) /\ ~bots[b].stop => b = attached

(* One that was let go posts the message it was sending and its farewell,   *)
(* and does not come back to retry.                                        *)
LeavesSoon == \A b \in Bots : bots[b].after <= 2

(* A broadcast's chat hears one bot that varies: a second voice is one on   *)
(* its way out, and it says no more than two things.                       *)
ChatIsOneVoice == ChatNeverDoubles /\ OneBotStays /\ LeavesSoon

(* What the setting promises without that reservation (chat.rs:73).  A      *)
(* message whose answer was lost is posted a second time: it is not the    *)
(* last_sent that the next pick avoids.                                    *)
NeverTwiceRunning == Varied => \A b \in Bots : bots[b].again = {}
=============================================================================
