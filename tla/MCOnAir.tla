------------------------------- MODULE MCOnAir -------------------------------
(***************************************************************************)
(* The desktop on the air, for TLC: its engine, its hand on the YouTube    *)
(* channel, the chat bot and the day's allowance of API units.  A          *)
(* behaviour is about one of them; the others stay as they begin.          *)
(***************************************************************************)
EXTENDS MCRuntime, DesktopChannel, ChatBot, QuotaLedger

MCLists == {<<"a", "b">>}

Engine == {"windows", "deaths"}

OnAirInit ==
    /\ Init /\ ChannelInit /\ ChatInit /\ QuotaInit
    /\ about \in Engine \cup {"channel", "chat", "quota"}
    /\ about # "channel" => tube = [b \in Ids |-> NoBroadcast]
    /\ about # "chat" => settings = CHOOSE s \in ChatSettings : TRUE

OnAirNext ==
    /\ UNCHANGED about
    /\ IF about \in Engine THEN Next /\ AboutOneThing ELSE UNCHANGED vars
    /\ IF about = "channel" THEN ChannelNext ELSE UNCHANGED channelVars
    /\ IF about = "chat" THEN ChatNext ELSE UNCHANGED chatVars
    /\ IF about = "quota" THEN QuotaNext ELSE UNCHANGED quotaVars

OnAirSpec == OnAirInit /\ [][OnAirNext]_<<about, vars, channelVars, chatVars, quotaVars>>
=============================================================================
