--------------------------- MODULE SenderLifecycle ---------------------------
(***************************************************************************)
(* What the broadcast engine promises about the process that publishes to  *)
(* the stream key, without saying how: there is one sender or none; a      *)
(* sender connects, may be accepted, and is gone before another one is     *)
(* begun; only the process that connected is ever live; nothing is on the  *)
(* air while the engine is off, waiting to reconnect, or failed.           *)
(***************************************************************************)
CONSTANTS Sender, None

VARIABLES phase, sender

svars == <<phase, sender>>

Phase == {"Off", "Connecting", "Live", "Waiting", "Failed"}

OnAir == {"Connecting", "Live"}

LifecycleInit == phase = "Off" /\ sender = None

\* A process is begun, and only when there is none.
Go == /\ phase \notin OnAir
      /\ phase' = "Connecting"
      /\ sender = None /\ sender' \in Sender

\* The process that connected has published.
Accept == phase = "Connecting" /\ phase' = "Live" /\ UNCHANGED sender

\* The process is lost, and another one is to follow.
Lose == phase \in OnAir /\ phase' = "Waiting" /\ sender' = None

\* A process could not be begun.
Fail == phase \notin OnAir /\ phase' = "Failed" /\ sender' = None

\* The broadcast ends.
Finish == phase' = "Off" /\ sender' = None

LifecycleNext == Go \/ Accept \/ Lose \/ Fail \/ Finish

LifecycleSpec == LifecycleInit /\ [][LifecycleNext]_svars

\* There is a sender exactly while the engine says it is on the air.
SenderIffOnAir == (sender # None) <=> (phase \in OnAir)
=============================================================================
