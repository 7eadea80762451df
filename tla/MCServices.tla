----------------------------- MODULE MCServices -----------------------------
(* Instances of the modules around a cloud broadcast for TLC: its channel, *)
(* the channel's tokens, the camera catalogue.  A behaviour is about one   *)
(* of them; the others stay as they begin.                                 *)
EXTENDS CloudYoutube, YoutubeAccounts, Cctv

VARIABLE about

ServiceInit ==
    /\ about \in {"youtube", "tokens", "cctv"}
    /\ YoutubeInit /\ AccountsInit /\ CctvInit
    /\ about # "youtube" => yrow = NoRow /\ watch = NoWatch(TRUE)
    /\ about # "cctv" => bcast.source = 1

ServiceNext ==
    /\ UNCHANGED about
    /\ \/ about = "youtube" /\ YoutubeNext /\ UNCHANGED <<accountVars, cctvVars>>
       \/ about = "tokens" /\ AccountsNext /\ UNCHANGED <<youtubeVars, cctvVars>>
       \/ about = "cctv" /\ CctvNext /\ UNCHANGED <<youtubeVars, accountVars>>

serviceVars == <<about, youtubeVars, accountVars, cctvVars>>

(* The camera refresh is scheduled in the behaviours that are about it. *)
ServiceSpec ==
    /\ ServiceInit /\ [][ServiceNext]_serviceVars
    /\ YoutubeFairness
    /\ WF_cctvVars(about = "cctv" /\ RefreshReads) /\ SF_cctvVars(adopt_cctv_url)
    /\ WF_cctvVars(RestartStops) /\ WF_cctvVars(RestartStarts)
============================================================================
