------------------------------ MODULE MCMedia ------------------------------
(* An instance of Ingest, Uploads and Preparation for TLC.  A behaviour is *)
(* about one of the three; the others stay as they begin.                  *)
EXTENDS Ingest, Uploads, Preparation

VARIABLE about

mediaVars == <<about, ingestVars, uploadVars, preparationVars>>

(* One upload that is converted and keeps its shape, and one that is sent  *)
(* as it is with another shape.                                            *)
Upload(kind, sig) == [kind |-> kind, sig |-> sig]
MCSources == {[m \in Media |-> IF m = "m1" THEN Upload("native", "s1") ELSE Upload("direct", "s2")]}

Conforming ==
    [container |-> "mp4", codec |-> "h264", pix |-> "yuv420p", hdr |-> FALSE, rotation |-> 0,
     profile |-> "high", level |-> 31, width |-> 1920, height |-> 1080, fps |-> 2999,
     every |-> 2, kbps |-> 700, kbps_known |-> TRUE, timescale |-> 12800,
     header |-> "camera", sound |-> Sound("aac", 48000, 2, 128), secs |-> 14400]

(* Sizes and rates inside and outside both profiles, keyframes near, far   *)
(* and out of the measured minute, every kind of sound; and each way a     *)
(* picture can be unfit.                                                   *)
MCInfos ==
    {[Conforming EXCEPT !.width = size[1], !.height = size[2], !.fps = fps, !.every = every,
                        !.sound = sound, !.container = container, !.kbps_known = known] :
        size \in {<<1920, 1080>>, <<1280, 720>>, <<3840, 2160>>, <<1279, 720>>, <<64, 64>>},
        fps \in {0, 20, 200, 2999, 6000}, every \in {2, 10, 120},
        sound \in {NoSound, Sound("aac", 44100, 2, 384), Sound("aac", 48000, 2, 128),
                   Sound("mp3", 48000, 2, 128),
                   [Sound("aac", 48000, 2, 500) EXCEPT !.stated = FALSE]},
        container \in {"mp4", "mkv"}, known \in BOOLEAN}
    \cup {[Conforming EXCEPT !.codec = "hevc"], [Conforming EXCEPT !.pix = "yuv444p"],
          [Conforming EXCEPT !.hdr = TRUE], [Conforming EXCEPT !.rotation = 90],
          [Conforming EXCEPT !.profile = "high 10"], [Conforming EXCEPT !.level = 51]}

MediaInit ==
    /\ about \in {"media", "uploads", "preparation"}
    /\ IngestInit /\ UploadInit /\ PreparationInit
    /\ about # "preparation" =>
          item = [info |-> Conforming, profile |-> "p1080p30", by |-> "server",
                  pinned |-> FALSE, probe |-> TRUE]

MediaNext ==
    /\ UNCHANGED about
    /\ \/ about = "media" /\ IngestNext /\ UNCHANGED <<uploadVars, preparationVars>>
       \/ about = "uploads" /\ UploadNext /\ UNCHANGED <<ingestVars, preparationVars>>
       \/ about = "preparation" /\ PreparationNext /\ UNCHANGED <<ingestVars, uploadVars>>

MediaSpec == MediaInit /\ [][MediaNext]_mediaVars /\ IngestFairness
============================================================================
