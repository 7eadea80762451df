---------------------------- MODULE Preparation ----------------------------
(***************************************************************************)
(* How one source becomes a file a broadcast can send: what ffprobe reads  *)
(* (probe.rs), the plan (normalize.rs, config.rs) and what the arguments   *)
(* of ffmpeg.rs make FFmpeg produce.  The desktop converts every source to *)
(* one profile; the server keeps what it can (plan_preparation).           *)
(*                                                                         *)
(* A file is the record MediaInfo that a probe of it returns, with the     *)
(* spacing of its keyframes in seconds, its bit rates in kbit/s and its    *)
(* frame rate in hundredths.  Reasons are wording: an operator named       *)
(* ..._reasons says whether there is any.                                  *)
(***************************************************************************)
EXTENDS Integers, FiniteSets

CONSTANT Infos          \* the sources to try

VARIABLES
    item,     \* a source, the profile, who prepares it and how
    made      \* the preparation and its file, once there is one

preparationVars == <<item, made>>

Unmeasured == -1
NoSound == [codec |-> "none", rate |-> 0, channels |-> 0, kbps |-> 0, stated |-> FALSE]
Sound(codec, rate, channels, kbps) ==
    [codec |-> codec, rate |-> rate, channels |-> channels, kbps |-> kbps, stated |-> TRUE]

----------------------------------------------------------------------------
(* The two profiles, and what is the same in both. *)

OutputProfile ==
    [p1080p30 |-> [width |-> 1920, height |-> 1080, level |-> 42, kbps |-> 6000],
     p720p30  |-> [width |-> 1280, height |-> 720,  level |-> 32, kbps |-> 4000]]

ProfileFps == 3000
GopSecs == 2
MaxCopyGopSecs == 2 * GopSecs
TIMESCALE == 30000
ProfileSound == Sound("aac", 48000, 2, 192)
LIVE_AUDIO_RATES == {44100, 48000}
MIN_DIMENSION == 128
KEYFRAME_WINDOW_SECS == 60

allows_h264_profile(name) == name \in {"", "baseline", "constrained baseline", "main", "high"}

(* The longest gap in the first minute's packets; fewer than two keyframes *)
(* there say nothing, and neither does a probe that fails.                 *)
max_keyframe_gap(i) == IF i.every > KEYFRAME_WINDOW_SECS THEN Unmeasured ELSE i.every

----------------------------------------------------------------------------
(* What a copy cannot change, whatever the file is for. *)
Unfit(i, p) ==
    \/ i.codec # "h264" \/ i.pix # "yuv420p" \/ i.hdr \/ i.rotation # 0
    \/ ~allows_h264_profile(i.profile) \/ i.level > p.level

video_native_copy_reasons(i, p) ==
    \/ Unfit(i, p)
    \/ i.width > p.width \/ i.height > p.height
    \/ i.width < MIN_DIMENSION \/ i.height < MIN_DIMENSION
    \/ i.width % 2 # 0 \/ i.height % 2 # 0
    \/ i.fps > ProfileFps + 1 \/ i.fps <= 0

\* Mutant: the frame rate, the profile and the bit rate are not looked at.
mut_video_encode_reasons(i, p) ==
    i.codec # "h264" \/ i.width # p.width \/ i.height # p.height \/ i.pix # "yuv420p"

video_encode_reasons(i, p) ==
    \/ Unfit(i, p)
    \/ i.width # p.width \/ i.height # p.height
    \/ i.fps < ProfileFps - 1 \/ i.fps > ProfileFps + 1

(* A bit rate that the container does not state is not held against it. *)
SoundFits(s, rates) ==
    /\ s.codec = "aac" /\ s.rate \in rates /\ s.channels = 2
    /\ s.stated => s.kbps <= 2 * ProfileSound.kbps
TooLoud(i) == ~i.sound.stated /\ i.sound.kbps > 2 * ProfileSound.kbps

audio_encode_reasons(i) == ~SoundFits(i.sound, {ProfileSound.rate})
audio_native_copy_reasons(i) == ~SoundFits(i.sound, LIVE_AUDIO_RATES)

----------------------------------------------------------------------------
(* A plan: which streams are copied, how the picture is encoded when it is *)
(* encoded at its own size.                                                *)

Plan(video, audio) == [video |-> video, audio |-> audio]
NoSpec == [keyframe_secs |-> 0, kbps |-> 0]

plan_transcode(i, p, gop) ==
    Plan(~video_encode_reasons(i, p) /\ gop <= MaxCopyGopSecs, ~audio_encode_reasons(i))

(* The keyframes are only looked at when the picture might be copied. *)
measured_gop(i, p, gap) == IF plan_transcode(i, p, Unmeasured).video THEN gap ELSE Unmeasured

plan_for(i, p, gap) == plan_transcode(i, p, measured_gop(i, p, gap))

live_normalize_kbps(i, p) ==
    LET by_pixels == (p.kbps * ((i.width * i.height) \div 100))   \* hundreds of pixels
                         \div ((p.width * p.height) \div 100)
        target == IF i.kbps_known THEN (i.kbps * 5) \div 4 ELSE by_pixels
    IN  IF target < 1000 THEN 1000 ELSE IF target > p.kbps THEN p.kbps ELSE target

(* In this order: pinned; out of a copy's reach; keyframes too far apart;  *)
(* and otherwise the picture is copied.                                    *)
plan_preparation(i, p, gap, canonical_only) ==
    LET canonical == [mode |-> "canonical", plan |-> plan_for(i, p, gap), spec |-> NoSpec]
        audio == ~audio_native_copy_reasons(i)
    IN  IF canonical_only \/ video_native_copy_reasons(i, p) THEN canonical
        ELSE IF gap > MaxCopyGopSecs
        THEN [mode |-> "live_normalize", plan |-> Plan(FALSE, audio),
              spec |-> [keyframe_secs |-> MaxCopyGopSecs \div 2, kbps |-> live_normalize_kbps(i, p)]]
        ELSE [mode |-> IF audio THEN "direct" ELSE "hybrid", plan |-> Plan(TRUE, audio),
              spec |-> NoSpec]

is_mp4_family(container) == container \in {"mp4", "mov", "m4a"}

direct_source_is_broadcastable(i, prep) ==
    prep.mode = "direct" /\ prep.plan.video /\ prep.plan.audio /\ is_mp4_family(i.container)

----------------------------------------------------------------------------
(* What FFmpeg makes of it.  Both commands rewrite the container, into one *)
(* that states every rate, and a source without sound is given a silent    *)
(* track.                                                                  *)

Repacked(i, plan) ==
    [i EXCEPT !.container = "mp4", !.timescale = TIMESCALE,
              !.sound = IF plan.audio /\ i.sound # NoSound THEN [i.sound EXCEPT !.stated = TRUE] ELSE ProfileSound]

video_encode_args(i, p) ==
    [i EXCEPT !.codec = "h264", !.pix = "yuv420p", !.hdr = FALSE, !.rotation = 0,
              !.profile = "high", !.level = p.level, !.every = GopSecs, !.kbps = p.kbps,
              !.header = "encoder"]

build_normalize_args(i, p, plan) ==
    LET packed == Repacked(i, plan) IN
    IF plan.video THEN packed
    ELSE [video_encode_args(packed, p) EXCEPT !.width = p.width, !.height = p.height,
                                              !.fps = ProfileFps]

(* A keyframe falls on a frame: no closer together than the frames are.    *)
(* The encoder picks the level that fits the picture.                      *)
FramePeriod(i) == IF i.fps >= 100 THEN 1 ELSE 100 \div i.fps

(* What a probe fills in.  A picture with less than one frame a minute has *)
(* no two keyframes within one.                                            *)
MediaInfo == [container : STRING, codec : STRING, pix : STRING, hdr : BOOLEAN,
              rotation : Int, profile : STRING, level : Nat, width : Nat, height : Nat,
              fps : Nat, every : Nat, kbps : Nat, kbps_known : BOOLEAN, timescale : Nat,
              header : STRING, secs : Nat,
              sound : [codec : STRING, rate : Nat, channels : Nat, kbps : Nat, stated : BOOLEAN]]

ASSUME InfoAssumption ==
    \A i \in Infos :
        /\ i \in MediaInfo
        /\ i.fps > 0 /\ FramePeriod(i) > KEYFRAME_WINDOW_SECS => i.every > KEYFRAME_WINDOW_SECS

build_live_normalize_args(i, p, plan, spec) ==
    [Repacked(i, plan) EXCEPT
        !.pix = "yuv420p", !.profile = "high",
        !.level = IF i.width <= 1280 THEN 31 ELSE 40,
        !.every = IF FramePeriod(i) > spec.keyframe_secs THEN FramePeriod(i)
                  ELSE spec.keyframe_secs,
        !.kbps = spec.kbps, !.header = "encoder"]

normalize_one_with(i, p, prep) ==
    IF prep.spec = NoSpec THEN build_normalize_args(i, p, prep.plan)
    ELSE build_live_normalize_args(i, p, prep.plan, prep.spec)

(* A live-normalised file whose keyframes are still too far apart is made  *)
(* again the canonical way.                                                *)
prepare_by_conversion(i, p, prep) ==
    LET out == normalize_one_with(i, p, prep)
        again == plan_preparation(i, p, max_keyframe_gap(i), TRUE)
    IN  IF prep.mode = "live_normalize" /\ max_keyframe_gap(out) > MaxCopyGopSecs
        THEN [prep |-> again, file |-> normalize_one_with(i, p, again)]
        ELSE [prep |-> prep, file |-> out]

----------------------------------------------------------------------------
(* Room: in kbit, for the duration. *)

FIXED == 134217
with_margin(bits) == bits + bits \div 10 + FIXED

(* Copied sound is counted with the source, or not at all. *)
estimated_prepared_bytes(i, p, prep) ==
    IF direct_source_is_broadcastable(i, prep) THEN 0
    ELSE with_margin(i.secs * ((IF prep.plan.audio THEN 0 ELSE ProfileSound.kbps)
                             + (IF prep.plan.video THEN i.kbps + i.sound.kbps
                                ELSE IF prep.spec = NoSpec THEN p.kbps ELSE prep.spec.kbps)))

OutputBits(f) == f.secs * (f.kbps + f.sound.kbps)

----------------------------------------------------------------------------
P == OutputProfile[item.profile]
NotMade == [prep |-> [mode |-> "none"], file |-> "none"]

PreparationInit ==
    /\ item \in [info : Infos, profile : DOMAIN OutputProfile,
                 by : {"server", "desktop"}, pinned : BOOLEAN, probe : BOOLEAN]
    /\ item.by = "desktop" => ~item.pinned
    /\ made = NotMade

Gap == IF item.probe THEN max_keyframe_gap(item.info) ELSE Unmeasured

prepare_now ==
    LET prep == plan_preparation(item.info, P, Gap, item.pinned) IN
    /\ item.by = "server" /\ made = NotMade
    /\ made' = IF direct_source_is_broadcastable(item.info, prep)
               THEN [prep |-> prep, file |-> item.info]
               ELSE prepare_by_conversion(item.info, P, prep)
    /\ UNCHANGED item

prepare_all ==
    LET prep == [mode |-> "canonical", plan |-> plan_for(item.info, P, Gap), spec |-> NoSpec] IN
    /\ item.by = "desktop" /\ made = NotMade
    /\ made' = [prep |-> prep, file |-> normalize_one_with(item.info, P, prep)]
    /\ UNCHANGED item

PreparationNext == prepare_now \/ prepare_all

PreparationSpec == PreparationInit /\ [][PreparationNext]_preparationVars

----------------------------------------------------------------------------
(* Whatever the source was, the file a broadcast is given needs nothing    *)
(* more: prepared once more it would be sent as it lies, its keyframes     *)
(* included when they were measured.  A canonical file has the profile's   *)
(* size, timescale and sound, and its rate within the hundredth that the   *)
(* plan lets pass.  Only sound whose source did not state that its rate is *)
(* too high has passed, and would be encoded then.                         *)
PreparedIsBroadcastable ==
    made # NotMade =>
        LET f == made.file
            gap == IF Gap = Unmeasured THEN Unmeasured ELSE f.every
            again == plan_preparation(f, P, gap, FALSE)
        IN  /\ again.plan.video /\ is_mp4_family(f.container)
            /\ ~TooLoud(item.info) => direct_source_is_broadcastable(f, again)
            /\ made.prep.mode = "canonical" =>
                  /\ f.width = P.width /\ f.height = P.height
                  /\ f.fps \in (ProfileFps - 1)..(ProfileFps + 1)
                  /\ f.timescale = TIMESCALE /\ f.sound.rate = ProfileSound.rate

(* The room asked for before a conversion starts is enough for its output, *)
(* unless sound is copied beside an encoded picture: it is not counted,    *)
(* and only the profile's rate leaves a margin for it, if it is stated.    *)
RoomIsEnough ==
    LET prep == made.prep IN
    made # NotMade /\ ~direct_source_is_broadcastable(item.info, prep)
    /\ ~(prep.plan.audio /\ (prep.mode = "live_normalize" \/ TooLoud(item.info)))
        => OutputBits(made.file) <= estimated_prepared_bytes(item.info, P, prep)

(* A preparation gives a file fit for the air in the room set aside for it. *)
PreparationIsSound == PreparedIsBroadcastable /\ RoomIsEnough

(* "A file with a two-minute gap between keyframes could be called ready   *)
(* at import and go into a concat manifest untouched" (probe.rs, of what   *)
(* the plan now prevents).                                                 *)
LongGapIsEncoded ==
    made # NotMade /\ item.probe => made.file.every <= MaxCopyGopSecs

(* "Only the canonical conversion produces a file that is interchangeable  *)
(* with every other canonical file" (normalize.rs): no canonical file      *)
(* keeps the decoder configuration of its source.                          *)
CanonicalIsInterchangeable ==
    made # NotMade /\ made.prep.mode = "canonical" => made.file.header = "encoder"

============================================================================
