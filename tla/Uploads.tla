------------------------------ MODULE Uploads ------------------------------
(***************************************************************************)
(* What one account's uploads may take: the plan's two storage limits and  *)
(* the floor of free space under the volume (api.rs upload_media,          *)
(* ingest.rs, entitlement.rs, state.rs).  Bytes are counted in chunks.     *)
(*                                                                         *)
(* Several requests stream at once, one preparation writes beside them,    *)
(* and processes sharing the data directory come and go.                   *)
(***************************************************************************)
EXTENDS Integers, FiniteSets

CONSTANTS Uploaders,    \* upload requests at a time
          VOLUME,       \* the disk
          FLOOR,        \* DISK_FLOOR_BYTES
          EVERY,        \* FLOOR_CHECK_EVERY_BYTES
          PER_FILE,     \* max_upload_bytes
          CEILING       \* max_storage_bytes

ASSUME UploadsAssumption ==
    /\ IsFiniteSet(Uploaders) /\ Uploaders # {} /\ EVERY \in Nat \ {0}
    /\ PER_FILE \in Nat /\ CEILING \in Nat /\ FLOOR \in Nat /\ VOLUME \in Nat /\ FLOOR <= VOLUME

VARIABLES
    up,        \* each request: where it is, bytes written, bytes since it last
               \* looked at the disk, whether its .part file is still there
    conv,      \* the preparation under way: bytes left to write, bytes written
    kept,      \* bytes of the account's rows
    sources,   \* history: of which uploads
    lost,      \* bytes of stored objects whose row was never written
    blind      \* history: a look at the disk got no answer, and let the bytes by

uploadVars == <<up, conv, kept, sources, lost, blind>>

NoUpload == [pc |-> "idle", got |-> 0, since |-> 0, part |-> TRUE]
NoConv == [left |-> 0, wrote |-> 0]

\* The chunks that requests us have written, a request and a number each.
Chunks(us) == {x \in us \X (1..PER_FILE) : x[2] <= up[x[1]].got}
Written == Cardinality(Chunks(Uploaders))
free == VOLUME - Written - conv.wrote - kept - lost

(* What a look at the disk may find.  No bytes left and a volume that      *)
(* cannot be read look the same, and neither refuses anything.             *)
None == -1
free_bytes == ({free} \ {0}) \cup {None}
fits(read, additional) == read = None \/ read >= additional + FLOOR
disk_above_floor(read) == fits(read, 0)
Looked(read) == blind' = (blind \/ read = None)

UpAt(u, pc) == up[u].pc = pc
UpTo(u, r) == up' = [up EXCEPT ![u] = r] /\ UNCHANGED <<conv, kept, sources, lost>>
Refused(u) == UpTo(u, NoUpload)

upload_media(u) ==
    UpAt(u, "idle") /\ UpTo(u, [NoUpload EXCEPT !.pc = "body"]) /\ UNCHANGED blind

\* Mutant: the floor is checked before the upload only.
mut_chunk(u) ==
    /\ UpAt(u, "body") /\ UNCHANGED blind
    /\ IF up[u].got + 1 > PER_FILE \/ free = 0 THEN Refused(u)
       ELSE UpTo(u, [up[u] EXCEPT !.got = @ + 1])

(* A chunk of the body: the floor, every so many bytes, then the plan's    *)
(* limit, and only then the write, which a full disk refuses.              *)
chunk(u) ==
    LET looks == up[u].since + 1 >= EVERY IN
    /\ UpAt(u, "body")
    /\ \E read \in free_bytes :
          /\ IF looks THEN Looked(read) ELSE UNCHANGED blind
          /\ IF (looks /\ ~disk_above_floor(read)) \/ up[u].got + 1 > PER_FILE \/ free = 0
             THEN Refused(u)
             ELSE UpTo(u, [up[u] EXCEPT !.got = @ + 1, !.since = IF looks THEN 0 ELSE @ + 1])

BodyEnds(u) ==
    UpAt(u, "body") /\ up[u].got > 0 /\ UpTo(u, [up[u] EXCEPT !.pc = "check"]) /\ UNCHANGED blind
BodyBreaks(u) == UpAt(u, "body") /\ Refused(u) /\ UNCHANGED blind

(* Both limits are inclusive. *)
check_upload_allowed(u) ==
    /\ UpAt(u, "check") /\ UNCHANGED blind
    /\ IF up[u].part /\ up[u].got <= PER_FILE /\ kept + up[u].got <= CEILING
       THEN UpTo(u, [up[u] EXCEPT !.pc = "room"])
       ELSE Refused(u)

(* The bytes are on the disk already: only the floor is asked about. *)
check_disk_has_room(u) ==
    /\ UpAt(u, "room")
    /\ \E read \in free_bytes :
          /\ Looked(read)
          /\ IF disk_above_floor(read) THEN UpTo(u, [up[u] EXCEPT !.pc = "put"]) ELSE Refused(u)

put_file(u) ==
    /\ UpAt(u, "put") /\ UNCHANGED blind
    /\ IF up[u].part THEN UpTo(u, [up[u] EXCEPT !.pc = "row"]) ELSE Refused(u)

create_media(u) ==
    /\ UpAt(u, "row")
    /\ kept' = kept + up[u].got
    /\ sources' = sources + up[u].got
    /\ up' = [up EXCEPT ![u] = NoUpload]
    /\ UNCHANGED <<conv, lost, blind>>

(* A preparation: room for the whole estimate is asked for once; while it  *)
(* is written the floor is watched, and a cancelled one takes its output   *)
(* away.  A finished one counts towards the account.                       *)
check_room_to_prepare(need) ==
    /\ conv = NoConv
    /\ \E read \in free_bytes : fits(read, need) /\ Looked(read)
    /\ conv' = [left |-> need, wrote |-> 0]
    /\ UNCHANGED <<up, kept, sources, lost>>

floor_watch ==
    /\ conv.left > 0
    /\ \E read \in free_bytes :
          /\ Looked(read)
          /\ conv' = IF disk_above_floor(read) /\ free > 0
                     THEN [left |-> conv.left - 1, wrote |-> conv.wrote + 1]
                     ELSE NoConv
    /\ UNCHANGED <<up, kept, sources, lost>>

ConversionEnds ==
    /\ conv.left = 0 /\ conv.wrote > 0
    /\ conv' = NoConv
    /\ kept' = kept + conv.wrote
    /\ UNCHANGED <<up, sources, lost, blind>>

(* The API dies: its bodies stay as .part files, a stored object without a *)
(* row stays too.  Booting, it sweeps every .part file away, and so does a *)
(* runner that shares the data directory, whatever is still arriving.      *)
ApiReboots ==
    /\ \E u \in Uploaders : up[u] # NoUpload
    /\ lost' = lost + Cardinality(Chunks({u \in Uploaders : UpAt(u, "row")}))
    /\ up' = [u \in Uploaders |-> NoUpload] /\ conv' = NoConv
    /\ UNCHANGED <<kept, sources, blind>>

sweep_abandoned_uploads ==
    /\ \E u \in Uploaders : up[u].pc \in {"body", "check", "room", "put"} /\ up[u].part
    /\ up' = [u \in Uploaders |->
                 IF up[u].pc \in {"body", "check", "room", "put"}
                 THEN [up[u] EXCEPT !.part = FALSE] ELSE up[u]]
    /\ UNCHANGED <<conv, kept, sources, lost, blind>>

UploadInit ==
    /\ up = [u \in Uploaders |-> NoUpload] /\ conv = NoConv
    /\ kept = 0 /\ sources = 0 /\ lost = 0 /\ blind = FALSE

UploadNext ==
    \/ \E u \in Uploaders :
          \/ upload_media(u) \/ chunk(u) \/ BodyEnds(u) \/ BodyBreaks(u)
          \/ check_upload_allowed(u) \/ check_disk_has_room(u) \/ put_file(u) \/ create_media(u)
    \/ \E need \in 1..PER_FILE : check_room_to_prepare(need)
    \/ floor_watch \/ ConversionEnds \/ ApiReboots \/ sweep_abandoned_uploads

UploadSpec == UploadInit /\ [][UploadNext]_uploadVars

----------------------------------------------------------------------------
(* As long as every look at the disk is answered the floor gives way by no *)
(* more than what every request may write between two looks, and the       *)
(* preparation between two of its own; and what an account uploads exceeds *)
(* its plan by no more than one file for every request that raced another. *)
FloorAndQuotaHold ==
    /\ ~blind => free >= FLOOR - Cardinality(Uploaders) * (EVERY - 1) - 1
    /\ sources <= CEILING + (Cardinality(Uploaders) - 1) * PER_FILE

(* "Boot is the one moment when no upload is in flight and deleting them   *)
(* is unambiguously safe": what is swept away is nobody's.                 *)
SweepTakesOnlyAbandoned ==
    [][sweep_abandoned_uploads => \A u \in Uploaders : up[u].pc = "idle"]_uploadVars

============================================================================
