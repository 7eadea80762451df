------------------------------- MODULE Ingest ------------------------------
(***************************************************************************)
(* The life of uploaded media on the server (ingest.rs, storage.rs,        *)
(* media_audit.rs and the media rows of db.rs), for one broadcast with a   *)
(* playlist: preparation threads, the re-preparation a mixed playlist      *)
(* causes, the start that reads the prepared files, deletion, and the      *)
(* operator who removes what the audit calls safe.                         *)
(*                                                                         *)
(* A file is its key and its shape.  What FFmpeg makes of a source is      *)
(* Preparation's subject; here a source has a kind, and a file that was    *)
(* not converted to the canonical profile keeps its source's signature.    *)
(* No source here already has the profile's own picture: what becomes of   *)
(* one that has is CanonicalIsInterchangeable's question (Preparation).    *)
(***************************************************************************)
EXTENDS Naturals, FiniteSets

CONSTANTS Media,       \* media rows
          Sources,     \* what the uploads may be: a signature and a kind.
                       \* "direct": broadcast as it is; "native": converted, keeps
                       \* its shape; "odd": needs the canonical conversion
          Threads,     \* bound: preparation threads per media at a time
          MaxRuns,     \* bound: conversions per media
          MaxEdits,    \* bound: playlist edits
          MaxCrashes   \* bound: deaths of the server

Null == "null"

ASSUME IngestAssumption ==
    /\ IsFiniteSet(Media) /\ Media # {} /\ Null \notin Media
    /\ \A s \in Sources : s \in [Media -> [kind : {"direct", "native", "odd"}, sig : STRING]]

NoKey == <<Null, 0>>

VARIABLES
    source,    \* what each upload is
    mrow,      \* the media rows
    disk,      \* the object store: keys to shapes
    trash,     \* storage_trash
    job,       \* preparation threads
    in_flight, \* media with a claim
    slots,     \* free preparation slots
    playlist,  \* enabled items of the broadcast
    ensure,    \* ensure_playlist_compatible: due after an edit; media left to pin
    edits,
    start,     \* a start of the broadcast under way, or "on" / "off"
    manifest,  \* files named in the broadcast's work directory
    deleting,  \* a delete request: its media and the row as it read it
    crashes,
    past       \* history: unread shapes, bounced retries, raced starts, files taken
               \* from under a preparation or a start

ingestVars == <<source, mrow, disk, trash, job, in_flight, slots, playlist, ensure,
                edits, start, manifest, deleting, crashes, past>>

Canonical == [mode |-> "canonical", sig |-> "profile"]
Native(m) == [mode |-> source[m].kind, sig |-> source[m].sig]
SourceKey(m) == <<m, 0>>
Keys == Media \X (0..MaxRuns)
Idle == [pc |-> "idle"]
Exists(m) == mrow[m].state # "deleted"
Stored(k) == k \in DOMAIN disk

Put(k, shape) == disk' = [f \in DOMAIN disk \cup {k} |-> IF f = k THEN shape ELSE disk[f]]
Unlink(keys) == disk' = [f \in DOMAIN disk \ keys |-> disk[f]]

(* An UPDATE ... WHERE id of a row that is gone changes nothing. *)
Update(m, r) == mrow' = IF Exists(m) THEN [mrow EXCEPT ![m] = r] ELSE mrow
SetState(m, s) == Update(m, [mrow[m] EXCEPT !.state = s])

----------------------------------------------------------------------------
(* prepare: one thread t of media m. *)

JobAt(m, t, pc) == job[m][t].pc = pc
JobTo(m, t, j) == job' = [job EXCEPT ![m][t] = j]
JobStep(m, t, from, to) == JobAt(m, t, from) /\ JobTo(m, t, [job[m][t] EXCEPT !.pc = to])
others == <<source, playlist, ensure, edits, start, manifest, deleting, crashes>>

(* The claim, or back at once when another thread has it. *)
TakeClaim(m, t) ==
    /\ JobAt(m, t, "claim")
    /\ IF m \in in_flight
       THEN /\ JobTo(m, t, Idle) /\ UNCHANGED in_flight
            /\ past' = [past EXCEPT !.bounced = @ \cup {m}]
       ELSE /\ JobTo(m, t, [pc |-> "slot"]) /\ in_flight' = in_flight \cup {m}
            /\ UNCHANGED past
    /\ UNCHANGED <<others, mrow, disk, trash, slots>>

TakeSlot(m, t) ==
    /\ JobStep(m, t, "slot", "analyse") /\ slots > 0
    /\ slots' = slots - 1
    /\ UNCHANGED <<others, mrow, disk, trash, in_flight, past>>

Fails(m, t) == JobTo(m, t, [pc |-> "release", ok |-> FALSE])

Planned(m, pinned) ==
    IF pinned \/ source[m].kind = "odd" THEN Canonical ELSE Native(m)

(* Reads the row, marks it, probes (the file or the row may be gone, and   *)
(* the probe may fail), then reads prepare_target, once, and plans.        *)
Analyse(m, t) ==
    /\ JobAt(m, t, "analyse")
    /\ \/ /\ Fails(m, t)
          /\ SetState(m, "Analysing")
       \/ /\ Exists(m) /\ Stored(SourceKey(m))
          /\ LET prep == Planned(m, mrow[m].target = "canonical")
             IN  JobTo(m, t, [pc |-> IF prep.mode = "direct" THEN "direct" ELSE "convert",
                              prep |-> prep])
          /\ SetState(m, "Preparing")
    /\ UNCHANGED <<others, disk, trash, in_flight, slots, past>>

Sign(m, shape) == Update(m, [mrow[m] EXCEPT !.mode = shape.mode, !.sig = shape.sig])

(* The upload is the broadcast's file: only its shape is read. *)
PrepareDirect(m, t) ==
    /\ JobAt(m, t, "direct")
    /\ \/ /\ JobTo(m, t, [pc |-> "retire", key |-> SourceKey(m)])
          /\ Sign(m, job[m][t].prep)
       \/ JobTo(m, t, [job[m][t] EXCEPT !.pc = "convert"]) /\ UNCHANGED mrow
    /\ UNCHANGED <<others, disk, trash, in_flight, slots, past>>

(* check_room_to_prepare, normalize_one_with, put_file.  A live-normalised *)
(* file whose keyframes are still too far apart is made again the          *)
(* canonical way.                                                          *)
Convert(m, t) ==
    /\ JobAt(m, t, "convert")
    /\ \/ Fails(m, t) /\ UNCHANGED <<disk, past>>
       \/ \E made \in {job[m][t].prep, Canonical} :
             LET k == <<m, past.runs[m] + 1>> IN
             /\ past.runs[m] < MaxRuns
             /\ Put(k, made)
             /\ JobTo(m, t, [pc |-> "sign", key |-> k])
             /\ past' = [past EXCEPT !.runs[m] = @ + 1]
    /\ UNCHANGED <<others, mrow, trash, in_flight, slots>>

(* The shape is read from the file that was made and recorded before the   *)
(* row is ready.  A file that cannot be read leaves the row as it was.     *)
record_prepared_signature(m, t) ==
    /\ JobStep(m, t, "sign", "retire")
    /\ \/ Stored(job[m][t].key) /\ Sign(m, disk[job[m][t].key]) /\ UNCHANGED past
       \/ past' = [past EXCEPT !.unread = @ \cup {m}] /\ UNCHANGED mrow
    /\ UNCHANGED <<others, disk, trash, in_flight, slots>>

\* Mutant: the replaced file is unlinked at once.
mut_retire_replaced_prepared(m, t) ==
    /\ JobStep(m, t, "retire", "point")
    /\ Unlink({mrow[m].ptr} \ {job[m][t].key, SourceKey(m)})
    /\ UNCHANGED <<others, mrow, trash, in_flight, slots, past>>

(* The file the pointer leaves is written off, never unlinked: a broadcast *)
(* may be reading it.                                                      *)
retire_replaced_prepared(m, t) ==
    /\ JobStep(m, t, "retire", "point")
    /\ trash' = trash \cup (IF Exists(m) THEN {mrow[m].ptr} \ {NoKey, job[m][t].key, SourceKey(m)}
                            ELSE {})
    /\ UNCHANGED <<others, mrow, disk, in_flight, slots, past>>

record_media_prepared(m, t) ==
    /\ JobAt(m, t, "point")
    /\ JobTo(m, t, [pc |-> "release", ok |-> TRUE])
    /\ Update(m, [mrow[m] EXCEPT !.state = "Ready", !.ptr = job[m][t].key])
    /\ UNCHANGED <<others, disk, trash, in_flight, slots, past>>

(* The claim goes first, then the slot, and only then does the thread      *)
(* record a failure.                                                       *)
DropClaim(m, t) ==
    /\ JobStep(m, t, "release", "give")
    /\ in_flight' = in_flight \ {m}
    /\ UNCHANGED <<others, mrow, disk, trash, slots, past>>

\* Mutant: a job that failed keeps its slot.
mut_DropSlot(m, t) ==
    /\ JobAt(m, t, "give")
    /\ JobTo(m, t, IF job[m][t].ok THEN Idle ELSE [pc |-> "failed"])
    /\ slots' = IF job[m][t].ok THEN slots + 1 ELSE slots
    /\ UNCHANGED <<others, mrow, disk, trash, in_flight, past>>

DropSlot(m, t) ==
    /\ JobAt(m, t, "give")
    /\ JobTo(m, t, IF job[m][t].ok THEN Idle ELSE [pc |-> "failed"])
    /\ slots' = slots + 1
    /\ UNCHANGED <<others, mrow, disk, trash, in_flight, past>>

record_media_failed(m, t) ==
    /\ JobAt(m, t, "failed")
    /\ JobTo(m, t, Idle)
    /\ SetState(m, "Failed")
    /\ UNCHANGED <<others, disk, trash, in_flight, slots, past>>

Job(m, t) ==
    \/ TakeClaim(m, t) \/ TakeSlot(m, t) \/ Analyse(m, t)
    \/ PrepareDirect(m, t) \/ Convert(m, t) \/ record_prepared_signature(m, t)
    \/ retire_replaced_prepared(m, t) \/ record_media_prepared(m, t)
    \/ DropClaim(m, t) \/ DropSlot(m, t) \/ record_media_failed(m, t)

----------------------------------------------------------------------------
(* The playlist. *)

jobVars == <<source, job, in_flight, slots, trash>>

(* A row with no shape yet reads as canonical. *)
playlist_shapes == [m \in playlist |->
    [mode |-> IF mrow[m].mode = Null THEN "canonical" ELSE mrow[m].mode, sig |-> mrow[m].sig]]

Joinable(shapes) ==
    \/ Cardinality(DOMAIN shapes) < 2
    \/ \A m \in DOMAIN shapes : shapes[m].mode = "canonical"
    \/ /\ \A m \in DOMAIN shapes : shapes[m].mode # "canonical" /\ shapes[m].sig # Null
       /\ \A m, n \in DOMAIN shapes : shapes[m].sig = shapes[n].sig

NoEnsure == [due |-> FALSE, left |-> {}]

(* Every item must be the user's; at least one. *)
replace_items(items) ==
    /\ edits < MaxEdits /\ ensure = NoEnsure /\ items # playlist
    /\ items # {} /\ \A m \in items : Exists(m)
    /\ playlist' = items
    /\ edits' = edits + 1
    /\ ensure' = [due |-> TRUE, left |-> {}]
    /\ UNCHANGED <<jobVars, mrow, disk, start, manifest, deleting, crashes, past>>

(* Called right after the items are saved; a read of its own. *)
ensure_playlist_compatible ==
    /\ ensure.due
    /\ ensure' = [due |-> FALSE,
                  left |-> IF Joinable(playlist_shapes) THEN {}
                           ELSE {m \in playlist : playlist_shapes[m].mode # "canonical"}]
    /\ UNCHANGED <<jobVars, mrow, disk, playlist, edits, start, manifest, deleting, crashes,
                   past>>

(* pin_to_canonical, back to preparing, and a thread of its own. *)
pin_to_canonical(m) ==
    /\ m \in ensure.left
    /\ \E t \in Threads :
          /\ JobAt(m, t, "idle")
          /\ job' = [job EXCEPT ![m][t] = [pc |-> "claim"]]
    /\ Update(m, [mrow[m] EXCEPT !.target = "canonical", !.state = "Preparing"])
    /\ ensure' = [ensure EXCEPT !.left = @ \ {m}]
    /\ UNCHANGED <<source, in_flight, slots, trash, disk, playlist, edits, start, manifest,
                   deleting, crashes, past>>

----------------------------------------------------------------------------
(* spawn_worker: first whether the items may be joined, then their files.  *)

OffAir == [pc |-> "off", keys |-> {}]
startVars == <<jobVars, mrow, disk, playlist, ensure, edits, deleting, crashes>>

check_playlist_joinable ==
    /\ start.pc = "off" /\ Joinable(playlist_shapes)
    /\ start' = [pc |-> "checked", keys |-> {}, saw |-> playlist_shapes]
    /\ UNCHANGED <<startVars, manifest, past>>

(* History: what the check has read has changed since. *)
prepared_items_for ==
    /\ start.pc = "checked"
    /\ IF \A m \in playlist : mrow[m].state = "Ready" /\ Stored(mrow[m].ptr)
       THEN /\ start' = [pc |-> "read", keys |-> {mrow[m].ptr : m \in playlist}]
            /\ past' = [past EXCEPT !.raced = (start.saw # playlist_shapes)]
       ELSE start' = OffAir /\ UNCHANGED past
    /\ UNCHANGED <<startVars, manifest>>

(* The engine writes the manifest and launches. *)
GoOnAir ==
    /\ start.pc = "read"
    /\ start' = [start EXCEPT !.pc = "on"]
    /\ manifest' = start.keys
    /\ UNCHANGED <<startVars, past>>

(* History: nothing is known of the next start. *)
Forget == past' = [past EXCEPT !.raced = FALSE, !.pulled = FALSE]

StopBroadcast ==
    /\ start.pc = "on"
    /\ start' = OffAir
    /\ Forget
    /\ UNCHANGED <<startVars, manifest>>

----------------------------------------------------------------------------
(* Deleting media: the row, once no broadcast names it (foreign keys       *)
(* hold), then the files the row named.                                    *)

NoDelete == [m |-> Null, keys |-> {}]
deleteVars == <<jobVars, playlist, ensure, edits, start, manifest, crashes>>

delete_media_owned(m) ==
    /\ deleting = NoDelete /\ Exists(m) /\ m \notin playlist
    /\ deleting' = [m |-> m, keys |-> {SourceKey(m), mrow[m].ptr} \ {NoKey}]
    /\ mrow' = [mrow EXCEPT ![m].state = "deleted"]
    /\ UNCHANGED <<deleteVars, disk, past>>

(* History: a file the broadcast has in its hands is taken. *)
delete_media ==
    /\ deleting # NoDelete
    /\ Unlink(deleting.keys)
    /\ past' = [past EXCEPT !.pulled = @ \/ deleting.keys \cap start.keys # {}]
    /\ deleting' = NoDelete
    /\ UNCHANGED <<deleteVars, mrow>>

\* Mutant: only the rows are asked, not what is on the air.
mut_safe_to_delete(k) ==
    \A m \in Media : Exists(m) => k \notin {SourceKey(m), mrow[m].ptr}

(* No row names it, no manifest does, nothing has it open. *)
safe_to_delete(k) ==
    /\ \A m \in Media : Exists(m) => k \notin {SourceKey(m), mrow[m].ptr}
    /\ k \notin manifest /\ k \notin IF start.pc = "on" THEN start.keys ELSE {}

(* The operator removes what the audit lists, whatever is under way.  The  *)
(* list and the removal are one step: keys are never used again, so what   *)
(* nothing names and nobody has in hand stays so.                          *)
(* History: the audit knows nothing of a file that a preparation has       *)
(* stored and no row names yet, nor of one that a start has read and no    *)
(* manifest names yet.                                                     *)
InHand(k) == \E t \in Threads : LET j == job[k[1]][t] IN
    j.pc \in {"sign", "retire", "point"} /\ j.key = k

OperatorRemoves(k) ==
    /\ Stored(k) /\ safe_to_delete(k)
    /\ Unlink({k})
    /\ past' = [past EXCEPT !.taken = IF InHand(k) THEN @ \cup {k} ELSE @,
                            !.pulled = @ \/ (start.pc = "read" /\ k \in start.keys)]
    /\ UNCHANGED <<deleteVars, mrow, deleting>>

(* Threads, claims and slots die with the process; the rows and files stay *)
(* and nothing takes a preparation up again.                               *)
Crash ==
    /\ crashes < MaxCrashes
    /\ crashes' = crashes + 1
    /\ job' = [m \in Media |-> [t \in Threads |-> Idle]]
    /\ in_flight' = {} /\ slots' = 1
    /\ ensure' = NoEnsure /\ deleting' = NoDelete
    /\ start' = OffAir
    /\ Forget
    /\ UNCHANGED <<source, mrow, disk, trash, playlist, edits, manifest>>

----------------------------------------------------------------------------
(* Both uploads have been accepted: stored, a row, and a thread each. *)
IngestInit ==
    /\ source \in Sources
    /\ mrow = [m \in Media |-> [state |-> "Uploaded", ptr |-> NoKey, mode |-> Null,
                                sig |-> Null, target |-> "auto"]]
    /\ disk = [k \in {SourceKey(m) : m \in Media} |-> Native(k[1])]
    /\ trash = {}
    /\ job = [m \in Media |-> [t \in Threads |->
                  IF t = CHOOSE x \in Threads : TRUE THEN [pc |-> "claim"] ELSE Idle]]
    /\ in_flight = {} /\ slots = 1
    /\ playlist = {CHOOSE m \in Media : TRUE} /\ ensure = NoEnsure /\ edits = 0
    /\ start = OffAir /\ manifest = {}
    /\ deleting = NoDelete /\ crashes = 0
    /\ past = [bounced |-> {}, unread |-> {}, raced |-> FALSE, pulled |-> FALSE, taken |-> {},
               runs |-> [m \in Media |-> 0]]

IngestNext ==
    \/ \E m \in Media, t \in Threads : Job(m, t)
    \/ \E items \in SUBSET Media : replace_items(items)
    \/ ensure_playlist_compatible \/ \E m \in Media : pin_to_canonical(m)
    \/ check_playlist_joinable \/ prepared_items_for \/ GoOnAir \/ StopBroadcast
    \/ (\E m \in Media : delete_media_owned(m)) \/ delete_media
    \/ \E k \in Keys : OperatorRemoves(k)
    \/ Crash

IngestSpec == IngestInit /\ [][IngestNext]_ingestVars

(* Every preparation is a thread of its own and the condition variable     *)
(* hands its slot on.                                                      *)
IngestFairness == \A m \in Media, t \in Threads : WF_ingestVars(Job(m, t))

----------------------------------------------------------------------------
(* "A crash between any two of these steps leaves the row pointing at a    *)
(* file that exists": and so does everything else that can happen, other   *)
(* threads, deletions and an operator's clean-up included, unless the      *)
(* operator removed the file before the row was pointed at it.             *)
PointerIsAlive ==
    \A m \in Media :
        Exists(m) /\ mrow[m].ptr # NoKey /\ mrow[m].ptr \notin past.taken => Stored(mrow[m].ptr)

(* A ready row's recorded shape, which every playlist check relies on, is  *)
(* that of the file the row points at, unless its probe failed or the file *)
(* was taken.                                                              *)
ReadyTellsTheTruth ==
    \A m \in Media :
        mrow[m].state = "Ready" /\ m \notin past.unread /\ mrow[m].ptr \notin past.taken =>
            disk[mrow[m].ptr] = [mode |-> mrow[m].mode, sig |-> mrow[m].sig]

(* A row can be relied on: its file is there and is what the row says.     *)
RowIsSound == PointerIsAlive /\ ReadyTellsTheTruth

(* What is on air can be read to its end and joined without a seam, unless *)
(* a row changed between the check and the reading of the files, a shape   *)
(* could not be read, the user deleted what is playing, or the operator    *)
(* removed it between the reading of the rows and the launch.              *)
OnAirIsSound ==
    start.pc = "on" =>
        /\ ~past.pulled => \A k \in start.keys : Stored(k)
        /\ ~past.raced /\ past.unread = {} =>
              \A k, l \in start.keys : Stored(k) /\ Stored(l) => disk[k].sig = disk[l].sig

(* A preparation ends: the row becomes ready or failed, unless the server  *)
(* dies, the media is deleted, or a retry met the first run's claim.       *)
PreparationSettles ==
    \A m \in Media :
        (mrow[m].state \in {"Uploaded", "Analysing", "Preparing"}) ~>
            \/ mrow[m].state \in {"Ready", "Failed", "deleted"}
            \/ crashes > 0 \/ m \in past.bounced

(* "It returns immediately when this media is already being prepared,      *)
(* which is what makes a retry safe": no row waits for ever.               *)
RetryIsSafe ==
    \A m \in Media :
        (mrow[m].state \in {"Analysing", "Preparing"}) ~>
            (mrow[m].state \in {"Ready", "Failed", "deleted"} \/ crashes > 0)

(* "The formats are being matched; it can start once that is done": with   *)
(* nothing left to do and every item ready, the playlist can be joined.    *)
MixedPlaylistConverges ==
    /\ ensure = NoEnsure /\ crashes = 0 /\ past.unread = {}
    /\ \A m \in Media, t \in Threads : JobAt(m, t, "idle")
    /\ \A m \in playlist : mrow[m].state = "Ready"
    => Joinable(playlist_shapes)

============================================================================
