--------------------------- MODULE DesktopLibrary ---------------------------
(***************************************************************************)
(* The desktop's media library (commands/media.rs, commands/system.rs,     *)
(* cache.rs, engine.rs): adding files, the background worker that prepares *)
(* them, the cache it fills, clearing it, and the plan of a broadcast.     *)
(*                                                                         *)
(* A file is a model value and names its row; its cache entry is the file  *)
(* and a profile.  The statuses that are not ready (imported, required,    *)
(* missing, failed) are one.  Commands run one after another on the main   *)
(* thread; the worker and the scheduler's starts run beside them.          *)
(***************************************************************************)
EXTENDS Naturals, FiniteSets

CONSTANTS Files,       \* source files the user may add
          Profiles,    \* output profiles
          MaxChanges   \* bound: changes of the profile, cancels, clears, crashes

NoCopy == "none"

ASSUME LibraryAssumption == Profiles # {} /\ NoCopy \notin Profiles

VARIABLES
    lib,      \* media rows: there, status, the profile of normalized_path
    cache,    \* entries whose normalized.mp4 is in place, and their sidecars
    profile,  \* the output_profile setting
    queue,    \* media_queue
    draining, \* media_worker_running
    adder,    \* an add that has queued its ids and not yet looked at draining
    worker,   \* the background thread
    clear,    \* clear_cache under way
    plan,     \* the entries of the manifest on air
    fate      \* history: changes, a wake-up missed, a clear that raced, and the
              \* entries that a clear took without coming to their rows

libraryVars == <<lib, cache, profile, queue, draining, adder, worker, clear, plan, fate>>

NoMedia == [there |-> FALSE, status |-> "none", copy |-> NoCopy]
NoWorker == [pc |-> "none", batch |-> {}, ready |-> {}, job |-> {}, profile |-> NoCopy, cancel |-> FALSE]
Known == {m \in Files : lib[m].there}
is_broadcast_ready(m) == lib[m].status = "normalized"
Waiting == "waiting"

update_media_status(m, status, copy) ==
    lib' = IF ~lib[m].there THEN lib
           ELSE [lib EXCEPT ![m].status = status, ![m].copy = IF copy = NoCopy THEN @ ELSE copy]

(* A hit needs the file and its sidecar. *)
lookup(m, p) == <<m, p>> \in cache.files \cap cache.sidecars

Free == ~adder /\ clear = "idle"
Change == fate.changes < MaxChanges
Changed == fate' = [fate EXCEPT !.changes = @ + 1]

----------------------------------------------------------------------------
(* add_media registers a file, or finds its row, and queues what is not    *)
(* ready; prepare_media queues what the user asks for again.               *)

add_media(m) ==
    /\ Free /\ ~is_broadcast_ready(m)
    /\ lib' = IF lib[m].there THEN lib
              ELSE [lib EXCEPT ![m] = [there |-> TRUE, status |-> Waiting, copy |-> NoCopy]]
    /\ queue' = queue \cup {m} /\ adder' = TRUE
    /\ UNCHANGED <<cache, profile, draining, worker, clear, plan, fate>>

prepare_media(m) ==
    /\ Free /\ m \in Known
    /\ queue' = queue \cup {m} /\ adder' = TRUE
    /\ UNCHANGED <<lib, cache, profile, draining, worker, clear, plan, fate>>

(* A worker that is marked as draining is left to it; else a new one is     *)
(* made, with a cancel token of its own.                                   *)
spawn_analysis ==
    /\ adder
    /\ adder' = FALSE
    /\ IF draining
       THEN /\ fate' = [fate EXCEPT !.missed = @ \/ worker.pc = "exit"]
            /\ UNCHANGED <<draining, worker>>
       ELSE /\ draining' = TRUE
            /\ worker' = [NoWorker EXCEPT !.pc = "take", !.profile = profile]
            /\ UNCHANGED fate
    /\ UNCHANGED <<lib, cache, profile, queue, clear, plan>>

(* The cascade takes its playlist items; the cache entry stays. *)
delete_media(m) ==
    /\ Free /\ m \in Known
    /\ lib' = [lib EXCEPT ![m] = NoMedia]
    /\ UNCHANGED <<cache, profile, queue, draining, adder, worker, clear, plan, fate>>

cancel_optimization ==
    /\ Free /\ draining /\ ~worker.cancel /\ Change
    /\ worker' = [worker EXCEPT !.cancel = TRUE]
    /\ Changed
    /\ UNCHANGED <<lib, cache, profile, queue, draining, adder, clear, plan>>

set_profile(p) ==
    /\ Free /\ p # profile /\ Change
    /\ profile' = p /\ Changed
    /\ UNCHANGED <<lib, cache, queue, draining, adder, worker, clear, plan>>

----------------------------------------------------------------------------
(* The worker takes the whole queue, looks at every file, then prepares    *)
(* them one by one, and comes back for more until there is none.  A        *)
(* cancelled one drops what it has taken.                                  *)

TakeBatch ==
    /\ worker.pc = "take"
    /\ queue' = {}
    /\ worker' = IF queue = {} \/ worker.cancel THEN [worker EXCEPT !.pc = "exit"]
                 ELSE [worker EXCEPT !.pc = "analyse", !.batch = queue, !.ready = {}]
    /\ UNCHANGED <<lib, cache, profile, draining, adder, clear, plan, fate>>

WorkerEnds ==
    /\ worker.pc = "exit"
    /\ draining' = FALSE /\ worker' = NoWorker
    /\ UNCHANGED <<lib, cache, profile, queue, adder, clear, plan, fate>>

(* A file that cannot be read waits; one that is in the cache is ready at  *)
(* once.                                                                   *)
analyse(m) ==
    /\ worker.pc = "analyse" /\ m \in worker.batch /\ ~worker.cancel
    /\ LET left == [worker EXCEPT !.batch = @ \ {m}] IN
       \/ ~lib[m].there /\ worker' = left /\ UNCHANGED lib
       \/ lib[m].there /\ update_media_status(m, Waiting, NoCopy) /\ worker' = left
       \/ /\ lib[m].there /\ lookup(m, worker.profile)
          /\ update_media_status(m, "normalized", worker.profile) /\ worker' = left
       \/ /\ lib[m].there /\ ~lookup(m, worker.profile)
          /\ update_media_status(m, Waiting, NoCopy)
          /\ worker' = [left EXCEPT !.ready = @ \cup {m}]
    /\ UNCHANGED <<cache, profile, queue, draining, adder, clear, plan, fate>>

Analysed ==
    /\ worker.pc = "analyse" /\ (worker.batch = {} \/ worker.cancel)
    /\ LET jobs == worker.ready \cap Known IN
       worker' = [worker EXCEPT !.pc = IF jobs = {} THEN "take" ELSE "estimate",
                                !.batch = {}, !.ready = jobs]
    /\ UNCHANGED <<lib, cache, profile, queue, draining, adder, clear, plan, fate>>

(* Too little room fails the whole batch. *)
estimate_disk ==
    /\ worker.pc = "estimate"
    /\ \/ worker' = [worker EXCEPT !.pc = "prepare"] /\ UNCHANGED lib
       \/ /\ lib' = [m \in Files |-> IF m \in worker.ready /\ lib[m].there
                                     THEN [lib[m] EXCEPT !.status = Waiting] ELSE lib[m]]
          /\ worker' = [worker EXCEPT !.pc = "take", !.ready = {}]
    /\ UNCHANGED <<cache, profile, queue, draining, adder, clear, plan, fate>>

prepare_all(m) ==
    /\ worker.pc = "prepare" /\ m \in worker.ready /\ ~worker.cancel
    /\ worker' = [worker EXCEPT !.job = {m}, !.ready = @ \ {m},
                                !.pc = IF lookup(m, worker.profile) THEN "record" ELSE "encode"]
    /\ UNCHANGED <<lib, cache, profile, queue, draining, adder, clear, plan, fate>>

\* Mutant: the worker leaves after its batch without another look at the queue.
mut_BatchEnds ==
    /\ worker.pc = "prepare" /\ (worker.ready = {} \/ worker.cancel)
    /\ worker' = [worker EXCEPT !.pc = "exit", !.ready = {}]
    /\ UNCHANGED <<lib, cache, profile, queue, draining, adder, clear, plan, fate>>

BatchEnds ==
    /\ worker.pc = "prepare" /\ (worker.ready = {} \/ worker.cancel)
    /\ worker' = [worker EXCEPT !.pc = "take", !.ready = {}]
    /\ UNCHANGED <<lib, cache, profile, queue, draining, adder, clear, plan, fate>>

(* normalize_one: the partial file renamed into place, then the sidecar.   *)
(* A cancel ends the batch with the row as it is; a failure, also of the   *)
(* rename when the directory is gone, is the row's.                        *)
Job == CHOOSE m \in worker.job : TRUE

EncodeEnds ==
    /\ worker.pc = "encode"
    /\ \/ /\ ~worker.cancel
          /\ cache' = [cache EXCEPT !.files = @ \cup {<<Job, worker.profile>>}]
          /\ worker' = [worker EXCEPT !.pc = "sidecar"] /\ UNCHANGED lib
       \/ /\ ~worker.cancel
          /\ update_media_status(Job, Waiting, NoCopy)
          /\ worker' = [worker EXCEPT !.pc = "prepare", !.job = {}] /\ UNCHANGED cache
       \/ /\ worker.cancel
          /\ worker' = [worker EXCEPT !.pc = "take", !.job = {}, !.ready = {}]
          /\ UNCHANGED <<lib, cache>>
    /\ UNCHANGED <<profile, queue, draining, adder, clear, plan, fate>>

write_metadata ==
    /\ worker.pc = "sidecar"
    /\ \/ /\ cache' = [cache EXCEPT !.sidecars = @ \cup {<<Job, worker.profile>>}]
          /\ worker' = [worker EXCEPT !.pc = "record"] /\ UNCHANGED lib
       \/ /\ update_media_status(Job, Waiting, NoCopy)
          /\ worker' = [worker EXCEPT !.pc = "prepare", !.job = {}] /\ UNCHANGED cache
    /\ UNCHANGED <<profile, queue, draining, adder, clear, plan, fate>>

RecordPrepared ==
    /\ worker.pc = "record"
    /\ update_media_status(Job, "normalized", worker.profile)
    /\ worker' = [worker EXCEPT !.pc = "prepare", !.job = {}]
    /\ UNCHANGED <<cache, profile, queue, draining, adder, clear, plan, fate>>

----------------------------------------------------------------------------
(* clear_cache: refused on air; then the directory, then every row that    *)
(* pointed into it.  Each half may fail, the first with some of the files   *)
(* gone and the second with some of the rows written; the command then     *)
(* returns, and nothing tells the rows it has not come to.                 *)
Claimed(rows) == {<<m, lib[m].copy>> : m \in {k \in rows : is_broadcast_ready(k)}}

Torn(entries) == IF fate.raced THEN fate ELSE [fate EXCEPT !.torn = @ \cup entries]

clear_cache ==
    /\ Free /\ plan = {} /\ Change
    /\ clear' = "clear" /\ Changed
    /\ UNCHANGED <<lib, cache, profile, queue, draining, adder, worker, plan>>

clear_all ==
    /\ clear = "clear"
    /\ \E gone \in SUBSET cache.files, stripped \in SUBSET cache.sidecars :
          /\ cache' = [files |-> cache.files \ gone, sidecars |-> cache.sidecars \ stripped]
          /\ \/ gone = cache.files /\ stripped = cache.sidecars /\ clear' = "mark"
             \/ clear' = "idle"
          /\ fate' = IF worker.pc # "none" \/ plan # {} THEN [fate EXCEPT !.raced = TRUE]
                     ELSE IF clear' = "mark" THEN fate ELSE Torn(gone \cap Claimed(Files))
    /\ UNCHANGED <<lib, profile, queue, draining, adder, worker, plan>>

\* Mutant: the rows keep saying that they are ready.
mut_MarkCleared ==
    /\ clear = "mark"
    /\ clear' = "idle"
    /\ UNCHANGED <<lib, cache, profile, queue, draining, adder, worker, plan, fate>>

MarkCleared ==
    LET pointing == {m \in Files : lib[m].copy # NoCopy} IN
    /\ clear = "mark"
    /\ \E marked \in SUBSET pointing :
          /\ lib' = [m \in Files |-> IF m \in marked THEN [lib[m] EXCEPT !.status = Waiting]
                                     ELSE lib[m]]
          /\ fate' = Torn(Claimed(Files \ marked))
    /\ clear' = "idle"
    /\ UNCHANGED <<cache, profile, queue, draining, adder, worker, plan>>

----------------------------------------------------------------------------
(* preflight and build_plan: every item ready and its file there. *)

build_plan(items) ==
    /\ plan = {} /\ items # {} /\ items \subseteq Known
    /\ \A m \in items : is_broadcast_ready(m) /\ <<m, lib[m].copy>> \in cache.files
    /\ plan' = {<<m, lib[m].copy>> : m \in items}
    /\ UNCHANGED <<lib, cache, profile, queue, draining, adder, worker, clear, fate>>

stop_broadcast ==
    /\ plan # {}
    /\ plan' = {}
    /\ UNCHANGED <<lib, cache, profile, queue, draining, adder, worker, clear, fate>>

(* What is on disk survives; the queue does not, and nothing queues again  *)
(* what it held.                                                           *)
AppDies ==
    /\ Change
    /\ LET left == Torn(IF clear = "mark" THEN Claimed(Files) ELSE {})
       IN  fate' = [left EXCEPT !.changes = fate.changes + 1]
    /\ queue' = {} /\ draining' = FALSE /\ adder' = FALSE /\ worker' = NoWorker
    /\ clear' = "idle" /\ plan' = {}
    /\ UNCHANGED <<lib, cache, profile>>

----------------------------------------------------------------------------
LibraryInit ==
    /\ lib = [m \in Files |-> NoMedia]
    /\ cache = [files |-> {}, sidecars |-> {}]
    /\ profile = CHOOSE p \in Profiles : TRUE
    /\ queue = {} /\ draining = FALSE /\ adder = FALSE /\ worker = NoWorker
    /\ clear = "idle" /\ plan = {}
    /\ fate = [changes |-> 0, missed |-> FALSE, raced |-> FALSE, torn |-> {}]

WorkerSteps ==
    \/ TakeBatch \/ WorkerEnds \/ Analysed \/ estimate_disk \/ BatchEnds
    \/ EncodeEnds \/ write_metadata \/ RecordPrepared
    \/ \E m \in Files : analyse(m) \/ prepare_all(m)

LibraryNext ==
    \/ \E m \in Files : add_media(m) \/ prepare_media(m) \/ delete_media(m)
    \/ spawn_analysis \/ cancel_optimization
    \/ \E p \in Profiles : set_profile(p)
    \/ WorkerSteps
    \/ clear_cache \/ clear_all \/ MarkCleared
    \/ \E items \in SUBSET Files : build_plan(items)
    \/ stop_broadcast \/ AppDies

LibrarySpec == LibraryInit /\ [][LibraryNext]_libraryVars

(* The worker is a thread of its own and every encode ends; a command runs *)
(* to its end.                                                             *)
LibraryFairness == WF_libraryVars(WorkerSteps) /\ WF_libraryVars(spawn_analysis)

----------------------------------------------------------------------------
(* "a cache hit requires both", the directory goes before the rows do, and *)
(* an encode is renamed before its row is written: unless a clear met the  *)
(* worker or a start, a row that says it is ready names a file that is     *)
(* there, whatever was added, cancelled, deleted or cleared and wherever   *)
(* the program died; a clear that failed or died leaves no other rows      *)
(* behind than those whose files it took.  What is put on the air is there *)
(* even then.                                                              *)
ReadyHasFile ==
    ~fate.raced =>
        /\ clear = "idle" => Claimed(Known) \subseteq cache.files \cup fate.torn
        /\ plan \subseteq cache.files

(* "Everything that pointed into the cache now needs re-optimizing": the   *)
(* command returns at the first failure, before it has said so of any row. *)
ClearedNeedsOptimizing == clear = "idle" /\ ~fate.raced => Claimed(Known) \subseteq cache.files

(* "The ids are in the queue and will be picked up": the queue is emptied. *)
QueuedIsTaken == queue # {} ~> queue = {}

(* What is queued is taken, through cancels, deletions, clears and batches *)
(* that fail, unless it came between the worker's last look at the queue   *)
(* and its clearing of the flag.                                           *)
QueuedIsTakenUnlessMissed == queue # {} ~> (queue = {} \/ fate.missed)

(* "The concat demuxer requires an identical stream layout everywhere":    *)
(* every file of a manifest has one profile.                               *)
ManifestIsUniform == \A a, b \in plan : a[2] = b[2]

============================================================================
