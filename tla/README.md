# Louver LIVE in TLA+

Louver LIVE keeps YouTube broadcasts on the air around the clock. The same
engine (crate `louver-core`) runs in a desktop application (Tauri) for one
broadcast, and in a server (`louver-cloud`, `apps/server`) for many. The engine
starts FFmpeg, watches it, restarts it, follows a weekly schedule, and picks up
after a crash.

This directory specifies the part of the program that is hard to test: who
starts and stops FFmpeg processes, in which order, from which threads; who may
broadcast and what they pay for it; which files and which channel a broadcast
rests on; and what is left when one step of several fails or the program dies.

Contents: [the system](#the-system), [modules](#modules), [runs](#runs),
[bounds](#bounds), [fairness](#fairness), [proofs](#proofs),
[disagreements](#where-code-and-comments-disagree),
[abstractions](#abstractions), [not modelled](#not-modelled-and-the-plan).

## The system

| component | state | operations | interacts with |
|---|---|---|---|
| scheduler, `louver-core/scheduler` | none (pure) | `evaluate`, `active_occurrence`, `next_occurrence`, `recover_on_startup` | asked by the runtime every second |
| stream state machine, `streaming/state.rs` | state, user-stop latch | `transition`, `begin`, `on_process_exit`, `request_user_stop` | owned by the supervisor |
| supervisor, `streaming/supervisor.rs` | child handle, progress counters, stall stamps | `attach`, `mark_live`, `poll`, `stop`, `cancel`, `abort`, launcher's `spawn` | reader threads write the counters; FFmpeg lives outside |
| runtime, `runtime.rs` | plan, session, occurrence, suppressed and failed windows, pending restart, armed | `start`, `stop`, `tick`, `set_armed`, `recover_on_startup`, `clean_orphan_process` | supervisor, session file, database, sleep inhibition |
| session file, `session/mod.rs` | `session.json` | `save`, `load`, `decide_recovery` | written by the runtime, read by a launch |
| desktop shell, `apps/desktop/src-tauri` | the runtime behind one mutex | tick thread, commands, launch, exit | the user |
| desktop library, `commands/media.rs`, `cache.rs` | media rows, queue, worker flag, cache directory | add, remove, retry, prepare, `clear_cache`, `build_plan` | commands, one background worker, the runtime's starts |
| desktop YouTube, `youtube_service.rs`, `provision.rs`, `quota.rs`, `chat.rs`, `bot.rs` | the session's broadcast, the day's ledger, the attached bot | provision, go live, finish; `try_spend`; attach and detach | the tick, threads of their own, Google |
| cloud manager, `louver-cloud/manager.rs` | a map of worker threads | `start`, `stop_with`, `restart`, `recover_all`, `resume_held_back`, `expire_lapsed`, `refresh_cctv_urls`, `run_schedules`, `shutdown` | request threads, the scheduler thread, one worker thread per broadcast, the database, YouTube |
| slots, `entitlement.rs` | `broadcasts` rows | `claim_stream_slot_within`, `release_stream_slot` | the manager |
| runner and lease, `runner.rs`, `lease.rs` | socket, lease file | `START`, `HALT`, acquiring the lease | API request threads on one side, the manager on the other |
| cloud schedules, `schedule.rs` | columns of the row | `decide`, `next_occurrence`, `mark_scheduled_run` | the scheduler thread, the user's edits |
| billing and grants, `billing.rs`, `grants.rs` | billing records, events, grants | checkout, cancel, notifications, corrections; create, extend, change, revoke | PayApp, operators, the gate in front of a start |
| accounts, `auth.rs`, `throttle.rs` | users, sessions, hits | login, lookup, switching off, attempts | every request |
| ingest and preparation, `ingest.rs`, `storage.rs`, `normalize.rs`, `probe.rs` | media rows, object store, trash, in-flight set, slots | upload, prepare, re-prepare, delete, audit | request threads, preparation threads, starts |
| cloud YouTube, `youtube.rs` | ids and status on the row, sealed keys and tokens | provision, `before_start`, `after_stop`, watch, refresh, disconnect | Google, workers |
| camera catalogue, `cctv.rs` | `cctv_sources` rows | check, import, retire, pick, refresh | operators, the scheduler thread, workers |

What is hard here:

* **Processes outlive handles.** Dropping a `ProcessHandle` does not kill
  FFmpeg. Every path that replaces a supervisor, gives a start up, or dies must
  leave no second sender on a stream key.
* **Threads that write shared counters.** The stdout reader of a killed process
  can still update the counters by which the next process is judged.
* **Checks and actions apart.** The cloud manager looks into its map, then reads
  files, talks to YouTube and launches FFmpeg, then fills the map, with no lock
  across. Uploads, logins, checkouts, camera checks and token refreshes all look
  first and write later.
* **Several writes that belong together.** A payment is recorded and then
  applied; a file is written, then its signature, then the pointer; a broadcast
  on YouTube is made in five calls.
* **Crash at any point.** Between a spawn and the save of the session file,
  between a stored intent and the process it is about, during recovery.
* **Answers that come late.** A command the caller gave up on is carried out; a
  notification arrives after a cancellation; a rotated token is lost.
* **Nothing happens.** A subscription ends because a date passes; a hung FFmpeg
  never exits; a held-back broadcast waits for room. Some periodic pass has to
  notice.
* **Midnight and the week.** Windows that cross midnight, adjacent windows,
  schedules edited while their window runs, an API day that begins elsewhere.

`PROJECT.json` lists each hazard at its line, with the properties about it.

## Modules

| module | what it is | code |
|---|---|---|
| `Scheduler` | the scheduling rules as operators; a day has `DayLen` units, day 0 is a Monday | `scheduler/mod.rs` |
| `ScheduleClock` | a clock, a table of schedules that is edited, a loop that follows `evaluate` | the same, and the loop in `runtime.rs` |
| `StreamMachine` | the transition table and its methods, as operators on a record | `streaming/state.rs` |
| `BroadcastRuntime` | the engine: runtime, supervisor, reader threads, FFmpeg, session file, user, clock, crash, launch | `runtime.rs`, `supervisor.rs`, `session/mod.rs`, `lib.rs` |
| `SenderLifecycle` | the abstract specification: what an observer of the stream key may see | |
| `DesktopLibrary` | media rows, the background worker, the cache, clearing it, the plan of a broadcast | `commands/media.rs`, `commands/system.rs`, `cache.rs`, `engine.rs` |
| `DesktopChannel` | the broadcast a start provisions, the threads that take it live and end it, the tick that drives them | `youtube_service.rs`, `provision.rs`, `lib.rs` |
| `ChatBot` | the bot's thread, its rotation, attaching and letting go | `bot.rs`, `chat.rs` |
| `QuotaLedger` | the ledger of API units across calls, midnight and crashes | `quota.rs` |
| `CloudWorkers` | request threads, scheduler thread, worker threads, rows, processes, boot, crash, shutdown | `manager.rs`, `entitlement.rs`, `api.rs` |
| `CloudSchedule` | the stored schedule of a broadcast and the pass of the scheduler thread over it | `schedule.rs`, `manager.rs` |
| `Runner` | API and owner processes: lease, socket backlog, commands given up on | `runner.rs`, `lease.rs`, `main.rs` |
| `Billing` | payment records against a provider that refuses, repeats and reorders | `billing.rs`, `db.rs` |
| `Grants` | the plans operators hand out, and operators who edit them at once | `grants.rs` |
| `Accounts` | sessions, switching off, the throttle | `auth.rs`, `admin.rs`, `throttle.rs` |
| `Catalogue` | what opening the database does to the plans, by two processes at once | `db.rs` |
| `Entitlements` | composes the four: the plan in force, and the gate in front of a start | `entitlement.rs`, `manager.rs` |
| `Preparation` | pure: probe, plan, arguments, and the file FFmpeg makes of them | `probe.rs`, `normalize.rs`, `ffmpeg.rs`, `config.rs` |
| `Ingest` | rows, object store, trash and preparation threads, playlist edits, starts, deletion, audit | `ingest.rs`, `storage.rs`, `media_audit.rs` |
| `Uploads` | quota and floor under uploads that stream at once | `api.rs`, `ingest.rs`, `state.rs` |
| `CloudYoutube` | a broadcast and its half on YouTube: provisioning, start, stop, watch, audit | `youtube.rs`, `api.rs`, `manager.rs`, `audit.rs` |
| `YoutubeAccounts` | a channel's sealed tokens: consent, refresh, disconnect, audit | `youtube.rs`, `credentials.rs` |
| `Cctv` | the camera catalogue and a broadcast that shows a camera | `cctv.rs`, `admin.rs`, `manager.rs` |
| `SchedulerProofs`, `RuntimeProofs`, `DesktopProofs`, `EntitlementsProofs`, `CloudWorkersProofs`, `RunnerProofs`, `ServicesProofs`, `MediaProofs` | theorems | |
| `MCRuntime`, `MCOnAir`, `MCDesktop`, `MCCloud`, `MCRunner`, `MCEntitlements`, `MCMedia`, `MCServices` | constants and compositions for TLC | |

`BroadcastRuntime` extends `Scheduler` and `StreamMachine`, as the runtime owns
a scheduler and a supervisor. `CloudWorkers` reduces the engine of a worker to
one process and what a tick makes of its death, which is what `SenderLifecycle`
promises of the engine (one sender or none). `Entitlements` composes `Billing`,
`Grants`, `Accounts` and `Catalogue`: they meet in `subscription` and in
`require_active_subscription`.

Parts that touch different state, such as the tokens of a channel and the
catalogue of cameras, are checked in one run, but not at once: a variable that
never changes (`about`, or `theme` in `Entitlements`) says which part, or which
actors, a behaviour is about. Their state spaces add up instead of multiplying,
and no interleaving is lost, as nothing one part does is seen by the other.
Where parts do interact (a grant and a cancelled payment, a preparation and a
start, a tick and a finish thread) they are in one module or in one theme.

**BroadcastRuntime.** The desktop keeps the runtime behind one mutex, so a
method is one atomic action. The variable `rt` is the runtime's record with the
process table and the session file in it; a method is an operator from such a
record to the next, composed in the order in which the code calls (`tick` is
`tick_supervisor`, then `tick_scheduler`, then `persist`). The actions choose
the inputs: which step of a start fails (`Outcome`), whether a timer is due,
which process identifier the system gives. Concurrent with the methods are
FFmpeg (`PushBytes`, `Exit`, `Hang`), the reader threads (`ProgressLine`, then
`StampEpoch`, the two stores of one line; `ReaderEof`), the clock, schedule
edits, `Crash`, `CrashBeforeSave` (the application dies between the spawn and
the save), `Quit`, `Launch`. `MCOnAir` puts beside it what the desktop does for
the same broadcast on YouTube.

**DesktopLibrary, DesktopChannel, ChatBot, QuotaLedger.** Around the runtime the
desktop has threads that do not take its mutex. The library's worker drains a
queue and clears its flag in two steps while an add queues and looks at the flag
in two others. A clear empties the cache and then writes the rows, and either
half may stop part-way: the first with some of the files gone, the second with
some of the rows written. The tick reads the runtime (`TickReads`), and what it then does
for YouTube and the bot happens when the runtime may have moved on: a thread
looks for the broadcast to take live, another takes the session and completes
it, a bot that is let go winds down beside the next. A bot's call is two steps
(`Send`, `SendReturns`): it may be told to stop meanwhile, and the message may be
in the chat although the answer was lost. Every call is charged to
the ledger before it is made and stored (`try_spend`, then `Reaches`).

**CloudWorkers.** A call is a thread inside `start`, `stop_with`, `restart` or
the delete handler, and has a program counter; each action is what the thread
does between two points at which another thread can get in. A start is
`Subscription`, `Claim`, `SpawnCheck`, `Clean`, `Launch`, `Save`, `Insert`, with
`Undo` when a step after the claim fails; the process is there from `Launch` on,
its session file and the thread that ticks it from `Save` on; a stop is `Release`, `Halt`, `Join`,
`Record`, `After`; a restart is a stop without `Release` and `After` followed by
a start; a delete is a stop followed by `Delete`. A worker alternates
`WorkerCheck` (stop flag and stored intent), `WorkerTick`, which may relaunch
FFmpeg, and `WorkerSave`, which writes the session file; one that ends the
broadcast itself goes through `WorkerTell`; every worker ends in `WorkerRemove`,
which removes the entry of its broadcast whichever worker it names. The
scheduler thread makes calls: any start or stop (`Scheduled`), the restarts of
`refresh_cctv_urls`, and the two passes `ResumeHeldBack` and `ExpireLapsed`,
each of which reads its list once and then works through it (`PassStep`).
`Boot` and `Recover` are `recover_all`; nothing else runs then, so its
`spawn_worker` is one step, but for `RecoverDies`, the death of the server
between its launch and its save.

**Runner, CloudSchedule.** The two ends of the manager that `CloudWorkers` takes
as given. In `Runner` an API thread records the intent, sends its command and
gives up after its timeout, while the command stays in the backlog of a process
that serves one connection at a time; the lease decides which process that is.
In `CloudSchedule` the pass reads the row, marks the occurrence and starts or
stops, three steps between which the user may start, stop or edit and the server
may die.

**Billing, Grants, Accounts, Catalogue.** A checkout reads, registers with
PayApp and stores; a notification is recorded in one transaction and applied in
another; an extension reads a grant and writes the row that supersedes it, and
any number of operators may be between the two; a login checks the account and writes its session; opening the database seeds,
raises and marks in separate statements. Each of those points is an action, and
the process may die between them.

**Ingest, Uploads, Preparation.** `Preparation` says what a file is and what
becomes of it. `Ingest` takes three kinds of source from it and follows the
rows, files and threads; the operator may at any time remove what the audit calls
safe, which is judged by rows, manifest and open files and by nothing that is in
flight. `Uploads` follows the bytes; a look at the disk may find that the volume
cannot be read, and lets the bytes by.

**CloudYoutube, YoutubeAccounts, Cctv.** Calls to Google are single steps that
may fail, and so is every write that the next step waits for: the destination,
the sealed key, the row, its pointer. Something may happen on YouTube by itself,
and the owner may move the broadcast to another destination and back, which
leaves its half on YouTube what it was. A refresh holds the token it read while
others connect, disconnect or refresh; Google may have rotated it in an answer
that was lost, and the seal of the new one may fail. A camera check holds its
address while an import rewrites the row.

History variables, for the properties only. None of them is set by the mechanism
a property is to judge; each is commented where it is declared.

| variable | module | what it remembers |
|---|---|---|
| `seen` | `BroadcastRuntime` | the window the user stopped out of, the window the loop serves, whether a session is open, whether a tick has looked, processes whose run died before they had a name |
| `raced`, `dark` | `CloudWorkers` | broadcasts on which two operations overlapped, or whose launch a death cut off from its session file; broadcasts refused by recovery or by the second half of a restart |
| `orphaned`, `unasked`, `doubled` | `Billing` | registrations whose number never came, cancellations that asked nobody, overlapping checkouts |
| `late`, `allowed` | `Accounts` | logins under way when the account was switched off; what the throttle let through |
| `kept` | `Catalogue` | the figure an operator set once the migration was on record |
| `fate` | `DesktopLibrary` | a wake-up missed, a clear that met the worker or a start, entries a clear took without coming to their rows |
| `past` | `DesktopChannel` | calls that failed and sessions that were lost |
| `heard`, `told`, `again`, `after` | `ChatBot` (fields of a bot) | what the chat heard last, whether the bot knows, what came twice, what came after it was let go |
| `past` | `Ingest` | shapes that could not be read, retries turned away, starts that met an edit, files removed while a preparation or a start had them in hand |
| `sources`, `blind` | `Uploads` | what was uploaded and kept; a look at the disk that got no answer |
| `seen` | `CloudYoutube` | an undo that failed, a renewal torn between key and row, a move by the owner |
| `lost` | `YoutubeAccounts` | accounts whose last token was lost |
| `past` | `Cctv` | rows rewritten under a check |
| `attempts`, `playing` | `CloudSchedule` | starts of each occurrence, and which one is playing |
| `halted`, `alone` | `Runner` | whether a HALT was answered, and whether no start crossed it |

## Runs

Every property has a mutant: a change to one definition, of the kind a slip in
that code would make, under which the run must fail (`PROJECT.json`, `mut_*`).

| run | what it shows |
|---|---|
| `desktop` | The parts around the desktop's engine. `ScheduleAnswersAreExact`: the day-by-day code agrees with definitions that only know starts and lengths; `WindowRunsToItsEnd`. `ReadyHasFile`, `QueuedIsTakenUnlessMissed`: a ready row has its file, and what is queued is prepared. `ChannelIsKept`: one broadcast per window, the session is the one on air, nothing stays live. `ChatIsOneVoice`. `LedgerCoversGoogle`: the ledger never says less than Google counted |
| `runtime` | `TypeOK`; `EngineIsWhole`: engine, process and sleep inhibition agree after every operation; `OffAirOutsideWindows`; `SenderIsKnown`: every live FFmpeg is known to the supervisor and to `session.json`; `StartsAreWanted`: a window the user stopped is not started again unless something else was started in between, only a crash is resumed; `ImplementsLifecycle`: the engine refines `SenderLifecycle` |
| `runtime_served` | `WindowServed`; `EngineKeepsMoving`: reconnects end, closed windows stop, a hung FFmpeg is replaced (liveness) |
| `cloud_recovery` | `OneSenderUnlessRaced`, `WantedHasWorkerUnlessRaced`, `YoutubeEndsLast`: with failing starts, dying processes, crashes, shutdowns and deletes, but operations on one broadcast one at a time |
| `cloud_overlap` | `LeavesTheAir` (liveness): operations on one broadcast overlap in every way, and what is stopped or no longer paid for still goes off the air |
| `cloud_served` | `HeldIsResumed` (liveness) |
| `runner` | `OneOwner`: one process owns workers; `EndedAfterHalt`: a HALT that was answered precedes the end on YouTube; `StrayWorkerEnds`: a command carried out after its caller gave up leaves no worker for good. `OccurrencesAreServedOnce`, `WindowEnds`: no occurrence is missed or served twice, and one with an end comes off the air |
| `subscriptions` | `PlansArePaidFor`, `ChargesAreAccountedFor`: what the account has and what PayApp charges agree, or the audit says so; `OnlyWithdrawalUncovers`: an edit of a grant opens no gap; `SignInIsGuarded`: no session outlives the account, no burst passes the throttle; `OperatorsFigureStands`: opening the database does not undo an operator's limit |
| `media` | `RowIsSound`: a row's file is there and is what the row says; `OnAirIsSound`: what is on air can be joined and read to its end; `PreparationSettles` (liveness); `FloorAndQuotaHold`: by how much concurrent uploads may exceed the limits, and no more; `PreparationIsSound`: whatever the source, the result needs no further preparation and fits the room set aside |
| `services` | `ChannelIsWhole`: nothing half made is left on the channel, what is sent arrives where the row says; `StatusCatchesUp` (liveness); `TokenSurvivesRotation`: the sealed token is one Google honours; `OfferedWasOpened`; `FreshAddressReachesAir` (liveness): an expired camera address is replaced on the air |
| `says_respawn_is_retried`, `says_one_sender_per_key` | one statement of a comment each, which the code does not keep: see below |

The three cloud runs divide the question. Without overlap, safety holds:
one sender per key, and no start is lost. With overlap it does not
(`says_one_sender_per_key`), but the stored intent, which every worker reads
once per loop, still brings everything that is stopped or no longer paid for off
the air, also a worker that the map has lost.

Several properties name what they leave out (`unless ...` in the comment over
them), with a history variable that records that it happened. These are not
exceptions made for the model: each is an interleaving in which the code really
does break the statement, found by TLC and listed under
[disagreements](#where-code-and-comments-disagree).

## Bounds

| bound | value | why it is enough |
|---|---|---|
| `DayLen`, `DAY` | 4 | a start, an end before it, and instants between: a window that crosses midnight, one that does not, adjacent ones |
| clock of `ScheduleClock` | 9 days, 2 schedules out of every window on four masks | all weekdays and the wrap from Sunday to Monday; two windows overlap in every way, and `evaluate` compares pairs |
| clock of the engine | one crossing of midnight, two windows that overlap, the earlier of which can be switched on while the other is open | the engine keeps nothing across windows but the suppressed and the failed one |
| process identifiers | 2 (1 for liveness) | a process and its successor or its orphan; no property relates three |
| crash of the engine | none while an orphan of an earlier crash is alive (`Crash`) | two orphans add nothing to one, the session file names one |
| cloud broadcasts, requests, workers | 2, 1, 2, or 1, 1, 2; 1, 2, 2 in `says_one_sender_per_key` | two cameras compete for one encoder; two callers on one broadcast are a request and the scheduler thread; when `Workers` is used up a launch fails (`CannotSpawn`), as it may anyway |
| `MaxRestarts` | 0 | giving up after the first exit; the limit itself is compared in `gives_up` |
| `MaxBoots` (cloud) | 2 (1 for liveness) | one crash and one recovery; the held-back mark needs two boots |
| `World` | per run | which disturbances a run lets happen; together the runs cover all of them |
| `Runner` | 2 clients of 2 calls, 2 owners of different roles, 2 boots each | a command given up on and one that overtakes it; an owner that takes over from one that died, in either order |
| `CloudSchedule` | 9 instants, 5 rows, 1 death | two occurrences of a daily schedule with the catch-up of a quarter of a day between; with an end, without one, longer than a day, once, switched off |
| `Billing` | 2 plans, 2 records, 2 charges, 2 requests, 2 other notices | a change of plan, two checkouts at once, a renewal after the first charge, a late notice after a cancellation |
| `Grants` | 3 rows, 2 plans, 2 days | the row that is edited, the row that supersedes it, and another operator's; before, in and after a term |
| `Accounts` | 2 sessions; 2 callers, a window of 3, 2 attempts, a table of 1 | a session of before and a login under way; a caller evicted from the table by another |
| `Catalogue` | 2 processes, 2 keys (one of storage), 2 openings each | both open at once, and both again after an operator's edit |
| `DesktopLibrary` | 2 files, 2 profiles, 1 disturbance | a batch with one item done and one to do; the profile changed between queueing and encoding; one cancel, clear or crash anywhere |
| `DesktopChannel` | 1 window, 2 broadcasts, 1 trouble | a broadcast and the one a retry would add, or one the user made; one failure anywhere |
| `ChatBot` | 2 bots, the list of two texts | the bot attached and the one on its way out; with two texts every pick after a failure can repeat one |
| `QuotaLedger` | 2 callers, 4 calls, 2 days, 103 units above the reserve | two writes (50) and small calls that just fit; a call in flight over midnight |
| `Ingest` | 2 media (a converted one and a direct one), 2 threads, 2 runs, 1 edit, 1 crash | two shapes make a playlist mixed; a retry meets the first run; the re-preparation is the second run |
| `Uploads` | 2 requests and 1 preparation on 11 chunks, floor 4, 2 per file, 2 per account | two requests fill the quota together and the disk together |
| `Preparation` | every combination of 5 sizes, 5 rates, 3 keyframe spacings, 4 sounds, 2 containers, known rate or not; each other way to be unfit alone | inside and outside both profiles in every dimension that `plan_for` compares |
| `CloudYoutube` | 3 broadcasts, 2 streams, 1 event on YouTube's side, a fast phase of 1 poll | the broadcast created, one made by a renewal, one left by a failure; the slow phase is reached |
| `YoutubeAccounts` | 2 threads, 2 rows, 3 tokens | two refreshes at once, and a reconnection between |
| `Cctv` | 2 rows of 1 camera, 4 addresses (one a page), 1 save by the owner | an import that replaces, a duplicate, an address that expired twice |

Deadlock checking is off in the runs of the server's side: a server that is down
and out of boots has stopped, and so has a world that has used up its payments,
uploads or tokens. In `desktop`, `runtime` and `runtime_served` it is on.

## Fairness

`BroadcastRuntime!Fairness`: the tick loop runs once a second (`lib.rs`), so a
tick that has something to do happens, with the timers due and a launch that
succeeds, infinitely often unless there is nothing for it to do. This is the
condition under which one can ask for progress at all: if FFmpeg can never be
launched, no window is served. Reader threads finish the line they are on
(`StampEpoch`) and see the end of the pipe of a dead process (`ReaderEof`);
thirty seconds of silence pass (`Quiet`). Nothing is assumed of the user, of
FFmpeg or of the schedule editor. The first condition is weak fairness with its
ENABLED written out, because TLC is slow on ENABLED of a composed operator.

`CloudWorkers!FairSpec`: every request thread and worker thread that can take a
step takes it: HTTP calls have timeouts, the joins wait for threads that
themselves run. The scheduler's loop comes round every half minute and calls all
its passes, hence strong fairness of `ResumeHeldBack` and `ExpireLapsed`, whose
guards hold again and again rather than without interruption. `PassStep` never
waits in the code; where a model keeps operations on one broadcast apart, strong
fairness gives the pass its turn. No fairness for requests, exits, subscriptions,
boots. The liveness runs leave out failures of the world that may repeat for
ever (`"fail"`) and crashes.

`Runner!RunnerFairness`: an owner that is up serves its backlog, and a worker
reads the stored intent once per loop and ends when told to. None for clients,
boots or deaths.
`MCRunner!ScheduleFairness`: the scheduler's loop goes on (`PassNext`), and the
service manager restarts the server (`ServerBoots`).

`Ingest!IngestFairness`: a preparation thread takes its next step; a conversion
has a timeout. None for users, for deletions, for starts.

`CloudYoutube!YoutubeFairness`: strong fairness of a poll that succeeds: a worker
polls for as long as it sends, and not every poll fails. A thread that is
connected to nothing is assumed nothing of.

`Cctv`: the scheduler reads its list again and again, resolving an address
succeeds now and then (strong fairness, the guard comes and goes with the
check of the row), and a restart that began finishes.

`DesktopLibrary!LibraryFairness`: the worker thread runs, and a spawned thread
starts.

## Proofs

Checked by TLAPS for every value of the constants that satisfies the named
assumptions. Steps are split until each leaf is found in a small part of the
time the provers allow, so that a slower machine checks the same proofs.

`SchedulerProofs` (`DayLenAssumption`): `evaluate` names an open window whenever
it asks for a broadcast (`BroadcastsOpenWindows`), and keeps the running window
as long as it is open (`RunningWindowIsKept`). The lemmas below them say that
occurrences are well formed and that the choice of the earliest window is a
choice from the open ones.

`RuntimeProofs` (`RuntimeAssumption`: process identifiers of any number, any
table of valid schedules, any length of the run): the invariant is

    IInv == TypeOK /\ Sound(rt) /\ NoLeak(rt, seen.orphans)
            /\ FileNamesChild(rt) /\ (~up => rt.child = NoPid)

That no sender leaks is not inductive by itself: that replacing a supervisor
drops no live handle needs to know that an inactive engine has no child. `Sound`
says so: there is a child exactly in Connecting and Live; no operation ends in
Preparing or Stopping; an active engine has a plan, no latched stop and, unless
it is a test, the sleep inhibition; a pending restart means there is no child.
The proof follows the code: one lemma per method about the fields the invariant
speaks of, methods that call others from those lemmas, then one step per action.
From `IInv` follow `TypeCorrect`, `EngineStaysWhole` and `SenderStaysKnown`, each
a property of the run `runtime`, with `HoldsChildOnlyOnAir` and `NeverStranded`;
the step simulation gives `RefinesLifecycle`.

What the engine does by itself takes more than that it is whole. `PurposeInv` adds
`Owned` (a broadcast nobody started by hand has a window; while a session stands
no other window is suppressed; nothing is suppressed on the air) and `StopIsKept`
(the window the user stopped out of is the suppressed one until it ends or
something is started; nothing is remembered across a death). `Owned` is what ties
the halves of a tick together: a respawn cannot bring back the stopped window,
because an active engine suppresses nothing, and an evaluation that finds neither
a window nor a running occurrence has no broadcast of the scheduler's before it.
From it follow `OffAirStaysOutsideWindows` and `StartsStayWanted`, the second an
action property with one step per action.

`DesktopProofs` has what surrounds the runtime, one part after the other.

* Schedules (`DayLenAssumption`, `ClockAssumption`: a day of any length, any table
  that can be saved, a walk of any length): `ScheduleAnswersStayExact` and
  `WindowIsRunToItsEnd`. An instant is a day and a time of day in one way, and a
  window is at most a day long; so of the two starts that
  `active_occurrence` looks at one at most is open, and walking back instant
  by instant finds the same. That the fifteen days `next_occurrence` searches
  hold the very next start needs that a schedule has a weekday and that each
  comes round within a week. `Served` is the inductive part: what is on the air is
  an open window of some schedule, and something is when one covers the instant.
* Library (`LibraryAssumption`: any files, any profiles): `ReadyKeepsItsFile`.
  `FilesStand` says what "ready" rests on at each step of the worker and of a
  clear: between the two halves of a clear rows still claim files that are gone,
  and nobody may be at work or on the air then; a worker that has encoded has its
  file in place until it has recorded it. It is claimed only while no clear has
  met the worker, a start or the end of the program (`fate.raced`).
* Channel (`ChannelAssumption`: any windows, any number of broadcasts and
  troubles): `ChannelStaysKept`. A preparation about to insert has seen that the
  window has no broadcast (`ShowIsSound`), which is what keeps the next one from
  being a second; the session knows whether its broadcast starts by itself
  (`SessionIsSound`); and what is live and does not stop by itself is the
  session's, is being ended, or was left (`LiveIsKnown`), of which
  `NothingLeftLive` is the case where the threads have run.
* Chat (`ListsAreTexts`: any texts, any lists, any number of bots):
  `ChatStaysOneVoice`. That no text is posted twice running is a statement about
  what was posted; it holds because of where the cursor stands. The invariant says
  of every bot that its cursor points into its list and that, in a list of
  different texts, what it posted last and what it posted before differ; and of all
  bots that at most one is not on its way out.
* Quota (`QuotaAssumption`: any finite set of callers, any allowance):
  `LedgerStaysAhead`. What Google has counted today, with the units of every call
  charged today and still on its way (`Owed`), is in the ledger in memory and in
  the one on disk (`Covers`); it holds of both because a charge is stored before
  the call is made, so that a crash falls back to a count that covers as much.

A sum over the callers, or over the uploads below, is written as the number of
points of a finite set, one for each unit. A sum would be a recursion, about
which nothing could be proved by induction; a cardinality grows and shrinks by
the library's theorems on finite sets.

`CloudWorkersProofs` (`CloudAssumption`: any number of users, broadcasts,
workers and requests, any limits; there is a broadcast, and the scheduler thread
is not a request). The invariant is

    IInv == CloudTypeOK /\ ServerIsSound
            /\ \A b \in Broadcasts \ raced : BroadcastIsSound(b)

`ServerIsSound` holds whatever overlaps: what names a worker (entry, pid file,
call) names one of its own broadcast, a worker past its loop has no process,
every call is at a step of its operation, boot and shutdown leave the map as
they should. `BroadcastIsSound(b)` is why a broadcast without overlap is safe:
it has one call at most (`OneCall`), one sender at most and no orphan beside a
worker (`Alone`), its sender is in the pid file (`OnFile`), its entry names the
worker that serves it (`EntryServes`), a call that waits for a worker waits for
that one (`CallStands`), and worker, entry and stored intent agree (`Held`,
`LoopIsWanted`, `EndIsMeant`, `IsServed`). One sender alone is far from
inductive: that `clean` kills an orphan needs the pid file to name it, which
needs every launch to have written it. Each step is about one broadcast; the
frame lemmas dispose of the others. From it follow `OneSender`,
`WantedHasWorker`, `TellsYoutubeLast`, three properties of `cloud_recovery`, and
three statements no run lists. `SendersAreOnFile` is a part of the invariant.
`HandoverHasAGap`: outside recovery, which kills the orphan and starts the worker
in one step of the model, the key of a broadcast never passes from one process to
another in a step, because a process that begins to publish belongs either to a
call that has found no sender (`CallStands`) or to the one worker (`Alone`).
`LeavingIsShown`: a broadcast that loses its worker while the server stays up is
not left shown as running; it needs an invariant of its own, `EndIsShown`, that a
worker past its loop has written so and nobody has overwritten it since. Last,
`SlotsAreWithinLimits` needs no more than the types and holds whatever overlaps:
slots are taken by a claim alone, which counts and writes in one transaction.

`RunnerProofs` (`RunnerAssumption`, `ScheduleAssumption`: any number of request
threads, processes, calls and boots; any rows, any day of `4k` units).
`OneProcessOwnsWorkers` follows from what the lease gives (`Leased`: a process
that lives holds it, a dead one has no worker and an empty backlog).
`HaltIsKept`, that YouTube is told after an answered HALT only when no worker is
left, is about commands that outlive their callers: no backlog holds a command
of a call yet to be made (`NoneFromLater`), a call has sent no HALT before the
step that sends it (`HaltNotYetSent`), `halted` and `alone` say what happened
(`HistoryIsRight`), and while no start has crossed a stop every START still in a backlog is ahead of
its HALT, so that none is left, and no worker, once that is answered
(`StopIsKept`). `ScheduleIsServed`: what the pass has acted on is
past (`ActedOnIsPast`) and a mark is newer than all of it (`MarkIsNew`); the
rest is arithmetic about the latest occurrence at or before an instant.

`ServicesProofs` (`TokensAssumption`, `CctvAssumption`). *Tokens:* a token is
stored in one row and held by one thread (`SealedApart`, `HeldIsFresh`), was
minted (`OnlyMinted`), a refresh works on its own row (`RefreshesItsOwn`), and
then a connected channel has a token Google honours, unless the state names what
lost it (`ChannelKeepsItsToken`). *Cameras:* while nothing was raced a check is
about the address in the row it will write (`CheckIsCurrent`, `FoundIsCurrent`),
so what is offered was opened (`OffersWhatWasOpened`). *YouTube:* `YoutubeInv`
says what is made at each step of a provisioning, a start and a renewal
(`RowIsWhole`, `RequestIsSound`, `RowIsServed`, `HalvesMatch`,
`KeyIsTheStreams`, `BroadcastIsReady`); `ChannelStaysWhole` follows.

`MediaProofs` (`IngestAssumption`: any finite set of media, any sources, any
number of threads, runs, edits and deaths). `RowsStaySound` and `OnAirStaysSound` rest on
`IngestInv`: a row points at a file of its own media, which is there and is what
the row says (`EntryIsSound`), one thread of a media is past the claim
(`ClaimsAreSound`), it holds a file of that media while the row is not ready, and
tells the row before it points at it (`JobIsSound`), an upload stays for as long
as its row (`UploadsAreKept`), a deletion unlinks only files of a row that is gone
(`DeletionIsSound`), and a start that has read its rows holds what they said
(`StartIsSound`). `PreparedIsSound` needs no induction, only arithmetic: `plan_for`
decides three things (copy or encode the picture, the sound, the
container), and in each combination the file FFmpeg makes fits the profile and
the room set aside. Its `InfoAssumption` takes any size, rate, length and bit
rate; that a source whose frames are further apart than the measured window also
has keyframes further apart than it is not a restriction of the code but a fact
about video.
*Uploads* (`UploadsAssumption`: any finite set of requests, any limits, a floor
that the empty volume has): `FloorAndQuotaStand`. Two sums are what keeps them:
the free room and what the requests have written since each last looked make up
the floor, and the account and what each request has been allowed to add exceed
the ceiling by one file a request at most, less one (`UploadInv`). A look at the
disk gives back what its request had written unwatched exactly when the room is
there.

`EntitlementsProofs` (`BillingAssumption`, `GrantsAssumption`,
`AccountsAssumption`, `CatalogueAssumption`: any number of plans, rows, records,
charges, callers, processes, keys and requests, any themes). All theorems but the first
two are about the composition, `EntitlementsSpec`, which the run checks; a frame
lemma for each part says that the steps of the others leave it alone.

* Grants: `EditsLeaveNoGap`. The invariant is the type of the rows and of the
  edits under way (`GrantsTypeCorrect`); the step is the interesting part: the row
  that supersedes another covers every instant from now on that the other covered
  (`ReplacementCovers`), whatever a second operator did to the row after it was
  read, as every written row that stands is kept (`Kept`). `GrantsAreKeptApart`
  carries it over to the composition.
* Catalogue: `FigureOutlivesRestarts`. A figure on record is the row's, nobody is
  about to raise the limits, and whoever will write the row back has read that
  figure (`FigureStands`).
* Sign-in: `SignInStaysGuarded`. What the throttle keeps of a caller is a tail of
  what it let through, and all before that tail has left the window (`IsTail`); so
  `MAX_ATTEMPTS` kept hits are a bound on any span of `WINDOW`.
* Billing: `PlansStayPaidFor`, `ChargesStayAccountedFor`. The invariant ties four
  views of a payment together: the status of a record says what it has of a number
  and of PayApp (`RecordIsSound`), the ledger's payments activated records with a
  number (`LedgerIsSound`), a request past a record has it to itself, and a
  cancellation has asked or had nothing to ask with (`RequestIsSound`), and at
  most one record is to be charged, none while a checkout is about to open one
  (`OneLiable`). The last needs the history variable `doubled`: it is what two
  overlapping checkouts break.

Proof attempts corrected the model in places where the small instances had not
shown it. `ConfirmedMeansWatched` holds only while no renewal has been torn
(`seen.torn`), of which TLC had seen no case within its bounds. A canonical
file's rate is within a hundredth of the profile's rather than equal to it,
because `plan_for` lets a copied picture keep its own. `UserStopHolds` was stated
of any window the user had stopped; with windows that overlap, which no run had,
the loop's own start of another window forgets the stop. `NoFigure` had been a
number an operator might have typed. `retain` in the throttle drops a prefix,
because hits are in the order of the clock, which is how the model says it now;
the code reads the clock just before it takes the lock, the model with it.

Every safety property of the passing runs is stated by a theorem. Only
model-checked is liveness: `QueuedIsTakenUnlessMissed`, `WindowServed`,
`EngineKeepsMoving`, `LeavesTheAir`, `HeldIsResumed`, `StrayWorkerEnds`,
`WindowEnds`, `PreparationSettles`, `StatusCatchesUp`, `FreshAddressReachesAir`.
Liveness under fairness, ENABLED and induction over data are beyond the prover.
So are the two statements below that the code does not keep.

## Where code and comments disagree

Two runs check one statement each, and TLC answers with a behaviour of the code
that breaks it.

| statement | what happens |
|---|---|
| `RespawnIsRetried`, runtime.rs:888 | a relaunch that fails is scheduled again; the machine is in Error by then, the restart is refused and dropped |
| `OneSenderPerKey`, manager.rs:1140 | two overlapping starts launch two processes |

The others below are stated as definitions in the modules and can be put into a
configuration of one's own; no run keeps them.

*Engine.* `LiveMeansPushed` (supervisor.rs:467): the progress counters survive a
relaunch, so a new process is live before it has sent anything. Also: `stop`
returns before it releases the sleep inhibition when the machine is in Error
(runtime.rs:832); a crash between spawn and save leaves a process the next launch
does not know (runtime.rs:774, `CrashBeforeSave`). `StopLastsToWindowEnd` (runtime.rs:308): a
window stopped by hand is to stay off until it ends, but any start clears the
suppression (runtime.rs:728): when an overlapping window that opened earlier is
switched on, is started and ends or fails, the loop starts the stopped one again.
A broadcast whose own window
has ended goes on when another one is open (runtime.rs:944).

*Cloud manager.* `HeldMeansParked` (entitlement.rs:228): recovery starts a
broadcast that is still marked as held back, and the counts of plan and encoder
skip it. `ShownRunningHasWorker` (manager.rs:529): three refusals of recovery
leave the row shown as running, and so does a crash in the middle of a stop, when
a tick has reported after the intent was written: nothing at boot looks at a row
that is not meant to run. Also: a refused recovery leaves the orphan of a
crash publishing, since only `spawn_worker` cleans it up; a restart whose start
is refused stays meant to run with no worker (`dark`); a start that fails after
its claim leaves STOPPING in the row; encodes exceed the budget while a released
worker is still winding down, and when a camera that recovery was refused is
started by hand, because it has kept its slot (`SlotsAreWithinLimits` is about
slots, not about processes); `MAX_RESTARTS` is documented as failures in a row
and compared with a cumulative count (manager.rs:1322). `StopsOnlyItsOwn`
(schedule.rs): the end of a window is reckoned from the mark of the last start
and the row of today, so after an edit it also stops what the user has put on
the air by hand.

*Subscriptions.* `GrantKeepsBroadcast` (manager.rs:732; with the theme
`MCGranted`): cancelling a paid plan stops the broadcast although a grant is in
force (billing.rs:487).

*Media.* `RetryIsSafe`: a re-preparation that meets the claim of a run which has just
finished returns at once, and the row it has set to Preparing stays so.
`MixedPlaylistConverges`: the check after an edit sees only the items that have
a shape by then; when the last one becomes ready later, the playlist stays mixed
and nothing is left to do. `CanonicalIsInterchangeable` (normalize.rs): a
canonical preparation that copies the picture keeps the decoder configuration of
its source. `LongGapIsEncoded`
(probe.rs): a gap outside the measured minute is not seen.
`SweepTakesOnlyAbandoned` (state.rs:159-165): a process that starts sweeps the
`.part` files of uploads that are under way in another one.

*Cloud YouTube.* `StatusIsAnAnswer` (db.rs:2470): a stop writes complete also
when its call to end the broadcast has failed and YouTube shows it live. `ReconnectingHelps` (youtube.rs, what
`refresh_access_token` tells the customer): connecting again after a
disconnection makes a new row, and the broadcast keeps naming the old one.

*Cameras.* `HandTypedIsKept` (models.rs:651): a refresh that had read the row
writes its address over one typed since. `SnapshotIsOnAir` (cctv.rs:962): the
form saves another address under a running worker, and a refresh writes its
address before the restart, which may fail. The comment at
cctv.rs:747-760 says that an import clears a check only when the address changes;
`import_one` always clears it. A check whose address `validate` refuses returns
before `record_cctv_check`, so that an earlier passing check stays.

*Desktop library.* `QueuedIsTaken` (commands/media.rs): what is queued between
the worker's last look and its clearing of the flag waits for the next add.
`ManifestIsUniform` (ffmpeg.rs:1550): after a change of the profile a plan joins
a file prepared before with one prepared after.

*Desktop YouTube and chat.* A ledger within the reserve of its cap makes
provisioning fail, and the start with it, where the comment in `prepare_inner`
says that this is no reason to take a channel off the air. `RESERVE_UNITS` is
documented as room for a start and an end to complete; `can_afford` never spends
it. The thread that takes a broadcast live marks whatever session is current, and
a late finish can take the session of a later start (`past.late`). A stop and a
start between two ticks replace the session, so that the earlier broadcast is
never finished (`past.left`) and a running bot stays on it. In bot.rs:239 the
"same message again" is the next one, since `pick` has moved the cursor, and the
branch for a blip of authentication is never taken; a bot that ended on a fatal
error is started again by the next tick (chat.rs:276); a random order over a list
that holds a text twice may repeat it. quota.rs:231-234 says that a wrong
midnight spends less rather than more: in summer, between 07:00 and 08:00 UTC,
it spends more. `note_exhausted` rolls the day over first, so a refusal of
yesterday that arrives today closes today.

## Abstractions

*Engine.* Backoff delays are flags (seconds, against a clock of hours);
`restart_count` is a boolean; ages of stamps are none, fresh, stale (the stall
timeout). Left out: database session rows, error texts and the classification of
stderr, `started_at`, order seeds, publication of status, the contents of a
playlist. `plan`, `session_id` and `session_state` are set and cleared together
and are one flag.

*Cloud manager.* The process that owns the workers; its client half is `Runner`,
what a schedule asks for is `CloudSchedule`, what a camera's address does is
`Cctv`: here all three are arbitrary calls. The first of the two subscription
checks of `start` is dropped: the second repeats it. Adjacent statements of one
thread that no other thread can tell apart are one action. STARTING, RUNNING and
RECONNECTING are one state. The pause before a resume is retried is left out. A
worker is identified with its FFmpeg process.

*Around it.* Identifiers, addresses, tokens and keys are numbers or model
values; a file is its key and its shape; a probe is the record it fills. Money is
a set of charges, no amounts. Dates are days or instants of one clock. A call to
Google or PayApp is one step that succeeds, fails, or succeeds unanswered.
Encryption is the identity of who may open it. Statuses that no modelled
condition tells apart are one (the header of each module names them). PayApp,
Google, FFmpeg's encoder, the file system and SQLite's transactions are external
and modelled by how the code uses them.

## Not modelled, and the plan

Not modelled because it has no protocol of its own: the text of arguments and
manifests, logging, secrets, metrics, listings and counts, the user interfaces,
registration and password hashing, S3 as an object store (the local one is).
`PROJECT.json` says, component by component, which operations are left.

What the project could take on next:

1. `Runner` composed with `CloudWorkers`: here each is checked with the other
   reduced to what it promises.
2. The order of a playlist: shuffle, rotation, the position in a cycle after a
   restart; playlists edited while they are on the air.
3. Registration and password reset; uploads to S3 in parts.
