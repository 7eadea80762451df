----------------------------- MODULE MediaProofs -----------------------------
(***************************************************************************)
(* For any number of media, threads, conversions, edits and deaths of the  *)
(* server: a row's file is there and is what the row says, and what is on  *)
(* air can be read to its end and joined without a seam.  For any number   *)
(* of uploads at once: the disk's floor and the account's ceiling stand,   *)
(* but for what the requests in flight may still write and add.            *)
(***************************************************************************)
EXTENDS Ingest, Preparation, Uploads, FiniteSetTheorems, TLAPS

----------------------------------------------------------------------------
(* Uploaded media on the server. *)

Kinds == {"direct", "native", "odd"}
MediaStates == {"Uploaded", "Analysing", "Preparing", "Ready", "Failed", "deleted"}

\* A key that was handed out: an upload's own, or that of a conversion begun.
HandedOut(k) == k \in Media \X Nat /\ k[2] <= past.runs[k[1]]

\* What a file can be: made to the profile, or of its source's own shape.
FileShape == {Canonical} \cup [mode : Kinds, sig : STRING]

\* The signatures there are: those of the sources, the profile's, and none yet.
Signatures == STRING \cup {"profile", Null}

MediaRow == [state : MediaStates, ptr : (Media \X Nat) \cup {NoKey},
             mode : Kinds \cup {"canonical", Null}, sig : Signatures, target : {"auto", "canonical"}]

MediaJob ==
    [pc : {"idle", "claim", "slot", "analyse", "failed"}]
    \cup [pc : {"direct", "convert"}, prep : FileShape]
    \cup [pc : {"sign", "retire", "point"}, key : Media \X Nat]
    \cup [pc : {"release", "give"}, ok : BOOLEAN]

PastType == past \in [bounced : SUBSET Media, unread : SUBSET Media, raced : BOOLEAN,
                      pulled : BOOLEAN, taken : SUBSET (Media \X Nat), runs : [Media -> Nat]]
DiskType == /\ disk = [k \in DOMAIN disk |-> disk[k]]
            /\ \A k \in DOMAIN disk : HandedOut(k) /\ disk[k] \in FileShape
JobType == job \in [Media -> [Threads -> MediaJob]]
RowsType == mrow \in [Media -> MediaRow]

IngestTypeOK ==
    /\ source \in [Media -> [kind : Kinds, sig : STRING]]
    /\ RowsType /\ JobType /\ DiskType /\ PastType
    /\ in_flight \subseteq Media /\ playlist \subseteq Media

\* A job that has the claim of its media, and one that is making its file.
Claims(m, t) == job[m][t].pc \in {"slot", "analyse", "direct", "convert", "sign", "retire",
                                  "point", "release"}
Working(m, t) == job[m][t].pc \in {"direct", "convert", "sign", "retire", "point"}

\* One job of a media at a time is past the claim.
ClaimsAreSound ==
    \A m \in Media, t \in Threads : Claims(m, t) =>
        m \in in_flight /\ \A u \in Threads : Claims(m, u) => u = t

\* An upload stays as it is for as long as its row.
UploadsAreKept ==
    \A m \in Media : Exists(m) => Stored(SourceKey(m)) /\ disk[SourceKey(m)] = Native(m)

\* What the row says of a file is what the file is.
Tells(m, k) == disk[k] = [mode |-> mrow[m].mode, sig |-> mrow[m].sig]

\* A job knows what it makes, holds a file of its own media that is there unless
\* the operator took it, and the row, which is not ready meanwhile, is told of the
\* file before it is.
JobIsSound(m, t) ==
    LET j == job[m][t] IN
    /\ j.pc \in {"direct", "convert"} => j.prep \in {Canonical, Native(m)}
    /\ j.pc = "direct" => j.prep = Native(m)
    /\ j.pc \in {"sign", "retire", "point"} =>
          /\ j.key[1] = m /\ HandedOut(j.key)
          /\ Exists(m) /\ j.key \notin past.taken => Stored(j.key)
    /\ Working(m, t) => mrow[m].state # "Ready"
    /\ /\ j.pc \in {"retire", "point"} /\ Exists(m)
       /\ m \notin past.unread /\ j.key \notin past.taken
       => Tells(m, j.key)

\* A row points at a file of its own media, which is there and is what the row
\* says unless the operator took it before.
EntryIsSound(m) ==
    /\ mrow[m].ptr # NoKey => mrow[m].ptr[1] = m /\ HandedOut(mrow[m].ptr)
    /\ Exists(m) /\ mrow[m].ptr # NoKey /\ mrow[m].ptr \notin past.taken => Stored(mrow[m].ptr)
    /\ mrow[m].state = "Ready" => mrow[m].ptr # NoKey
    /\ mrow[m].state = "Ready" /\ m \notin past.unread /\ mrow[m].ptr \notin past.taken =>
          Tells(m, mrow[m].ptr)

\* A file the operator took does not come back under its key.
TakenIsGone == \A k \in past.taken : HandedOut(k) /\ ~Stored(k)

\* What a deletion is about to unlink is of a media whose row is gone.
DeletionIsSound ==
    deleting # NoDelete =>
        /\ deleting.m \in Media /\ ~Exists(deleting.m)
        /\ \A k \in deleting.keys : k \in Media \X Nat /\ k[1] = deleting.m

\* What a start has checked, and what it has read.
StartIsSound ==
    /\ start.pc \in {"off", "checked", "read", "on"}
    /\ start.pc = "checked" => Joinable(start.saw)
    /\ start.pc \in {"off", "checked"} => start.keys = {} /\ ~past.pulled
    /\ start.pc \in {"read", "on"} =>
          /\ start = [pc |-> start.pc, keys |-> start.keys]
          /\ \A k \in start.keys : HandedOut(k)
          /\ ~past.pulled => \A k \in start.keys : Stored(k)
          /\ ~past.raced /\ past.unread = {} =>
                \A k, l \in start.keys : Stored(k) /\ Stored(l) => disk[k].sig = disk[l].sig

IngestInv ==
    /\ IngestTypeOK /\ ClaimsAreSound /\ UploadsAreKept
    /\ \A m \in Media : EntryIsSound(m) /\ \A t \in Threads : JobIsSound(m, t)
    /\ DeletionIsSound /\ StartIsSound /\ TakenIsGone

----------------------------------------------------------------------------
(* What a step of a job leaves alone. *)

OtherJobs(m, t) == \A n \in Media, u \in Threads : n # m \/ u # t => job'[n][u] = job[n][u]
OtherRows(m) == \A n \in Media \ {m} : mrow'[n] = mrow[n]

\* No file is touched, and a new one has a key that nobody was given before.
FilesStay ==
    /\ \A k \in DOMAIN disk : k \in DOMAIN disk' /\ disk'[k] = disk[k]
    /\ \A k \in DOMAIN disk' : HandedOut(k) => k \in DOMAIN disk

\* What happened is remembered.
Remembered ==
    /\ \A m \in Media : past'.runs[m] >= past.runs[m]
    /\ past.unread \subseteq past'.unread
    /\ past'.raced = past.raced /\ past'.pulled = past.pulled /\ past'.taken = past.taken

\* A key that was handed out stays so.
LEMMA KeysStay ==
    ASSUME PastType, PastType', Remembered, NEW k, HandedOut(k)
    PROVE  HandedOut(k)'
<1>1. k \in Media \X Nat /\ k[1] \in Media /\ k[2] \in Nat
  BY DEF HandedOut
<1>2. past.runs[k[1]] \in Nat /\ past'.runs[k[1]] \in Nat /\ past'.runs[k[1]] >= past.runs[k[1]]
  BY <1>1 DEF PastType, Remembered
<1>3. QED BY <1>1, <1>2 DEF HandedOut

\* A job is given its next step, and no other is.
LEMMA JobPut ==
    ASSUME JobType, NEW m \in Media, NEW t \in Threads, NEW j \in MediaJob, JobTo(m, t, j)
    PROVE  JobType' /\ job'[m][t] = j /\ OtherJobs(m, t)
BY DEF JobType, JobTo, OtherJobs

\* A row is written, if it is there.
LEMMA RowPut ==
    ASSUME RowsType, NEW m \in Media, NEW r \in MediaRow, Update(m, r)
    PROVE  /\ RowsType' /\ OtherRows(m)
           /\ Exists(m) => mrow'[m] = r
           /\ ~Exists(m) => mrow'[m] = mrow[m]
BY DEF RowsType, Update, OtherRows

\* The rule for every step of a job: what is left to show is about its own
\* media and about the claims.
LEMMA JobRule ==
    ASSUME IngestInv, NEW m \in Media, NEW t \in Threads,
           RowsType', JobType', DiskType', PastType', in_flight' \subseteq Media,
           UNCHANGED <<source, playlist, start, deleting>>,
           OtherJobs(m, t), OtherRows(m), FilesStay, Remembered,
           mrow'[m].state = "deleted" <=> mrow[m].state = "deleted",
           \A u \in Threads \ {t} : Working(m, u) =>
               /\ mrow'[m].state # "Ready"
               /\ mrow'[m].mode = mrow[m].mode /\ mrow'[m].sig = mrow[m].sig,
           ClaimsAreSound', EntryIsSound(m)', JobIsSound(m, t)'
    PROVE  IngestInv'
<1>1. IngestTypeOK /\ PastType /\ DiskType
  BY DEF IngestInv, IngestTypeOK
<1>2. IngestTypeOK'
  BY <1>1 DEF IngestTypeOK
<1>3. \A n \in Media : Exists(n) <=> Exists(n)'
  BY DEF Exists, OtherRows
<1>4. ASSUME NEW k, HandedOut(k)
      PROVE  HandedOut(k)' /\ (Stored(k) <=> Stored(k)') /\ (Stored(k) => disk'[k] = disk[k])
  BY <1>1, <1>4, KeysStay DEF FilesStay, Stored
<1>5. \A k : Stored(k) => Stored(k)' /\ disk'[k] = disk[k]
  BY DEF FilesStay, Stored
<1>6. UploadsAreKept'
  BY <1>3, <1>5 DEF IngestInv, UploadsAreKept, Native, SourceKey
<1>7. ASSUME NEW n \in Media \ {m} PROVE EntryIsSound(n)'
  <2>1. EntryIsSound(n) /\ mrow'[n] = mrow[n] /\ (Exists(n) <=> Exists(n)')
    BY <1>3 DEF IngestInv, OtherRows
  <2>2. mrow[n].state = "Ready" => Exists(n)
    BY DEF Exists
  <2>3. past.unread \subseteq past'.unread /\ past'.taken = past.taken
    BY DEF Remembered
  <2>4. QED BY <1>4, <1>5, <2>1, <2>2, <2>3 DEF EntryIsSound, Tells
<1>8. ASSUME NEW n \in Media, NEW u \in Threads, n # m \/ u # t PROVE JobIsSound(n, u)'
  <2>1. JobIsSound(n, u) /\ job'[n][u] = job[n][u] /\ (Exists(n) <=> Exists(n)')
    BY <1>3, <1>8 DEF IngestInv, OtherJobs
  <2>2. Working(n, u) => /\ mrow'[n].state # "Ready"
                         /\ mrow'[n].mode = mrow[n].mode /\ mrow'[n].sig = mrow[n].sig
    BY <1>8, <2>1 DEF OtherRows, JobIsSound
  <2>3. past.unread \subseteq past'.unread /\ past'.taken = past.taken
    BY DEF Remembered
  <2>4. Working(n, u)' => Working(n, u)
    BY <2>1 DEF Working
  <2>5. /\ job'[n][u].pc \in {"direct", "convert"} => job'[n][u].prep \in {Canonical, Native(n)'}
        /\ job'[n][u].pc = "direct" => job'[n][u].prep = Native(n)'
    BY <2>1 DEF JobIsSound, Native
  <2>6. job'[n][u].pc \in {"sign", "retire", "point"} =>
          /\ job'[n][u].key[1] = n /\ HandedOut(job[n][u].key)'
          /\ Exists(n)' /\ job[n][u].key \notin past'.taken => Stored(job[n][u].key)'
    BY <1>4, <2>1, <2>3 DEF JobIsSound
  <2>7. /\ job'[n][u].pc \in {"retire", "point"} /\ Exists(n)'
        /\ n \notin past'.unread /\ job[n][u].key \notin past'.taken
        =>
          /\ disk'[job[n][u].key] = disk[job[n][u].key] /\ Tells(n, job[n][u].key)
          /\ Working(n, u)
    BY <1>4, <1>5, <2>1, <2>3 DEF JobIsSound, Working
  <2>8. QED BY <2>1, <2>2, <2>4, <2>5, <2>6, <2>7 DEF JobIsSound, Tells, HandedOut, Stored
<1>9. DeletionIsSound'
  BY <1>3 DEF IngestInv, DeletionIsSound
<1>10. StartIsSound'
  <2>1. StartIsSound /\ UNCHANGED start /\ past.unread \subseteq past'.unread
        /\ past'.raced = past.raced /\ past'.pulled = past.pulled
    BY DEF IngestInv, Remembered
  <2>2. /\ start.pc \in {"off", "checked", "read", "on"}
        /\ start.pc = "checked" => Joinable(start.saw)
        /\ start.pc \in {"off", "checked"} => start.keys = {} /\ ~past.pulled
    BY <2>1 DEF StartIsSound
  <2>3. CASE start.pc \in {"read", "on"}
    BY <1>4, <2>1, <2>2, <2>3 DEF StartIsSound
  <2>4. CASE start.pc \notin {"read", "on"}
    BY <2>1, <2>2, <2>4 DEF StartIsSound, Joinable
  <2>5. QED BY <2>3, <2>4
<1>11. TakenIsGone'
  <2>1. TakenIsGone /\ past'.taken = past.taken
    BY DEF IngestInv, Remembered
  <2>2. QED BY <1>4, <2>1 DEF TakenIsGone
<1>12. QED BY <1>2, <1>6, <1>7, <1>8, <1>9, <1>10, <1>11 DEF IngestInv

----------------------------------------------------------------------------
(* The steps of a job. *)

\* What every step of a job may take as given.
LEMMA JobFacts ==
    ASSUME IngestInv, NEW m \in Media, NEW t \in Threads
    PROVE  /\ RowsType /\ JobType /\ DiskType /\ PastType /\ in_flight \subseteq Media
           /\ mrow[m] \in MediaRow /\ job[m][t] \in MediaJob
           /\ source[m] \in [kind : Kinds, sig : STRING]
           /\ EntryIsSound(m) /\ JobIsSound(m, t) /\ ClaimsAreSound
BY DEF IngestInv, IngestTypeOK, RowsType, JobType

\* A step that leaves the rows, the files and what happened alone.
LEMMA QuietJob ==
    ASSUME IngestInv, NEW m \in Media, NEW t \in Threads, NEW j \in MediaJob, JobTo(m, t, j),
           UNCHANGED <<source, playlist, start, deleting, mrow, disk>>,
           past' = past \/ \E b \in SUBSET Media : past' = [past EXCEPT !.bounced = b],
           in_flight' \subseteq Media, ClaimsAreSound',
           \/ j.pc \notin {"direct", "convert", "sign", "retire", "point"}
           \/ job[m][t].pc = "retire" /\ j = [pc |-> "point", key |-> job[m][t].key]
           \/ job[m][t].pc = "direct" /\ j = [pc |-> "convert", prep |-> job[m][t].prep]
    PROVE  IngestInv'
<1>1. /\ RowsType /\ JobType /\ DiskType /\ PastType /\ EntryIsSound(m) /\ JobIsSound(m, t)
  BY JobFacts
<1>2. JobType' /\ job'[m][t] = j /\ OtherJobs(m, t)
  BY <1>1, JobPut
<1>3. /\ PastType' /\ past'.runs = past.runs /\ past'.unread = past.unread
      /\ past'.raced = past.raced /\ past'.pulled = past.pulled /\ past'.taken = past.taken
  BY <1>1 DEF PastType
<1>4. Remembered
  <2>1. \A n \in Media : past.runs[n] \in Nat
    BY <1>1 DEF PastType
  <2>2. QED BY <1>3, <2>1 DEF Remembered
<1>5. RowsType' /\ DiskType' /\ OtherRows(m) /\ FilesStay
  BY <1>1, <1>3 DEF RowsType, DiskType, HandedOut, OtherRows, FilesStay
<1>6. EntryIsSound(m)'
  BY <1>1, <1>3 DEF EntryIsSound, HandedOut, Exists, Stored, Tells
<1>7. JobIsSound(m, t)'
  <2>1. CASE j.pc \notin {"direct", "convert", "sign", "retire", "point"}
    BY <1>2, <2>1 DEF JobIsSound, Working
  <2>2. CASE job[m][t].pc = "retire" /\ j = [pc |-> "point", key |-> job[m][t].key]
    BY <1>1, <1>2, <1>3, <2>2 DEF JobIsSound, Working, HandedOut, Exists, Stored, Tells
  <2>3. CASE job[m][t].pc = "direct" /\ j = [pc |-> "convert", prep |-> job[m][t].prep]
    <3>1. /\ job'[m][t].pc = "convert" /\ job'[m][t].prep = Native(m)
          /\ Native(m)' = Native(m) /\ mrow'[m].state # "Ready"
      BY <1>1, <1>2, <2>3 DEF JobIsSound, Working, Native
    <3>2. QED BY <3>1 DEF JobIsSound
  <2>4. QED BY <2>1, <2>2, <2>3
<1>8. \A u \in Threads \ {t} : Working(m, u) => mrow'[m].state # "Ready"
  BY DEF IngestInv, JobIsSound
<1>9. QED BY <1>2, <1>3, <1>4, <1>5, <1>6, <1>7, <1>8, JobRule

\* The claims, when a job keeps what it has.
LEMMA ClaimKept ==
    ASSUME ClaimsAreSound, NEW m \in Media, NEW t \in Threads, OtherJobs(m, t),
           UNCHANGED in_flight, Claims(m, t)' => Claims(m, t)
    PROVE  ClaimsAreSound'
BY DEF ClaimsAreSound, Claims, OtherJobs

\* The claim is taken, or the job is over at once.
LEMMA TakeClaimStep ==
    ASSUME IngestInv, NEW m \in Media, NEW t \in Threads, TakeClaim(m, t)
    PROVE  IngestInv'
<1>1. /\ JobType /\ PastType /\ ClaimsAreSound /\ in_flight \subseteq Media
  BY JobFacts
<1>2. UNCHANGED <<source, playlist, start, deleting, mrow, disk>>
  BY DEF TakeClaim, others
<1>3. CASE m \in in_flight
  <2>1. /\ JobTo(m, t, Idle) /\ Idle \in MediaJob /\ Idle.pc = "idle" /\ UNCHANGED in_flight
        /\ past' = [past EXCEPT !.bounced = past.bounced \cup {m}]
        /\ past.bounced \cup {m} \in SUBSET Media
    BY <1>1, <1>3 DEF TakeClaim, Idle, MediaJob, PastType
  <2>2. job'[m][t] = Idle /\ OtherJobs(m, t)
    BY <1>1, <2>1, JobPut
  <2>3. ClaimsAreSound'
    BY <1>1, <2>1, <2>2, ClaimKept DEF Claims
  <2>4. QED BY <1>1, <1>2, <2>1, <2>3, QuietJob
<1>4. CASE m \notin in_flight
  <2> DEFINE j == [pc |-> "slot"]
  <2>1. JobTo(m, t, j) /\ j \in MediaJob /\ in_flight' = in_flight \cup {m} /\ UNCHANGED past
    BY <1>4 DEF TakeClaim, MediaJob
  <2>2. job'[m][t] = j /\ OtherJobs(m, t)
    BY <1>1, <2>1, JobPut
  <2>3. \A u \in Threads : ~Claims(m, u)
    BY <1>1, <1>4 DEF ClaimsAreSound
  <2>4. ClaimsAreSound'
    BY <1>1, <2>1, <2>2, <2>3 DEF ClaimsAreSound, Claims, OtherJobs
  <2>5. j.pc = "slot"
    OBVIOUS
  <2> HIDE DEF j
  <2>6. QED BY <1>1, <1>2, <2>1, <2>4, <2>5, QuietJob
<1>5. QED BY <1>3, <1>4

\* A slot is taken, the replaced file is written off, the claim goes, then the slot.
LEMMA PassingStep ==
    ASSUME IngestInv, NEW m \in Media, NEW t \in Threads,
           \/ TakeSlot(m, t) \/ retire_replaced_prepared(m, t)
           \/ DropClaim(m, t) \/ DropSlot(m, t)
    PROVE  IngestInv'
<1>1. /\ JobType /\ PastType /\ ClaimsAreSound /\ in_flight \subseteq Media
      /\ job[m][t] \in MediaJob
  BY JobFacts
<1>2. UNCHANGED <<source, playlist, start, deleting, mrow, disk, past>>
  BY DEF TakeSlot, retire_replaced_prepared, DropClaim, DropSlot, others
<1>3. CASE TakeSlot(m, t)
  <2> DEFINE j == [job[m][t] EXCEPT !.pc = "analyse"]
  <2>1. JobTo(m, t, j) /\ job[m][t].pc = "slot" /\ UNCHANGED in_flight
    BY <1>3 DEF TakeSlot, JobStep, JobAt
  <2>2. j \in MediaJob /\ j.pc = "analyse"
    BY <1>1, <2>1 DEF MediaJob
  <2> HIDE DEF j
  <2>3. job'[m][t] = j /\ OtherJobs(m, t)
    BY <1>1, <2>1, <2>2, JobPut
  <2>4. ClaimsAreSound'
    BY <1>1, <2>1, <2>2, <2>3, ClaimKept DEF Claims
  <2>5. QED BY <1>1, <1>2, <2>1, <2>2, <2>4, QuietJob
<1>4. CASE retire_replaced_prepared(m, t)
  <2> DEFINE j == [job[m][t] EXCEPT !.pc = "point"]
  <2>1. JobTo(m, t, j) /\ job[m][t].pc = "retire" /\ UNCHANGED in_flight
    BY <1>4 DEF retire_replaced_prepared, JobStep, JobAt
  <2>2. j \in MediaJob /\ j.pc = "point" /\ j = [pc |-> "point", key |-> job[m][t].key]
    BY <1>1, <2>1 DEF MediaJob
  <2> HIDE DEF j
  <2>3. job'[m][t] = j /\ OtherJobs(m, t)
    BY <1>1, <2>1, <2>2, JobPut
  <2>4. ClaimsAreSound'
    BY <1>1, <2>1, <2>2, <2>3, ClaimKept DEF Claims
  <2>5. QED BY <1>1, <1>2, <2>1, <2>2, <2>4, QuietJob
<1>5. CASE DropClaim(m, t)
  <2> DEFINE j == [job[m][t] EXCEPT !.pc = "give"]
  <2>1. JobTo(m, t, j) /\ job[m][t].pc = "release" /\ in_flight' = in_flight \ {m}
    BY <1>5 DEF DropClaim, JobStep, JobAt
  <2>2. j \in MediaJob /\ j.pc = "give"
    BY <1>1, <2>1 DEF MediaJob
  <2> HIDE DEF j
  <2>3. job'[m][t] = j /\ OtherJobs(m, t)
    BY <1>1, <2>1, <2>2, JobPut
  <2>4. ClaimsAreSound'
    BY <1>1, <2>1, <2>2, <2>3 DEF ClaimsAreSound, Claims, OtherJobs
  <2>5. QED BY <1>1, <1>2, <2>1, <2>2, <2>4, QuietJob
<1>6. CASE DropSlot(m, t)
  <2> DEFINE j == IF job[m][t].ok THEN Idle ELSE [pc |-> "failed"]
  <2>1. JobTo(m, t, j) /\ job[m][t].pc = "give" /\ UNCHANGED in_flight
    BY <1>6 DEF DropSlot, JobAt
  <2>2. j \in MediaJob /\ j.pc \in {"idle", "failed"}
    BY DEF MediaJob, Idle
  <2> HIDE DEF j
  <2>3. job'[m][t] = j /\ OtherJobs(m, t)
    BY <1>1, <2>1, <2>2, JobPut
  <2>4. ClaimsAreSound'
    BY <1>1, <2>1, <2>2, <2>3, ClaimKept DEF Claims
  <2>5. QED BY <1>1, <1>2, <2>1, <2>2, <2>4, QuietJob
<1>7. QED BY <1>3, <1>4, <1>5, <1>6

\* What is known of a file's shape.
LEMMA Shapes ==
    ASSUME NEW f \in FileShape
    PROVE  /\ f = [mode |-> f.mode, sig |-> f.sig]
           /\ f.mode \in Kinds \cup {"canonical"} /\ f.sig \in Signatures
           /\ f.mode = "canonical" => f.sig = "profile"
<1>1. CASE f = Canonical
  <2>1. f.mode = "canonical" /\ f.sig = "profile" /\ f = [mode |-> f.mode, sig |-> f.sig]
    BY <1>1 DEF Canonical
  <2>2. "profile" \in Signatures
    BY DEF Signatures
  <2>3. QED BY <2>1, <2>2
<1>2. CASE f \in [mode : Kinds, sig : STRING]
  <2>1. f.mode \in Kinds /\ f.sig \in STRING /\ f = [mode |-> f.mode, sig |-> f.sig]
    BY <1>2
  <2>2. "canonical" \notin Kinds
    BY DEF Kinds
  <2>3. QED BY <2>1, <2>2 DEF Signatures
<1>3. QED BY <1>1, <1>2 DEF FileShape

\* A step that writes the row of its media, and no file.
LEMMA RowJob ==
    ASSUME IngestInv, NEW m \in Media, NEW t \in Threads, NEW j \in MediaJob, JobTo(m, t, j),
           NEW r \in MediaRow, Update(m, r), r.state # "deleted",
           UNCHANGED <<source, playlist, start, deleting, disk, in_flight>>,
           past' = past \/ past' = [past EXCEPT !.unread = past.unread \cup {m}],
           Claims(m, t)' => Claims(m, t),
           ~Claims(m, t) => r.state # "Ready" /\ r.mode = mrow[m].mode /\ r.sig = mrow[m].sig,
           EntryIsSound(m)', JobIsSound(m, t)'
    PROVE  IngestInv'
<1>1. /\ RowsType /\ JobType /\ DiskType /\ PastType /\ in_flight \subseteq Media
      /\ ClaimsAreSound
  BY JobFacts
<1>2. JobType' /\ OtherJobs(m, t)
  BY <1>1, JobPut
<1>3. /\ RowsType' /\ OtherRows(m)
      /\ Exists(m) => mrow'[m] = r
      /\ ~Exists(m) => mrow'[m] = mrow[m]
  BY <1>1, RowPut
<1>4. /\ PastType' /\ past'.runs = past.runs /\ past.unread \subseteq past'.unread
      /\ past'.raced = past.raced /\ past'.pulled = past.pulled /\ past'.taken = past.taken
  <2>1. past.unread \cup {m} \in SUBSET Media
    BY <1>1 DEF PastType
  <2>2. QED BY <1>1, <2>1 DEF PastType
<1>5. Remembered
  <2>1. \A n \in Media : past.runs[n] \in Nat
    BY <1>1 DEF PastType
  <2>2. QED BY <1>4, <2>1 DEF Remembered
<1>6. DiskType' /\ FilesStay
  BY <1>1, <1>4 DEF DiskType, HandedOut, FilesStay
<1>7. ClaimsAreSound'
  BY <1>1, <1>2, ClaimKept
<1>8. mrow'[m].state = "deleted" <=> mrow[m].state = "deleted"
  BY <1>3 DEF Exists
<1>9. ASSUME NEW u \in Threads \ {t}, Working(m, u)
      PROVE  /\ mrow'[m].state # "Ready"
             /\ mrow'[m].mode = mrow[m].mode /\ mrow'[m].sig = mrow[m].sig
  <2>1. Claims(m, u) /\ JobIsSound(m, u)
    BY <1>9 DEF Working, Claims, IngestInv
  <2>2. ~Claims(m, t)
    BY <1>1, <2>1 DEF ClaimsAreSound
  <2>3. mrow[m].state # "Ready"
    BY <1>9, <2>1 DEF JobIsSound
  <2>4. QED BY <1>3, <2>2, <2>3
<1>10. QED BY <1>1, <1>2, <1>3, <1>4, <1>5, <1>6, <1>7, <1>8, <1>9, JobRule

\* A media is analysed, or cannot be.
LEMMA AnalyseStep ==
    ASSUME IngestInv, NEW m \in Media, NEW t \in Threads, Analyse(m, t)
    PROVE  IngestInv'
<1>1. /\ RowsType /\ JobType /\ mrow[m] \in MediaRow /\ source[m] \in [kind : Kinds, sig : STRING]
      /\ EntryIsSound(m)
  BY JobFacts
<1>2. /\ UNCHANGED <<source, playlist, start, deleting, disk, in_flight, past>>
      /\ Claims(m, t)
  BY DEF Analyse, others, JobAt, Claims
<1>3. CASE Fails(m, t) /\ SetState(m, "Analysing")
  <2> DEFINE j == [pc |-> "release", ok |-> FALSE]
             r == [mrow[m] EXCEPT !.state = "Analysing"]
  <2>1. /\ j \in MediaJob /\ j.pc = "release" /\ r \in MediaRow /\ r.state = "Analysing"
        /\ r.ptr = mrow[m].ptr
    BY <1>1 DEF MediaJob, MediaRow, MediaStates
  <2>2. JobTo(m, t, j) /\ Update(m, r)
    BY <1>3 DEF Fails, SetState
  <2> HIDE DEF j, r
  <2>3. job'[m][t] = j
    BY <1>1, <2>1, <2>2, JobPut
  <2>4. JobIsSound(m, t)'
    BY <2>1, <2>3 DEF JobIsSound, Working
  <2>5. mrow'[m] = mrow[m] \/ mrow'[m] = r
    BY <1>1, <2>1, <2>2, RowPut
  <2>6. EntryIsSound(m)'
    BY <1>1, <1>2, <2>1, <2>2, <2>5, RowPut DEF EntryIsSound, HandedOut, Exists, Stored, Tells
  <2>7. QED BY <1>2, <2>1, <2>2, <2>4, <2>6, RowJob
<1>4. CASE /\ Exists(m) /\ Stored(SourceKey(m))
           /\ LET prep == Planned(m, mrow[m].target = "canonical")
              IN  JobTo(m, t, [pc |-> IF prep.mode = "direct" THEN "direct" ELSE "convert",
                               prep |-> prep])
           /\ SetState(m, "Preparing")
  <2> DEFINE p == Planned(m, mrow[m].target = "canonical")
             pc == IF p.mode = "direct" THEN "direct" ELSE "convert"
             j == [pc |-> pc, prep |-> p]
             r == [mrow[m] EXCEPT !.state = "Preparing"]
  <2>1. p \in {Canonical, Native(m)} /\ (p.mode = "direct" => p = Native(m))
    BY DEF Planned, Canonical
  <2>2. p \in FileShape /\ pc \in {"direct", "convert"} /\ (pc = "direct" => p = Native(m))
    BY <1>1, <2>1 DEF FileShape, Native
  <2>3. JobTo(m, t, j) /\ Update(m, r)
    BY <1>4 DEF SetState
  <2> HIDE DEF p, pc
  <2>4. /\ j \in MediaJob /\ j.pc = pc /\ j.prep = p /\ r \in MediaRow /\ r.state = "Preparing"
        /\ r.ptr = mrow[m].ptr
    BY <1>1, <2>2 DEF MediaJob, MediaRow, MediaStates
  <2> HIDE DEF j, r
  <2>5. job'[m][t] = j
    BY <1>1, <2>3, <2>4, JobPut
  <2>6. mrow'[m] = r /\ Exists(m)
    BY <1>1, <1>4, <2>3, <2>4, RowPut
  <2>7. JobIsSound(m, t)'
    <3>1. Native(m)' = Native(m)
      BY <1>2 DEF Native
    <3>2. QED BY <2>1, <2>2, <2>4, <2>5, <2>6, <3>1 DEF JobIsSound
  <2>8. EntryIsSound(m)'
    BY <1>1, <1>2, <2>4, <2>6 DEF EntryIsSound, HandedOut, Exists, Stored
  <2>9. QED BY <1>2, <2>3, <2>4, <2>7, <2>8, RowJob
<1>5. QED BY <1>3, <1>4 DEF Analyse

\* The row is told of the shape of a file: the upload's own, or one that was made.
LEMMA SignedJob ==
    ASSUME IngestInv, NEW m \in Media, NEW t \in Threads, NEW k \in Media \X Nat,
           JobTo(m, t, [pc |-> "retire", key |-> k]), Working(m, t),
           HandedOut(k), k[1] = m, Exists(m) /\ k \notin past.taken => Stored(k),
           \/ /\ Stored(k) \/ ~Exists(m)
              /\ \E f \in FileShape : Sign(m, f) /\ (Exists(m) => f = disk[k])
              /\ past' = past
           \/ mrow' = mrow /\ past' = [past EXCEPT !.unread = past.unread \cup {m}],
           UNCHANGED <<source, playlist, start, deleting, disk, in_flight>>
    PROVE  IngestInv'
<1>1. /\ RowsType /\ JobType /\ DiskType /\ PastType /\ mrow[m] \in MediaRow /\ EntryIsSound(m)
      /\ JobIsSound(m, t)
  BY JobFacts
<1> DEFINE j == [pc |-> "retire", key |-> k]
<1>2. j \in MediaJob /\ j.pc = "retire" /\ j.key = k
  BY DEF MediaJob
<1>3. JobTo(m, t, j)
  OBVIOUS
<1> HIDE DEF j
<1>4. job'[m][t] = j
  BY <1>1, <1>2, <1>3, JobPut
<1>5. mrow[m].state # "Ready" /\ Claims(m, t)
  BY <1>1 DEF JobIsSound, Working, Claims
<1>6. past'.runs = past.runs /\ past'.taken = past.taken
  BY <1>1 DEF PastType
<1>7. /\ HandedOut(k)' /\ (Stored(k)' <=> Stored(k))
      /\ (mrow[m].ptr # NoKey => mrow[m].ptr[1] = m /\ HandedOut(mrow[m].ptr)
                              /\ mrow[m].ptr \in Media \X Nat /\ mrow[m].ptr[2] <= past'.runs[mrow[m].ptr[1]])
  BY <1>1, <1>6 DEF HandedOut, Stored, EntryIsSound
<1>8. CASE mrow' = mrow /\ past' = [past EXCEPT !.unread = past.unread \cup {m}]
  <2>1. m \in past'.unread
    BY <1>1, <1>8 DEF PastType
  <2>2. JobIsSound(m, t)'
    BY <1>2, <1>4, <1>5, <1>6, <1>7, <1>8, <2>1 DEF JobIsSound, Exists
  <2>3. EntryIsSound(m)'
    BY <1>1, <1>5, <1>6, <1>7, <1>8 DEF EntryIsSound, Exists, Stored, HandedOut
  <2>4. Update(m, mrow[m])
    BY <1>1, <1>8 DEF Update, RowsType
  <2>5. mrow[m].state # "deleted" \/ ~Exists(m)
    BY DEF Exists
  <2>6. CASE Exists(m)
    BY <1>1, <1>2, <1>3, <1>5, <1>8, <2>2, <2>3, <2>4, <2>5, <2>6, RowJob
  <2>7. CASE ~Exists(m)
    <3> DEFINE r == [mrow[m] EXCEPT !.state = "Failed"]
    <3>1. r \in MediaRow /\ r.state = "Failed"
      BY <1>1 DEF MediaRow, MediaStates
    <3>2. Update(m, r)
      BY <1>8, <2>7 DEF Update
    <3> HIDE DEF r
    <3>3. QED BY <1>2, <1>3, <1>5, <1>8, <2>2, <2>3, <3>1, <3>2, RowJob
  <2>8. QED BY <2>6, <2>7
<1>9. CASE \E f \in FileShape : Sign(m, f) /\ (Exists(m) => f = disk[k]) /\ past' = past
  <2>1. PICK f \in FileShape : Sign(m, f) /\ (Exists(m) => f = disk[k]) /\ past' = past
    BY <1>9
  <2> DEFINE n == [mrow[m] EXCEPT !.mode = f.mode, !.sig = f.sig]
             r == IF Exists(m) THEN n ELSE [mrow[m] EXCEPT !.state = "Failed"]
  <2>2. f.mode \in Kinds \cup {"canonical", Null} /\ f.sig \in Signatures
        /\ f = [mode |-> f.mode, sig |-> f.sig]
    BY Shapes
  <2>3. /\ n \in MediaRow /\ n.state = mrow[m].state /\ n.ptr = mrow[m].ptr
        /\ n.mode = f.mode /\ n.sig = f.sig
    BY <1>1, <2>2 DEF MediaRow
  <2>4. Update(m, n)
    BY <2>1 DEF Sign
  <2> HIDE DEF n
  <2>5. r \in MediaRow /\ r.state # "deleted" /\ (Exists(m) => r = n)
    <3>1. CASE Exists(m)
      BY <2>3, <3>1 DEF Exists
    <3>2. CASE ~Exists(m)
      BY <1>1, <3>2 DEF MediaRow, MediaStates
    <3>3. QED BY <3>1, <3>2
  <2> HIDE DEF r
  <2>6. Update(m, r)
    BY <2>4, <2>5 DEF Update
  <2>7. /\ Exists(m) => mrow'[m] = n
        /\ ~Exists(m) => mrow'[m] = mrow[m]
    BY <1>1, <2>3, <2>4, RowPut
  <2>8. Exists(m)' <=> Exists(m)
    BY <2>3, <2>7 DEF Exists
  <2>9. JobIsSound(m, t)'
    <3>1. Exists(m) => Tells(m, k)'
      BY <2>1, <2>2, <2>3, <2>7 DEF Tells
    <3>2. mrow'[m].state # "Ready"
      BY <1>5, <2>3, <2>7
    <3>3. QED BY <1>2, <1>4, <1>6, <1>7, <2>8, <3>1, <3>2 DEF JobIsSound, Tells
  <2>10. EntryIsSound(m)'
    <3>1. mrow'[m].ptr = mrow[m].ptr /\ mrow'[m].state # "Ready"
      BY <1>5, <2>3, <2>7
    <3>2. QED BY <1>1, <1>6, <1>7, <2>8, <3>1 DEF EntryIsSound, Stored, HandedOut
  <2>11. QED BY <1>2, <1>3, <1>5, <2>1, <2>5, <2>6, <2>9, <2>10, RowJob
<1>10. QED BY <1>8, <1>9

\* An upload that is broadcast as it is.
LEMMA DirectStep ==
    ASSUME IngestInv, NEW m \in Media, NEW t \in Threads, PrepareDirect(m, t)
    PROVE  IngestInv'
<1>1. /\ JobType /\ PastType /\ DiskType /\ job[m][t] \in MediaJob /\ JobIsSound(m, t)
      /\ ClaimsAreSound /\ in_flight \subseteq Media /\ source[m] \in [kind : Kinds, sig : STRING]
  BY JobFacts
<1>2. /\ UNCHANGED <<source, playlist, start, deleting, disk, in_flight, past>>
      /\ job[m][t].pc = "direct" /\ Working(m, t) /\ Claims(m, t)
  BY DEF PrepareDirect, others, JobAt, Working, Claims
<1>3. job[m][t].prep = Native(m) /\ Native(m) \in FileShape
  BY <1>1, <1>2 DEF JobIsSound, FileShape, Native
<1>4. CASE JobTo(m, t, [pc |-> "retire", key |-> SourceKey(m)]) /\ Sign(m, job[m][t].prep)
  <2>1. past.runs[m] \in Nat
    BY <1>1 DEF PastType
  <2>2. SourceKey(m) \in Media \X Nat /\ SourceKey(m)[1] = m /\ HandedOut(SourceKey(m))
    BY <2>1 DEF SourceKey, HandedOut
  <2>3. Exists(m) => Stored(SourceKey(m)) /\ disk[SourceKey(m)] = Native(m)
    BY DEF IngestInv, UploadsAreKept
  <2>4. QED BY <1>2, <1>3, <1>4, <2>2, <2>3, SignedJob
<1>5. CASE JobTo(m, t, [job[m][t] EXCEPT !.pc = "convert"]) /\ UNCHANGED mrow
  <2> DEFINE j == [job[m][t] EXCEPT !.pc = "convert"]
  <2>1. j \in MediaJob /\ j = [pc |-> "convert", prep |-> job[m][t].prep]
    BY <1>1, <1>2 DEF MediaJob
  <2>2. JobTo(m, t, j)
    BY <1>5
  <2> HIDE DEF j
  <2>3. job'[m][t] = j /\ OtherJobs(m, t)
    BY <1>1, <2>1, <2>2, JobPut
  <2>4. ClaimsAreSound'
    BY <1>1, <1>2, <2>1, <2>3, ClaimKept
  <2>5. QED BY <1>1, <1>2, <1>5, <2>1, <2>2, <2>4, QuietJob
<1>6. QED BY <1>4, <1>5 DEF PrepareDirect

\* A file that was made is read and the row is told.
LEMMA SignStep ==
    ASSUME IngestInv, NEW m \in Media, NEW t \in Threads, record_prepared_signature(m, t)
    PROVE  IngestInv'
<1>1. /\ DiskType /\ job[m][t] \in MediaJob /\ JobIsSound(m, t)
  BY JobFacts
<1>2. /\ UNCHANGED <<source, playlist, start, deleting, disk, in_flight>>
      /\ job[m][t].pc = "sign" /\ Working(m, t) /\ JobTo(m, t, [job[m][t] EXCEPT !.pc = "retire"])
  BY DEF record_prepared_signature, others, JobStep, JobAt, Working
<1> DEFINE k == job[m][t].key
<1>3. [job[m][t] EXCEPT !.pc = "retire"] = [pc |-> "retire", key |-> k] /\ k \in Media \X Nat
  BY <1>1, <1>2 DEF MediaJob
<1>4. k[1] = m /\ HandedOut(k) /\ (Exists(m) /\ k \notin past.taken => Stored(k))
  BY <1>1, <1>2 DEF JobIsSound
<1>5. Stored(k) => disk[k] \in FileShape
  BY <1>1 DEF DiskType, Stored
<1>6. \/ Stored(k) /\ Sign(m, disk[k]) /\ past' = past
      \/ past' = [past EXCEPT !.unread = past.unread \cup {m}] /\ mrow' = mrow
  BY DEF record_prepared_signature
<1> HIDE DEF k
<1>7. QED BY <1>2, <1>3, <1>4, <1>5, <1>6, SignedJob

\* The row points at the file and is ready.
LEMMA PointStep ==
    ASSUME IngestInv, NEW m \in Media, NEW t \in Threads, record_media_prepared(m, t)
    PROVE  IngestInv'
<1>1. /\ RowsType /\ JobType /\ mrow[m] \in MediaRow /\ job[m][t] \in MediaJob
      /\ EntryIsSound(m) /\ JobIsSound(m, t)
  BY JobFacts
<1>a. job[m][t].pc = "point" /\ job[m][t].key \in Media \X Nat
  BY <1>1 DEF record_media_prepared, JobAt, MediaJob
<1> PICK k \in Media \X Nat : k = job[m][t].key
  BY <1>a
<1> DEFINE j == [pc |-> "release", ok |-> TRUE]
           r == [mrow[m] EXCEPT !.state = "Ready", !.ptr = k]
<1>2. /\ UNCHANGED <<source, playlist, start, deleting, disk, in_flight, past>>
      /\ job[m][t].pc = "point" /\ Claims(m, t) /\ JobTo(m, t, j) /\ Update(m, r)
  BY DEF record_media_prepared, others, JobAt, Claims
<1>3. /\ k \in Media \X Nat /\ k[1] = m /\ HandedOut(k)
      /\ Exists(m) /\ k \notin past.taken => Stored(k)
      /\ Exists(m) /\ m \notin past.unread /\ k \notin past.taken => Tells(m, k)
  BY <1>1, <1>2 DEF JobIsSound, MediaJob
<1>4. k # NoKey
  BY <1>3, IngestAssumption DEF NoKey
<1>5. /\ j \in MediaJob /\ j.pc = "release" /\ r \in MediaRow /\ r.state = "Ready"
      /\ r.ptr = k /\ r.mode = mrow[m].mode /\ r.sig = mrow[m].sig
  BY <1>1, <1>3 DEF MediaJob, MediaRow, MediaStates
<1> HIDE DEF j, r
<1>6. job'[m][t] = j
  BY <1>1, <1>2, <1>5, JobPut
<1>7. JobIsSound(m, t)'
  BY <1>5, <1>6 DEF JobIsSound, Working
<1>8. EntryIsSound(m)'
  <2>1. HandedOut(k)' /\ (Stored(k)' <=> Stored(k))
    BY <1>2, <1>3 DEF HandedOut, Stored
  <2>2. CASE Exists(m)
    <3>1. mrow'[m] = r
      BY <1>1, <1>2, <1>5, <2>2, RowPut
    <3>2. QED BY <1>2, <1>3, <1>4, <1>5, <2>1, <2>2, <3>1 DEF EntryIsSound, Tells
  <2>3. CASE ~Exists(m)
    <3>1. mrow'[m] = mrow[m]
      BY <1>1, <1>2, <1>5, <2>3, RowPut
    <3>2. QED BY <1>1, <1>2, <2>3, <3>1 DEF EntryIsSound, Tells, HandedOut, Stored, Exists
  <2>4. QED BY <2>2, <2>3
<1>9. QED BY <1>2, <1>5, <1>7, <1>8, RowJob

\* A failure is recorded once the claim and the slot are gone.
LEMMA FailedStep ==
    ASSUME IngestInv, NEW m \in Media, NEW t \in Threads, record_media_failed(m, t)
    PROVE  IngestInv'
<1>1. /\ RowsType /\ JobType /\ mrow[m] \in MediaRow /\ EntryIsSound(m)
  BY JobFacts
<1> DEFINE r == [mrow[m] EXCEPT !.state = "Failed"]
<1>2. /\ UNCHANGED <<source, playlist, start, deleting, disk, in_flight, past>>
      /\ JobTo(m, t, Idle) /\ Update(m, r)
  BY DEF record_media_failed, others, SetState
<1>3. /\ Idle \in MediaJob /\ Idle.pc = "idle" /\ r \in MediaRow /\ r.state = "Failed"
      /\ r.ptr = mrow[m].ptr /\ r.mode = mrow[m].mode /\ r.sig = mrow[m].sig
  BY <1>1 DEF MediaJob, MediaRow, MediaStates, Idle
<1> HIDE DEF r
<1>4. job'[m][t] = Idle
  BY <1>1, <1>2, <1>3, JobPut
<1>5. JobIsSound(m, t)' /\ ~Claims(m, t)'
  BY <1>3, <1>4 DEF JobIsSound, Working, Claims
<1>6. (mrow'[m] = r /\ Exists(m)) \/ (mrow'[m] = mrow[m] /\ ~Exists(m))
  BY <1>1, <1>2, <1>3, RowPut
<1>7. mrow'[m].state # "Ready" /\ mrow'[m].ptr = mrow[m].ptr /\ (Exists(m)' => Exists(m))
  <2>1. CASE mrow'[m] = r /\ Exists(m)
    BY <1>3, <2>1
  <2>2. CASE mrow'[m] = mrow[m] /\ ~Exists(m)
    BY <2>2 DEF Exists
  <2>3. QED BY <1>6, <2>1, <2>2
<1>8. EntryIsSound(m)'
  BY <1>1, <1>2, <1>7 DEF EntryIsSound, HandedOut, Stored
<1>9. QED BY <1>2, <1>3, <1>5, <1>8, RowJob

\* A conversion makes a file under a key of its own, or fails.
LEMMA ConvertStep ==
    ASSUME IngestInv, NEW m \in Media, NEW t \in Threads, Convert(m, t)
    PROVE  IngestInv'
<1>1. /\ RowsType /\ JobType /\ DiskType /\ PastType /\ job[m][t] \in MediaJob
      /\ EntryIsSound(m) /\ JobIsSound(m, t) /\ ClaimsAreSound /\ in_flight \subseteq Media
  BY JobFacts
<1>2. /\ UNCHANGED <<source, playlist, start, deleting, mrow, in_flight>>
      /\ job[m][t].pc = "convert" /\ Working(m, t) /\ Claims(m, t)
  BY DEF Convert, others, JobAt, Working, Claims
<1>3. CASE Fails(m, t) /\ UNCHANGED <<disk, past>>
  <2> DEFINE j == [pc |-> "release", ok |-> FALSE]
  <2>1. j \in MediaJob /\ j.pc = "release" /\ JobTo(m, t, j)
    BY <1>3 DEF MediaJob, Fails
  <2> HIDE DEF j
  <2>2. job'[m][t] = j /\ OtherJobs(m, t)
    BY <1>1, <2>1, JobPut
  <2>3. ClaimsAreSound'
    BY <1>1, <1>2, <2>2, ClaimKept
  <2>4. QED BY <1>1, <1>2, <1>3, <2>1, <2>3, QuietJob
<1>4. ASSUME NEW result \in {job[m][t].prep, Canonical},
             Put(<<m, past.runs[m] + 1>>, result),
             JobTo(m, t, [pc |-> "sign", key |-> <<m, past.runs[m] + 1>>]),
             past' = [past EXCEPT !.runs[m] = @ + 1]
      PROVE  IngestInv'
  <2> PICK k : k = <<m, past.runs[m] + 1>>
    OBVIOUS
  <2> DEFINE j == [pc |-> "sign", key |-> k]
  <2>1. past.runs[m] \in Nat /\ past.runs[m] + 1 \in Nat /\ k \in Media \X Nat /\ k[1] = m
        /\ k[2] = past.runs[m] + 1
    BY <1>1 DEF PastType
  <2>2. ~HandedOut(k)
    BY <2>1 DEF HandedOut
  <2>3. result \in FileShape
    BY <1>1, <1>2, <1>4 DEF MediaJob, FileShape
  <2>4. j \in MediaJob /\ j.pc = "sign" /\ j.key = k
    BY <2>1 DEF MediaJob
  <2>5. JobTo(m, t, j) /\ disk' = [f \in DOMAIN disk \cup {k} |-> IF f = k THEN result ELSE disk[f]]
    BY <1>4 DEF Put
  <2>6. /\ PastType' /\ past'.unread = past.unread
        /\ past'.raced = past.raced /\ past'.pulled = past.pulled /\ past'.taken = past.taken
        /\ past'.runs = [past.runs EXCEPT ![m] = past.runs[m] + 1]
    BY <1>1, <1>4, <2>1 DEF PastType
  <2>7. past'.runs[m] = k[2] /\ k \in Media \X Nat /\ k[1] = m
    BY <1>1, <2>1, <2>6 DEF PastType
  <2>8. Remembered
    <3>1. \A n \in Media : past.runs[n] \in Nat
      BY <1>1 DEF PastType
    <3>2. past.runs \in [Media -> Nat]
      BY <1>1 DEF PastType
    <3>3. QED BY <2>1, <2>6, <3>1, <3>2 DEF Remembered
  <2>9. HandedOut(k)'
    <3>1. past'.runs[k[1]] \in Nat /\ past'.runs[k[1]] = k[2]
      BY <2>1, <2>7
    <3>2. QED BY <2>7, <3>1 DEF HandedOut
  <2> HIDE DEF j
  <2>10. DOMAIN disk' = DOMAIN disk \cup {k} /\ disk'[k] = result
         /\ \A f \in DOMAIN disk : f # k /\ disk'[f] = disk[f]
    BY <1>1, <2>2, <2>5 DEF DiskType
  <2>11. FilesStay
    BY <2>2, <2>10 DEF FilesStay
  <2>12. DiskType'
    <3>1. \A f \in DOMAIN disk : HandedOut(f)'
      BY <1>1, <2>6, <2>8, KeysStay DEF DiskType
    <3>2. disk' = [f \in DOMAIN disk' |-> disk'[f]]
      BY <2>5, <2>10
    <3>3. QED BY <1>1, <2>3, <2>9, <2>10, <3>1, <3>2 DEF DiskType
  <2>13. JobType' /\ job'[m][t] = j /\ OtherJobs(m, t)
    BY <1>1, <2>4, <2>5, JobPut
  <2>14. ClaimsAreSound'
    BY <1>1, <1>2, <2>13, ClaimKept
  <2>15. mrow[m].state # "Ready"
    BY <1>1, <1>2 DEF JobIsSound
  <2>16. JobIsSound(m, t)'
    BY <1>2, <2>4, <2>7, <2>9, <2>10, <2>13, <2>15 DEF JobIsSound, Stored
  <2>17. EntryIsSound(m)'
    <3>1. mrow[m].ptr # NoKey => HandedOut(mrow[m].ptr)
      BY <1>1 DEF EntryIsSound
    <3>2. mrow[m].ptr # NoKey => mrow[m].ptr \in Media \X Nat
                                 /\ mrow[m].ptr[2] <= past'.runs[mrow[m].ptr[1]]
      BY <1>1, <2>6, <2>8, <3>1, KeysStay DEF HandedOut
    <3>3. QED BY <1>1, <1>2, <2>6, <2>10, <2>15, <3>2 DEF EntryIsSound, HandedOut, Stored, Exists
  <2>18. RowsType' /\ OtherRows(m) /\ mrow'[m] = mrow[m]
    BY <1>1, <1>2 DEF RowsType, OtherRows
  <2>19. QED BY <1>1, <1>2, <2>6, <2>8, <2>11, <2>12, <2>13, <2>14, <2>15, <2>16, <2>17, <2>18, JobRule
<1>5. QED BY <1>3, <1>4 DEF Convert

----------------------------------------------------------------------------
(* The playlist, the start of the broadcast, deletions and deaths. *)

\* A step that touches no row, no file and no job: the start is what matters.
LEMMA NothingMoves ==
    ASSUME IngestInv, UNCHANGED <<source, mrow, disk, job, in_flight, deleting>>,
           PastType', past'.runs = past.runs, past'.unread = past.unread,
           past'.taken = past.taken,
           playlist' \subseteq Media, StartIsSound'
    PROVE  IngestInv'
<1>1. IngestTypeOK'
  BY DEF IngestInv, IngestTypeOK, RowsType, JobType, DiskType, HandedOut
<1>2. ClaimsAreSound' /\ UploadsAreKept' /\ DeletionIsSound'
  BY DEF IngestInv, ClaimsAreSound, Claims, UploadsAreKept, DeletionIsSound, Exists, Stored, Native
<1>3. \A m \in Media : EntryIsSound(m)'
  BY DEF IngestInv, EntryIsSound, HandedOut, Exists, Stored, Tells
<1>4. \A m \in Media, t \in Threads : JobIsSound(m, t)'
  BY DEF IngestInv, JobIsSound, Working, HandedOut, Exists, Stored, Tells, Native
<1>5. TakenIsGone'
  BY DEF IngestInv, TakenIsGone, HandedOut, Stored
<1>6. QED BY <1>1, <1>2, <1>3, <1>4, <1>5 DEF IngestInv

\* The start, when nothing it rests on changes.
LEMMA StartStays ==
    ASSUME StartIsSound, UNCHANGED <<start, disk, past>>
    PROVE  StartIsSound'
<1>1. CASE start.pc \in {"read", "on"}
  BY <1>1 DEF StartIsSound, HandedOut, Stored
<1>2. CASE start.pc \notin {"read", "on"}
  BY <1>2 DEF StartIsSound, Joinable
<1>3. QED BY <1>1, <1>2

\* Items of shapes that may be joined, in files that are what their rows say,
\* are of one signature.
LEMMA JoinedAreAlike ==
    ASSUME IngestInv, Joinable(playlist_shapes), past.unread = {},
           \A m \in playlist : mrow[m].state = "Ready" /\ Stored(mrow[m].ptr),
           NEW m \in playlist, NEW n \in playlist
    PROVE  disk[mrow[m].ptr].sig = disk[mrow[n].ptr].sig
<1> DEFINE shapes == playlist_shapes
<1>1. DOMAIN shapes = playlist /\ playlist \subseteq Media
  BY DEF playlist_shapes, IngestInv, IngestTypeOK
<1>2. ASSUME NEW x \in playlist
      PROVE  /\ disk[mrow[x].ptr] \in FileShape
             /\ disk[mrow[x].ptr] = [mode |-> mrow[x].mode, sig |-> mrow[x].sig]
             /\ shapes[x].mode = disk[mrow[x].ptr].mode /\ shapes[x].sig = disk[mrow[x].ptr].sig
  <2>1. x \in Media /\ EntryIsSound(x) /\ DiskType
    BY <1>1 DEF IngestInv, IngestTypeOK
  <2>2. disk[mrow[x].ptr] \in FileShape
    BY <2>1 DEF DiskType, Stored
  <2>3. disk[mrow[x].ptr] = [mode |-> mrow[x].mode, sig |-> mrow[x].sig]
    BY <2>1 DEF EntryIsSound, Tells, IngestInv, TakenIsGone
  <2>4. mrow[x].mode \in Kinds \cup {"canonical"}
    BY <2>2, <2>3, Shapes
  <2>5. mrow[x].mode # Null
    BY <2>4 DEF Kinds, Null
  <2>6. shapes[x] = [mode |-> mrow[x].mode, sig |-> mrow[x].sig]
    BY <2>5 DEF playlist_shapes
  <2>7. QED BY <2>2, <2>3, <2>6
<1>3. CASE Cardinality(DOMAIN shapes) < 2
  <2>1. IsFiniteSet(playlist)
    BY <1>1, IngestAssumption, FS_Subset
  <2>2. CASE m # n
    <3>1. IsFiniteSet({m}) /\ Cardinality({m}) = 1
      BY FS_Singleton
    <3> PICK one : one = {m}
      OBVIOUS
    <3>2a. IsFiniteSet(one) /\ Cardinality(one) = 1 /\ n \notin one
      BY <2>2, <3>1
    <3>2b. Cardinality(one \cup {n}) = 1 + 1
      BY <3>2a, FS_AddElement
    <3>2. Cardinality({m} \cup {n}) = 2
      BY <3>2b
    <3>3. {m} \cup {n} \in SUBSET playlist
      OBVIOUS
    <3>4. Cardinality({m} \cup {n}) <= Cardinality(playlist)
      BY <2>1, <3>3, FS_Subset
    <3>5. Cardinality(playlist) \in Nat
      BY <2>1, FS_CardinalityType
    <3>6. PICK c : c = Cardinality(playlist)
      OBVIOUS
    <3>7. c < 2
      <4>1. DOMAIN shapes = playlist
        BY <1>1
      <4> HIDE DEF shapes
      <4>2. QED BY <1>3, <3>6, <4>1
    <3>8. c \in Nat /\ 2 <= c
      BY <3>2, <3>4, <3>5, <3>6
    <3>9. QED BY <3>7, <3>8
  <2>3. QED BY <2>2
<1>4. CASE \A x \in DOMAIN shapes : shapes[x].mode = "canonical"
  <2>1. disk[mrow[m].ptr].mode = "canonical" /\ disk[mrow[n].ptr].mode = "canonical"
    BY <1>1, <1>2, <1>4
  <2>2. PICK f \in FileShape, g \in FileShape : f = disk[mrow[m].ptr] /\ g = disk[mrow[n].ptr]
    BY <1>2
  <2>3. f.sig = "profile" /\ g.sig = "profile"
    BY <2>1, <2>2, Shapes
  <2>4. QED BY <2>2, <2>3
<1>5. CASE \A x, y \in DOMAIN shapes : shapes[x].sig = shapes[y].sig
  <2>1. shapes[m].sig = disk[mrow[m].ptr].sig /\ shapes[n].sig = disk[mrow[n].ptr].sig
    BY <1>2
  <2>2. DOMAIN shapes = playlist
    BY <1>1
  <2> HIDE DEF shapes
  <2>3. shapes[m].sig = shapes[n].sig
    BY <1>5, <2>2
  <2>4. QED BY <2>1, <2>3
<1>6. Joinable(shapes)
  OBVIOUS
<1> HIDE DEF shapes
<1>7. QED BY <1>3, <1>4, <1>5, <1>6 DEF Joinable

\* The items change, or the playlist is looked at after an edit.
LEMMA PlaylistStep ==
    ASSUME IngestInv, (\E items \in SUBSET Media : replace_items(items)) \/ ensure_playlist_compatible
    PROVE  IngestInv'
<1>1. UNCHANGED <<source, mrow, disk, job, in_flight, deleting, start, past>>
  BY DEF replace_items, ensure_playlist_compatible, jobVars
<1>2. PastType /\ StartIsSound /\ playlist \subseteq Media
  BY DEF IngestInv, IngestTypeOK
<1>3. PastType' /\ StartIsSound'
  BY <1>1, <1>2, StartStays DEF PastType
<1>4. playlist' \subseteq Media
  BY <1>2 DEF replace_items, ensure_playlist_compatible
<1>5. QED BY <1>1, <1>3, <1>4, NothingMoves

\* The items may be joined.
LEMMA CheckStep ==
    ASSUME IngestInv, check_playlist_joinable
    PROVE  IngestInv'
<1>1. /\ UNCHANGED <<source, mrow, disk, job, in_flight, deleting, playlist, past>>
      /\ start' = [pc |-> "checked", keys |-> {}, saw |-> playlist_shapes]
      /\ Joinable(playlist_shapes) /\ ~past.pulled
  BY DEF check_playlist_joinable, startVars, jobVars, IngestInv, StartIsSound
<1>2. PastType' /\ playlist' \subseteq Media
  BY <1>1 DEF IngestInv, IngestTypeOK, PastType
<1>3. start'.pc = "checked" /\ start'.saw = playlist_shapes /\ start'.keys = {}
  BY <1>1
<1>4. StartIsSound'
  BY <1>1, <1>3 DEF StartIsSound, Joinable
<1>5. QED BY <1>1, <1>2, <1>4, NothingMoves

\* The files of the items are read, or one is not ready.
LEMMA ReadStep ==
    ASSUME IngestInv, prepared_items_for
    PROVE  IngestInv'
<1>1. /\ UNCHANGED <<source, mrow, disk, job, in_flight, deleting, playlist>>
      /\ start.pc = "checked" /\ PastType /\ StartIsSound /\ playlist \subseteq Media
  BY DEF prepared_items_for, startVars, jobVars, IngestInv, IngestTypeOK
<1>2. PICK b \in BOOLEAN : b = (start.saw # playlist_shapes)
  BY Zenon
<1>3. CASE start' = OffAir /\ UNCHANGED past
  <2>1. PastType' /\ start.keys = {} /\ ~past.pulled
    BY <1>1, <1>3 DEF PastType, StartIsSound
  <2>2. StartIsSound'
    BY <1>3, <2>1 DEF StartIsSound, OffAir
  <2>3. QED BY <1>1, <1>3, <2>1, <2>2, NothingMoves
<1>4. CASE /\ \A m \in playlist : mrow[m].state = "Ready" /\ Stored(mrow[m].ptr)
           /\ start' = [pc |-> "read", keys |-> {mrow[m].ptr : m \in playlist}]
           /\ past' = [past EXCEPT !.raced = (start.saw # playlist_shapes)]
  <2>a. past' = [past EXCEPT !.raced = b]
    BY <1>2, <1>4
  <2>b. /\ PastType' /\ past'.raced = b /\ past'.runs = past.runs
        /\ past'.unread = past.unread /\ past'.taken = past.taken
    BY <1>1, <2>a DEF PastType
  <2>1. start'.pc = "read" /\ start'.keys = {mrow[m].ptr : m \in playlist}
        /\ start' = [pc |-> start'.pc, keys |-> start'.keys]
    BY <1>4
  <2>2. \A k \in start'.keys : HandedOut(k) /\ HandedOut(k)' /\ Stored(k) /\ Stored(k)'
    <3>1. ASSUME NEW m \in playlist PROVE HandedOut(mrow[m].ptr) /\ Stored(mrow[m].ptr)
      BY <1>1, <1>4 DEF IngestInv, EntryIsSound
    <3>2. QED BY <1>1, <2>1, <2>b, <3>1 DEF HandedOut, Stored
  <2>3. ASSUME ~past'.raced, past'.unread = {}, NEW k \in start'.keys, NEW l \in start'.keys
        PROVE  disk[k].sig = disk[l].sig
    <3>1. start.saw = playlist_shapes
      BY <1>2, <2>b, <2>3, Zenon
    <3>2. Joinable(start.saw)
      BY <1>1 DEF StartIsSound
    <3>3. Joinable(playlist_shapes)
      BY <3>1, <3>2
    <3>4. PICK m \in playlist, n \in playlist : k = mrow[m].ptr /\ l = mrow[n].ptr
      BY <2>1, <2>3
    <3>5. past.unread = {}
      BY <2>3, <2>b
    <3>6. QED BY <1>4, <3>3, <3>4, <3>5, JoinedAreAlike
  <2>4. StartIsSound'
    BY <1>1, <2>1, <2>2, <2>3 DEF StartIsSound
  <2>5. QED BY <1>1, <2>4, <2>b, NothingMoves
<1>5. QED BY <1>3, <1>4 DEF prepared_items_for

\* The broadcast goes on the air, and off.
LEMMA AirStep ==
    ASSUME IngestInv, GoOnAir \/ StopBroadcast
    PROVE  IngestInv'
<1>1. /\ UNCHANGED <<source, mrow, disk, job, in_flight, deleting, playlist>>
      /\ PastType /\ StartIsSound /\ playlist \subseteq Media
  BY DEF GoOnAir, StopBroadcast, startVars, jobVars, IngestInv, IngestTypeOK
<1>2. CASE GoOnAir
  <2>1. /\ start = [pc |-> "read", keys |-> start.keys] /\ start' = [start EXCEPT !.pc = "on"]
        /\ UNCHANGED past
    BY <1>1, <1>2 DEF GoOnAir, StartIsSound
  <2>2. start'.pc = "on" /\ start'.keys = start.keys
        /\ start' = [pc |-> start'.pc, keys |-> start'.keys]
    BY <2>1
  <2>3. StartIsSound' /\ PastType'
    BY <1>1, <2>1, <2>2 DEF StartIsSound, HandedOut, Stored, PastType
  <2>4. QED BY <1>1, <2>1, <2>3, NothingMoves
<1>3. CASE StopBroadcast
  <2>1. /\ PastType' /\ past'.runs = past.runs /\ past'.unread = past.unread
        /\ past'.taken = past.taken /\ ~past'.pulled /\ start' = OffAir
    BY <1>1, <1>3 DEF StopBroadcast, Forget, PastType
  <2>2. StartIsSound'
    BY <2>1 DEF StartIsSound, OffAir
  <2>3. QED BY <1>1, <2>1, <2>2, NothingMoves
<1>4. QED BY <1>2, <1>3

\* A row goes back to be prepared the canonical way, by a thread of its own.
LEMMA PinStep ==
    ASSUME IngestInv, NEW m \in Media, pin_to_canonical(m)
    PROVE  IngestInv'
<1>1. PICK t \in Threads : JobAt(m, t, "idle") /\ JobTo(m, t, [pc |-> "claim"])
  BY DEF pin_to_canonical, JobTo
<1> DEFINE j == [pc |-> "claim"]
           r == [mrow[m] EXCEPT !.target = "canonical", !.state = "Preparing"]
<1>2. /\ RowsType /\ JobType /\ mrow[m] \in MediaRow /\ EntryIsSound(m)
  BY JobFacts
<1>3. /\ UNCHANGED <<source, playlist, start, deleting, disk, in_flight, past>>
      /\ JobTo(m, t, j) /\ Update(m, r)
  BY <1>1 DEF pin_to_canonical
<1>4. /\ j \in MediaJob /\ j.pc = "claim" /\ r \in MediaRow /\ r.state = "Preparing"
      /\ r.ptr = mrow[m].ptr /\ r.mode = mrow[m].mode /\ r.sig = mrow[m].sig
  BY <1>2 DEF MediaJob, MediaRow, MediaStates
<1> HIDE DEF j, r
<1>5. job'[m][t] = j
  BY <1>2, <1>3, <1>4, JobPut
<1>6. JobIsSound(m, t)' /\ ~Claims(m, t)'
  BY <1>4, <1>5 DEF JobIsSound, Working, Claims
<1>7. (mrow'[m] = r /\ Exists(m)) \/ (mrow'[m] = mrow[m] /\ ~Exists(m))
  BY <1>2, <1>3, <1>4, RowPut
<1>8. mrow'[m].state # "Ready" /\ mrow'[m].ptr = mrow[m].ptr /\ (Exists(m)' => Exists(m))
  <2>1. CASE mrow'[m] = r /\ Exists(m)
    BY <1>4, <2>1
  <2>2. CASE mrow'[m] = mrow[m] /\ ~Exists(m)
    BY <2>2 DEF Exists
  <2>3. QED BY <1>7, <2>1, <2>2
<1>9. EntryIsSound(m)'
  BY <1>2, <1>3, <1>8 DEF EntryIsSound, HandedOut, Stored
<1>10. QED BY <1>3, <1>4, <1>6, <1>9, RowJob

\* A row is deleted; its files stay for now.
LEMMA RowGoesStep ==
    ASSUME IngestInv, NEW m \in Media, delete_media_owned(m)
    PROVE  IngestInv'
<1>1. /\ UNCHANGED <<source, disk, job, in_flight, playlist, start, past>>
      /\ deleting' = [m |-> m, keys |-> {SourceKey(m), mrow[m].ptr} \ {NoKey}]
      /\ mrow' = [mrow EXCEPT ![m].state = "deleted"]
  BY DEF delete_media_owned, deleteVars, jobVars
<1>2. IngestTypeOK /\ RowsType /\ PastType /\ mrow[m] \in MediaRow /\ EntryIsSound(m)
  BY DEF IngestInv, IngestTypeOK, RowsType
<1> DEFINE r == [mrow[m] EXCEPT !.state = "deleted"]
<1>3. r \in MediaRow /\ r.state = "deleted" /\ r.ptr = mrow[m].ptr /\ mrow' = [mrow EXCEPT ![m] = r]
  BY <1>1, <1>2 DEF MediaRow, MediaStates
<1> HIDE DEF r
<1>4. RowsType' /\ mrow'[m] = r /\ \A n \in Media \ {m} : mrow'[n] = mrow[n]
  BY <1>2, <1>3 DEF RowsType
<1>5. ~Exists(m)' /\ \A n \in Media \ {m} : Exists(n)' <=> Exists(n)
  BY <1>3, <1>4 DEF Exists
<1>6. IngestTypeOK'
  BY <1>1, <1>2, <1>4 DEF IngestTypeOK, JobType, DiskType, PastType, HandedOut
<1>7. ClaimsAreSound' /\ UploadsAreKept'
  BY <1>1, <1>5 DEF IngestInv, ClaimsAreSound, Claims, UploadsAreKept, Stored, Native
<1>8. ASSUME NEW n \in Media PROVE EntryIsSound(n)'
  <2>1. CASE n = m
    <3>1. mrow'[n].ptr = mrow[n].ptr /\ mrow'[n].state # "Ready"
      BY <1>3, <1>4, <2>1
    <3>2. QED BY <1>1, <1>2, <1>5, <2>1, <3>1 DEF EntryIsSound, HandedOut
  <2>2. CASE n # m
    BY <1>1, <1>4, <1>5, <2>2 DEF IngestInv, EntryIsSound, HandedOut, Stored, Tells
  <2>3. QED BY <2>1, <2>2
<1>9. ASSUME NEW n \in Media, NEW t \in Threads PROVE JobIsSound(n, t)'
  <2>1. JobIsSound(n, t)
    BY DEF IngestInv
  <2>2. CASE n = m
    <3>1. mrow'[n].state # "Ready" /\ ~Exists(n)'
      BY <1>3, <1>4, <1>5, <2>2
    <3>2. QED BY <1>1, <2>1, <3>1 DEF JobIsSound, HandedOut, Native
  <2>3. CASE n # m
    BY <1>1, <1>4, <1>5, <2>1, <2>3 DEF JobIsSound, Working, HandedOut, Stored, Tells, Native
  <2>4. QED BY <2>2, <2>3
<1>10. DeletionIsSound'
  <2>1. deleting'.m = m /\ deleting'.keys = {SourceKey(m), mrow[m].ptr} \ {NoKey}
    BY <1>1
  <2>2. \A k \in deleting'.keys : k \in Media \X Nat /\ k[1] = m
    BY <1>2, <2>1 DEF EntryIsSound, HandedOut, SourceKey
  <2>3. QED BY <1>5, <2>1, <2>2 DEF DeletionIsSound
<1>11. StartIsSound'
  BY <1>1, StartStays DEF IngestInv
<1>12. TakenIsGone'
  BY <1>1 DEF IngestInv, TakenIsGone, HandedOut, Stored
<1>13. QED BY <1>6, <1>7, <1>8, <1>9, <1>10, <1>11, <1>12 DEF IngestInv

\* Files go, none of which a row needs, nor a job of it or what is on the air
\* unless that is remembered.
LEMMA FilesGo ==
    ASSUME IngestInv, NEW keys, Unlink(keys), DeletionIsSound', PastType',
           UNCHANGED <<source, mrow, job, in_flight, playlist, start>>,
           past'.runs = past.runs, past'.unread = past.unread, past'.raced = past.raced,
           past.taken \subseteq past'.taken,
           \A k \in past'.taken \ past.taken : HandedOut(k) /\ k \in keys,
           \A m \in Media : Exists(m) => SourceKey(m) \notin keys /\ mrow[m].ptr \notin keys,
           \A m \in Media, t \in Threads :
               Exists(m) /\ job[m][t].pc \in {"sign", "retire", "point"} =>
                   job[m][t].key \notin keys \/ job[m][t].key \in past'.taken,
           ~past'.pulled /\ start.pc \in {"read", "on"} =>
               ~past.pulled /\ \A k \in start.keys : k \notin keys,
           start.pc \in {"off", "checked"} => past'.pulled = past.pulled
    PROVE  IngestInv'
<1>1. /\ DOMAIN disk' = DOMAIN disk \ keys /\ (\A k \in DOMAIN disk' : disk'[k] = disk[k])
      /\ disk' = [k \in DOMAIN disk' |-> disk'[k]]
  BY DEF Unlink
<1>2. \A k : (Stored(k)' <=> Stored(k) /\ k \notin keys) /\ (Stored(k)' => disk'[k] = disk[k])
  BY <1>1 DEF Stored
<1>3. \A k : HandedOut(k)' <=> HandedOut(k)
  BY DEF HandedOut
<1>4. IngestTypeOK'
  <2>1. DiskType'
    BY <1>1, <1>3 DEF IngestInv, IngestTypeOK, DiskType
  <2>2. QED BY <2>1 DEF IngestInv, IngestTypeOK, RowsType, JobType
<1>5. ClaimsAreSound'
  BY DEF IngestInv, ClaimsAreSound, Claims
<1>6. UploadsAreKept'
  BY <1>2 DEF IngestInv, UploadsAreKept, Exists, Native, SourceKey
<1>7. ASSUME NEW m \in Media PROVE EntryIsSound(m)'
  <2>1. EntryIsSound(m)
    BY DEF IngestInv
  <2>2. PICK p : p = mrow[m].ptr
    OBVIOUS
  <2>3. mrow[m].state = "Ready" => Exists(m)
    BY DEF Exists
  <2>4. Exists(m) /\ p # NoKey /\ p \notin past'.taken => Stored(p)' /\ disk'[p] = disk[p]
    BY <1>2, <2>1, <2>2 DEF EntryIsSound
  <2>5. (p # NoKey => HandedOut(p)') /\ mrow'[m].ptr = p
    BY <1>3, <2>1, <2>2 DEF EntryIsSound
  <2>6. QED BY <2>1, <2>2, <2>3, <2>4, <2>5 DEF EntryIsSound, Exists, Tells
<1>8. ASSUME NEW m \in Media, NEW t \in Threads PROVE JobIsSound(m, t)'
  <2>1. JobIsSound(m, t) /\ job' = job /\ mrow' = mrow /\ Native(m)' = Native(m)
    BY DEF IngestInv, Native
  <2>2. CASE job[m][t].pc \in {"sign", "retire", "point"}
    <3>1. PICK k : k = job[m][t].key
      OBVIOUS
    <3>2. /\ k[1] = m /\ HandedOut(k)'
          /\ Exists(m) /\ k \notin past'.taken => Stored(k)' /\ disk'[k] = disk[k]
      BY <1>2, <1>3, <2>1, <2>2, <3>1 DEF JobIsSound
    <3>3. QED BY <2>1, <2>2, <3>1, <3>2 DEF JobIsSound, Working, Exists, Tells
  <2>3. CASE job[m][t].pc \notin {"sign", "retire", "point"}
    BY <2>1, <2>3 DEF JobIsSound, Working
  <2>4. QED BY <2>2, <2>3
<1>9. StartIsSound'
  <2>1. StartIsSound
    BY DEF IngestInv
  <2>2. CASE start.pc \in {"read", "on"}
    <3>1. \A k \in start.keys : HandedOut(k)'
      BY <1>3, <2>1, <2>2 DEF StartIsSound
    <3>2. ~past'.pulled => \A k \in start.keys : Stored(k)'
      BY <1>2, <2>1, <2>2 DEF StartIsSound
    <3>3. ~past'.raced /\ past'.unread = {} =>
             \A k, l \in start.keys : Stored(k)' /\ Stored(l)' => disk'[k].sig = disk'[l].sig
      BY <1>2, <2>1, <2>2 DEF StartIsSound
    <3>4. QED BY <2>1, <2>2, <3>1, <3>2, <3>3 DEF StartIsSound
  <2>3. CASE start.pc \notin {"read", "on"}
    BY <2>1, <2>3 DEF StartIsSound, Joinable
  <2>4. QED BY <2>2, <2>3
<1>10. TakenIsGone'
  <2>1. TakenIsGone
    BY DEF IngestInv
  <2>2. QED BY <1>2, <1>3, <2>1 DEF TakenIsGone
<1>11. QED BY <1>4, <1>5, <1>6, <1>7, <1>8, <1>9, <1>10 DEF IngestInv

\* The files of a row that is gone.
LEMMA FilesGoStep ==
    ASSUME IngestInv, delete_media
    PROVE  IngestInv'
<1>1. /\ UNCHANGED <<source, mrow, job, in_flight, playlist, start>>
      /\ deleting # NoDelete /\ Unlink(deleting.keys) /\ deleting' = NoDelete
  BY DEF delete_media, deleteVars, jobVars
<1>2. PICK b \in BOOLEAN : b = (past.pulled \/ deleting.keys \cap start.keys # {})
  BY Zenon
<1>3. past' = [past EXCEPT !.pulled = b]
  BY <1>2 DEF delete_media
<1>4. PastType' /\ past'.runs = past.runs /\ past'.unread = past.unread
      /\ past'.raced = past.raced /\ past'.pulled = b /\ past'.taken = past.taken
  BY <1>3 DEF IngestInv, IngestTypeOK, PastType
<1>5. deleting.m \in Media /\ ~Exists(deleting.m) /\ \A k \in deleting.keys : k[1] = deleting.m
  BY <1>1 DEF IngestInv, DeletionIsSound
<1>6. \A k \in deleting.keys : k \in Media \X Nat
  BY <1>1 DEF IngestInv, DeletionIsSound
<1>7. ASSUME NEW m \in Media, Exists(m)
      PROVE  SourceKey(m) \notin deleting.keys /\ mrow[m].ptr \notin deleting.keys
  <2>1. SourceKey(m)[1] = m /\ EntryIsSound(m)
    BY DEF SourceKey, IngestInv
  <2>2. NoKey \notin deleting.keys
    BY <1>6, IngestAssumption DEF NoKey
  <2>3. QED BY <1>5, <1>7, <2>1, <2>2 DEF EntryIsSound
<1>8. ASSUME NEW m \in Media, NEW t \in Threads, Exists(m),
             job[m][t].pc \in {"sign", "retire", "point"}
      PROVE  job[m][t].key \notin deleting.keys
  BY <1>5, <1>8 DEF IngestInv, JobIsSound
<1>9. ~past'.pulled => ~past.pulled /\ \A k \in start.keys : k \notin deleting.keys
  BY <1>2, <1>4, Zenon
<1>10. DeletionIsSound'
  BY <1>1 DEF DeletionIsSound
<1>11. start.pc \in {"off", "checked"} => past'.pulled = past.pulled
  <2>1. start.pc \in {"off", "checked"} => start.keys = {}
    BY DEF IngestInv, StartIsSound
  <2>2. start.pc \in {"off", "checked"} => b = past.pulled
    <3>1. past.pulled \in BOOLEAN
      BY DEF IngestInv, IngestTypeOK, PastType
    <3>2. start.keys = {} => deleting.keys \cap start.keys = {}
      OBVIOUS
    <3>3. QED BY <1>2, <2>1, <3>1, <3>2, Zenon
  <2>3. QED BY <1>4, <2>2
<1>12. QED BY <1>1, <1>4, <1>7, <1>8, <1>9, <1>10, <1>11, FilesGo

\* The operator removes what no row and no manifest names, whatever is under way.
LEMMA OperatorStep ==
    ASSUME IngestInv, NEW k, OperatorRemoves(k)
    PROVE  IngestInv'
<1>1. /\ UNCHANGED <<source, mrow, job, in_flight, playlist, start, deleting>>
      /\ Unlink({k}) /\ Stored(k)
      /\ \A m \in Media : Exists(m) => k \notin {SourceKey(m), mrow[m].ptr}
      /\ start.pc = "on" => k \notin start.keys
  BY DEF OperatorRemoves, deleteVars, jobVars, safe_to_delete
<1>2. PastType /\ DiskType /\ StartIsSound
  BY DEF IngestInv, IngestTypeOK
<1>3. HandedOut(k) /\ k \in Media \X Nat
  BY <1>1, <1>2 DEF DiskType, Stored, HandedOut
<1>4. PICK took : took = IF InHand(k) THEN past.taken \cup {k} ELSE past.taken
  OBVIOUS
<1>5. PICK b \in BOOLEAN : b = (past.pulled \/ (start.pc = "read" /\ k \in start.keys))
  BY Zenon
<1>6. took \in SUBSET (Media \X Nat) /\ past.taken \subseteq took /\ took \subseteq past.taken \cup {k}
  BY <1>2, <1>3, <1>4 DEF PastType
<1>7. past' = [past EXCEPT !.taken = took, !.pulled = b]
  BY <1>4, <1>5 DEF OperatorRemoves
<1>8. /\ PastType' /\ past'.runs = past.runs /\ past'.unread = past.unread
      /\ past'.raced = past.raced /\ past'.pulled = b /\ past'.taken = took
  BY <1>2, <1>6, <1>7 DEF PastType
<1>9. DeletionIsSound'
  BY <1>1 DEF IngestInv, DeletionIsSound, Exists
<1>10. ASSUME NEW m \in Media, NEW t \in Threads, job[m][t].pc \in {"sign", "retire", "point"}
       PROVE  job[m][t].key \notin {k} \/ job[m][t].key \in past'.taken
  <2>1. job[m][t].key[1] = m
    BY <1>10 DEF IngestInv, JobIsSound
  <2>2. CASE job[m][t].key = k
    <3>1. InHand(k)
      BY <1>10, <2>1, <2>2 DEF InHand
    <3>2. QED BY <1>4, <1>8, <2>2, <3>1
  <2>3. QED BY <2>2
<1>11. past.pulled \in BOOLEAN
  BY <1>2 DEF PastType
<1>12. ~b => ~past.pulled /\ ~(start.pc = "read" /\ k \in start.keys)
  BY <1>5, Zenon
<1>13. start.pc \in {"off", "checked"} => b = past.pulled
  <2>1. start.pc \in {"off", "checked"} => start.pc # "read"
    OBVIOUS
  <2>2. QED BY <1>5, <1>11, <2>1, Zenon
<1>14. ~past'.pulled /\ start.pc \in {"read", "on"} =>
          ~past.pulled /\ \A l \in start.keys : l \notin {k}
  BY <1>1, <1>8, <1>12
<1>15. \A m \in Media : Exists(m) => SourceKey(m) \notin {k} /\ mrow[m].ptr \notin {k}
  BY <1>1
<1>16. \A l \in past'.taken \ past.taken : HandedOut(l) /\ l \in {k}
  BY <1>3, <1>6, <1>8
<1>17. QED BY <1>1, <1>6, <1>8, <1>9, <1>10, <1>13, <1>14, <1>15, <1>16, FilesGo

\* The server dies: rows and files stay.
LEMMA DeathStep ==
    ASSUME IngestInv, Crash
    PROVE  IngestInv'
<1>1. /\ UNCHANGED <<source, mrow, disk, playlist>> /\ Forget
      /\ job' = [m \in Media |-> [t \in Threads |-> Idle]]
      /\ in_flight' = {} /\ deleting' = NoDelete /\ start' = OffAir
  BY DEF Crash
<1>2. \A m \in Media, t \in Threads : job'[m][t] = Idle /\ job'[m][t].pc = "idle"
  BY <1>1 DEF Idle
<1>3. Idle \in MediaJob
  BY DEF Idle, MediaJob
<1>4. /\ PastType' /\ past'.runs = past.runs /\ past'.unread = past.unread
      /\ past'.taken = past.taken /\ ~past'.pulled
  BY <1>1 DEF Forget, IngestInv, IngestTypeOK, PastType
<1>5. IngestTypeOK'
  BY <1>4, <1>1, <1>3 DEF IngestInv, IngestTypeOK, RowsType, JobType, DiskType, HandedOut
<1>6. ClaimsAreSound' /\ DeletionIsSound'
  BY <1>1, <1>2 DEF ClaimsAreSound, Claims, DeletionIsSound
<1>7. UploadsAreKept'
  BY <1>1 DEF IngestInv, UploadsAreKept, Exists, Stored, Native
<1>8. \A m \in Media : EntryIsSound(m)'
  BY <1>4, <1>1 DEF IngestInv, EntryIsSound, HandedOut, Exists, Stored, Tells
<1>9. \A m \in Media, t \in Threads : JobIsSound(m, t)'
  BY <1>2 DEF JobIsSound, Working
<1>10. StartIsSound'
  BY <1>4, <1>1 DEF StartIsSound, OffAir
<1>11. TakenIsGone'
  BY <1>4, <1>1 DEF IngestInv, TakenIsGone, HandedOut, Stored
<1>12. QED BY <1>5, <1>6, <1>7, <1>8, <1>9, <1>10, <1>11 DEF IngestInv

----------------------------------------------------------------------------
\* The uploads as they are accepted.
LEMMA IngestStarts ==
    ASSUME IngestInit
    PROVE  IngestInv
<1>1. /\ mrow = [m \in Media |-> [state |-> "Uploaded", ptr |-> NoKey, mode |-> Null,
                                  sig |-> Null, target |-> "auto"]]
      /\ disk = [k \in {SourceKey(m) : m \in Media} |-> Native(k[1])]
      /\ in_flight = {} /\ start = OffAir /\ deleting = NoDelete
      /\ past = [bounced |-> {}, unread |-> {}, raced |-> FALSE, pulled |-> FALSE,
                 taken |-> {}, runs |-> [m \in Media |-> 0]]
      /\ source \in Sources
  BY DEF IngestInit
<1>2. source \in [Media -> [kind : Kinds, sig : STRING]]
  BY <1>1, IngestAssumption DEF Kinds
<1>3. PastType
  BY <1>1 DEF PastType
<1>4. \A m \in Media : SourceKey(m) \in Media \X Nat /\ SourceKey(m)[1] = m /\ HandedOut(SourceKey(m))
  BY <1>1 DEF SourceKey, HandedOut
<1>5. \A m \in Media : Stored(SourceKey(m)) /\ disk[SourceKey(m)] = Native(m)
  BY <1>1, <1>4 DEF Stored
<1>6. DiskType
  <2>1. \A m \in Media : Native(m) \in FileShape
    BY <1>2 DEF Native, FileShape
  <2>2. DOMAIN disk = {SourceKey(m) : m \in Media} /\ disk = [k \in DOMAIN disk |-> disk[k]]
    BY <1>1
  <2>3. QED BY <1>4, <1>5, <2>1, <2>2 DEF DiskType
<1>7. RowsType
  <2>1. [state |-> "Uploaded", ptr |-> NoKey, mode |-> Null, sig |-> Null, target |-> "auto"]
           \in MediaRow
    BY DEF MediaRow, MediaStates, Signatures
  <2>2. QED BY <1>1, <2>1 DEF RowsType
<1>8. \A m \in Media, t \in Threads : job[m][t] \in {Idle, [pc |-> "claim"]}
  BY DEF IngestInit
<1>9. JobType
  <2>1. Idle \in MediaJob /\ [pc |-> "claim"] \in MediaJob
    BY DEF Idle, MediaJob
  <2>2. QED BY <2>1 DEF JobType, IngestInit
<1>10. playlist \subseteq Media
  BY IngestAssumption DEF IngestInit
<1>11. \A m \in Media, t \in Threads : job[m][t].pc \in {"idle", "claim"}
  BY <1>8 DEF Idle
<1>12. ClaimsAreSound /\ \A m \in Media, t \in Threads : JobIsSound(m, t)
  BY <1>11 DEF ClaimsAreSound, Claims, JobIsSound, Working
<1>13. \A m \in Media : EntryIsSound(m)
  BY <1>1 DEF EntryIsSound
<1>14. UploadsAreKept /\ DeletionIsSound /\ StartIsSound /\ TakenIsGone
  BY <1>1, <1>5 DEF UploadsAreKept, DeletionIsSound, StartIsSound, OffAir, TakenIsGone
<1>15. QED BY <1>1, <1>2, <1>3, <1>6, <1>7, <1>9, <1>10, <1>12, <1>13, <1>14 DEF IngestInv, IngestTypeOK

\* Nothing happens.
LEMMA IngestStutters ==
    ASSUME IngestInv, UNCHANGED ingestVars
    PROVE  IngestInv'
<1>1. UNCHANGED <<source, mrow, disk, job, in_flight, deleting, playlist, start, past>>
  BY DEF ingestVars
<1>2. PastType' /\ playlist' \subseteq Media
  BY <1>1 DEF IngestInv, IngestTypeOK, PastType
<1>3. StartIsSound'
  BY <1>1, StartStays DEF IngestInv
<1>4. QED BY <1>1, <1>2, <1>3, NothingMoves

\* In every state the server reaches, the rows, the jobs, the files, a deletion
\* under way and a start under way are as IngestInv says.
THEOREM IngestInvariance == IngestSpec => []IngestInv
<1>1. IngestInit => IngestInv
  BY IngestStarts
<1>2. IngestInv /\ [IngestNext]_ingestVars => IngestInv'
  <2> SUFFICES ASSUME IngestInv, [IngestNext]_ingestVars PROVE IngestInv'
    OBVIOUS
  <2>1. ASSUME NEW m \in Media, NEW t \in Threads, Job(m, t) PROVE IngestInv'
    BY <2>1, TakeClaimStep, PassingStep, AnalyseStep, DirectStep, ConvertStep, SignStep,
       PointStep, FailedStep DEF Job
  <2>2. CASE UNCHANGED ingestVars
    BY <2>2, IngestStutters
  <2>3. QED BY <2>1, <2>2, PlaylistStep, CheckStep, ReadStep, AirStep, PinStep, RowGoesStep,
               FilesGoStep, OperatorStep, DeathStep DEF IngestNext
<1>3. QED BY <1>1, <1>2, PTL DEF IngestSpec

\* However conversions, re-preparations, deletions, an operator's clean-up and
\* deaths of the server interleave, a row that is there points at a file that
\* is there, and a ready row tells what its file is, unless its probe failed.
\* The clean-up has one way to spoil that: it removed the file between the
\* moment a preparation stored it and the moment the row was pointed at it.
THEOREM RowsStaySound == IngestSpec => []RowIsSound
<1>1. IngestInv => RowIsSound
  BY DEF IngestInv, EntryIsSound, Tells, RowIsSound, PointerIsAlive, ReadyTellsTheTruth
<1>2. QED BY <1>1, IngestInvariance, PTL

\* What is on the air can be read to its end and joined without a seam, unless
\* a row changed between the check and the reading of the files, a shape could
\* not be read, the user deleted what is playing, or the operator's clean-up
\* removed a file after the start had read the rows and before its launch.
THEOREM OnAirStaysSound == IngestSpec => []OnAirIsSound
<1>1. IngestInv => OnAirIsSound
  BY DEF IngestInv, StartIsSound, OnAirIsSound
<1>2. QED BY <1>1, IngestInvariance, PTL

----------------------------------------------------------------------------
(* One source and the file that becomes of it. *)

Profiles == {OutputProfile.p1080p30, OutputProfile.p720p30}

\* What the planner needs to leave a file as it lies, its sound aside if it is
\* louder than its source said.
Sendable(f, gap, p, loud) ==
    /\ ~video_native_copy_reasons(f, p) /\ ~(gap > MaxCopyGopSecs)
    /\ loud \/ SoundFits(f.sound, LIVE_AUDIO_RATES)
    /\ is_mp4_family(f.container)

\* How a file made from i sounds.
SoundsLike(f, i, a) ==
    /\ f.sound = (IF a THEN [i.sound EXCEPT !.stated = TRUE] ELSE ProfileSound)
    /\ f.sound.rate = IF a THEN i.sound.rate ELSE ProfileSound.rate
    /\ f.sound.kbps = IF a THEN i.sound.kbps ELSE ProfileSound.kbps
    /\ TooLoud(i) \/ SoundFits(f.sound, LIVE_AUDIO_RATES)

\* A file that has its source's picture, in another container.
OfTheSamePicture(f, i, a) ==
    /\ f.container = "mp4" /\ f.timescale = TIMESCALE /\ SoundsLike(f, i, a)
    /\ f.codec = i.codec /\ f.pix = i.pix /\ f.hdr = i.hdr /\ f.rotation = i.rotation
    /\ f.profile = i.profile /\ f.level = i.level /\ f.width = i.width
    /\ f.height = i.height /\ f.fps = i.fps /\ f.every = i.every /\ f.kbps = i.kbps
    /\ f.secs = i.secs
    /\ \E s : f = [i EXCEPT !.container = "mp4", !.timescale = TIMESCALE, !.sound = s]

\* The figures of a profile.
LEMMA ProfileFigures ==
    ASSUME NEW p \in Profiles
    PROVE  /\ p.width \in {1920, 1280} /\ p.height \in {1080, 720} /\ p.level \in {42, 32}
           /\ p.kbps \in {6000, 4000} /\ (p.width = 1920 => p.level = 42)
BY DEF Profiles, OutputProfile

\* Nothing more is needed for f: neither its picture nor, unless it is louder than
\* said, its sound is encoded.
NeedsNothing(f, p, gap, loud) ==
    LET again == plan_preparation(f, p, gap, FALSE) IN
    /\ again.plan.video /\ is_mp4_family(f.container)
    /\ ~loud => direct_source_is_broadcastable(f, again)

\* A file that can be sent as it lies is.
LEMMA SentAsItLies ==
    ASSUME NEW f, NEW gap, NEW p, NEW loud \in BOOLEAN, Sendable(f, gap, p, loud)
    PROVE  NeedsNothing(f, p, gap, loud)
<1> DEFINE prep == plan_preparation(f, p, gap, FALSE)
<1>0. PICK a \in BOOLEAN : a = (~audio_native_copy_reasons(f))
  BY Zenon
<1>1. prep = [mode |-> IF a THEN "direct" ELSE "hybrid", plan |-> Plan(TRUE, a), spec |-> NoSpec]
  BY <1>0 DEF Sendable, plan_preparation
<1> HIDE DEF prep
<1>2. prep.mode = (IF a THEN "direct" ELSE "hybrid") /\ prep.plan.video = TRUE /\ prep.plan.audio = a
  BY <1>1 DEF Plan
<1>3. is_mp4_family(f.container) /\ (loud \/ a)
  BY <1>0 DEF Sendable, audio_native_copy_reasons
<1>4. prep.plan.video /\ (~loud => direct_source_is_broadcastable(f, prep))
  BY <1>2, <1>3 DEF direct_source_is_broadcastable
<1>5. QED BY <1>3, <1>4 DEF prep, NeedsNothing

\* What rewriting the container does, the sound included.
LEMMA RepackedIs ==
    ASSUME NEW i \in MediaInfo, NEW v \in BOOLEAN, NEW a \in BOOLEAN,
           a => SoundFits(i.sound, LIVE_AUDIO_RATES),
           NEW f, f = Repacked(i, Plan(v, a))
    PROVE  OfTheSamePicture(f, i, a)
<1> PICK s : s = IF a THEN [i.sound EXCEPT !.stated = TRUE] ELSE ProfileSound
  OBVIOUS
<1>1. a => i.sound # NoSound
  BY DEF SoundFits, NoSound
<1>2. f = [i EXCEPT !.container = "mp4", !.timescale = TIMESCALE, !.sound = s]
  BY <1>1 DEF Repacked, Plan
<1>3. SoundFits(ProfileSound, LIVE_AUDIO_RATES)
  BY DEF SoundFits, ProfileSound, Sound, LIVE_AUDIO_RATES
<1>4. /\ TooLoud(i) \/ SoundFits(s, LIVE_AUDIO_RATES)
      /\ s.rate = (IF a THEN i.sound.rate ELSE ProfileSound.rate)
      /\ s.kbps = (IF a THEN i.sound.kbps ELSE ProfileSound.kbps)
  <2>1. CASE a
    <3>1. s = [i.sound EXCEPT !.stated = TRUE] /\ SoundFits(i.sound, LIVE_AUDIO_RATES)
      BY <2>1
    <3>2. /\ s.codec = i.sound.codec /\ s.rate = i.sound.rate /\ s.channels = i.sound.channels
          /\ s.kbps = i.sound.kbps /\ s.stated = TRUE
          /\ i.sound.kbps \in Nat /\ i.sound.stated \in BOOLEAN
      BY <3>1 DEF MediaInfo
    <3>3. QED BY <2>1, <3>1, <3>2 DEF SoundFits, TooLoud, ProfileSound, Sound
  <2>2. CASE ~a
    BY <1>3, <2>2
  <2>3. QED BY <2>1, <2>2
<1>5. /\ f.container = "mp4" /\ f.timescale = TIMESCALE /\ f.sound = s
      /\ f.codec = i.codec /\ f.pix = i.pix /\ f.hdr = i.hdr /\ f.rotation = i.rotation
      /\ f.profile = i.profile /\ f.level = i.level /\ f.width = i.width
      /\ f.height = i.height /\ f.fps = i.fps /\ f.every = i.every /\ f.kbps = i.kbps
      /\ f.secs = i.secs
  BY <1>2 DEF MediaInfo
<1>6. SoundsLike(f, i, a)
  BY <1>4, <1>5 DEF SoundsLike
<1>7. QED BY <1>2, <1>5, <1>6 DEF OfTheSamePicture

\* What the canonical conversion makes.
CanonicalIs(f, i, p, gap, plan) ==
    /\ ~video_native_copy_reasons(f, p) /\ SoundsLike(f, i, plan.audio)
    /\ f.container = "mp4" /\ f.timescale = TIMESCALE /\ f.sound.rate = ProfileSound.rate
    /\ f.width = p.width /\ f.height = p.height
    /\ f.fps \in (ProfileFps - 1)..(ProfileFps + 1) /\ f.secs = i.secs
    /\ plan = [video |-> plan.video, audio |-> plan.audio]
    /\ plan.video \in BOOLEAN /\ plan.audio \in BOOLEAN
    /\ plan.audio => SoundFits(i.sound, {ProfileSound.rate})
    /\ plan.video => f.every = i.every /\ gap <= MaxCopyGopSecs /\ f.kbps = i.kbps
    /\ ~plan.video => f.every = GopSecs /\ f.kbps = p.kbps

\* The canonical conversion: what is copied fits, and what does not is made so.
LEMMA CanonicalFile ==
    ASSUME NEW i \in MediaInfo, NEW p \in Profiles, NEW gap \in Int,
           NEW plan, plan = plan_for(i, p, gap), NEW f, f = build_normalize_args(i, p, plan)
    PROVE  CanonicalIs(f, i, p, gap, plan)
<1>1. PICK v \in BOOLEAN : v = (~video_encode_reasons(i, p) /\ measured_gop(i, p, gap) <= MaxCopyGopSecs)
  BY Zenon
<1>2. PICK a \in BOOLEAN : a = (~audio_encode_reasons(i))
  BY Zenon
<1>3. plan = Plan(v, a) /\ plan.video = v /\ plan.audio = a
      /\ plan = [video |-> plan.video, audio |-> plan.audio]
  BY <1>1, <1>2 DEF plan_for, plan_transcode, Plan
<1>4. a => SoundFits(i.sound, {ProfileSound.rate})
  BY <1>2 DEF audio_encode_reasons
<1>5. a => SoundFits(i.sound, LIVE_AUDIO_RATES)
  BY <1>4 DEF SoundFits, ProfileSound, Sound, LIVE_AUDIO_RATES
<1>6. PICK g : g = Repacked(i, Plan(v, a))
  OBVIOUS
<1>7a. OfTheSamePicture(g, i, a)
  BY <1>5, <1>6, RepackedIs
<1>7. /\ g.container = "mp4" /\ g.timescale = TIMESCALE /\ SoundsLike(g, i, a)
      /\ g.codec = i.codec /\ g.pix = i.pix /\ g.hdr = i.hdr /\ g.rotation = i.rotation
      /\ g.profile = i.profile /\ g.level = i.level /\ g.width = i.width
      /\ g.height = i.height /\ g.fps = i.fps /\ g.every = i.every /\ g.kbps = i.kbps
      /\ g.secs = i.secs
  BY <1>7a DEF OfTheSamePicture
<1>8. PICK s : g = [i EXCEPT !.container = "mp4", !.timescale = TIMESCALE, !.sound = s]
  BY <1>7a DEF OfTheSamePicture
<1>9. g.sound.rate = ProfileSound.rate
  BY <1>4, <1>7 DEF SoundFits, SoundsLike
<1>10. CASE v
  <2>1. f = g
    BY <1>3, <1>6, <1>10 DEF build_normalize_args
  <2>2. ~video_encode_reasons(i, p) /\ measured_gop(i, p, gap) <= MaxCopyGopSecs
    BY <1>1, <1>10
  <2>3. gap <= MaxCopyGopSecs
    <3>1. PICK b \in BOOLEAN : b = (~video_encode_reasons(i, p) /\ Unmeasured <= MaxCopyGopSecs)
      BY Zenon
    <3>2. plan_transcode(i, p, Unmeasured) = Plan(b, a)
      BY <1>2, <3>1 DEF plan_transcode
    <3>3. Unmeasured <= MaxCopyGopSecs
      BY DEF Unmeasured, MaxCopyGopSecs, GopSecs
    <3>4. b
      BY <2>2, <3>1, <3>3, Zenon
    <3>5. plan_transcode(i, p, Unmeasured).video
      BY <3>2, <3>4 DEF Plan
    <3>6. QED BY <2>2, <3>5 DEF measured_gop
  <2>4. /\ i.fps \in (ProfileFps - 1)..(ProfileFps + 1) /\ i.width = p.width /\ i.height = p.height
        /\ ~Unfit(i, p)
    BY <2>2 DEF video_encode_reasons, ProfileFps, MediaInfo
  <2>5. ~Unfit(f, p)
    BY <1>7, <2>1, <2>4 DEF Unfit
  <2>6. ~video_native_copy_reasons(f, p)
    BY <1>7, <2>1, <2>4, <2>5, ProfileFigures DEF video_native_copy_reasons, MIN_DIMENSION, ProfileFps
  <2>7. QED BY <1>3, <1>4, <1>7, <1>9, <1>10, <2>1, <2>3, <2>4, <2>6 DEF CanonicalIs
<1>11. CASE ~v
  <2>1. f = [video_encode_args(g, p) EXCEPT !.width = p.width, !.height = p.height, !.fps = ProfileFps]
    BY <1>3, <1>6, <1>11 DEF build_normalize_args
  <2>2. f = [i EXCEPT !.container = "mp4", !.timescale = TIMESCALE, !.sound = s,
                      !.codec = "h264", !.pix = "yuv420p", !.hdr = FALSE, !.rotation = 0,
                      !.profile = "high", !.level = p.level, !.every = GopSecs, !.kbps = p.kbps,
                      !.header = "encoder", !.width = p.width, !.height = p.height,
                      !.fps = ProfileFps]
    BY <1>8, <2>1 DEF video_encode_args, MediaInfo
  <2>3. g.sound = s
    BY <1>8 DEF MediaInfo
  <2>4. /\ f.container = "mp4" /\ f.timescale = TIMESCALE /\ f.sound = g.sound
        /\ f.codec = "h264" /\ f.pix = "yuv420p" /\ f.hdr = FALSE /\ f.rotation = 0
        /\ f.profile = "high" /\ f.level = p.level /\ f.every = GopSecs /\ f.kbps = p.kbps
        /\ f.width = p.width /\ f.height = p.height /\ f.fps = ProfileFps /\ f.secs = i.secs
    BY <2>2, <2>3 DEF MediaInfo
  <2>5. ~Unfit(f, p)
    BY <2>4, ProfileFigures DEF Unfit, allows_h264_profile
  <2>6. ~video_native_copy_reasons(f, p)
    BY <2>4, <2>5, ProfileFigures DEF video_native_copy_reasons, MIN_DIMENSION, ProfileFps
  <2>7. f.fps \in (ProfileFps - 1)..(ProfileFps + 1)
    BY <2>4 DEF ProfileFps
  <2>8. SoundsLike(f, i, a)
    BY <1>7, <2>4 DEF SoundsLike
  <2>9. QED BY <1>3, <1>4, <1>9, <1>11, <2>4, <2>6, <2>7, <2>8 DEF CanonicalIs
<1>12. QED BY <1>10, <1>11

\* What the encode that only moves the keyframes makes.
LiveIs(f, i, p, a, k) ==
    /\ ~video_native_copy_reasons(f, p) /\ SoundsLike(f, i, a)
    /\ f.container = "mp4" /\ f.kbps = k /\ f.secs = i.secs
    /\ f.every \in Nat /\ max_keyframe_gap(f) = f.every

\* The encode that only moves the keyframes: the picture is as fit as it was, and
\* the spacing can be measured again.
LEMMA LiveFile ==
    ASSUME NEW i \in MediaInfo, NEW p \in Profiles, NEW a \in BOOLEAN, NEW k,
           ~video_native_copy_reasons(i, p), i.every <= KEYFRAME_WINDOW_SECS,
           FramePeriod(i) > KEYFRAME_WINDOW_SECS => i.every > KEYFRAME_WINDOW_SECS,
           a => SoundFits(i.sound, LIVE_AUDIO_RATES), NEW f,
           f = build_live_normalize_args(i, p, Plan(FALSE, a), [keyframe_secs |-> 2, kbps |-> k])
    PROVE  LiveIs(f, i, p, a, k)
<1>1. PICK g : g = Repacked(i, Plan(FALSE, a))
  OBVIOUS
<1>2. OfTheSamePicture(g, i, a)
  BY <1>1, RepackedIs
<1>3. PICK s : g = [i EXCEPT !.container = "mp4", !.timescale = TIMESCALE, !.sound = s]
  BY <1>2 DEF OfTheSamePicture
<1>4. PICK c : c = FramePeriod(i)
  OBVIOUS
<1>5. PICK e : e = IF c > 2 THEN c ELSE 2
  OBVIOUS
<1>6. PICK l : l = IF i.width <= 1280 THEN 31 ELSE 40
  OBVIOUS
<1>7. f = [g EXCEPT !.pix = "yuv420p", !.profile = "high", !.level = l, !.every = e, !.kbps = k,
                    !.header = "encoder"]
  BY <1>1, <1>4, <1>5, <1>6 DEF build_live_normalize_args
<1>8. f = [i EXCEPT !.container = "mp4", !.timescale = TIMESCALE, !.sound = s, !.pix = "yuv420p",
                    !.profile = "high", !.level = l, !.every = e, !.kbps = k, !.header = "encoder"]
  BY <1>3, <1>7 DEF MediaInfo
<1>9. g.sound = s
  BY <1>3 DEF MediaInfo
<1>10. /\ f.container = "mp4" /\ f.timescale = TIMESCALE /\ f.sound = g.sound
       /\ f.codec = i.codec /\ f.pix = "yuv420p" /\ f.hdr = i.hdr /\ f.rotation = i.rotation
       /\ f.profile = "high" /\ f.level = l /\ f.every = e /\ f.kbps = k
       /\ f.width = i.width /\ f.height = i.height /\ f.fps = i.fps /\ f.secs = i.secs
  <2>1. f.container = "mp4" /\ f.timescale = TIMESCALE /\ f.sound = g.sound
    BY <1>8, <1>9 DEF MediaInfo
  <2>2. f.pix = "yuv420p" /\ f.codec = i.codec
    BY <1>8 DEF MediaInfo
  <2>2a. f.hdr = i.hdr /\ f.rotation = i.rotation
    BY <1>8 DEF MediaInfo
  <2>3. f.profile = "high" /\ f.level = l /\ f.every = e /\ f.kbps = k
    BY <1>8 DEF MediaInfo
  <2>4. f.width = i.width /\ f.height = i.height
    BY <1>8 DEF MediaInfo
  <2>4a. f.fps = i.fps /\ f.secs = i.secs
    BY <1>8 DEF MediaInfo
  <2>5. QED BY <2>1, <2>2, <2>2a, <2>3, <2>4, <2>4a
<1>11. /\ ~Unfit(i, p) /\ i.width <= p.width /\ i.height <= p.height
       /\ ~(i.width < MIN_DIMENSION) /\ ~(i.height < MIN_DIMENSION)
       /\ ~(i.width % 2 # 0) /\ ~(i.height % 2 # 0)
       /\ ~(i.fps > ProfileFps + 1) /\ ~(i.fps <= 0)
  BY ProfileFigures DEF video_native_copy_reasons, MediaInfo
<1>12. l <= p.level
  BY <1>6, <1>11, ProfileFigures DEF MediaInfo
<1>13. ~Unfit(f, p)
  <2>1. ~(l > p.level)
    BY <1>6, <1>12, ProfileFigures
  <2>2. QED BY <1>10, <1>11, <2>1 DEF Unfit, allows_h264_profile
<1>14. ~video_native_copy_reasons(f, p)
  <2>1. ~(i.width > p.width) /\ ~(i.height > p.height)
    BY <1>11, ProfileFigures DEF MediaInfo
  <2>2. QED BY <1>10, <1>11, <1>13, <2>1 DEF video_native_copy_reasons
<1>15. e \in Nat /\ e <= KEYFRAME_WINDOW_SECS
  <2>1. i.fps \in Nat /\ i.fps > 0
    BY <1>11 DEF MediaInfo
  <2>2. c \in Int
    BY <1>4, <2>1 DEF FramePeriod
  <2>3. i.every \in Nat
    BY DEF MediaInfo
  <2>4. c <= KEYFRAME_WINDOW_SECS
    BY <1>4, <2>2, <2>3 DEF KEYFRAME_WINDOW_SECS
  <2>5. QED BY <1>5, <2>2, <2>4 DEF KEYFRAME_WINDOW_SECS
<1>16. max_keyframe_gap(f) = f.every
  <2>1. ~(e > KEYFRAME_WINDOW_SECS)
    BY <1>15 DEF KEYFRAME_WINDOW_SECS
  <2>2. ~(f.every > KEYFRAME_WINDOW_SECS)
    BY <1>10, <2>1
  <2>3. QED BY <2>2 DEF max_keyframe_gap
<1>17. SoundsLike(f, i, a)
  BY <1>2, <1>10 DEF OfTheSamePicture, SoundsLike
<1>18. QED BY <1>10, <1>14, <1>15, <1>16, <1>17 DEF LiveIs

\* What the planner can decide.
Kept(i, p, gap, a, prep) ==
    /\ ~video_native_copy_reasons(i, p) /\ ~(gap > MaxCopyGopSecs)
    /\ a <=> SoundFits(i.sound, LIVE_AUDIO_RATES)
    /\ prep = [mode |-> IF a THEN "direct" ELSE "hybrid", plan |-> Plan(TRUE, a), spec |-> NoSpec]

KeyframesOnly(i, p, gap, a, prep) ==
    /\ ~video_native_copy_reasons(i, p) /\ gap > MaxCopyGopSecs
    /\ a <=> SoundFits(i.sound, LIVE_AUDIO_RATES)
    /\ prep = [mode |-> "live_normalize", plan |-> Plan(FALSE, a),
               spec |-> [keyframe_secs |-> 2, kbps |-> live_normalize_kbps(i, p)]]

AllTheWay(i, p, gap, prep) ==
    prep = [mode |-> "canonical", plan |-> plan_for(i, p, gap), spec |-> NoSpec]

\* There is nothing else it can decide.
LEMMA PlanIs ==
    ASSUME NEW i, NEW p, NEW gap, NEW pinned \in BOOLEAN,
           NEW prep, prep = plan_preparation(i, p, gap, pinned)
    PROVE  \/ AllTheWay(i, p, gap, prep)
           \/ ~pinned /\ \E a \in BOOLEAN : KeyframesOnly(i, p, gap, a, prep) \/ Kept(i, p, gap, a, prep)
<1>1. PICK a \in BOOLEAN : a = (~audio_native_copy_reasons(i))
  BY Zenon
<1>2. a <=> SoundFits(i.sound, LIVE_AUDIO_RATES)
  BY <1>1 DEF audio_native_copy_reasons
<1>3. CASE pinned \/ video_native_copy_reasons(i, p)
  BY <1>3 DEF plan_preparation, AllTheWay
<1>4. CASE ~pinned /\ ~video_native_copy_reasons(i, p) /\ gap > MaxCopyGopSecs
  <2>1. MaxCopyGopSecs \div 2 = 2
    BY DEF MaxCopyGopSecs, GopSecs
  <2>2. KeyframesOnly(i, p, gap, a, prep)
    BY <1>1, <1>2, <1>4, <2>1 DEF plan_preparation, KeyframesOnly
  <2>3. QED BY <1>4, <2>2
<1>5. CASE ~pinned /\ ~video_native_copy_reasons(i, p) /\ ~(gap > MaxCopyGopSecs)
  <2>1. Kept(i, p, gap, a, prep)
    BY <1>1, <1>2, <1>5 DEF plan_preparation, Kept
  <2>2. QED BY <1>5, <2>1
<1>6. QED BY <1>3, <1>4, <1>5

\* What is asked of a preparation of i whose keyframes were measured as gap.
FitForTheAir(i, p, gap, prep, f) ==
    /\ NeedsNothing(f, p, IF gap = Unmeasured THEN Unmeasured ELSE f.every, TooLoud(i))
    /\ prep.mode = "canonical" =>
          /\ f.width = p.width /\ f.height = p.height
          /\ f.fps \in (ProfileFps - 1)..(ProfileFps + 1)
          /\ f.timescale = TIMESCALE /\ f.sound.rate = ProfileSound.rate
    /\ ~direct_source_is_broadcastable(i, prep)
       /\ ~(prep.plan.audio /\ (prep.mode = "live_normalize" \/ TooLoud(i)))
          => OutputBits(f) <= estimated_prepared_bytes(i, p, prep)

\* A margin is not negative.
LEMMA MarginIsRoom ==
    ASSUME NEW bits \in Nat
    PROVE  with_margin(bits) \in Nat /\ with_margin(bits) >= bits + bits \div 10
BY DEF with_margin, FIXED

\* A canonical conversion.
LEMMA CanonicalOutcome ==
    ASSUME NEW i \in MediaInfo, NEW p \in Profiles, NEW gap \in Int,
           gap = Unmeasured \/ gap = i.every, NEW prep, AllTheWay(i, p, gap, prep),
           NEW f, f = build_normalize_args(i, p, prep.plan)
    PROVE  FitForTheAir(i, p, gap, prep, f)
<1>1. prep.mode = "canonical" /\ prep.plan = plan_for(i, p, gap) /\ prep.spec = NoSpec
  BY DEF AllTheWay
<1>2. PICK plan : plan = plan_for(i, p, gap)
  OBVIOUS
<1>3. f = build_normalize_args(i, p, plan) /\ prep.plan = plan
  BY <1>1, <1>2
<1>4. /\ ~video_native_copy_reasons(f, p) /\ SoundsLike(f, i, plan.audio)
      /\ f.container = "mp4" /\ f.timescale = TIMESCALE /\ f.sound.rate = ProfileSound.rate
      /\ f.width = p.width /\ f.height = p.height
      /\ f.fps \in (ProfileFps - 1)..(ProfileFps + 1) /\ f.secs = i.secs
      /\ plan.video \in BOOLEAN /\ plan.audio \in BOOLEAN
      /\ plan.audio => SoundFits(i.sound, {ProfileSound.rate})
      /\ plan.video => f.every = i.every /\ gap <= MaxCopyGopSecs /\ f.kbps = i.kbps
      /\ ~plan.video => f.every = GopSecs /\ f.kbps = p.kbps
  <2>1. CanonicalIs(f, i, p, gap, plan)
    BY <1>2, <1>3, CanonicalFile
  <2>2. QED BY <2>1 DEF CanonicalIs
<1>4a. PICK loud \in BOOLEAN : loud = TooLoud(i)
  BY Zenon DEF TooLoud
<1>4b. f.sound.kbps = IF plan.audio THEN i.sound.kbps ELSE ProfileSound.kbps
  BY <1>4 DEF SoundsLike
<1>5. Sendable(f, IF gap = Unmeasured THEN Unmeasured ELSE f.every, p, loud)
  <2>1. ~((IF gap = Unmeasured THEN Unmeasured ELSE f.every) > MaxCopyGopSecs)
    BY <1>4 DEF Unmeasured, MaxCopyGopSecs, GopSecs
  <2>2. QED BY <1>4, <1>4a, <2>1 DEF Sendable, is_mp4_family, SoundsLike
<1>6. NeedsNothing(f, p, IF gap = Unmeasured THEN Unmeasured ELSE f.every, TooLoud(i))
  BY <1>5, <1>4a, SentAsItLies
<1>7. ASSUME ~(plan.audio /\ TooLoud(i))
      PROVE  OutputBits(f) <= estimated_prepared_bytes(i, p, prep)
  <2>1. ~direct_source_is_broadcastable(i, prep)
    BY <1>1 DEF direct_source_is_broadcastable
  <2>2. PICK secs \in Nat, vk \in Nat, ak \in Nat :
           secs = i.secs /\ vk = i.kbps /\ ak = i.sound.kbps
    BY DEF MediaInfo
  <2>3. ProfileSound.kbps = 192
    BY DEF ProfileSound, Sound
  <2>4. CASE plan.video
    <3>1. PICK more \in {0, 192} : more = IF plan.audio THEN 0 ELSE ProfileSound.kbps
      BY <2>3
    <3>2. estimated_prepared_bytes(i, p, prep) = with_margin(secs * (more + (vk + ak)))
      BY <1>3, <2>1, <2>2, <2>4, <3>1 DEF estimated_prepared_bytes
    <3>3. PICK out \in Nat : out = f.sound.kbps /\ out <= more + ak
      BY <1>4b, <2>2, <2>3, <3>1
    <3>4. OutputBits(f) = secs * (vk + out)
      BY <1>4, <2>2, <2>4, <3>3 DEF OutputBits
    <3>5. secs * (vk + out) <= secs * (more + (vk + ak)) /\ secs * (more + (vk + ak)) \in Nat
      BY <3>3
    <3>6. PICK bits \in Nat : bits = secs * (more + (vk + ak))
      BY <3>5
    <3>7. with_margin(bits) \in Nat /\ with_margin(bits) >= bits + bits \div 10
      BY MarginIsRoom
    <3>8. QED BY <3>2, <3>4, <3>5, <3>6, <3>7
  <2>5. CASE ~plan.video /\ ~plan.audio
    <3>1. PICK pk \in {6000, 4000} : pk = p.kbps
      BY ProfileFigures
    <3>2. estimated_prepared_bytes(i, p, prep) = with_margin(secs * (192 + pk))
      BY <1>1, <1>3, <2>1, <2>2, <2>3, <2>5, <3>1 DEF estimated_prepared_bytes
    <3>3. OutputBits(f) = secs * (pk + 192)
      BY <1>4, <1>4b, <2>2, <2>3, <2>5, <3>1 DEF OutputBits
    <3>4. secs * (192 + pk) \in Nat /\ secs * (192 + pk) = secs * (pk + 192)
      OBVIOUS
    <3>5. PICK bits \in Nat : bits = secs * (192 + pk)
      BY <3>4
    <3>6. with_margin(bits) \in Nat /\ with_margin(bits) >= bits + bits \div 10
      BY MarginIsRoom
    <3>7. QED BY <3>2, <3>3, <3>4, <3>5, <3>6
  <2>6. CASE ~plan.video /\ plan.audio
    <3>1. PICK pk \in {6000, 4000} : pk = p.kbps
      BY ProfileFigures
    <3>2. estimated_prepared_bytes(i, p, prep) = with_margin(secs * (0 + pk))
      BY <1>1, <1>3, <2>1, <2>2, <2>6, <3>1 DEF estimated_prepared_bytes
    <3>3. OutputBits(f) = secs * (pk + ak) /\ ak <= 384
      <4>1. ak <= 384
        <5>1. SoundFits(i.sound, {ProfileSound.rate}) /\ ~TooLoud(i)
          BY <1>4, <1>7, <2>6
        <5>2. i.sound.stated => ak <= 2 * ProfileSound.kbps
          BY <2>2, <5>1 DEF SoundFits
        <5>3. ~i.sound.stated => ~(ak > 2 * ProfileSound.kbps)
          BY <2>2, <5>1 DEF TooLoud
        <5>4. QED BY <2>2, <2>3, <5>2, <5>3
      <4>2. f.sound.kbps = ak /\ f.kbps = pk
        BY <1>4, <1>4b, <2>2, <2>6, <3>1
      <4>3. QED BY <1>4, <2>2, <4>1, <4>2 DEF OutputBits
    <3>4. secs * (0 + pk) \in Nat /\ secs * (0 + pk) = pk * secs
      OBVIOUS
    <3>5. secs * (pk + ak) = secs * pk + secs * ak /\ secs * ak <= 384 * secs
      BY <3>3
    <3>6. (pk * secs) \div 10 >= 400 * secs
      BY <3>1
    <3>7. PICK bits \in Nat : bits = secs * (0 + pk)
      BY <3>4
    <3>8. with_margin(bits) \in Nat /\ with_margin(bits) >= bits + bits \div 10
      BY MarginIsRoom
    <3>9. bits \div 10 >= 400 * secs /\ bits = secs * pk
      BY <3>4, <3>6, <3>7
    <3>10. PICK more \in Nat : more = secs * ak
      OBVIOUS
    <3>11. QED BY <3>2, <3>3, <3>5, <3>7, <3>8, <3>9, <3>10
  <2>7. QED BY <1>4, <2>4, <2>5, <2>6
<1>8. prep.plan.audio = plan.audio
  BY <1>3
<1>9. QED BY <1>4, <1>6, <1>7, <1>8 DEF FitForTheAir

\* A picture that is copied, or a file that is sent as it lies.
LEMMA KeptOutcome ==
    ASSUME NEW i \in MediaInfo, NEW p \in Profiles, NEW gap \in Int,
           gap = Unmeasured \/ gap = i.every, NEW a \in BOOLEAN,
           NEW prep, Kept(i, p, gap, a, prep), NEW f,
           \/ f = i /\ direct_source_is_broadcastable(i, prep)
           \/ f = build_normalize_args(i, p, prep.plan)
    PROVE  FitForTheAir(i, p, gap, prep, f)
<1>1. /\ prep.mode = (IF a THEN "direct" ELSE "hybrid") /\ prep.plan = Plan(TRUE, a)
      /\ prep.plan.video = TRUE /\ prep.plan.audio = a /\ prep.spec = NoSpec
      /\ ~video_native_copy_reasons(i, p) /\ ~(gap > MaxCopyGopSecs)
      /\ (a <=> SoundFits(i.sound, LIVE_AUDIO_RATES))
  BY DEF Kept, Plan
<1>2. prep.mode # "canonical" /\ prep.mode # "live_normalize"
  BY <1>1
<1>2a. PICK loud \in BOOLEAN : loud = TooLoud(i)
  BY Zenon DEF TooLoud
<1>3. CASE f = i /\ direct_source_is_broadcastable(i, prep)
  <2>1. is_mp4_family(i.container) /\ prep.mode = "direct"
    BY <1>3 DEF direct_source_is_broadcastable
  <2>2. a
    BY <1>1, <2>1
  <2>3. (IF gap = Unmeasured THEN Unmeasured ELSE f.every) = gap
    BY <1>3
  <2>4. Sendable(f, gap, p, loud)
    BY <1>1, <1>3, <2>1, <2>2 DEF Sendable
  <2>5. NeedsNothing(f, p, IF gap = Unmeasured THEN Unmeasured ELSE f.every, TooLoud(i))
    BY <1>2a, <2>3, <2>4, SentAsItLies
  <2>6. QED BY <1>2, <1>3, <2>5 DEF FitForTheAir
<1>4. CASE f = build_normalize_args(i, p, prep.plan)
  <2>1. f = Repacked(i, Plan(TRUE, a))
    BY <1>1, <1>4 DEF build_normalize_args
  <2>2. OfTheSamePicture(f, i, a)
    BY <1>1, <2>1, RepackedIs
  <2>3. /\ f.container = "mp4" /\ SoundsLike(f, i, a)
        /\ f.codec = i.codec /\ f.pix = i.pix /\ f.hdr = i.hdr /\ f.rotation = i.rotation
        /\ f.profile = i.profile /\ f.level = i.level /\ f.width = i.width
        /\ f.height = i.height /\ f.fps = i.fps /\ f.every = i.every /\ f.kbps = i.kbps
        /\ f.secs = i.secs
    BY <2>2 DEF OfTheSamePicture
  <2>4. ~video_native_copy_reasons(f, p)
    BY <1>1, <2>3 DEF video_native_copy_reasons, Unfit
  <2>5. (IF gap = Unmeasured THEN Unmeasured ELSE f.every) = gap
    BY <2>3
  <2>6. Sendable(f, gap, p, loud)
    BY <1>1, <1>2a, <2>3, <2>4 DEF Sendable, is_mp4_family, SoundsLike
  <2>7. NeedsNothing(f, p, IF gap = Unmeasured THEN Unmeasured ELSE f.every, TooLoud(i))
    BY <1>2a, <2>5, <2>6, SentAsItLies
  <2>8. ASSUME ~direct_source_is_broadcastable(i, prep)
        PROVE  OutputBits(f) <= estimated_prepared_bytes(i, p, prep)
    <3>1. PICK secs \in Nat, vk \in Nat, ak \in Nat :
             secs = i.secs /\ vk = i.kbps /\ ak = i.sound.kbps
      BY DEF MediaInfo
    <3>2. ProfileSound.kbps = 192
      BY DEF ProfileSound, Sound
    <3>3. PICK more \in {0, 192} : more = IF a THEN 0 ELSE ProfileSound.kbps
      BY <3>2
    <3>4. estimated_prepared_bytes(i, p, prep) = with_margin(secs * (more + (vk + ak)))
      BY <1>1, <2>8, <3>1, <3>3 DEF estimated_prepared_bytes
    <3>5. PICK out \in Nat : out = f.sound.kbps /\ out <= more + ak
      BY <2>3, <3>1, <3>2, <3>3 DEF SoundsLike
    <3>6. OutputBits(f) = secs * (vk + out)
      BY <2>3, <3>1, <3>5 DEF OutputBits
    <3>7. secs * (vk + out) <= secs * (more + (vk + ak)) /\ secs * (more + (vk + ak)) \in Nat
      BY <3>5
    <3>8. PICK bits \in Nat : bits = secs * (more + (vk + ak))
      BY <3>7
    <3>9. with_margin(bits) \in Nat /\ with_margin(bits) >= bits + bits \div 10
      BY MarginIsRoom
    <3>10. QED BY <3>4, <3>6, <3>7, <3>8, <3>9
  <2>9. QED BY <1>2, <2>7, <2>8 DEF FitForTheAir
<1>5. QED BY <1>3, <1>4

\* What a re-encode is given lies between its bounds.
LEMMA LiveRate ==
    ASSUME NEW i \in MediaInfo, NEW p \in Profiles
    PROVE  live_normalize_kbps(i, p) \in Nat
<1>1. PICK pk \in {6000, 4000} : pk = p.kbps
  BY ProfileFigures
<1>2. PICK w \in Nat, h \in Nat, size \in Nat : w = i.width /\ h = i.height /\ size = w * h
  BY DEF MediaInfo
<1>3. PICK per \in Nat : per = (p.width * p.height) \div 100 /\ per > 0
  BY ProfileFigures
<1>4. PICK hundreds \in Nat : hundreds = size \div 100
  BY <1>2
<1>5. PICK by_pixels \in Int : by_pixels = (pk * hundreds) \div per
  BY <1>1, <1>3, <1>4
<1>6. PICK target \in Int : target = IF i.kbps_known THEN (i.kbps * 5) \div 4 ELSE by_pixels
  BY <1>5 DEF MediaInfo
<1>7. live_normalize_kbps(i, p) = IF target < 1000 THEN 1000 ELSE IF target > pk THEN pk ELSE target
  BY <1>1, <1>2, <1>3, <1>4, <1>5, <1>6 DEF live_normalize_kbps
<1>8. QED BY <1>1, <1>6, <1>7

\* An encode that moved the keyframes close enough.
LEMMA LiveOutcome ==
    ASSUME NEW i \in MediaInfo, NEW p \in Profiles, NEW gap \in Int, gap = max_keyframe_gap(i),
           FramePeriod(i) > KEYFRAME_WINDOW_SECS => i.every > KEYFRAME_WINDOW_SECS,
           NEW a \in BOOLEAN, NEW prep, KeyframesOnly(i, p, gap, a, prep), NEW f,
           f = normalize_one_with(i, p, prep), ~(max_keyframe_gap(f) > MaxCopyGopSecs)
    PROVE  FitForTheAir(i, p, gap, prep, f)
<1>1. PICK k \in Nat : k = live_normalize_kbps(i, p)
  BY LiveRate
<1>2. PICK spec : spec = [keyframe_secs |-> 2, kbps |-> k]
  OBVIOUS
<1>3. /\ prep.mode = "live_normalize" /\ prep.plan = Plan(FALSE, a) /\ prep.spec = spec
      /\ prep.plan.video = FALSE /\ prep.plan.audio = a
      /\ ~video_native_copy_reasons(i, p) /\ gap > MaxCopyGopSecs
      /\ (a <=> SoundFits(i.sound, LIVE_AUDIO_RATES))
  BY <1>1, <1>2 DEF KeyframesOnly, Plan
<1>4. prep.spec # NoSpec
  BY <1>2, <1>3 DEF NoSpec
<1>5. f = build_live_normalize_args(i, p, Plan(FALSE, a), spec)
  BY <1>3, <1>4 DEF normalize_one_with
<1>6. i.every <= KEYFRAME_WINDOW_SECS /\ gap # Unmeasured
  <2>1. gap # Unmeasured
    BY <1>3 DEF Unmeasured, MaxCopyGopSecs, GopSecs
  <2>2. ~(i.every > KEYFRAME_WINDOW_SECS) /\ i.every \in Nat
    BY <2>1 DEF max_keyframe_gap, MediaInfo
  <2>3. QED BY <2>1, <2>2 DEF KEYFRAME_WINDOW_SECS
<1>6a. PICK loud \in BOOLEAN : loud = TooLoud(i)
  BY Zenon DEF TooLoud
<1>7. /\ ~video_native_copy_reasons(f, p) /\ SoundsLike(f, i, a)
      /\ f.container = "mp4" /\ f.kbps = k /\ f.secs = i.secs
      /\ f.every \in Nat /\ max_keyframe_gap(f) = f.every
  <2>1. f = build_live_normalize_args(i, p, Plan(FALSE, a), [keyframe_secs |-> 2, kbps |-> k])
    BY <1>2, <1>5
  <2>2. LiveIs(f, i, p, a, k)
    BY <1>3, <1>6, <2>1, LiveFile
  <2>3. QED BY <2>2 DEF LiveIs
<1>8. (IF gap = Unmeasured THEN Unmeasured ELSE f.every) = f.every
  BY <1>6
<1>9. Sendable(f, f.every, p, loud)
  BY <1>7, <1>6a DEF Sendable, is_mp4_family, SoundsLike
<1>10. NeedsNothing(f, p, IF gap = Unmeasured THEN Unmeasured ELSE f.every, TooLoud(i))
  BY <1>8, <1>9, <1>6a, SentAsItLies
<1>11. ASSUME ~a
       PROVE  OutputBits(f) <= estimated_prepared_bytes(i, p, prep)
  <2>1. ~direct_source_is_broadcastable(i, prep)
    BY <1>3 DEF direct_source_is_broadcastable
  <2>2. PICK secs \in Nat : secs = i.secs
    BY DEF MediaInfo
  <2>3. ProfileSound.kbps = 192
    BY DEF ProfileSound, Sound
  <2>4. prep.spec.kbps = k
    BY <1>2, <1>3
  <2>5. estimated_prepared_bytes(i, p, prep) = with_margin(secs * (192 + k))
    BY <1>3, <1>4, <1>11, <2>1, <2>2, <2>3, <2>4 DEF estimated_prepared_bytes
  <2>6. OutputBits(f) = secs * (k + 192)
    BY <1>7, <1>11, <2>2, <2>3 DEF OutputBits, SoundsLike
  <2>7. PICK bits \in Nat : bits = secs * (192 + k) /\ bits = secs * (k + 192)
    OBVIOUS
  <2>8. with_margin(bits) \in Nat /\ with_margin(bits) >= bits + bits \div 10
    BY MarginIsRoom
  <2>9. QED BY <2>5, <2>6, <2>7, <2>8
<1>12. QED BY <1>3, <1>10, <1>11 DEF FitForTheAir

----------------------------------------------------------------------------
PreparationInv ==
    /\ item.info \in Infos /\ item.profile \in DOMAIN OutputProfile
    /\ item.pinned \in BOOLEAN /\ item.probe \in BOOLEAN
    /\ made # NotMade => FitForTheAir(item.info, P, Gap, made.prep, made.file)

\* What the preparation of an item may take as given.
LEMMA ItemFacts ==
    ASSUME PreparationInv, NEW i, i = item.info, NEW p, p = P, NEW gap, gap = Gap
    PROVE  /\ i \in MediaInfo /\ p \in Profiles /\ gap \in Int
           /\ gap = Unmeasured \/ gap = max_keyframe_gap(i)
           /\ gap = Unmeasured \/ gap = i.every
           /\ i.fps > 0 /\ FramePeriod(i) > KEYFRAME_WINDOW_SECS => i.every > KEYFRAME_WINDOW_SECS
<1>1. i \in MediaInfo /\ (i.fps > 0 /\ FramePeriod(i) > KEYFRAME_WINDOW_SECS
                              => i.every > KEYFRAME_WINDOW_SECS)
  BY InfoAssumption DEF PreparationInv
<1>2. p \in Profiles
  BY DEF PreparationInv, P, OutputProfile, Profiles
<1>3. gap = Unmeasured \/ gap = max_keyframe_gap(i)
  BY DEF Gap
<1>4. gap = Unmeasured \/ gap = i.every
  BY <1>3 DEF max_keyframe_gap
<1>5. gap \in Int
  BY <1>1, <1>4 DEF Unmeasured, MediaInfo
<1>6. QED BY <1>1, <1>2, <1>3, <1>4, <1>5

\* The server prepares an item.
LEMMA ServerPrepares ==
    ASSUME PreparationInv, prepare_now
    PROVE  PreparationInv'
<1> PICK i, p, gap : i = item.info /\ p = P /\ gap = Gap
  OBVIOUS
<1> PICK prep : prep = plan_preparation(i, p, gap, item.pinned)
  OBVIOUS
<1>1. /\ i \in MediaInfo /\ p \in Profiles /\ gap \in Int
      /\ gap = Unmeasured \/ gap = max_keyframe_gap(i)
      /\ gap = Unmeasured \/ gap = i.every
      /\ i.fps > 0 /\ FramePeriod(i) > KEYFRAME_WINDOW_SECS => i.every > KEYFRAME_WINDOW_SECS
  BY ItemFacts
<1>2. item' = item /\ P' = p /\ Gap' = gap
  BY DEF prepare_now, P, Gap
<1>3. made' = (IF direct_source_is_broadcastable(i, prep) THEN [prep |-> prep, file |-> i]
               ELSE prepare_by_conversion(i, p, prep))
  BY DEF prepare_now
<1>4. SUFFICES FitForTheAir(i, p, gap, made'.prep, made'.file)
  BY <1>2 DEF PreparationInv
<1>5. PICK out, again, mended :
          /\ out = normalize_one_with(i, p, prep)
          /\ again = plan_preparation(i, p, max_keyframe_gap(i), TRUE)
          /\ mended = normalize_one_with(i, p, again)
  OBVIOUS
<1>6. ~direct_source_is_broadcastable(i, prep) =>
          made' = IF prep.mode = "live_normalize" /\ max_keyframe_gap(out) > MaxCopyGopSecs
                  THEN [prep |-> again, file |-> mended] ELSE [prep |-> prep, file |-> out]
  BY <1>3, <1>5 DEF prepare_by_conversion
<1>7. CASE AllTheWay(i, p, gap, prep)
  <2>1. prep.mode = "canonical" /\ prep.spec = NoSpec
    BY <1>7 DEF AllTheWay
  <2>2. ~direct_source_is_broadcastable(i, prep)
    BY <2>1 DEF direct_source_is_broadcastable
  <2>3. made' = [prep |-> prep, file |-> out] /\ out = build_normalize_args(i, p, prep.plan)
    BY <1>5, <1>6, <2>1, <2>2 DEF normalize_one_with
  <2>4. FitForTheAir(i, p, gap, prep, out)
    BY <1>1, <1>7, <2>3, CanonicalOutcome
  <2>5. QED BY <2>3, <2>4
<1>8. ASSUME NEW a \in BOOLEAN, Kept(i, p, gap, a, prep)
      PROVE  FitForTheAir(i, p, gap, made'.prep, made'.file)
  <2>1. prep.mode # "live_normalize" /\ prep.spec = NoSpec
    BY <1>8 DEF Kept
  <2>2. CASE direct_source_is_broadcastable(i, prep)
    <3>1. made'.prep = prep /\ made'.file = i
      BY <1>3, <2>2
    <3>2. FitForTheAir(i, p, gap, prep, i)
      BY <1>1, <1>8, <2>2, KeptOutcome
    <3>3. QED BY <3>1, <3>2
  <2>3. CASE ~direct_source_is_broadcastable(i, prep)
    <3>1. made'.prep = prep /\ made'.file = out /\ out = build_normalize_args(i, p, prep.plan)
      BY <1>5, <1>6, <2>1, <2>3 DEF normalize_one_with
    <3>2. FitForTheAir(i, p, gap, prep, out)
      BY <1>1, <1>8, <3>1, KeptOutcome
    <3>3. QED BY <3>1, <3>2
  <2>4. QED BY <2>2, <2>3
<1>9. ASSUME NEW a \in BOOLEAN, KeyframesOnly(i, p, gap, a, prep)
      PROVE  FitForTheAir(i, p, gap, made'.prep, made'.file)
  <2>1. prep.mode = "live_normalize" /\ gap > MaxCopyGopSecs /\ ~video_native_copy_reasons(i, p)
    BY <1>9 DEF KeyframesOnly
  <2>2. ~direct_source_is_broadcastable(i, prep)
    BY <2>1 DEF direct_source_is_broadcastable
  <2>3. gap = max_keyframe_gap(i)
    BY <1>1, <2>1 DEF Unmeasured, MaxCopyGopSecs, GopSecs
  <2>4. i.fps > 0
    BY <1>1, <2>1 DEF video_native_copy_reasons, MediaInfo
  <2>5. CASE max_keyframe_gap(out) > MaxCopyGopSecs
    <3>1. made'.prep = again /\ made'.file = mended
      BY <1>6, <2>1, <2>2, <2>5
    <3>2. AllTheWay(i, p, gap, again)
      BY <1>5, <2>3 DEF plan_preparation, AllTheWay
    <3>3. again.spec = NoSpec
      BY <3>2 DEF AllTheWay
    <3>4. mended = build_normalize_args(i, p, again.plan)
      BY <1>5, <3>3 DEF normalize_one_with
    <3>5. FitForTheAir(i, p, gap, again, mended)
      BY <1>1, <3>2, <3>4, CanonicalOutcome
    <3>6. QED BY <3>1, <3>5
  <2>6. CASE ~(max_keyframe_gap(out) > MaxCopyGopSecs)
    <3>1. made'.prep = prep /\ made'.file = out
      BY <1>6, <2>1, <2>2, <2>6
    <3>2. FitForTheAir(i, p, gap, prep, out)
      BY <1>1, <1>5, <1>9, <2>3, <2>4, <2>6, LiveOutcome
    <3>3. QED BY <3>1, <3>2
  <2>7. QED BY <2>5, <2>6
<1>10. \/ AllTheWay(i, p, gap, prep)
       \/ \E a \in BOOLEAN : KeyframesOnly(i, p, gap, a, prep) \/ Kept(i, p, gap, a, prep)
  BY PlanIs DEF PreparationInv
<1>11. QED BY <1>7, <1>8, <1>9, <1>10

\* The desktop prepares an item.
LEMMA DesktopPrepares ==
    ASSUME PreparationInv, prepare_all
    PROVE  PreparationInv'
<1> PICK i, p, gap : i = item.info /\ p = P /\ gap = Gap
  OBVIOUS
<1> PICK prep : prep = [mode |-> "canonical", plan |-> plan_for(i, p, gap), spec |-> NoSpec]
  OBVIOUS
<1>1. /\ i \in MediaInfo /\ p \in Profiles /\ gap \in Int
      /\ gap = Unmeasured \/ gap = i.every
  BY ItemFacts
<1>2. item' = item /\ P' = p /\ Gap' = gap
  BY DEF prepare_all, P, Gap
<1>3. made' = [prep |-> prep, file |-> normalize_one_with(i, p, prep)]
  BY DEF prepare_all
<1>4. prep.spec = NoSpec /\ AllTheWay(i, p, gap, prep)
  BY DEF AllTheWay
<1>5. made'.prep = prep /\ made'.file = build_normalize_args(i, p, prep.plan)
  BY <1>3, <1>4 DEF normalize_one_with
<1>6. FitForTheAir(i, p, gap, made'.prep, made'.file)
  BY <1>1, <1>4, <1>5, CanonicalOutcome
<1>7. QED BY <1>2, <1>6 DEF PreparationInv

\* Whatever the source is, whoever prepares it, pinned or not, measured or not:
\* the file is one that would be sent as it lies, and it fits in the room that
\* was asked for.  Sound copied beside an encoded picture is left out of the room
\* (of any rate when only the keyframes moved, of a rate its source did not state
\* otherwise), and sound louder than its source said might be encoded later.
THEOREM PreparedIsSound == PreparationSpec => []PreparationIsSound
<1>1. PreparationInit => PreparationInv
  BY DEF PreparationInit, PreparationInv
<1>2. PreparationInv /\ [PreparationNext]_preparationVars => PreparationInv'
  <2> SUFFICES ASSUME PreparationInv, [PreparationNext]_preparationVars PROVE PreparationInv'
    OBVIOUS
  <2>1. CASE UNCHANGED preparationVars
    BY <2>1 DEF preparationVars, PreparationInv, P, Gap
  <2>2. QED BY <2>1, ServerPrepares, DesktopPrepares DEF PreparationNext
<1>3. PreparationInv => PreparationIsSound
  BY DEF PreparationInv, FitForTheAir, NeedsNothing, PreparationIsSound, PreparedIsBroadcastable,
         RoomIsEnough
<1>4. QED BY <1>1, <1>2, <1>3, PTL DEF PreparationSpec

----------------------------------------------------------------------------
(* Uploads: the disk floor and the account quota under many requests at once. *)

\* A number for each request, as points, so that the sum is how many there are.
Heap(f, us) == {x \in us \X (1..PER_FILE) : x[2] <= f[x[1]]}
Sum(f) == Cardinality(Heap(f, Uploaders))
Counts == [Uploaders -> 0..PER_FILE]

\* What each has written, has written since it looked at the disk and until the
\* look before its file is kept, and is about to add to the account.
gotOf(r) == r.got
unwatchedOf(r) == IF r.pc \in {"body", "check", "room"} THEN r.since ELSE 0
allowedOf(r) == IF r.pc \in {"room", "put", "row"} THEN r.got ELSE 0
got == [u \in Uploaders |-> gotOf(up[u])]
unwatched == [u \in Uploaders |-> unwatchedOf(up[u])]
allowed == [u \in Uploaders |-> allowedOf(up[u])]

Request == {r \in [pc : {"idle", "body", "check", "room", "put", "row"}, got : 0..PER_FILE,
                   since : Nat, part : BOOLEAN] : r.since <= r.got /\ r.since < EVERY}

UploadTypeOK ==
    /\ up \in [Uploaders -> Request] /\ conv \in [left : Nat, wrote : Nat]
    /\ kept \in Nat /\ sources \in Nat /\ lost \in Nat /\ sources <= kept
    /\ blind \in BOOLEAN

\* While every look is answered the floor gives way by what was written unwatched;
\* and what the account has and has been allowed exceeds its plan by one file for
\* every request but one.
UploadInv ==
    /\ UploadTypeOK
    /\ blind \/ free + Sum(unwatched) >= FLOOR - 1
    /\ sources + Sum(allowed) <= CEILING + (Cardinality(Uploaders) - 1) * PER_FILE

\* Points can be counted.
LEMMA HeapIsFinite ==
    ASSUME NEW f, NEW us, us \subseteq Uploaders
    PROVE  /\ IsFiniteSet(us) /\ IsFiniteSet(Heap(f, us)) /\ Cardinality(Heap(f, us)) \in Nat
           /\ Cardinality(us) \in Nat /\ Cardinality(Heap(f, us)) <= Cardinality(us) * PER_FILE
<1>1. IsFiniteSet(us) /\ Cardinality(us) \in Nat
  BY FS_Subset, FS_CardinalityType, UploadsAssumption
<1>2. IsFiniteSet(1..PER_FILE) /\ Cardinality(1..PER_FILE) = PER_FILE
  BY FS_Interval, UploadsAssumption
<1>3. /\ IsFiniteSet(us \X (1..PER_FILE))
      /\ Cardinality(us \X (1..PER_FILE)) = Cardinality(us) * Cardinality(1..PER_FILE)
  BY <1>1, <1>2, FS_Product
<1>4. Heap(f, us) \in SUBSET (us \X (1..PER_FILE))
  BY DEF Heap
<1>5. IsFiniteSet(Heap(f, us)) /\ Cardinality(Heap(f, us)) <= Cardinality(us \X (1..PER_FILE))
  BY <1>3, <1>4, FS_Subset
<1>6. QED BY <1>1, <1>2, <1>3, <1>5, FS_CardinalityType

\* A product with one element is as large as the other factor.
LEMMA OneShare ==
    ASSUME NEW c, NEW n \in Nat
    PROVE  IsFiniteSet({c} \X (1..n)) /\ Cardinality({c} \X (1..n)) = n
<1>1. IsFiniteSet({c}) /\ Cardinality({c}) = 1
  BY FS_Singleton
<1>2. IsFiniteSet(1..n) /\ Cardinality(1..n) = n
  BY FS_Interval
<1>3. IsFiniteSet({c} \X (1..n)) /\ Cardinality({c} \X (1..n)) = Cardinality({c}) * Cardinality(1..n)
  BY <1>1, <1>2, FS_Product
<1>4. QED BY <1>1, <1>2, <1>3

\* A sum is one number and the sum of the others.
LEMMA SumWithout ==
    ASSUME NEW f \in Counts, NEW u \in Uploaders
    PROVE  Sum(f) = Cardinality(Heap(f, Uploaders \ {u})) + f[u]
<1> DEFINE rest == Heap(f, Uploaders \ {u})
           share == {u} \X (1..f[u])
<1>1. f[u] \in Nat /\ f[u] <= PER_FILE
  BY UploadsAssumption DEF Counts
<1>2. IsFiniteSet(share) /\ Cardinality(share) = f[u]
  BY <1>1, OneShare
<1>3. IsFiniteSet(rest) /\ Cardinality(rest) \in Nat
  BY HeapIsFinite
<1>4. Heap(f, Uploaders) = rest \cup share
  <2>1. \A x \in share : x \in Heap(f, Uploaders)
    BY <1>1, UploadsAssumption DEF Heap
  <2>2. \A x \in Heap(f, Uploaders) : x[1] = u => x \in share
    BY <1>1 DEF Heap
  <2>3. \A x \in Heap(f, Uploaders) : x[1] # u => x \in rest
    BY DEF Heap
  <2>4. \A x \in rest : x \in Heap(f, Uploaders)
    BY DEF Heap
  <2> HIDE DEF rest, share
  <2>5. QED BY <2>1, <2>2, <2>3, <2>4
<1>5. rest \cap share = {}
  BY DEF Heap
<1> HIDE DEF rest, share
<1>6. Cardinality(Heap(f, Uploaders)) = Cardinality(rest) + Cardinality(share) - Cardinality({})
  BY <1>2, <1>3, <1>4, <1>5, FS_Union
<1>7. Cardinality(Heap(f, Uploaders)) = Cardinality(rest) + f[u]
  BY <1>1, <1>2, <1>3, <1>6, FS_EmptySet
<1>8. QED BY <1>7 DEF rest, Sum

\* One number changes, and the sum with it.
LEMMA SumMoves ==
    ASSUME NEW f \in Counts, NEW g \in Counts, NEW u \in Uploaders,
           \A v \in Uploaders \ {u} : g[v] = f[v]
    PROVE  Sum(g) = Sum(f) - f[u] + g[u] /\ Sum(f) \in Nat /\ Sum(g) \in Nat
<1>1. Heap(g, Uploaders \ {u}) = Heap(f, Uploaders \ {u})
  BY DEF Heap
<1>2. /\ Sum(f) = Cardinality(Heap(f, Uploaders \ {u})) + f[u]
      /\ Sum(g) = Cardinality(Heap(f, Uploaders \ {u})) + g[u]
  BY <1>1, SumWithout
<1>3. Cardinality(Heap(f, Uploaders \ {u})) \in Nat /\ f[u] \in Nat /\ g[u] \in Nat
  BY HeapIsFinite, UploadsAssumption DEF Counts
<1>4. QED BY <1>2, <1>3

\* Two sums of numbers no request has both of are no more than a sum above both.
LEMMA SumsFit ==
    ASSUME NEW f \in Counts, NEW g \in Counts, NEW h \in Counts,
           \A u \in Uploaders : f[u] <= h[u] /\ g[u] <= h[u] /\ (f[u] = 0 \/ g[u] = 0)
    PROVE  Sum(f) + Sum(g) <= Sum(h)
<1>1. /\ IsFiniteSet(Heap(f, Uploaders)) /\ IsFiniteSet(Heap(g, Uploaders))
      /\ IsFiniteSet(Heap(h, Uploaders))
      /\ Sum(f) \in Nat /\ Sum(g) \in Nat /\ Sum(h) \in Nat
  BY HeapIsFinite DEF Sum
<1>2. \A u \in Uploaders : f[u] \in Nat /\ g[u] \in Nat /\ h[u] \in Nat
  BY UploadsAssumption DEF Counts
<1>3. Heap(f, Uploaders) \cap Heap(g, Uploaders) = {}
  <2>1. ASSUME NEW x \in Heap(f, Uploaders), x \in Heap(g, Uploaders) PROVE FALSE
    <3>1. x[1] \in Uploaders /\ x[2] \in 1..PER_FILE /\ x[2] <= f[x[1]] /\ x[2] <= g[x[1]]
      BY <2>1 DEF Heap
    <3>2. QED BY <1>2, <3>1
  <2>2. QED BY <2>1
<1>4. Heap(f, Uploaders) \cup Heap(g, Uploaders) \in SUBSET Heap(h, Uploaders)
  <2>1. ASSUME NEW x \in Heap(f, Uploaders) \cup Heap(g, Uploaders) PROVE x \in Heap(h, Uploaders)
    <3>1. /\ x \in Uploaders \X (1..PER_FILE) /\ x[1] \in Uploaders /\ x[2] \in 1..PER_FILE
          /\ x[2] <= f[x[1]] \/ x[2] <= g[x[1]]
      BY <2>1 DEF Heap
    <3>2. x[2] <= h[x[1]]
      BY <1>2, <3>1
    <3>3. QED BY <3>1, <3>2 DEF Heap
  <2>2. QED BY <2>1
<1>5. Cardinality(Heap(f, Uploaders) \cup Heap(g, Uploaders)) = Sum(f) + Sum(g) - Cardinality({})
  BY <1>1, <1>3, FS_Union DEF Sum
<1>6. Cardinality(Heap(f, Uploaders) \cup Heap(g, Uploaders)) <= Sum(h)
  BY <1>1, <1>4, FS_Subset DEF Sum
<1>7. QED BY <1>1, <1>5, <1>6, FS_EmptySet

\* The three numbers of a request.
LEMMA NumbersType ==
    ASSUME NEW r \in Request
    PROVE  /\ gotOf(r) \in 0..PER_FILE /\ unwatchedOf(r) \in 0..PER_FILE
           /\ allowedOf(r) \in 0..PER_FILE
           /\ unwatchedOf(r) <= gotOf(r) /\ unwatchedOf(r) < EVERY /\ allowedOf(r) <= gotOf(r)
BY UploadsAssumption DEF Request, gotOf, unwatchedOf, allowedOf

\* The three counts of the requests.
LEMMA CountsType ==
    ASSUME up \in [Uploaders -> Request]
    PROVE  got \in Counts /\ unwatched \in Counts /\ allowed \in Counts
BY NumbersType DEF got, unwatched, allowed, Counts

\* What is written is the sum of what each has written.
LEMMA WrittenIsSum == Written = Sum(got)
<1>1. Chunks(Uploaders) = Heap(got, Uploaders)
  BY DEF Chunks, Heap, got, gotOf
<1>2. QED BY <1>1 DEF Written, Sum

\* A step of one request moves its own numbers.
LEMMA RequestMoves ==
    ASSUME up \in [Uploaders -> Request], NEW u \in Uploaders, NEW r \in Request,
           up' = [up EXCEPT ![u] = r]
    PROVE  /\ up' \in [Uploaders -> Request]
           /\ Written' = Written - gotOf(up[u]) + gotOf(r)
           /\ Sum(unwatched)' = Sum(unwatched) - unwatchedOf(up[u]) + unwatchedOf(r)
           /\ Sum(allowed)' = Sum(allowed) - allowedOf(up[u]) + allowedOf(r)
           /\ Written \in Nat /\ Sum(unwatched) \in Nat /\ Sum(allowed) \in Nat
<1>1. up' \in [Uploaders -> Request] /\ up'[u] = r /\ \A v \in Uploaders \ {u} : up'[v] = up[v]
  OBVIOUS
<1>2. got \in Counts /\ unwatched \in Counts /\ allowed \in Counts
  BY CountsType
<1>3. got' \in Counts /\ unwatched' \in Counts /\ allowed' \in Counts
  BY <1>1, NumbersType DEF got, unwatched, allowed, Counts
<1>4. /\ got[u] = gotOf(up[u]) /\ got'[u] = gotOf(r)
      /\ unwatched[u] = unwatchedOf(up[u]) /\ unwatched'[u] = unwatchedOf(r)
      /\ allowed[u] = allowedOf(up[u]) /\ allowed'[u] = allowedOf(r)
      /\ \A v \in Uploaders \ {u} :
            got'[v] = got[v] /\ unwatched'[v] = unwatched[v] /\ allowed'[v] = allowed[v]
  BY <1>1 DEF got, unwatched, allowed
<1>5. Sum(got') = Sum(got) - got[u] + got'[u] /\ Sum(got) \in Nat
  BY <1>2, <1>3, <1>4, SumMoves
<1>6. Sum(unwatched') = Sum(unwatched) - unwatched[u] + unwatched'[u] /\ Sum(unwatched) \in Nat
  BY <1>2, <1>3, <1>4, SumMoves
<1>7. Sum(allowed') = Sum(allowed) - allowed[u] + allowed'[u] /\ Sum(allowed) \in Nat
  BY <1>2, <1>3, <1>4, SumMoves
<1>8. Written = Sum(got) /\ Written' = Sum(got')
  <2>1. Chunks(Uploaders)' = Heap(got', Uploaders)
    BY DEF Chunks, Heap, got, gotOf
  <2>2. QED BY <2>1, WrittenIsSum DEF Written, Sum
<1>9. Sum(unwatched)' = Sum(unwatched') /\ Sum(allowed)' = Sum(allowed')
  BY DEF Sum, Heap
<1>10. QED BY <1>1, <1>4, <1>5, <1>6, <1>7, <1>8, <1>9
\* The numbers of a request that is not under way.
LEMMA NoUploadIsRequest ==
    /\ NoUpload \in Request
    /\ gotOf(NoUpload) = 0 /\ unwatchedOf(NoUpload) = 0 /\ allowedOf(NoUpload) = 0
BY UploadsAssumption DEF NoUpload, Request, gotOf, unwatchedOf, allowedOf

\* A step of one request that leaves the account alone keeps both bounds, when
\* what it writes unwatched counts as such and what it is allowed fits.
LEMMA UpToKeeps ==
    ASSUME UploadInv, NEW u \in Uploaders, NEW r \in Request, UpTo(u, r),
           blind' \in BOOLEAN, blind => blind',
           \/ unwatchedOf(up[u]) + gotOf(r) <= gotOf(up[u]) + unwatchedOf(r)
           \/ blind'
           \/ free >= FLOOR /\ gotOf(r) <= gotOf(up[u]) + 1,
           allowedOf(r) <= allowedOf(up[u]) \/ kept + allowedOf(r) <= CEILING
    PROVE  UploadInv'
<1>1. /\ up' = [up EXCEPT ![u] = r] /\ UNCHANGED <<conv, kept, sources, lost>>
      /\ UploadTypeOK /\ up \in [Uploaders -> Request]
  BY DEF UpTo, UploadInv, UploadTypeOK
<1>2. /\ up' \in [Uploaders -> Request]
      /\ Written' = Written - gotOf(up[u]) + gotOf(r)
      /\ Sum(unwatched)' = Sum(unwatched) - unwatchedOf(up[u]) + unwatchedOf(r)
      /\ Sum(allowed)' = Sum(allowed) - allowedOf(up[u]) + allowedOf(r)
      /\ Written \in Nat /\ Sum(unwatched) \in Nat /\ Sum(allowed) \in Nat
  BY <1>1, RequestMoves
<1>3. up[u] \in Request
  BY <1>1
<1>4. /\ gotOf(r) \in Nat /\ unwatchedOf(r) \in Nat /\ allowedOf(r) \in Nat
      /\ allowedOf(r) <= PER_FILE
      /\ gotOf(up[u]) \in Nat /\ unwatchedOf(up[u]) \in Nat /\ allowedOf(up[u]) \in Nat
      /\ unwatchedOf(up[u]) <= gotOf(up[u])
  BY <1>3, NumbersType, UploadsAssumption
<1>5. UploadTypeOK'
  BY <1>1, <1>2 DEF UploadTypeOK
<1>6. ASSUME ~blind' PROVE (free + Sum(unwatched) >= FLOOR - 1)'
  <2>1. free \in Int /\ free' = free + gotOf(up[u]) - gotOf(r) /\ FLOOR \in Nat
    BY <1>1, <1>2, <1>4, UploadsAssumption DEF free, UploadTypeOK
  <2>2. free + Sum(unwatched) >= FLOOR - 1
    BY <1>6 DEF UploadInv
  <2>3. Sum(unwatched)' \in Nat
    BY <1>2, HeapIsFinite DEF Sum
  <2>4. free' + Sum(unwatched)' >= FLOOR - 1
    BY <1>2, <1>4, <1>6, <2>1, <2>2, <2>3
  <2>5. QED BY <2>4
<1>7. (sources + Sum(allowed) <= CEILING + (Cardinality(Uploaders) - 1) * PER_FILE)'
  <2> DEFINE theRest == (Cardinality(Uploaders) - 1) * PER_FILE
  <2>1. CASE allowedOf(r) <= allowedOf(up[u])
    <3>1. sources + Sum(allowed) <= CEILING + theRest /\ sources \in Nat /\ theRest \in Int
          /\ CEILING \in Nat
      BY <1>1, UploadsAssumption, FS_CardinalityType DEF UploadInv, UploadTypeOK
    <3> HIDE DEF theRest
    <3>2. sources' + Sum(allowed)' <= CEILING + theRest
      BY <1>1, <1>2, <1>4, <2>1, <3>1
    <3>3. QED BY <3>2 DEF theRest
  <2>2. CASE kept + allowedOf(r) <= CEILING
    <3>1. allowed' \in Counts /\ allowed'[u] = allowedOf(r)
      BY <1>1, <1>2, NumbersType DEF allowed, Counts
    <3>2. Sum(allowed') = Cardinality(Heap(allowed', Uploaders \ {u})) + allowedOf(r)
      BY <3>1, SumWithout
    <3>3. /\ Cardinality(Heap(allowed', Uploaders \ {u})) \in Nat
          /\ Cardinality(Heap(allowed', Uploaders \ {u})) <= Cardinality(Uploaders \ {u}) * PER_FILE
      BY HeapIsFinite
    <3>4. Cardinality(Uploaders \ {u}) = Cardinality(Uploaders) - 1
      BY UploadsAssumption, FS_RemoveElement
    <3>5. Cardinality(Heap(allowed', Uploaders \ {u})) <= theRest /\ theRest \in Int
      BY <3>3, <3>4, UploadsAssumption, FS_CardinalityType
    <3> HIDE DEF theRest
    <3>6. sources' + Sum(allowed') <= CEILING + theRest
      BY <1>1, <1>4, <2>2, <3>2, <3>3, <3>5, UploadsAssumption DEF UploadTypeOK
    <3>7. Sum(allowed)' = Sum(allowed')
      BY DEF Sum, Heap
    <3>8. QED BY <3>6, <3>7 DEF theRest
  <2>3. QED BY <2>1, <2>2
<1>8. QED BY <1>5, <1>6, <1>7 DEF UploadInv
\* Nothing is under way at first.
LEMMA UploadsInitially == UploadInit => UploadInv
<1> SUFFICES ASSUME UploadInit PROVE UploadInv
  OBVIOUS
<1>1. /\ up = [u \in Uploaders |-> NoUpload] /\ conv = NoConv
      /\ kept = 0 /\ sources = 0 /\ lost = 0 /\ blind = FALSE
  BY DEF UploadInit
<1>2. UploadTypeOK
  <2>1. blind \in BOOLEAN
    BY <1>1, Zenon
  <2>2. /\ up \in [Uploaders -> Request] /\ conv \in [left : Nat, wrote : Nat]
        /\ kept \in Nat /\ sources \in Nat /\ lost \in Nat /\ sources <= kept
    BY <1>1, NoUploadIsRequest DEF NoConv
  <2>3. QED BY <2>1, <2>2, Zenon DEF UploadTypeOK
<1>3. /\ got \in Counts /\ unwatched \in Counts /\ allowed \in Counts
      /\ \A u \in Uploaders : got[u] = 0 /\ unwatched[u] = 0 /\ allowed[u] = 0
  BY <1>1, <1>2, CountsType, NoUploadIsRequest DEF UploadTypeOK, got, unwatched, allowed
<1>4. Sum(got) = 0 /\ Sum(unwatched) = 0 /\ Sum(allowed) = 0
  <2>1. \A f \in Counts : (\A u \in Uploaders : f[u] = 0) => Heap(f, Uploaders) = {}
    BY UploadsAssumption DEF Heap
  <2>2. QED BY <1>3, <2>1, FS_EmptySet DEF Sum
<1>5. free = VOLUME
  BY <1>1, <1>4, WrittenIsSum, UploadsAssumption DEF free, NoConv
<1>6. Cardinality(Uploaders) \in Nat /\ Cardinality(Uploaders) # 0
  BY UploadsAssumption, FS_CardinalityType, FS_EmptySet
<1>7. (Cardinality(Uploaders) - 1) * PER_FILE \in Nat
  BY <1>6, UploadsAssumption
<1>8. QED BY <1>1, <1>2, <1>4, <1>5, <1>7, UploadsAssumption DEF UploadInv

\* A look at the disk that lets bytes by was not answered, or found the room.
LEMMA LookIs ==
    ASSUME NEW read \in free_bytes, Looked(read), blind \in BOOLEAN
    PROVE  /\ blind' \in BOOLEAN /\ (blind => blind')
           /\ disk_above_floor(read) => blind' \/ free >= FLOOR
<1>1. blind' = (blind \/ read = None)
  BY DEF Looked
<1>2. PICK no \in BOOLEAN : no = (read = None)
  BY Zenon
<1>3. blind' \in BOOLEAN /\ (blind => blind') /\ (no => blind')
  BY <1>1, <1>2
<1>4. ASSUME disk_above_floor(read), read # None PROVE free >= FLOOR
  <2>1. read = free /\ read >= 0 + FLOOR
    BY <1>4 DEF disk_above_floor, fits, free_bytes
  <2>2. 0 + FLOOR = FLOOR
    BY UploadsAssumption
  <2>3. QED BY <2>1, <2>2
<1>5. disk_above_floor(read) => blind' \/ free >= FLOOR
  BY <1>2, <1>3, <1>4, Zenon
<1>6. QED BY <1>3, <1>5, Zenon

\* A step of a request.
LEMMA RequestKeepsUploads ==
    ASSUME UploadInv, NEW u \in Uploaders,
           \/ upload_media(u) \/ chunk(u) \/ BodyEnds(u) \/ BodyBreaks(u)
           \/ check_upload_allowed(u) \/ check_disk_has_room(u) \/ put_file(u) \/ create_media(u)
    PROVE  UploadInv'
<1>0. UploadTypeOK /\ up[u] \in Request /\ EVERY \in Nat \ {0} /\ PER_FILE \in Nat /\ blind \in BOOLEAN
  BY UploadsAssumption DEF UploadInv, UploadTypeOK
<1>1. /\ up[u] = [pc |-> up[u].pc, got |-> up[u].got, since |-> up[u].since, part |-> up[u].part]
      /\ up[u].got \in 0..PER_FILE /\ up[u].got \in Nat /\ up[u].since \in Nat
      /\ up[u].part \in BOOLEAN /\ up[u].since <= up[u].got /\ up[u].since < EVERY
  BY <1>0 DEF Request
<1> DEFINE At(pc, n, k) == [pc |-> pc, got |-> n, since |-> k, part |-> up[u].part]
<1>2. \A pc \in {"body", "check", "room", "put", "row"}, n \in 0..PER_FILE, k \in Nat :
         k <= n /\ k < EVERY =>
            /\ At(pc, n, k) \in Request
            /\ gotOf(At(pc, n, k)) = n
            /\ unwatchedOf(At(pc, n, k)) = IF pc \in {"body", "check", "room"} THEN k ELSE 0
            /\ allowedOf(At(pc, n, k)) = IF pc \in {"room", "put", "row"} THEN n ELSE 0
  BY <1>1 DEF Request, gotOf, unwatchedOf, allowedOf
<1>3. /\ gotOf(up[u]) = up[u].got
      /\ unwatchedOf(up[u]) = IF up[u].pc \in {"body", "check", "room"} THEN up[u].since ELSE 0
      /\ allowedOf(up[u]) = IF up[u].pc \in {"room", "put", "row"} THEN up[u].got ELSE 0
  BY DEF gotOf, unwatchedOf, allowedOf
<1>4. ASSUME Refused(u), blind' \in BOOLEAN, blind => blind' PROVE UploadInv'
  <2>1. unwatchedOf(up[u]) + gotOf(NoUpload) <= gotOf(up[u]) + unwatchedOf(NoUpload)
    BY <1>1, <1>3, NoUploadIsRequest
  <2>2. allowedOf(NoUpload) <= allowedOf(up[u])
    BY <1>1, <1>3, NoUploadIsRequest
  <2>3. QED BY <1>4, <2>1, <2>2, NoUploadIsRequest, UpToKeeps DEF Refused
<1>5. ASSUME NEW pc \in {"body", "check", "room", "put", "row"},
             UpTo(u, [up[u] EXCEPT !.pc = pc]),
             \/ pc = "check" /\ up[u].pc = "body"
             \/ pc = "room" /\ up[u].pc = "check" /\ kept + up[u].got <= CEILING
             \/ pc = "put" /\ up[u].pc = "room" /\ (blind' \/ free >= FLOOR)
             \/ pc = "row" /\ up[u].pc = "put",
             blind' \in BOOLEAN, blind => blind'
      PROVE  UploadInv'
  <2>1. [up[u] EXCEPT !.pc = pc] = At(pc, up[u].got, up[u].since)
    BY <1>1
  <2> DEFINE r == At(pc, up[u].got, up[u].since)
  <2>2. /\ r \in Request /\ gotOf(r) = up[u].got
        /\ unwatchedOf(r) = IF pc \in {"body", "check", "room"} THEN up[u].since ELSE 0
        /\ allowedOf(r) = IF pc \in {"room", "put", "row"} THEN up[u].got ELSE 0
    BY <1>1, <1>2
  <2>3. UpTo(u, r)
    BY <1>5, <2>1
  <2> HIDE DEF r
  <2>4. \/ unwatchedOf(up[u]) + gotOf(r) <= gotOf(up[u]) + unwatchedOf(r)
        \/ blind'
        \/ free >= FLOOR /\ gotOf(r) <= gotOf(up[u]) + 1
    BY <1>1, <1>3, <1>5, <2>2
  <2>5. allowedOf(r) <= allowedOf(up[u]) \/ kept + allowedOf(r) <= CEILING
    BY <1>1, <1>3, <1>5, <2>2
  <2>6. QED BY <1>5, <2>2, <2>3, <2>4, <2>5, UpToKeeps
<1>6. ASSUME upload_media(u) PROVE UploadInv'
  <2> DEFINE r == [NoUpload EXCEPT !.pc = "body"]
  <2>1. r \in Request /\ gotOf(r) = 0 /\ unwatchedOf(r) = 0 /\ allowedOf(r) = 0
    <3>1. NoUpload.got = 0 /\ NoUpload.since = 0
      BY DEF NoUpload
    <3>2. r \in Request /\ r.pc = "body" /\ r.got = 0 /\ r.since = 0
      BY <3>1, NoUploadIsRequest DEF Request
    <3>3. QED BY <3>2 DEF gotOf, unwatchedOf, allowedOf
  <2>2. up[u].pc = "idle" /\ UpTo(u, r) /\ blind' = blind
    BY <1>6 DEF upload_media, UpAt
  <2> HIDE DEF r
  <2>3. /\ unwatchedOf(up[u]) + gotOf(r) <= gotOf(up[u]) + unwatchedOf(r)
        /\ allowedOf(r) <= allowedOf(up[u])
    BY <1>1, <1>3, <2>1, <2>2
  <2>4. QED BY <1>0, <2>1, <2>2, <2>3, UpToKeeps
<1>7. ASSUME chunk(u) PROVE UploadInv'
  <2> DEFINE looks == up[u].since + 1 >= EVERY
             since == IF looks THEN 0 ELSE up[u].since + 1
             r == [up[u] EXCEPT !.got = @ + 1, !.since = IF looks THEN 0 ELSE @ + 1]
  <2>1. up[u].pc = "body"
    BY <1>7 DEF chunk, UpAt
  <2>1a. PICK read \in free_bytes :
            /\ IF looks THEN Looked(read) ELSE blind' = blind
            /\ IF (looks /\ ~disk_above_floor(read)) \/ up[u].got + 1 > PER_FILE \/ free = 0
               THEN Refused(u) ELSE UpTo(u, r)
    BY <1>7, Zenon DEF chunk
  <2>1b. \/ Refused(u)
         \/ (looks => disk_above_floor(read)) /\ ~(up[u].got + 1 > PER_FILE) /\ UpTo(u, r)
    <3> HIDE DEF looks, r
    <3>1. QED BY <2>1a, Zenon
  <2>1c. /\ blind' \in BOOLEAN /\ (blind => blind')
         /\ looks /\ disk_above_floor(read) => blind' \/ free >= FLOOR
    BY <1>0, <2>1a, LookIs
  <2>2. CASE Refused(u)
    BY <1>4, <2>2, <2>1c, Zenon
  <2>3. CASE (looks => disk_above_floor(read)) /\ ~(up[u].got + 1 > PER_FILE) /\ UpTo(u, r)
    <3>1. UpTo(u, r)
      BY <2>3
    <3>2. /\ up[u].got + 1 \in 0..PER_FILE /\ since \in Nat /\ since <= up[u].got + 1 /\ since < EVERY
          /\ since = 0 \/ since = up[u].since + 1
      BY <1>0, <1>1, <2>3
    <3>3. /\ r \in [pc : {"idle", "body", "check", "room", "put", "row"}, got : 0..PER_FILE,
                   since : Nat, part : BOOLEAN]
          /\ r.pc = "body" /\ r.got = up[u].got + 1 /\ r.since = since
      <4> DEFINE q == [up[u] EXCEPT !.got = up[u].got + 1]
      <4>1. /\ q \in [pc : {"idle", "body", "check", "room", "put", "row"}, got : 0..PER_FILE,
                     since : Nat, part : BOOLEAN]
            /\ q.pc = "body" /\ q.got = up[u].got + 1
        BY <1>0, <2>1, <3>2 DEF Request
      <4>2. r = [q EXCEPT !.since = since]
        OBVIOUS
      <4> HIDE DEF q, since, r
      <4>3. QED BY <3>2, <4>1, <4>2
    <3> HIDE DEF r, since
    <3>4. r \in Request
      BY <3>2, <3>3 DEF Request
    <3>5. gotOf(r) = up[u].got + 1 /\ unwatchedOf(r) = since /\ allowedOf(r) = 0
      BY <3>3 DEF gotOf, unwatchedOf, allowedOf
    <3>6. looks => blind' \/ free >= FLOOR
      BY <2>3, <2>1c, Zenon
    <3>7. \/ unwatchedOf(up[u]) + gotOf(r) <= gotOf(up[u]) + unwatchedOf(r)
          \/ blind'
          \/ free >= FLOOR /\ gotOf(r) <= gotOf(up[u]) + 1
      BY <1>1, <1>3, <2>1, <3>2, <3>5, <3>6 DEF since
    <3>8. allowedOf(r) <= allowedOf(up[u])
      BY <1>3, <2>1, <3>5
    <3>9. QED BY <2>1c, <3>1, <3>4, <3>7, <3>8, UpToKeeps
  <2>4. QED BY <2>1b, <2>2, <2>3
<1>8. ASSUME BodyEnds(u) PROVE UploadInv'
  BY <1>0, <1>5, <1>8 DEF BodyEnds, UpAt
<1>9. ASSUME BodyBreaks(u) PROVE UploadInv'
  BY <1>0, <1>4, <1>9 DEF BodyBreaks
<1>10. ASSUME check_upload_allowed(u) PROVE UploadInv'
  BY <1>0, <1>4, <1>5, <1>10 DEF check_upload_allowed, UpAt
<1>11. ASSUME check_disk_has_room(u) PROVE UploadInv'
  <2>1. PICK read \in free_bytes :
           /\ Looked(read) /\ up[u].pc = "room"
           /\ IF disk_above_floor(read) THEN UpTo(u, [up[u] EXCEPT !.pc = "put"]) ELSE Refused(u)
    BY <1>11 DEF check_disk_has_room, UpAt
  <2>2. /\ blind' \in BOOLEAN /\ (blind => blind')
        /\ disk_above_floor(read) => blind' \/ free >= FLOOR
    BY <1>0, <2>1, LookIs
  <2>3. QED BY <1>4, <1>5, <2>1, <2>2
<1>12. ASSUME put_file(u) PROVE UploadInv'
  BY <1>0, <1>4, <1>5, <1>12 DEF put_file, UpAt
<1>13. ASSUME create_media(u) PROVE UploadInv'
  <2>1. /\ up[u].pc = "row" /\ kept' = kept + up[u].got /\ sources' = sources + up[u].got
        /\ up' = [up EXCEPT ![u] = NoUpload] /\ conv' = conv /\ lost' = lost /\ blind' = blind
    BY <1>13 DEF create_media, UpAt
  <2>2. /\ up' \in [Uploaders -> Request] /\ Written' = Written - up[u].got
        /\ Sum(unwatched)' = Sum(unwatched) /\ Sum(allowed)' = Sum(allowed) - up[u].got
        /\ Written \in Nat /\ Sum(unwatched) \in Nat /\ Sum(allowed) \in Nat
    <3>1. up \in [Uploaders -> Request]
      BY <1>0 DEF UploadTypeOK
    <3>2. gotOf(up[u]) = up[u].got /\ unwatchedOf(up[u]) = 0 /\ allowedOf(up[u]) = up[u].got
      BY <1>3, <2>1
    <3>3. /\ up' \in [Uploaders -> Request]
          /\ Written' = Written - gotOf(up[u]) + gotOf(NoUpload)
          /\ Sum(unwatched)' = Sum(unwatched) - unwatchedOf(up[u]) + unwatchedOf(NoUpload)
          /\ Sum(allowed)' = Sum(allowed) - allowedOf(up[u]) + allowedOf(NoUpload)
          /\ Written \in Nat /\ Sum(unwatched) \in Nat /\ Sum(allowed) \in Nat
      BY <2>1, <3>1, NoUploadIsRequest, RequestMoves
    <3>4. QED BY <1>1, <3>2, <3>3, NoUploadIsRequest
  <2>3. free' = free /\ UploadTypeOK'
    BY <1>0, <1>1, <2>1, <2>2, UploadsAssumption DEF free, UploadTypeOK
  <2>4. (blind \/ free + Sum(unwatched) >= FLOOR - 1)'
    BY <2>1, <2>2, <2>3 DEF UploadInv
  <2>5. sources' + Sum(allowed)' = sources + Sum(allowed)
    BY <1>0, <1>1, <2>1, <2>2 DEF UploadTypeOK
  <2>6. QED BY <2>3, <2>4, <2>5 DEF UploadInv
<1>14. QED BY <1>6, <1>7, <1>8, <1>9, <1>10, <1>11, <1>12, <1>13

\* A step of the preparation, a death of the API and a sweep.
LEMMA RestKeepsUploads ==
    ASSUME UploadInv,
           \/ \E need \in 1..PER_FILE : check_room_to_prepare(need)
           \/ floor_watch \/ ConversionEnds \/ ApiReboots \/ sweep_abandoned_uploads
    PROVE  UploadInv'
<1>0. /\ UploadTypeOK /\ up \in [Uploaders -> Request] /\ blind \in BOOLEAN
      /\ blind \/ free + Sum(unwatched) >= FLOOR - 1
      /\ sources + Sum(allowed) <= CEILING + (Cardinality(Uploaders) - 1) * PER_FILE
  BY DEF UploadInv, UploadTypeOK
<1>1. /\ Written \in Nat /\ Sum(unwatched) \in Nat /\ Sum(allowed) \in Nat
      /\ VOLUME \in Nat /\ FLOOR \in Nat
  BY WrittenIsSum, HeapIsFinite, UploadsAssumption DEF Sum
<1>2. \A us : Chunks(us)' = {x \in us \X (1..PER_FILE) : x[2] <= up'[x[1]].got}
  BY DEF Chunks
<1>3. ASSUME up' = up, blind => blind',
             kept' + conv'.wrote = kept + conv.wrote \/ blind' \/ free >= FLOOR,
             kept' + conv'.wrote <= kept + conv.wrote + 1,
             UploadTypeOK', sources' = sources, lost' = lost
      PROVE  UploadInv'
  <2>1. Written' = Written /\ Sum(unwatched)' = Sum(unwatched) /\ Sum(allowed)' = Sum(allowed)
    BY <1>3 DEF Written, Chunks, Sum, Heap, unwatched, allowed
  <2>2. /\ kept \in Nat /\ conv.wrote \in Nat /\ lost \in Nat
        /\ kept' \in Nat /\ conv'.wrote \in Nat
    BY <1>0, <1>3 DEF UploadTypeOK
  <2>3. /\ free = VOLUME - Written - conv.wrote - kept - lost
        /\ free' = VOLUME - Written - conv'.wrote - kept' - lost
    BY <1>3, <2>1 DEF free
  <2>4. blind' \/ free' + Sum(unwatched) >= FLOOR - 1
    BY <1>0, <1>1, <1>3, <2>2, <2>3
  <2>5. QED BY <1>0, <1>3, <2>1, <2>4 DEF UploadInv
<1>4. ASSUME NEW need \in 1..PER_FILE, check_room_to_prepare(need) PROVE UploadInv'
  <2>1. conv' = [left |-> need, wrote |-> 0] /\ conv = NoConv /\ UNCHANGED <<up, kept, sources, lost>>
    BY <1>4 DEF check_room_to_prepare
  <2>1a. blind' \in BOOLEAN /\ (blind => blind')
    BY <1>0, <1>4, LookIs DEF check_room_to_prepare
  <2>2. conv'.wrote = 0 /\ conv.wrote = 0 /\ UploadTypeOK'
    BY <1>0, <2>1, <2>1a, UploadsAssumption DEF UploadTypeOK, NoConv
  <2>3. kept \in Nat
    BY <1>0 DEF UploadTypeOK
  <2>4. QED BY <1>3, <2>1, <2>1a, <2>2, <2>3
<1>5. ASSUME floor_watch PROVE UploadInv'
  <2>1. PICK read \in free_bytes :
           /\ UNCHANGED <<up, kept, sources, lost>> /\ conv.left > 0 /\ Looked(read)
           /\ conv' = IF disk_above_floor(read) /\ free > 0
                      THEN [left |-> conv.left - 1, wrote |-> conv.wrote + 1]
                      ELSE NoConv
    BY <1>5 DEF floor_watch
  <2>1a. /\ blind' \in BOOLEAN /\ (blind => blind')
         /\ disk_above_floor(read) => blind' \/ free >= FLOOR
    BY <1>0, <2>1, LookIs
  <2>2. conv.left \in Nat /\ conv.wrote \in Nat /\ kept \in Nat /\ lost \in Nat
    BY <1>0 DEF UploadTypeOK
  <2>3. CASE disk_above_floor(read) /\ free > 0
    <3>1. blind' \/ free >= FLOOR
      BY <2>1a, <2>3
    <3>2. conv' = [left |-> conv.left - 1, wrote |-> conv.wrote + 1]
      BY <2>1, <2>3
    <3>3. conv'.wrote = conv.wrote + 1 /\ UploadTypeOK'
      BY <1>0, <2>1, <2>1a, <2>2, <3>2 DEF UploadTypeOK
    <3>4. QED BY <1>3, <2>1, <2>1a, <2>2, <3>1, <3>3
  <2>4. CASE ~(disk_above_floor(read) /\ free > 0)
    <3>1. conv'.wrote = 0 /\ UploadTypeOK'
      BY <1>0, <2>1, <2>1a, <2>4 DEF UploadTypeOK, NoConv
    <3>2. Written' = Written /\ Sum(unwatched)' = Sum(unwatched) /\ Sum(allowed)' = Sum(allowed)
      BY <2>1 DEF Written, Chunks, Sum, Heap, unwatched, allowed
    <3>3. free' = free + conv.wrote
      BY <1>1, <2>1, <2>2, <3>1, <3>2 DEF free
    <3>4. free \in Int
      BY <1>1, <2>2 DEF free
    <3>5. blind' \/ free' + Sum(unwatched) >= FLOOR - 1
      BY <1>0, <1>1, <2>1a, <2>2, <3>3, <3>4
    <3>6. QED BY <1>0, <2>1, <3>1, <3>2, <3>5 DEF UploadInv
  <2>5. QED BY <2>3, <2>4
<1>6. ASSUME ConversionEnds PROVE UploadInv'
  <2>1. conv' = NoConv /\ kept' = kept + conv.wrote /\ UNCHANGED <<up, sources, lost, blind>>
    BY <1>6 DEF ConversionEnds
  <2>2. conv.wrote \in Nat /\ kept \in Nat /\ sources \in Nat /\ sources <= kept
    BY <1>0 DEF UploadTypeOK
  <2>3. conv'.wrote = 0 /\ UploadTypeOK'
    BY <1>0, <2>1, <2>2 DEF UploadTypeOK, NoConv
  <2>4. QED BY <1>3, <2>1, <2>2, <2>3
<1>7. ASSUME ApiReboots PROVE UploadInv'
  <2> DEFINE rows == {u \in Uploaders : UpAt(u, "row")}
             inRows == [u \in Uploaders |-> IF UpAt(u, "row") THEN gotOf(up[u]) ELSE 0]
  <2>1. /\ up' = [u \in Uploaders |-> NoUpload] /\ conv' = NoConv /\ UNCHANGED <<kept, sources, blind>>
        /\ lost' = lost + Cardinality(Chunks(rows))
    BY <1>7 DEF ApiReboots
  <2>2. /\ got \in Counts /\ unwatched \in Counts /\ inRows \in Counts
        /\ \A u \in Uploaders : unwatched[u] <= got[u] /\ inRows[u] <= got[u]
                                /\ (unwatched[u] = 0 \/ inRows[u] = 0)
    <3>1. \A u \in Uploaders : up[u] \in Request
      BY <1>0
    <3>2. inRows \in Counts
      BY <3>1, NumbersType, UploadsAssumption DEF Counts
    <3>3. \A u \in Uploaders : unwatched[u] <= got[u] /\ inRows[u] <= got[u]
      BY <3>1, NumbersType, UploadsAssumption DEF unwatched, got
    <3>4. \A u \in Uploaders : unwatched[u] = 0 \/ inRows[u] = 0
      BY DEF unwatched, unwatchedOf, UpAt
    <3>5. QED BY <1>0, <3>2, <3>3, <3>4, CountsType
  <2>3. Chunks(rows) = Heap(inRows, Uploaders)
    <3>1. \A x \in Chunks(rows) : x \in Heap(inRows, Uploaders)
      BY DEF Chunks, Heap, gotOf
    <3>2. \A x \in Heap(inRows, Uploaders) : x \in Chunks(rows)
      BY DEF Chunks, Heap, gotOf
    <3>3. QED BY <3>1, <3>2
  <2> HIDE DEF inRows, rows
  <2>4. Sum(unwatched) + Cardinality(Chunks(rows)) <= Written /\ Cardinality(Chunks(rows)) \in Nat
    <3>1. Sum(unwatched) + Sum(inRows) <= Sum(got)
      <4> DEFINE g == inRows
      <4>1. /\ got \in Counts /\ unwatched \in Counts /\ g \in Counts
            /\ \A u \in Uploaders : unwatched[u] <= got[u] /\ g[u] <= got[u]
                                    /\ (unwatched[u] = 0 \/ g[u] = 0)
        BY <2>2
      <4> HIDE DEF g
      <4>2. Sum(unwatched) + Sum(g) <= Sum(got)
        BY <4>1, SumsFit
      <4>3. QED BY <4>2 DEF g
    <3>2. QED BY <2>3, <3>1, WrittenIsSum, HeapIsFinite DEF Sum
  <2>5. /\ kept \in Nat /\ conv.wrote \in Nat /\ lost \in Nat /\ sources \in Nat
        /\ conv'.wrote = 0 /\ UploadTypeOK'
    BY <1>0, <2>1, <2>4, NoUploadIsRequest DEF UploadTypeOK, NoConv
  <2>6. \A us : {x \in us \X (1..PER_FILE) : x[2] <= 0} = {}
    BY UploadsAssumption
  <2>7. Written' = 0 /\ Sum(unwatched)' = 0 /\ Sum(allowed)' = 0
    <3>1. \A u \in Uploaders : up'[u].got = 0 /\ unwatchedOf(up'[u]) = 0 /\ allowedOf(up'[u]) = 0
      BY <2>1, NoUploadIsRequest DEF NoUpload
    <3>2. Chunks(Uploaders)' = {}
      BY <3>1, UploadsAssumption DEF Chunks
    <3>3. Heap(unwatched, Uploaders)' = {} /\ Heap(allowed, Uploaders)' = {}
      BY <3>1, UploadsAssumption DEF Heap, unwatched, allowed
    <3>4. QED BY <3>2, <3>3, FS_EmptySet DEF Written, Sum
  <2>8. free = VOLUME - Written - conv.wrote - kept - lost
    BY DEF free
  <2>9. free' = VOLUME - kept - (lost + Cardinality(Chunks(rows)))
    BY <1>1, <2>1, <2>4, <2>5, <2>7 DEF free
  <2>10. blind \/ free' >= FLOOR - 1
    BY <1>0, <1>1, <2>4, <2>5, <2>8, <2>9
  <2>11. sources' <= CEILING + (Cardinality(Uploaders) - 1) * PER_FILE
    <3> DEFINE bound == CEILING + (Cardinality(Uploaders) - 1) * PER_FILE
    <3>1. bound \in Int
      BY UploadsAssumption, FS_CardinalityType
    <3>2. sources + Sum(allowed) <= bound
      BY <1>0
    <3> HIDE DEF bound
    <3>3. sources' <= bound
      BY <1>1, <2>1, <2>5, <3>1, <3>2
    <3>4. QED BY <3>3 DEF bound
  <2>12. QED BY <2>5, <2>7, <2>9, <2>10, <2>11, <2>1, <1>1, UploadsAssumption, FS_CardinalityType
         DEF UploadInv, UploadTypeOK, free
<1>8. ASSUME sweep_abandoned_uploads PROVE UploadInv'
  <2>1. /\ up' = [u \in Uploaders |->
                    IF up[u].pc \in {"body", "check", "room", "put"}
                    THEN [up[u] EXCEPT !.part = FALSE] ELSE up[u]]
        /\ UNCHANGED <<conv, kept, sources, lost, blind>>
    BY <1>8 DEF sweep_abandoned_uploads
  <2>2. \A u \in Uploaders : /\ up'[u] \in Request /\ up'[u].got = up[u].got
                             /\ unwatchedOf(up'[u]) = unwatchedOf(up[u])
                             /\ allowedOf(up'[u]) = allowedOf(up[u])
    <3> TAKE u \in Uploaders
    <3>1. up[u] \in Request
      BY <1>0
    <3>2. up'[u] = up[u] \/ up'[u] = [up[u] EXCEPT !.part = FALSE]
      BY <2>1
    <3>3. /\ up'[u].pc = up[u].pc /\ up'[u].got = up[u].got /\ up'[u].since = up[u].since
          /\ up'[u] \in [pc : {"idle", "body", "check", "room", "put", "row"}, got : 0..PER_FILE,
                         since : Nat, part : BOOLEAN]
      BY <3>1, <3>2 DEF Request
    <3>4. QED BY <3>1, <3>3 DEF Request, unwatchedOf, allowedOf
  <2>3. up' \in [Uploaders -> Request]
    BY <2>1, <2>2
  <2>4. Written' = Written /\ Sum(unwatched)' = Sum(unwatched) /\ Sum(allowed)' = Sum(allowed)
    <3>1. Chunks(Uploaders)' = Chunks(Uploaders)
      BY <2>2 DEF Chunks
    <3>2. /\ Heap(unwatched, Uploaders)' = Heap(unwatched, Uploaders)
          /\ Heap(allowed, Uploaders)' = Heap(allowed, Uploaders)
      BY <2>2 DEF Heap, unwatched, allowed
    <3>3. QED BY <3>1, <3>2 DEF Written, Sum
  <2>5. QED BY <1>0, <2>1, <2>3, <2>4 DEF UploadInv, UploadTypeOK, free
<1>9. QED BY <1>4, <1>5, <1>6, <1>7, <1>8

\* The disk and the account keep within what unwatched and raced writes can take.
THEOREM UploadInvariance == UploadSpec => []UploadInv
<1>1. UploadInv /\ [UploadNext]_uploadVars => UploadInv'
  <2> SUFFICES ASSUME UploadInv, [UploadNext]_uploadVars PROVE UploadInv'
    OBVIOUS
  <2>1. CASE UploadNext
    BY <2>1, RequestKeepsUploads, RestKeepsUploads DEF UploadNext
  <2>2. CASE UNCHANGED uploadVars
    BY <2>2 DEF uploadVars, UploadInv, UploadTypeOK, free, Written, Chunks, Sum, Heap, unwatched,
                allowed
  <2>3. QED BY <2>1, <2>2
<1>2. QED BY <1>1, UploadsInitially, PTL DEF UploadSpec

\* While every look at the disk is answered the floor gives way by less than what
\* lies between two looks for every request; and the plan's limit gives way by a file
\* for every request but one, for any number of requests and any limits.
THEOREM FloorAndQuotaStand == UploadSpec => []FloorAndQuotaHold
<1>1. UploadInv => FloorAndQuotaHold
  <2> SUFFICES ASSUME UploadInv PROVE FloorAndQuotaHold
    OBVIOUS
  <2>0. /\ UploadTypeOK /\ up \in [Uploaders -> Request]
        /\ blind \/ free + Sum(unwatched) >= FLOOR - 1
        /\ sources + Sum(allowed) <= CEILING + (Cardinality(Uploaders) - 1) * PER_FILE
    BY DEF UploadInv, UploadTypeOK
  <2>1. /\ Written \in Nat /\ Sum(unwatched) \in Nat /\ Sum(allowed) \in Nat
        /\ Cardinality(Uploaders) \in Nat
    BY WrittenIsSum, HeapIsFinite DEF Sum
  <2>2. Sum(unwatched) <= Cardinality(Uploaders) * (EVERY - 1)
    <3>1. \A u \in Uploaders : unwatched[u] \in Nat /\ unwatched[u] < EVERY
      BY <2>0, NumbersType, UploadsAssumption DEF unwatched
    <3>2. Heap(unwatched, Uploaders) \in SUBSET (Uploaders \X (1..(EVERY - 1)))
      <4>1. ASSUME NEW x \in Heap(unwatched, Uploaders) PROVE x \in Uploaders \X (1..(EVERY - 1))
        <5>1. /\ x \in Uploaders \X (1..PER_FILE) /\ x[1] \in Uploaders /\ x[2] \in 1..PER_FILE
              /\ x[2] <= unwatched[x[1]]
          BY <4>1 DEF Heap
        <5>2. x[2] \in 1..(EVERY - 1)
          BY <3>1, <5>1, UploadsAssumption
        <5>3. QED BY <5>1, <5>2
      <4>2. QED BY <4>1
    <3>3. IsFiniteSet(1..(EVERY - 1)) /\ Cardinality(1..(EVERY - 1)) = EVERY - 1
      BY FS_Interval, UploadsAssumption
    <3>4. /\ IsFiniteSet(Uploaders \X (1..(EVERY - 1)))
          /\ Cardinality(Uploaders \X (1..(EVERY - 1))) = Cardinality(Uploaders) * Cardinality(1..(EVERY - 1))
      BY <3>3, FS_Product, UploadsAssumption
    <3>5. QED BY <3>2, <3>3, <3>4, FS_Subset DEF Sum
  <2>3. ASSUME ~blind PROVE free >= FLOOR - Cardinality(Uploaders) * (EVERY - 1) - 1
    <3> DEFINE most == Cardinality(Uploaders) * (EVERY - 1)
    <3>1. most \in Nat /\ Sum(unwatched) <= most
      BY <2>1, <2>2, UploadsAssumption
    <3>2. free \in Int
      BY <2>0, <2>1, UploadsAssumption DEF free, UploadTypeOK
    <3> HIDE DEF most
    <3>3. free >= FLOOR - most - 1
      BY <2>0, <2>1, <2>3, <3>1, <3>2, UploadsAssumption
    <3>4. QED BY <3>3 DEF most
  <2>4. sources <= CEILING + (Cardinality(Uploaders) - 1) * PER_FILE
    <3> DEFINE bound == CEILING + (Cardinality(Uploaders) - 1) * PER_FILE
    <3>1. bound \in Int /\ sources \in Nat
      BY <2>0, <2>1, UploadsAssumption DEF UploadTypeOK
    <3>2. sources + Sum(allowed) <= bound
      BY <2>0
    <3> HIDE DEF bound
    <3>3. sources <= bound
      BY <2>1, <3>1, <3>2
    <3>4. QED BY <3>3 DEF bound
  <2>5. QED BY <2>3, <2>4 DEF FloorAndQuotaHold
<1>2. QED BY <1>1, UploadInvariance, PTL
=============================================================================
