-------------------------------- MODULE Cctv --------------------------------
(***************************************************************************)
(* The camera catalogue and the broadcasts that show a camera (cctv.rs,    *)
(* the admin handlers over it, and refresh_cctv_urls of manager.rs).       *)
(*                                                                         *)
(* An address is a number.  One operator, one broadcast, the scheduler's   *)
(* tick and the checks run side by side; a check and a refresh hold what   *)
(* they read while others write.                                           *)
(***************************************************************************)
EXTENDS Naturals, FiniteSets

CONSTANTS Rows,        \* catalogue ids, in the order they were added
          Names,       \* cameras as an authority publishes them
          Perishable,  \* those of a region whose addresses expire
          Urls,        \* addresses ever handed out
          Pages,       \* those that are a site's pages and not a stream
          MaxEdits     \* bound: saves of the broadcast by its owner

ASSUME CctvAssumption ==
    /\ 1 \in Rows /\ Rows \subseteq Nat \ {0}
    /\ {1, 2} \subseteq Urls /\ Urls \subseteq Nat \ {0}
    /\ Names # {} /\ MaxEdits \in Nat

VARIABLES
    rows,    \* cctv_sources; checked_ok as the address that was opened, or 0
    bcast,   \* the broadcast: camera id, cctv_url, desired, address on air
    check,   \* the operator's check under way
    tick,    \* refresh_cctv_urls under way
    past     \* history: what the owner typed, edits, races

cctvVars == <<rows, bcast, check, tick, past>>

NoRow0 == [there |-> FALSE, name |-> CHOOSE n \in Names : TRUE, url |-> 0,
           active |-> FALSE, ok |-> 0, recent |-> FALSE]
Row(n, u) == [there |-> TRUE, name |-> n, url |-> u,
              active |-> TRUE, ok |-> 0, recent |-> FALSE]

There == {i \in Rows : rows[i].there}
Newest(s) == CHOOSE i \in s : \A j \in s : j <= i

(* The customer's list: active, opened, and recently so where addresses    *)
(* expire.                                                                 *)
cctv_sources_for_pick ==
    {i \in There : /\ rows[i].active /\ rows[i].ok # 0
                   /\ rows[i].name \in Perishable => rows[i].recent}

----------------------------------------------------------------------------
(* An address may be opened unless it is a page, or its host leads nowhere  *)
(* or inside; where it leads is asked anew each time.                      *)
watch_page_site(u) == u \in Pages
resolve(u) == {"outside", "inside", "nowhere"}
blocked_reason(place) == place = "inside"
validate(u) ==
    IF watch_page_site(u) THEN {FALSE}
    ELSE {place # "nowhere" /\ ~blocked_reason(place) : place \in resolve(u)}
Acceptable(u) == TRUE \in validate(u)

(* An address that is refused is not opened; one that is opened may not     *)
(* answer in time, fail, or have no picture.                               *)
run_with_timeout(u) == {"timeout", "failed", "answer"}
summarise(answer) == {"no video", "camera"}
test_connection(u) ==
    (IF FALSE \in validate(u) THEN {"refused"} ELSE {})
    \cup (IF Acceptable(u)
          THEN (run_with_timeout(u) \ {"answer"}) \cup summarise("answer") ELSE {})

----------------------------------------------------------------------------
(* The operator.  A camera is recognised by its address, else by its name; *)
(* a row that is written again has not been opened.                        *)

\* Mutant: the check of a row outlives the address it was made of.
mut_import_one(n, u) ==
    LET same == {i \in There : rows[i].url = u}
        named == {i \in There : rows[i].name = n}
        known == IF same # {} THEN same ELSE named
    IN
    /\ Acceptable(u)
    /\ IF known # {}
       THEN rows' = [rows EXCEPT ![Newest(known)].url = u, ![Newest(known)].name = n,
                                 ![Newest(known)].active = TRUE]
       ELSE \E i \in Rows \ There :
                /\ \A j \in Rows \ There : i <= j
                /\ rows' = [rows EXCEPT ![i] = Row(n, u)]
    /\ past' = [past EXCEPT !.raced = @ \/ check.id # 0]
    /\ UNCHANGED <<bcast, check, tick>>

import_one(n, u) ==
    LET same == {i \in There : rows[i].url = u}
        named == {i \in There : rows[i].name = n}
        known == IF same # {} THEN same ELSE named
    IN
    /\ Acceptable(u)
    /\ IF known # {}
       THEN rows' = [rows EXCEPT ![Newest(known)] = Row(n, u)]
       ELSE \E i \in Rows \ There :
                /\ \A j \in Rows \ There : i <= j
                /\ rows' = [rows EXCEPT ![i] = Row(n, u)]
    /\ past' = [past EXCEPT !.raced = @ \/ check.id # 0]
    /\ UNCHANGED <<bcast, check, tick>>

(* A check reads the address, opens it for seconds, and writes what it     *)
(* found to the id; a refusal writes nothing, and what an earlier check     *)
(* found stays.                                                            *)
check_cctv_source(i) ==
    /\ check.id = 0 /\ i \in There
    /\ check' = [id |-> i, url |-> rows[i].url]
    /\ UNCHANGED <<rows, bcast, tick, past>>

record_cctv_check ==
    /\ check.id # 0
    /\ \E found \in test_connection(check.url) :
         rows' = IF rows[check.id].there /\ found # "refused"
                 THEN [rows EXCEPT ![check.id].ok = IF found = "camera" THEN check.url ELSE 0,
                                   ![check.id].recent = found = "camera"]
                 ELSE rows
    /\ check' = [id |-> 0, url |-> 0]
    /\ UNCHANGED <<bcast, tick, past>>

set_cctv_source_active(i) ==
    /\ i \in There
    /\ rows' = [rows EXCEPT ![i].active = ~@]
    /\ UNCHANGED <<bcast, check, tick, past>>

delete_cctv_source(i) ==
    /\ i \in There
    /\ rows' = [rows EXCEPT ![i] = NoRow0]
    /\ past' = [past EXCEPT !.raced = @ \/ check.id # 0]
    /\ UNCHANGED <<bcast, check, tick>>

(* The newest row of a name stays, whichever of them a broadcast names. *)
dedupe_cctv_sources ==
    /\ rows' = [i \in Rows |->
                  IF \E j \in There : j > i /\ rows[j].name = rows[i].name
                  THEN NoRow0 ELSE rows[i]]
    /\ past' = [past EXCEPT !.raced = @ \/ check.id # 0]
    /\ UNCHANGED <<bcast, check, tick>>

(* Nothing happens when an address expires: a check grows old. *)
CheckAges ==
    /\ rows' = [i \in Rows |-> [rows[i] EXCEPT !.recent = FALSE]]
    /\ UNCHANGED <<bcast, check, tick, past>>

----------------------------------------------------------------------------
(* The owner saves: the camera, the address, or both.  Any row will do for *)
(* a camera, and any address that may be opened; either may be cleared or  *)
(* left as it was.  The worker is left alone.                              *)

update_broadcast(source, url) ==
    /\ past.edits < MaxEdits
    /\ source \in There \cup {0, bcast.source}
    /\ url \in {0, bcast.url} \/ Acceptable(url)
    /\ bcast' = [bcast EXCEPT !.source = source, !.url = url]
    /\ past' = [past EXCEPT !.edits = @ + 1, !.edited = @ \/ bcast.onair # 0,
                            !.typed = IF source = 0 THEN url ELSE 0]
    /\ UNCHANGED <<rows, check, tick>>

(* The row of the camera when it can answer, the snapshot otherwise. *)
resolve_cctv_url ==
    IF bcast.source \in There /\ rows[bcast.source].active
    THEN rows[bcast.source].url ELSE bcast.url

(* Every start, a restart's and a recovery's too, asks the catalogue and   *)
(* writes down what the worker was launched with; an address that is       *)
(* refused (validate) fails the start.                                     *)
start_worker ==
    \/ /\ Acceptable(resolve_cctv_url)
       /\ bcast' = [bcast EXCEPT !.desired = TRUE, !.url = resolve_cctv_url, !.onair = resolve_cctv_url]
    \/ bcast' = [bcast EXCEPT !.desired = TRUE]

StartCamera ==
    /\ bcast.onair = 0 /\ bcast.url # 0 /\ tick.pc # "start"
    /\ start_worker
    /\ UNCHANGED <<rows, check, tick, past>>

StopCamera ==
    /\ bcast.desired /\ tick.pc # "start"
    /\ bcast' = [bcast EXCEPT !.desired = FALSE, !.onair = 0]
    /\ UNCHANGED <<rows, check, tick, past>>

RunnerDies ==
    /\ bcast.onair # 0 \/ tick.pc # "idle"
    /\ bcast' = [bcast EXCEPT !.onair = 0]
    /\ tick' = [pc |-> "idle", fresh |-> 0]
    /\ UNCHANGED <<rows, check, past>>

----------------------------------------------------------------------------
(* The tick: which running broadcasts have a camera with another address   *)
(* than theirs, and, one after the other, its address adopted and the      *)
(* worker restarted.                                                       *)

\* Mutant: an address that was not opened yet is not handed on.
mut_cctv_urls_needing_refresh ==
    /\ bcast.desired /\ bcast.source \in There
    /\ rows[bcast.source].active /\ rows[bcast.source].ok # 0
    /\ rows[bcast.source].url # bcast.url

cctv_urls_needing_refresh ==
    /\ bcast.desired /\ bcast.source \in There
    /\ rows[bcast.source].active
    /\ rows[bcast.source].url # bcast.url

RefreshReads ==
    /\ tick.pc = "idle" /\ cctv_urls_needing_refresh /\ bcast.onair # 0
    /\ tick' = [pc |-> "adopt", fresh |-> rows[bcast.source].url]
    /\ UNCHANGED <<rows, bcast, check, past>>

adopt_cctv_url ==
    /\ tick.pc = "adopt" /\ Acceptable(tick.fresh)
    /\ bcast' = [bcast EXCEPT !.url = tick.fresh]
    /\ tick' = [tick EXCEPT !.pc = "stop"]
    /\ UNCHANGED <<rows, check, past>>

(* A replacement that could not be used is left for a later tick. *)
RefreshRefused ==
    /\ tick.pc = "adopt"
    /\ tick' = [pc |-> "idle", fresh |-> 0]
    /\ UNCHANGED <<rows, bcast, check, past>>

RestartStops ==
    /\ tick.pc = "stop"
    /\ bcast' = [bcast EXCEPT !.onair = 0]
    /\ tick' = [tick EXCEPT !.pc = "start"]
    /\ UNCHANGED <<rows, check, past>>

RestartStarts ==
    /\ tick.pc = "start"
    /\ IF bcast.url = 0 THEN UNCHANGED bcast ELSE start_worker
    /\ tick' = [pc |-> "idle", fresh |-> 0]
    /\ UNCHANGED <<rows, check, past>>

----------------------------------------------------------------------------
(* A broadcast was saved with the first camera or with a typed address.    *)
(* The catalogue may hold a camera twice, from when the address was its    *)
(* identity.                                                               *)
CctvInit ==
    /\ \E n, m \in Names : rows = [i \in Rows |-> IF i = 1 THEN Row(n, 1)
                                                ELSE IF i = 2 THEN Row(m, 2) ELSE NoRow0]
    /\ bcast \in [source : {0, 1}, url : {1}, desired : {FALSE}, onair : {0}]
    /\ check = [id |-> 0, url |-> 0] /\ tick = [pc |-> "idle", fresh |-> 0]
    /\ past = [typed |-> IF bcast.source = 0 THEN 1 ELSE 0, edits |-> 0, edited |-> FALSE, raced |-> FALSE]

CctvNext ==
    \/ \E n \in Names, u \in Urls : import_one(n, u)
    \/ \E i \in Rows : check_cctv_source(i) \/ set_cctv_source_active(i) \/ delete_cctv_source(i)
    \/ record_cctv_check \/ dedupe_cctv_sources \/ CheckAges
    \/ \E s \in Rows \cup {0}, u \in Urls \cup {0} : update_broadcast(s, u)
    \/ StartCamera \/ StopCamera \/ RunnerDies
    \/ RefreshReads \/ adopt_cctv_url \/ RefreshRefused \/ RestartStops \/ RestartStarts

CctvSpec == CctvInit /\ [][CctvNext]_cctvVars

(* The tick comes back for ever, a broadcast that is wanted is started     *)
(* again by the recovery, and a good address is not refused for ever.      *)
CctvFairness ==
    /\ WF_cctvVars(RefreshReads) /\ SF_cctvVars(adopt_cctv_url)
    /\ WF_cctvVars(RestartStops) /\ WF_cctvVars(RestartStarts)

----------------------------------------------------------------------------
(* "until record_cctv_check has seen FFmpeg open it, it is not offered":   *)
(* every address of the customer's list was opened by this server, unless  *)
(* the catalogue was rewritten while a check was under way.                *)
OfferedWasOpened ==
    ~past.raced => \A i \in cctv_sources_for_pick : rows[i].url = rows[i].ok

(* "the channel is dark" for ever otherwise: a worker on an old address of *)
(* its camera is moved to the new one, while the owner does not save the   *)
(* form over the running broadcast.                                        *)
FreshAddressReachesAir ==
    LET OnOldAddress == /\ bcast.onair # 0 /\ bcast.source \in There
                        /\ rows[bcast.source].active /\ rows[bcast.source].url # bcast.onair
    IN  OnOldAddress ~> (~OnOldAddress \/ past.edited)

(* "None means a hand-typed URL: nobody else refreshes it, and nobody else *)
(* may change it": what the owner typed is what stays on the row.          *)
HandTypedIsKept ==
    bcast.source = 0 /\ past.typed # 0 => bcast.url = past.typed

(* "broadcasts.cctv_url ... is the address the worker was last started     *)
(* with".                                                                  *)
SnapshotIsOnAir == bcast.onair # 0 /\ tick.pc = "idle" => bcast.url = bcast.onair

============================================================================
