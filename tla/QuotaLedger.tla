---------------------------- MODULE QuotaLedger ----------------------------
(***************************************************************************)
(* The desktop's ledger of the YouTube Data API's daily allowance          *)
(* (quota.rs): what each call is charged, when, and what a crash leaves of *)
(* it.  Every request goes through MeteredClient.request, from the start   *)
(* of a broadcast, the go-live thread and the chat bot alike.              *)
(*                                                                         *)
(* Days are numbered.  Google's begins at midnight Pacific; the ledger's   *)
(* begins at 08:00 UTC, the same instant in winter and an hour later in    *)
(* summer, so `today` is Google's day or, in that hour, the one before.    *)
(***************************************************************************)
EXTENDS Integers, FiniteSets

CONSTANTS Callers,   \* threads that call YouTube
          Used,      \* the methods they call
          Allowance, \* the cap of the shared pool, in units
          MaxCalls,  \* bound: calls in a behaviour
          LastDay    \* bound: days

ASSUME QuotaAssumption == IsFiniteSet(Callers) /\ Allowance \in Nat

VARIABLES
    ledger,  \* the QuotaState in memory
    stored,  \* the QuotaState in the settings table
    call,    \* per caller: the request under way
    google,  \* Google's own count of its day
    today,   \* quota_day(now)
    calls    \* bound: calls made

quotaVars == <<ledger, stored, call, google, today, calls>>

RESERVE_UNITS == 200
Bucketed == {"search.list", "videos.insert"}
Reads == {"channels.list", "liveBroadcasts.list", "liveStreams.list", "videos.list",
          "liveChatMessages.list"}

(* What the table charges: a read 1, a write or an unknown method 50, and   *)
(* a method with calls of its own 1 unit and one of those calls.           *)
units(m) == IF m \in Reads \cup Bucketed THEN 1 ELSE 50
daily_calls(m) == 100

NewDay(day) == [day |-> day, spent |-> 0, exhausted |-> FALSE,
               bucket_calls |-> [b \in Bucketed |-> 0], shut |-> {}]
NoCall == [pc |-> "none", method |-> "none", charged |-> -1, refused |-> FALSE]

roll_over(s) == IF s.day = today THEN s ELSE NewDay(today)
Floor0(n) == IF n < 0 THEN 0 ELSE n
remaining(s) == IF s.exhausted THEN 0 ELSE Floor0(Floor0(Allowance - RESERVE_UNITS) - s.spent)
bucket_is_exhausted(s, m) == m \in s.shut \/ s.bucket_calls[m] >= daily_calls(m)
can_afford(s, m) ==
    /\ ~s.exhausted /\ units(m) <= remaining(s)
    /\ m \in Bucketed => ~bucket_is_exhausted(s, m)
charge(s, m) ==
    [s EXCEPT !.spent = @ + units(m),
              !.bucket_calls = [b \in Bucketed |-> s.bucket_calls[b] + IF b = m THEN 1 ELSE 0]]
mark_exhausted(s, m) ==
    IF m \in Bucketed THEN [s EXCEPT !.shut = @ \cup {m}] ELSE [s EXCEPT !.exhausted = TRUE]

----------------------------------------------------------------------------
\* Mutant: the count is kept in memory alone.
mut_try_spend(c, m) ==
    /\ call[c].pc = "none" /\ calls < MaxCalls
    /\ calls' = calls + 1
    /\ LET now == roll_over(ledger) IN
       IF can_afford(now, m)
       THEN /\ ledger' = charge(now, m) /\ UNCHANGED stored
            /\ call' = [call EXCEPT ![c] = [pc |-> "send", method |-> m, charged |-> today,
                                            refused |-> FALSE]]
       ELSE ledger' = now /\ UNCHANGED <<stored, call>>
    /\ UNCHANGED <<google, today>>

(* A call is charged, and the ledger stored, before anything is sent. *)
try_spend(c, m) ==
    /\ call[c].pc = "none" /\ calls < MaxCalls
    /\ calls' = calls + 1
    /\ LET now == roll_over(ledger) IN
       IF can_afford(now, m)
       THEN /\ ledger' = charge(now, m) /\ stored' = ledger'
            /\ call' = [call EXCEPT ![c] = [pc |-> "send", method |-> m, charged |-> today,
                                            refused |-> FALSE]]
       ELSE ledger' = now /\ UNCHANGED <<stored, call>>
    /\ UNCHANGED <<google, today>>

(* The request gets through and is counted, whatever the answer, or not.   *)
(* Google refuses what does not fit its own count, or for reasons of its   *)
(* own.                                                                    *)
Reaches(c) ==
    /\ call[c].pc = "send"
    /\ LET m == call[c].method
           own == call[c].charged = google.day
       IN \/ \E refused \in BOOLEAN :
               /\ google.own + google.older + units(m) > Allowance => refused
               /\ google' = IF own THEN [google EXCEPT !.own = @ + units(m)]
                            ELSE [google EXCEPT !.older = @ + units(m)]
               /\ call' = [call EXCEPT ![c] = [pc |-> "answer", method |-> m, charged |-> @.charged,
                                                refused |-> refused]]
          \/ call' = [call EXCEPT ![c] = NoCall] /\ UNCHANGED google
    /\ UNCHANGED <<ledger, stored, today, calls>>

(* Google's quotaExceeded shuts the pool, or the bucket alone; the count    *)
(* is rolled over first.                                                   *)
note_exhausted(c) ==
    /\ call[c].pc = "answer"
    /\ call' = [call EXCEPT ![c] = NoCall]
    /\ IF call[c].refused
       THEN ledger' = mark_exhausted(roll_over(ledger), call[c].method) /\ stored' = ledger'
       ELSE UNCHANGED <<ledger, stored>>
    /\ UNCHANGED <<google, today, calls>>

(* A relaunch takes up the stored count. *)
Relaunch ==
    /\ ledger' = stored
    /\ call' = [c \in Callers |-> NoCall]
    /\ UNCHANGED <<stored, google, today, calls>>

GoogleResets ==
    /\ google.day = today /\ today < LastDay
    /\ google' = [day |-> today + 1, own |-> 0, older |-> 0]
    /\ \/ today' = today + 1
       \/ UNCHANGED today
    /\ UNCHANGED <<ledger, stored, call, calls>>

DayTurns ==
    /\ today < google.day
    /\ today' = today + 1
    /\ UNCHANGED <<ledger, stored, call, google, calls>>

QuotaInit ==
    /\ ledger = NewDay(0) /\ stored = NewDay(0) /\ today = 0 /\ calls = 0
    /\ google = [day |-> 0, own |-> 0, older |-> 0]
    /\ call = [c \in Callers |-> NoCall]

QuotaNext ==
    \/ \E c \in Callers, m \in Used : try_spend(c, m)
    \/ \E c \in Callers : Reaches(c) \/ note_exhausted(c)
    \/ Relaunch \/ GoogleResets \/ DayTurns

QuotaSpec == QuotaInit /\ [][QuotaNext]_quotaVars

----------------------------------------------------------------------------
(* "A relaunch that started the day's count at zero would spend an          *)
(* allowance that is already gone": of what Google counts today, all that  *)
(* was charged today is in the ledger, in memory and on disk, through any  *)
(* crash, and stays short of the allowance by the reserve.  (What was      *)
(* charged to the day before, in the hour between the two midnights or in  *)
(* flight over ours, is not: README.)                                      *)
LedgerCoversGoogle ==
    /\ google.own <= Floor0(Allowance - RESERVE_UNITS)
    /\ google.own > 0 =>
          \A s \in {ledger, stored} : s.day = google.day /\ google.own <= s.spent

=============================================================================
