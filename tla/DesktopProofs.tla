---------------------------- MODULE DesktopProofs ----------------------------
(***************************************************************************)
(* The desktop's parts around its runtime, proved: what the schedules ask  *)
(* for, for every day length and table; what the library says is ready;    *)
(* what is left on the user's channel; what the chat of a broadcast hears, *)
(* for any number of bots and any lists of messages; and what the ledger   *)
(* knows of Google's count.                                                *)
(***************************************************************************)
EXTENDS ScheduleClock, SchedulerProofs, DesktopLibrary, DesktopChannel, ChatBot, QuotaLedger,
        FiniteSetTheorems, TLAPS

-----------------------------------------------------------------------------
(* The schedules *)

\* A time is a day and a time of day, in one way.
LEMMA TimeOfDay ==
    ASSUME NEW d \in Nat, NEW x \in Clock
    PROVE  /\ d * DayLen \in Nat /\ Day(d * DayLen + x) = d /\ (d * DayLen + x) % DayLen = x
BY DayLenAssumption DEF Day, Clock

\* Every instant is such a time.
LEMMA DayAndTime ==
    ASSUME NEW t \in Nat
    PROVE  Day(t) \in Nat /\ t % DayLen \in Clock /\ t = Day(t) * DayLen + (t % DayLen)
BY DayLenAssumption DEF Day, Clock

\* Days follow one another.
LEMMA DaysFollow ==
    ASSUME NEW c \in Nat, NEW d \in Nat, c < d
    PROVE  c * DayLen + DayLen <= d * DayLen
BY DayLenAssumption

\* What is on a later day is later.
LEMMA LaterDayIsLater ==
    ASSUME NEW c \in Nat, NEW d \in Nat, c < d, NEW x \in Clock, NEW y \in Clock
    PROVE  c * DayLen + x < d * DayLen + y
<1>1. c * DayLen \in Nat /\ d * DayLen \in Nat /\ x \in Nat /\ y \in Nat /\ x < DayLen
  BY DayLenAssumption DEF Clock
<1>2. c * DayLen + DayLen <= d * DayLen
  BY DaysFollow
<1>3. QED BY <1>1, <1>2, DayLenAssumption

\* An instant is a start of a schedule when it is its time of day on one of its
\* days.
LEMMA StartIsOnADay ==
    ASSUME NEW s \in Schedule, NEW t \in Int
    PROVE  IsStart(s, t) <=> \E d \in Nat : Weekday(d) \in s.days /\ t = d * DayLen + s.start
<1>0. s.start \in Clock
  BY DEF Schedule
<1>1. ASSUME IsStart(s, t)
      PROVE  \E d \in Nat : Weekday(d) \in s.days /\ t = d * DayLen + s.start
  <2>1. t \in Nat /\ t % DayLen = s.start /\ Weekday(Day(t)) \in s.days
    BY <1>1 DEF IsStart, Weekday, Day
  <2>2. QED BY <2>1, DayAndTime
<1>2. ASSUME NEW d \in Nat, Weekday(d) \in s.days, t = d * DayLen + s.start
      PROVE  IsStart(s, t)
  <2>1. Day(t) = d /\ t % DayLen = s.start
    BY <1>0, <1>2, TimeOfDay
  <2>2. t >= 0
    BY <1>0, <1>2, TimeOfDay DEF Clock
  <2>3. QED BY <1>2, <2>1, <2>2 DEF IsStart, Weekday, Day
<1>3. QED BY <1>1, <1>2

\* A window lasts what the list shows, a day at the most.
LEMMA WindowLength ==
    ASSUME NEW s \in Schedule, NEW d \in Nat
    PROVE  /\ window_duration(s.start, s.end) \in 1..DayLen
           /\ occurrence_starting_on(s, d) =
                [schedule_id |-> s.schedule_id, start |-> d * DayLen + s.start,
                 end |-> d * DayLen + s.start + window_duration(s.start, s.end)]
<1>1. s.start \in Clock /\ s.end \in Clock /\ DayLen \in Nat \ {0}
  BY DayLenAssumption DEF Schedule
<1> DEFINE b == d * DayLen
<1>2. b \in Nat /\ (d + 1) * DayLen = b + DayLen
  BY <1>1
<1> HIDE DEF b
<1>3. CASE crosses_midnight(s.start, s.end)
  <2>1. window_duration(s.start, s.end) = DayLen - s.start + s.end
    BY <1>3 DEF window_duration
  <2>2. occurrence_starting_on(s, d) = [schedule_id |-> s.schedule_id,
            start |-> b + s.start, end |-> b + DayLen + s.end]
    BY <1>2, <1>3 DEF occurrence_starting_on, b
  <2>3. s.end <= s.start
    BY <1>3 DEF crosses_midnight
  <2>4. window_duration(s.start, s.end) \in 1..DayLen
    BY <1>1, <2>1, <2>3 DEF Clock
  <2>5. b + s.start + window_duration(s.start, s.end) = b + DayLen + s.end
    BY <1>1, <1>2, <2>1 DEF Clock
  <2>6. QED BY <2>2, <2>4, <2>5 DEF b
<1>4. CASE ~crosses_midnight(s.start, s.end)
  <2>1. window_duration(s.start, s.end) = s.end - s.start
    BY <1>4 DEF window_duration
  <2>2. occurrence_starting_on(s, d) = [schedule_id |-> s.schedule_id,
            start |-> b + s.start, end |-> b + s.end]
    BY <1>4 DEF occurrence_starting_on, b
  <2>3. s.start < s.end
    BY <1>1, <1>4 DEF crosses_midnight, Clock
  <2>4. window_duration(s.start, s.end) \in 1..DayLen
    BY <1>1, <2>1, <2>3 DEF Clock
  <2>5. b + s.start + window_duration(s.start, s.end) = b + s.end
    BY <1>1, <1>2, <2>1 DEF Clock
  <2>6. QED BY <2>2, <2>4, <2>5 DEF b
<1>5. QED BY <1>3, <1>4

\* An occurrence is a window of a schedule.
IsWindowOf(s, o) ==
    /\ IsStart(s, o.start) /\ o.start \in Nat
    /\ o = [schedule_id |-> s.schedule_id, start |-> o.start,
            end |-> o.start + window_duration(s.start, s.end)]

\* The windows open at an instant are those that contain it.
LEMMA OpenIsContains ==
    ASSUME NEW s \in Schedule, s.enabled, NEW t \in Nat, NEW o
    PROVE  o \in WindowsAt(s, t) <=> IsWindowOf(s, o) /\ Contains(o, t)
<1> DEFINE length == window_duration(s.start, s.end)
           O(u) == [schedule_id |-> s.schedule_id, start |-> u, end |-> u + length]
<1>1. length \in 1..DayLen /\ length \in Nat
  BY WindowLength, DayLenAssumption
<1> HIDE DEF length
<1>2. WindowsAt(s, t) = {[schedule_id |-> s.schedule_id, start |-> t - k, end |-> t - k + length] :
                           k \in {j \in 0..(length - 1) : IsStart(s, t - j)}}
  BY DEF WindowsAt, length
<1>3. ASSUME o \in WindowsAt(s, t) PROVE IsWindowOf(s, o) /\ Contains(o, t)
  <2>1. PICK k \in 0..(length - 1) : IsStart(s, t - k) /\ o = O(t - k)
    BY <1>2, <1>3
  <2>2. t - k \in Nat /\ t - k <= t /\ t < t - k + length
    BY <1>1, <2>1 DEF IsStart
  <2>3. QED BY <2>1, <2>2 DEF IsWindowOf, Contains, length
<1>4. ASSUME IsWindowOf(s, o), Contains(o, t) PROVE o \in WindowsAt(s, t)
  <2>1. o.start \in Nat /\ o = O(o.start) /\ IsStart(s, o.start)
    BY <1>4 DEF IsWindowOf, length
  <2>2. o.start <= t /\ t < o.start + length
    BY <1>4, <2>1 DEF Contains
  <2>3. PICK k \in 0..(length - 1) : o.start = t - k
    <3>1. t - o.start \in 0..(length - 1) /\ o.start = t - (t - o.start)
      BY <1>1, <2>1, <2>2
    <3>2. QED BY <3>1
  <2>4. QED BY <1>2, <2>1, <2>3
<1>5. QED BY <1>3, <1>4

\* active_occurrences() finds the windows that are open, whichever day they
\* began on.
LEMMA ActiveAreTheOpen ==
    ASSUME NEW s \in Schedule, NEW t \in Nat, t >= DayLen
    PROVE  active_occurrences(s, t) = WindowsAt(s, t)
<1>1. CASE ~s.enabled
  BY <1>1 DEF active_occurrences, WindowsAt
<1>2. CASE s.enabled
  <2>0. DayLen \in Nat \ {0} /\ s.start \in Clock
    BY DayLenAssumption DEF Schedule
  <2>1. Day(t) \in Nat \ {0} /\ t = Day(t) * DayLen + (t % DayLen) /\ t % DayLen \in Clock
    <3>1. Day(t) \in Nat /\ t = Day(t) * DayLen + (t % DayLen) /\ t % DayLen \in Clock
      BY DayAndTime
    <3>2. Day(t) # 0
      BY <2>0, <3>1 DEF Clock
    <3>3. QED BY <3>1, <3>2
  <2>2. active_occurrences(s, t) =
          {o \in {occurrence_starting_on(s, d) :
                    d \in DaysSelected(s, {Day(t) - 1, Day(t)})} : Contains(o, t)}
    BY <1>2, <2>1 DEF active_occurrences
  <2>3. ASSUME NEW o \in active_occurrences(s, t) PROVE o \in WindowsAt(s, t)
    <3>1. PICK d \in {Day(t) - 1, Day(t)} :
             Weekday(d) \in s.days /\ o = occurrence_starting_on(s, d)
      BY <2>2, <2>3 DEF DaysSelected
    <3>2. d \in Nat /\ Contains(o, t)
      BY <2>1, <2>2, <2>3
    <3>3. /\ o.start = d * DayLen + s.start
          /\ o = [schedule_id |-> s.schedule_id, start |-> o.start,
                  end |-> o.start + window_duration(s.start, s.end)]
      BY <3>1, <3>2, WindowLength
    <3>4. o.start \in Nat
      BY <2>0, <3>2, <3>3, TimeOfDay DEF Clock
    <3>5. IsStart(s, o.start)
      BY <3>1, <3>2, <3>3, <3>4, StartIsOnADay
    <3>6. QED BY <1>2, <3>2, <3>3, <3>4, <3>5, OpenIsContains DEF IsWindowOf
  <2>4. ASSUME NEW o \in WindowsAt(s, t) PROVE o \in active_occurrences(s, t)
    <3>1. IsWindowOf(s, o) /\ Contains(o, t)
      BY <1>2, <2>4, OpenIsContains
    <3>2. /\ o.start \in Nat /\ IsStart(s, o.start)
          /\ o = [schedule_id |-> s.schedule_id, start |-> o.start,
                  end |-> o.start + window_duration(s.start, s.end)]
      BY <3>1 DEF IsWindowOf
    <3>3. PICK d \in Nat : Weekday(d) \in s.days /\ o.start = d * DayLen + s.start
      BY <3>2, StartIsOnADay
    <3>4. o = occurrence_starting_on(s, d)
      BY <3>2, <3>3, WindowLength
    <3>5. o.start <= t /\ t < o.start + DayLen
      <4>1. window_duration(s.start, s.end) \in 1..DayLen
        BY WindowLength
      <4>2. o.start <= t /\ t < o.start + window_duration(s.start, s.end)
        BY <3>1, <3>2 DEF Contains
      <4>3. QED BY <2>0, <3>2, <4>1, <4>2
    <3>6. d <= Day(t)
      <4>1. SUFFICES ASSUME Day(t) < d PROVE FALSE
        BY <2>1
      <4>2. Day(t) * DayLen + (t % DayLen) < d * DayLen + s.start
        BY <2>0, <2>1, <4>1, LaterDayIsLater
      <4>3. QED BY <2>1, <3>2, <3>3, <3>5, <4>2
    <3>7. Day(t) <= d + 1
      <4>1. SUFFICES ASSUME d + 1 < Day(t) PROVE FALSE
        BY <2>1
      <4>2. (d + 1) * DayLen + s.start < Day(t) * DayLen + (t % DayLen)
        <5>1. d + 1 \in Nat
          OBVIOUS
        <5>2. QED BY <2>0, <2>1, <4>1, <5>1, LaterDayIsLater
      <4>3. (d + 1) * DayLen + s.start < t
        BY <2>1, <4>2
      <4>4. (d + 1) * DayLen + s.start = o.start + DayLen
        BY <2>0, <3>2, <3>3 DEF Clock
      <4>5. QED BY <2>0, <3>2, <3>5, <4>3, <4>4
    <3>8. d \in DaysSelected(s, {Day(t) - 1, Day(t)})
      BY <2>1, <3>3, <3>6, <3>7 DEF DaysSelected
    <3>9. QED BY <2>2, <3>1, <3>4, <3>8
  <2>5. QED BY <2>3, <2>4
<1>3. QED BY <1>1, <1>2

\* A schedule has one window open at a time: the next begins a day later or
\* more, and no window is longer than that.
LEMMA OneIsOpen ==
    ASSUME NEW s \in Schedule, NEW t \in Nat, NEW o \in WindowsAt(s, t), NEW p \in WindowsAt(s, t)
    PROVE  o = p
<1>0. DayLen \in Nat \ {0} /\ s.start \in Clock
  BY DayLenAssumption DEF Schedule
<1>1. s.enabled
  BY DEF WindowsAt
<1>2. ASSUME NEW w \in WindowsAt(s, t)
      PROVE  \E d \in Nat : /\ w = occurrence_starting_on(s, d)
                            /\ d * DayLen + s.start <= t /\ t < d * DayLen + s.start + DayLen
  <2>1. IsWindowOf(s, w) /\ Contains(w, t)
    BY <1>1, <1>2, OpenIsContains
  <2>2. /\ w.start \in Nat /\ IsStart(s, w.start)
        /\ w = [schedule_id |-> s.schedule_id, start |-> w.start,
                end |-> w.start + window_duration(s.start, s.end)]
    BY <2>1 DEF IsWindowOf
  <2>3. PICK d \in Nat : w.start = d * DayLen + s.start
    BY <2>2, StartIsOnADay
  <2>4. w = occurrence_starting_on(s, d)
    BY <2>2, <2>3, WindowLength
  <2>5. window_duration(s.start, s.end) \in 1..DayLen
    BY WindowLength
  <2>6. w.start <= t /\ t < w.start + window_duration(s.start, s.end)
    BY <2>1, <2>2 DEF Contains
  <2>7. w.start <= t /\ t < w.start + DayLen
    BY <1>0, <2>2, <2>5, <2>6
  <2>8. QED BY <2>3, <2>4, <2>7
<1>3. PICK c \in Nat : /\ o = occurrence_starting_on(s, c)
                       /\ c * DayLen + s.start <= t /\ t < c * DayLen + s.start + DayLen
  BY <1>2
<1>4. PICK d \in Nat : /\ p = occurrence_starting_on(s, d)
                       /\ d * DayLen + s.start <= t /\ t < d * DayLen + s.start + DayLen
  BY <1>2
<1> DEFINE m == c * DayLen
           n == d * DayLen
<1>5. m \in Nat /\ n \in Nat
  BY <1>0
<1>6. (c < d => m + DayLen <= n) /\ (d < c => n + DayLen <= m)
  BY DaysFollow
<1>7. /\ m + s.start <= t /\ t < m + s.start + DayLen
      /\ n + s.start <= t /\ t < n + s.start + DayLen
  BY <1>3, <1>4
<1>8. c = d
  <2> HIDE DEF m, n
  <2>1. ~(c < d) /\ ~(d < c)
    BY <1>0, <1>5, <1>6, <1>7 DEF Clock
  <2>2. QED BY <2>1
<1>9. QED BY <1>3, <1>4, <1>8

\* Every day of the week comes within seven days.
LEMMA WeekdayComes ==
    ASSUME NEW w \in 0..6, NEW d \in Nat
    PROVE  \E e \in (d + 1)..(d + 7) : Weekday(e) = w
<1> DEFINE e == d + 1 + ((w - d - 1) % 7)
<1>1. e \in (d + 1)..(d + 7) /\ e % 7 = w
  OBVIOUS
<1>2. QED BY <1>1 DEF Weekday

\* next_occurrence() names the very next start of a schedule that is on, and
\* there is one.
LEMMA NextIsTheNext ==
    ASSUME NEW s \in Schedule, Valid(s), s.enabled, NEW t \in Nat
    PROVE  LET n == next_occurrence(s, t)
           IN  /\ n.start > t /\ IsStart(s, n.start)
               /\ \A u \in (t + 1)..(n.start - 1) : ~IsStart(s, u)
<1> DEFINE D == DaysSelected(s, Day(t)..(Day(t) + SearchDays - 1))
           A == {o \in {occurrence_starting_on(s, d) : d \in D} : o.start > t}
           n == next_occurrence(s, t)
<1>0. DayLen \in Nat \ {0} /\ s.start \in Clock
  BY DayLenAssumption DEF Schedule
<1>1. Day(t) \in Nat /\ t = Day(t) * DayLen + (t % DayLen) /\ t % DayLen \in Clock
  BY DayAndTime
<1>2. \A d \in D : /\ d \in Nat /\ occurrence_starting_on(s, d) \in Occurrence
                   /\ occurrence_starting_on(s, d).start = d * DayLen + s.start
                   /\ Weekday(d) \in s.days
  <2>1. \A d \in D : d \in Nat /\ Weekday(d) \in s.days
    BY <1>1 DEF DaysSelected, SearchDays
  <2>2. QED BY <2>1, OccurrenceType, WindowLength
<1>3. A \subseteq Occurrence
  BY <1>2
<1>4. A # {}
  <2>1. PICK w \in s.days : w \in 0..6
    BY DEF Valid, Schedule
  <2>2. PICK e \in (Day(t) + 1)..(Day(t) + 7) : Weekday(e) = w
    BY <1>1, <2>1, WeekdayComes
  <2>3. e \in D
    BY <1>1, <2>1, <2>2 DEF DaysSelected, SearchDays
  <2>4. Day(t) * DayLen + (t % DayLen) < e * DayLen + s.start
    <3>1. e \in Nat /\ Day(t) < e
      BY <1>1, <2>2
    <3>2. QED BY <1>0, <1>1, <3>1, LaterDayIsLater
  <2>5. occurrence_starting_on(s, e).start > t
    <3>1. t < e * DayLen + s.start
      BY <1>1, <2>4
    <3>2. occurrence_starting_on(s, e).start = e * DayLen + s.start
      BY <1>2, <2>3
    <3>3. QED BY <3>1, <3>2
  <2>6. QED BY <2>3, <2>5
<1>5. n = CHOOSE o \in A : \A p \in A : o.start <= p.start
  BY <1>4 DEF next_occurrence
<1>6. n \in A /\ \A p \in A : n.start <= p.start
  <2> HIDE DEF A, n
  <2>1. \E o \in A : \A p \in A : o.start <= p.start
    BY <1>3, <1>4, FirstStart
  <2>2. QED BY <1>5, <2>1
<1>7. PICK d \in D : n = occurrence_starting_on(s, d) /\ n.start > t
  BY <1>6
<1>8. n.start = d * DayLen + s.start /\ n.start \in Nat /\ IsStart(s, n.start)
  <2>1. n.start = d * DayLen + s.start /\ d \in Nat /\ Weekday(d) \in s.days
    BY <1>2, <1>7
  <2>2. n \in Occurrence
    BY <1>3, <1>6
  <2>3. n.start \in Nat
    BY <2>2 DEF Occurrence
  <2>4. QED BY <2>1, <2>3, StartIsOnADay
<1>9. ASSUME NEW u \in (t + 1)..(n.start - 1), IsStart(s, u) PROVE FALSE
  <2>1. u \in Nat /\ t < u /\ u < n.start
    BY <1>8
  <2>2. PICK e \in Nat : Weekday(e) \in s.days /\ u = e * DayLen + s.start
    BY <1>9, <2>1, StartIsOnADay
  <2>3. d \in Nat /\ d <= Day(t) + SearchDays - 1
    BY <1>1 DEF DaysSelected, SearchDays
  <2>4. ~(d < e)
    <3>1. SUFFICES ASSUME d < e PROVE FALSE
      OBVIOUS
    <3>2. d * DayLen + s.start < e * DayLen + s.start
      BY <1>0, <2>2, <2>3, <3>1, LaterDayIsLater
    <3>3. QED BY <1>8, <2>1, <2>2, <3>2
  <2>5. ~(e < Day(t))
    <3>1. SUFFICES ASSUME e < Day(t) PROVE FALSE
      OBVIOUS
    <3>2. e * DayLen + s.start < Day(t) * DayLen + (t % DayLen)
      BY <1>0, <1>1, <2>2, <3>1, LaterDayIsLater
    <3>3. QED BY <1>1, <2>1, <2>2, <3>2
  <2>6. e \in Day(t)..(Day(t) + SearchDays - 1)
    BY <1>1, <2>2, <2>3, <2>4, <2>5 DEF SearchDays
  <2>7. e \in D
    BY <2>2, <2>6 DEF DaysSelected
  <2>8. occurrence_starting_on(s, e).start = u
    BY <1>2, <2>2, <2>7
  <2>9. occurrence_starting_on(s, e) \in A
    BY <2>1, <2>7, <2>8
  <2>10. n.start <= u
    BY <1>6, <2>8, <2>9
  <2>11. QED BY <1>8, <2>1, <2>10
<1>10. QED BY <1>7, <1>8, <1>9

\* Tables of schedules that can be saved.
Saved(S) == S \subseteq {s \in Schedule : Valid(s)}

\* What is on the air is an open window of a schedule, and something is when a
\* schedule covers the instant.
Served(S, run, t) ==
    /\ run = NoOcc \/ (run \in Occurrence /\ Contains(run, t) /\ \E s \in S : IsWindowOf(s, run))
    /\ (\E s \in S : WindowsAt(s, t) # {}) => run # NoOcc

ScheduleInv ==
    now \in Nat /\ DayLen <= now /\ Saved(saved) /\ Served(saved, running, now)

\* Asking evaluate() and doing what it says serves the windows, when what was
\* on the air was a window of some schedule.
LEMMA DecideServes ==
    ASSUME NEW S, Saved(S), NEW t \in Nat, DayLen <= t, NEW run,
           run = NoOcc \/ (run \in Occurrence /\ \E s \in S : IsWindowOf(s, run))
    PROVE  Served(S, Decide(S, run, t), t)
<1> DEFINE open == OpenWindows(S, t)
           d == evaluate(S, run, t)
<1>1. S \subseteq Schedule /\ NoOcc \notin Occurrence /\ ~Contains(NoOcc, t)
  BY DEF Saved, NoOcc, Occurrence, Contains
<1>2. \A s \in S : active_occurrences(s, t) = WindowsAt(s, t)
  BY <1>1, ActiveAreTheOpen
<1>3. \A s \in S : \A o \in WindowsAt(s, t) :
         o \in Occurrence /\ Contains(o, t) /\ IsWindowOf(s, o)
  <2> TAKE s \in S
  <2> TAKE o \in WindowsAt(s, t)
  <2>1. s \in Schedule /\ s.enabled
    BY <1>1 DEF WindowsAt
  <2>2. IsWindowOf(s, o) /\ Contains(o, t)
    BY <2>1, OpenIsContains
  <2>3. PICK u \in Nat : o = [schedule_id |-> s.schedule_id, start |-> u,
                              end |-> u + window_duration(s.start, s.end)]
    BY <2>2 DEF IsWindowOf
  <2>4. window_duration(s.start, s.end) \in Nat \ {0} /\ s.schedule_id \in Nat
    BY <2>1, WindowLength, DayLenAssumption DEF Schedule
  <2>5. o \in Occurrence
    BY <2>3, <2>4 DEF Occurrence
  <2>6. QED BY <2>2, <2>5
<1>4. \A s \in S : WindowsAt(s, t) = {} => active_occurrence(s, t) = NoOcc
  BY <1>2 DEF active_occurrence
<1>5. \A s \in S : WindowsAt(s, t) # {} => active_occurrence(s, t) \in WindowsAt(s, t)
  <2> SUFFICES ASSUME NEW s \in S, WindowsAt(s, t) # {}
               PROVE  active_occurrence(s, t) \in WindowsAt(s, t)
    OBVIOUS
  <2> DEFINE A == active_occurrences(s, t)
  <2>1. A = WindowsAt(s, t) /\ A # {} /\ A \subseteq Occurrence
    BY <1>2, <1>3
  <2>2. active_occurrence(s, t) = CHOOSE o \in A : \A p \in A : o.start <= p.start
    BY <2>1 DEF active_occurrence
  <2>3. \E o \in A : \A p \in A : o.start <= p.start
    BY <2>1, FirstStart
  <2>4. active_occurrence(s, t) \in A
    BY <2>2, <2>3
  <2>5. QED BY <2>1, <2>4
<1>6. /\ \A o \in open : o \in Occurrence /\ Contains(o, t) /\ \E s \in S : IsWindowOf(s, o)
      /\ (\E s \in S : WindowsAt(s, t) # {}) => open # {}
  BY <1>1, <1>3, <1>4, <1>5 DEF OpenWindows
<1>7. CASE Contains(run, t)
  <2>1. Decide(S, run, t) = run /\ run # NoOcc
    BY <1>1, <1>7 DEF Decide, evaluate
  <2>2. QED BY <1>1, <1>7, <2>1 DEF Served
<1>8. CASE ~Contains(run, t) /\ open # {}
  <2>1. Decide(S, run, t) = Earliest(open)
    BY <1>8 DEF Decide, evaluate
  <2>2. open \subseteq Occurrence
    BY <1>6
  <2>3. Earliest(open) \in open
    BY <1>8, <2>2, EarliestIsOne
  <2>4. QED BY <1>1, <1>6, <2>1, <2>3 DEF Served
<1>9. CASE ~Contains(run, t) /\ open = {}
  <2>1. Decide(S, run, t) = NoOcc
    BY <1>9 DEF Decide, evaluate
  <2>2. QED BY <1>6, <1>9, <2>1 DEF Served
<1>10. QED BY <1>7, <1>8, <1>9

\* The walk keeps to tables that can be saved and serves their windows.
THEOREM ScheduleInvariance == Spec => []ScheduleInv
<1>1. Init => ScheduleInv
  <2> SUFFICES ASSUME Init PROVE ScheduleInv
    OBVIOUS
  <2>1. now = DayLen /\ running = recover_window(saved, now) /\ saved \in Tables
    BY DEF Init
  <2>2. DayLen \in Nat /\ now \in Nat
    BY <2>1, DayLenAssumption
  <2>3. Saved(saved)
    <3>1. PICK n \in 1..Slots :
             saved \in {{f[i] : i \in 1..n} : f \in {g \in [1..n -> Table] :
                           \A i, j \in 1..n : i < j => g[i].schedule_id < g[j].schedule_id}}
      BY <2>1 DEF Tables
    <3>2. PICK f \in [1..n -> Table] : saved = {f[i] : i \in 1..n}
      BY <3>1
    <3>3. saved \subseteq Table
      BY <3>2
    <3>4. QED BY <3>3, ClockAssumption DEF Saved
  <2>4. running = Decide(saved, NoOcc, now)
    BY <2>1 DEF recover_window, Decide
  <2>5. QED BY <2>1, <2>2, <2>3, <2>4, DecideServes DEF ScheduleInv
<1>2. ScheduleInv /\ [Next]_vars => ScheduleInv'
  <2> SUFFICES ASSUME ScheduleInv, [Next]_vars PROVE ScheduleInv'
    OBVIOUS
  <2>0. /\ now \in Nat /\ DayLen <= now /\ Saved(saved) /\ DayLen \in Nat
        /\ running = NoOcc \/ (running \in Occurrence /\ \E s \in saved : IsWindowOf(s, running))
    BY DayLenAssumption DEF ScheduleInv, Served
  <2>1. CASE Advance
    <3>1. now' = now + 1 /\ saved' = saved /\ running' = Decide(saved, running, now')
      BY <2>1 DEF Advance
    <3>2. now' \in Nat /\ DayLen <= now'
      BY <2>0, <3>1
    <3>3. Served(saved, Decide(saved, running, now'), now')
      BY <2>0, <3>2, DecideServes
    <3>4. QED BY <2>0, <3>1, <3>2, <3>3 DEF ScheduleInv
  <2>2. ASSUME NEW s \in saved, Toggle(s) PROVE ScheduleInv'
    <3> DEFINE toggled == [s EXCEPT !.enabled = ~@]
    <3>1. /\ saved' = (saved \ {s}) \cup {toggled} /\ now' = now
          /\ running' = Decide(saved', running, now)
      BY <2>2 DEF Toggle
    <3>2. s \in Schedule /\ Valid(s)
      BY <2>0 DEF Saved
    <3>3. toggled = [schedule_id |-> s.schedule_id, days |-> s.days, start |-> s.start,
                     end |-> s.end, enabled |-> ~s.enabled]
      BY <3>2 DEF Schedule
    <3>4. /\ toggled \in Schedule /\ Valid(toggled)
          /\ toggled.schedule_id = s.schedule_id /\ toggled.days = s.days
          /\ toggled.start = s.start /\ toggled.end = s.end
      BY <3>2, <3>3 DEF Schedule, Valid
    <3> HIDE DEF toggled
    <3>5. Saved(saved')
      BY <2>0, <3>1, <3>4 DEF Saved
    <3>6. \A o : IsWindowOf(s, o) => IsWindowOf(toggled, o)
      BY <3>4 DEF IsWindowOf, IsStart
    <3>7. running = NoOcc \/ (running \in Occurrence /\ \E r \in saved' : IsWindowOf(r, running))
      BY <2>0, <3>1, <3>6
    <3>8. Served(saved', Decide(saved', running, now), now)
      BY <2>0, <3>5, <3>7, DecideServes
    <3>9. QED BY <2>0, <3>1, <3>5, <3>8 DEF ScheduleInv
  <2>3. CASE UNCHANGED vars
    BY <2>3 DEF vars, ScheduleInv, Saved, Served, Contains, IsWindowOf, IsStart, WindowsAt
  <2>4. QED BY <2>1, <2>2, <2>3 DEF Next
<1>3. QED BY <1>1, <1>2, PTL DEF Spec

\* evaluate()'s two answers are exact, and following them serves every window
\* and nothing else, for every day length and every table of schedules.
THEOREM ScheduleAnswersStayExact == Spec => []ScheduleAnswersAreExact
<1>1. ScheduleInv => ScheduleAnswersAreExact
  <2> SUFFICES ASSUME ScheduleInv PROVE ScheduleAnswersAreExact
    OBVIOUS
  <2>0. now \in Nat /\ DayLen <= now /\ \A s \in saved : s \in Schedule /\ Valid(s)
    BY DEF ScheduleInv, Saved
  <2>1. OpenWindowIsExact
    BY <2>0, ActiveAreTheOpen, OneIsOpen DEF OpenWindowIsExact
  <2>2. NextStartIsExact
    <3> SUFFICES ASSUME NEW s \in saved
                 PROVE  LET n == next_occurrence(s, now)
                        IN  IF s.enabled
                            THEN /\ n.start > now /\ IsStart(s, n.start)
                                 /\ \A t \in (now + 1) .. (n.start - 1) : ~IsStart(s, t)
                            ELSE n = NoOcc
      BY DEF NextStartIsExact
    <3>1. CASE s.enabled
      BY <2>0, <3>1, NextIsTheNext
    <3>2. CASE ~s.enabled
      BY <3>2 DEF next_occurrence
    <3>3. QED BY <3>1, <3>2
  <2>3. CoveredMeansOnAir
    <3>1. /\ running # NoOcc => Contains(running, now) /\ \E s \in saved : IsWindowOf(s, running)
          /\ (\E s \in saved : WindowsAt(s, now) # {}) => running # NoOcc
      BY DEF ScheduleInv, Served
    <3>2. ASSUME running # NoOcc, \A s \in saved : WindowsAt(s, now) = {}
          PROVE  \E s \in saved : ~s.enabled /\ s.schedule_id = running.schedule_id
      <4>1. PICK s \in saved : IsWindowOf(s, running)
        BY <3>1, <3>2
      <4>2. ~s.enabled
        BY <2>0, <3>1, <3>2, <4>1, OpenIsContains
      <4>3. running.schedule_id = s.schedule_id
        BY <4>1 DEF IsWindowOf
      <4>4. QED BY <4>2, <4>3
    <3>3. QED BY <3>1, <3>2 DEF CoveredMeansOnAir
  <2>4. QED BY <2>1, <2>2, <2>3 DEF ScheduleAnswersAreExact
<1>2. QED BY <1>1, ScheduleInvariance, PTL

-----------------------------------------------------------------------------
(* The library *)

Row == [there : BOOLEAN, status : {"none", Waiting, "normalized"}, copy : Profiles \cup {NoCopy}]

Worker == [pc : {"none", "take", "analyse", "estimate", "prepare", "encode", "sidecar", "record",
                 "exit"},
           batch : SUBSET Files, ready : SUBSET Files, job : SUBSET Files,
           profile : Profiles \cup {NoCopy}, cancel : BOOLEAN]

Fate == [changes : Nat, missed : BOOLEAN, raced : BOOLEAN,
         torn : SUBSET (Files \X (Profiles \cup {NoCopy}))]

Store == [files : SUBSET (Files \X Profiles), sidecars : SUBSET (Files \X Profiles)]

LibraryTypeOK ==
    /\ lib \in [Files -> Row] /\ cache \in Store /\ profile \in Profiles
    /\ queue \subseteq Files /\ worker \in Worker
    /\ clear \in {"idle", "clear", "mark"}
    /\ fate \in Fate

\* The worker prepares for a profile, one file at a time.
WorkerIsSound ==
    /\ worker.pc # "none" => worker.profile \in Profiles
    /\ worker.pc \in {"encode", "sidecar", "record"} => worker.job # {}

\* Rows and manifests name files that are there, but for the rows a clear did not
\* come to, and for the moment between the two halves of a clear, when nothing is
\* there and nobody is at work.
FilesStand ==
    /\ IF clear = "mark" THEN cache.files = {} /\ plan = {} /\ worker.pc = "none"
       ELSE /\ plan \subseteq cache.files
            /\ \A m \in Files : is_broadcast_ready(m) =>
                <<m, lib[m].copy>> \in cache.files \cup fate.torn
    /\ worker.pc \in {"sidecar", "record"} => <<Job, worker.profile>> \in cache.files

LibraryInv ==
    /\ LibraryTypeOK
    /\ \A m \in Files : is_broadcast_ready(m) => lib[m].copy # NoCopy
    /\ WorkerIsSound
    /\ clear # "idle" => ~adder
    /\ ~fate.raced => FilesStand

\* update_media_status() writes the row of one media, when there is one.
LEMMA RowWritten ==
    ASSUME lib \in [Files -> Row], NEW m \in Files, NEW status \in {Waiting, "normalized"},
           NEW copy \in Profiles \cup {NoCopy}, update_media_status(m, status, copy)
    PROVE  /\ lib' \in [Files -> Row]
           /\ \A x \in Files \ {m} : lib'[x] = lib[x]
           /\ \/ lib'[m] = lib[m]
              \/ /\ lib'[m].status = status
                 /\ lib'[m].copy = IF copy = NoCopy THEN lib[m].copy ELSE copy
<1>1. CASE ~lib[m].there
  BY <1>1 DEF update_media_status
<1>2. CASE lib[m].there
  <2> DEFINE c == IF copy = NoCopy THEN lib[m].copy ELSE copy
             row == [[lib[m] EXCEPT !.status = status] EXCEPT !.copy = c]
  <2>1. lib' = [lib EXCEPT ![m] = row]
    BY <1>2 DEF update_media_status, Row
  <2>2. lib[m] \in Row
    OBVIOUS
  <2>3. c \in Profiles \cup {NoCopy}
    BY <2>2 DEF Row
  <2>4. row \in Row /\ row.status = status /\ row.copy = c
    BY <2>2, <2>3 DEF Row
  <2> HIDE DEF row
  <2>5. lib' \in [Files -> Row] /\ lib'[m] = row /\ \A x \in Files \ {m} : lib'[x] = lib[x]
    BY <2>1, <2>4
  <2>6. QED BY <2>4, <2>5
<1>3. QED BY <1>1, <1>2

\* Of two steps of the worker: rows that wait are no claim, and a row that is
\* marked ready names a file that is there.
LEMMA RowsStand ==
    ASSUME LibraryInv, NEW m \in Files, NEW status \in {Waiting, "normalized"},
           NEW copy \in Profiles \cup {NoCopy}, update_media_status(m, status, copy),
           status = "normalized" => copy # NoCopy /\ (~fate.raced => <<m, copy>> \in cache.files)
    PROVE  /\ lib' \in [Files -> Row]
           /\ \A x \in Files : is_broadcast_ready(x)' => lib'[x].copy # NoCopy
           /\ ~fate.raced /\ clear # "mark" =>
                \A x \in Files : is_broadcast_ready(x)' =>
                    <<x, lib'[x].copy>> \in cache.files \cup fate.torn
<1>1. /\ lib' \in [Files -> Row]
      /\ \A x \in Files \ {m} : lib'[x] = lib[x]
      /\ \/ lib'[m] = lib[m]
         \/ /\ lib'[m].status = status
            /\ lib'[m].copy = IF copy = NoCopy THEN lib[m].copy ELSE copy
  BY RowWritten DEF LibraryInv, LibraryTypeOK
<1>2. QED
  BY <1>1 DEF LibraryInv, FilesStand, is_broadcast_ready, Waiting

\* The file at work is one of the batch.
LEMMA JobIsOne ==
    ASSUME LibraryInv, worker.pc \in {"encode", "sidecar", "record"}
    PROVE  Job \in Files
<1>1. Job \in worker.job
  BY DEF Job, LibraryInv, WorkerIsSound
<1>2. QED BY <1>1 DEF LibraryInv, LibraryTypeOK, Worker

\* An empty library: nothing is there and nothing is claimed.
LEMMA LibraryInitially == LibraryInit => LibraryInv
<1> SUFFICES ASSUME LibraryInit PROVE LibraryInv
  OBVIOUS
<1>1. profile \in Profiles
  BY LibraryAssumption DEF LibraryInit
<1>2. NoMedia \in Row /\ NoWorker \in Worker
  BY DEF NoMedia, NoWorker, Row, Worker
<1>3. QED
  BY <1>1, <1>2 DEF LibraryInit, LibraryInv, LibraryTypeOK, WorkerIsSound, FilesStand, Store, Fate,
     is_broadcast_ready, NoMedia, NoWorker

\* What the user does: adding, deleting, cancelling, changing the profile.
LEMMA UserKeepsLibrary ==
    ASSUME LibraryInv,
           \/ \E m \in Files : add_media(m) \/ prepare_media(m) \/ delete_media(m)
           \/ spawn_analysis \/ cancel_optimization \/ (\E p \in Profiles : set_profile(p))
    PROVE  LibraryInv'
<1> USE DEF LibraryInv
<1>1. ASSUME NEW m \in Files, add_media(m) PROVE LibraryInv'
  <2> DEFINE row == [there |-> TRUE, status |-> Waiting, copy |-> NoCopy]
  <2>1. row \in Row
    BY DEF Row
  <2>2. /\ lib' \in [Files -> Row]
        /\ \A x \in Files : lib'[x] = lib[x] \/ lib'[x].status = Waiting
    BY <1>1, <2>1 DEF add_media, LibraryTypeOK
  <2>3. /\ cache' = cache /\ clear' = clear /\ plan' = plan /\ worker' = worker /\ fate' = fate
        /\ profile' = profile /\ clear = "idle" /\ queue' \subseteq Files
    BY <1>1 DEF add_media, Free, LibraryTypeOK
  <2>4. QED
    BY <2>2, <2>3 DEF LibraryTypeOK, WorkerIsSound, FilesStand, is_broadcast_ready, Waiting, Job
<1>2. ASSUME NEW m \in Files, prepare_media(m) PROVE LibraryInv'
  BY <1>2 DEF prepare_media, Free, LibraryTypeOK, WorkerIsSound, FilesStand, is_broadcast_ready, Job
<1>3. ASSUME NEW m \in Files, delete_media(m) PROVE LibraryInv'
  <2>1. NoMedia \in Row
    BY DEF Row, NoMedia
  <2>2. /\ lib' \in [Files -> Row]
        /\ \A x \in Files : lib'[x] = lib[x] \/ lib'[x].status = "none"
    BY <1>3, <2>1 DEF delete_media, LibraryTypeOK, NoMedia
  <2>3. QED
    BY <1>3, <2>2 DEF delete_media, LibraryTypeOK, WorkerIsSound, FilesStand, is_broadcast_ready, Job
<1>4. ASSUME spawn_analysis PROVE LibraryInv'
  <2> DEFINE w == [NoWorker EXCEPT !.pc = "take", !.profile = profile]
  <2>1. w \in Worker /\ w.pc = "take" /\ w.profile \in Profiles
    BY DEF NoWorker, Worker, LibraryTypeOK
  <2> HIDE DEF w
  <2>2. /\ worker' = worker \/ worker' = w
        /\ fate' = fate \/ fate' = [fate EXCEPT !.missed = @ \/ worker.pc = "exit"]
    BY <1>4 DEF spawn_analysis, w
  <2>3. fate' \in Fate /\ fate'.raced = fate.raced /\ fate'.torn = fate.torn
    <3>1. (fate.missed \/ worker.pc = "exit") \in BOOLEAN
      BY DEF LibraryTypeOK, Fate
    <3>2. QED BY <2>2, <3>1 DEF LibraryTypeOK, Fate
  <2>4. clear = "idle" /\ adder' = FALSE
    BY <1>4 DEF spawn_analysis
  <2>5. /\ lib' = lib /\ cache' = cache /\ profile' = profile /\ queue' = queue
        /\ clear' = clear /\ plan' = plan
    BY <1>4 DEF spawn_analysis
  <2>6. worker' \in Worker /\ WorkerIsSound'
    BY <2>1, <2>2 DEF LibraryTypeOK, WorkerIsSound
  <2>7. ~fate'.raced => FilesStand'
    BY <2>1, <2>2, <2>3, <2>4, <2>5 DEF FilesStand, is_broadcast_ready, Job
  <2>8. QED BY <2>3, <2>4, <2>5, <2>6, <2>7 DEF LibraryTypeOK, is_broadcast_ready
<1>5. ASSUME cancel_optimization PROVE LibraryInv'
  <2>1. /\ worker' = [worker EXCEPT !.cancel = TRUE]
        /\ fate' = [fate EXCEPT !.changes = @ + 1]
        /\ UNCHANGED <<lib, cache, profile, queue, draining, adder, clear, plan>>
    BY <1>5 DEF cancel_optimization, Changed
  <2>2. /\ worker' \in Worker /\ worker'.pc = worker.pc /\ worker'.job = worker.job
        /\ worker'.profile = worker.profile
    BY <2>1 DEF LibraryTypeOK, Worker
  <2>3. fate' \in Fate /\ fate'.raced = fate.raced /\ fate'.torn = fate.torn
    BY <2>1 DEF LibraryTypeOK, Fate
  <2>4. QED
    BY <2>1, <2>2, <2>3 DEF LibraryTypeOK, WorkerIsSound, FilesStand, is_broadcast_ready, Job
<1>6. ASSUME NEW p \in Profiles, set_profile(p) PROVE LibraryInv'
  <2>1. /\ profile' = p /\ fate' = [fate EXCEPT !.changes = @ + 1]
        /\ UNCHANGED <<lib, cache, queue, draining, adder, worker, clear, plan>>
    BY <1>6 DEF set_profile, Changed
  <2>2. fate' \in Fate /\ fate'.raced = fate.raced /\ fate'.torn = fate.torn
    BY <2>1 DEF LibraryTypeOK, Fate
  <2>3. QED
    BY <2>1, <2>2 DEF LibraryTypeOK, WorkerIsSound, FilesStand, is_broadcast_ready, Job
<1>7. QED BY <1>1, <1>2, <1>3, <1>4, <1>5, <1>6

\* The worker of a step that writes no row and no file.
LEMMA WorkerMoves ==
    ASSUME LibraryInv, UNCHANGED <<lib, cache, profile, clear, plan, fate, adder>>,
           queue' \subseteq Files, worker.pc # "none", worker' \in Worker,
           worker'.pc = "none" \/ worker'.profile = worker.profile,
           worker'.pc \in {"encode", "sidecar", "record"} => worker'.job # {},
           worker'.pc \in {"sidecar", "record"} => <<Job', worker.profile>> \in cache.files
    PROVE  LibraryInv'
<1>1. LibraryTypeOK' /\ WorkerIsSound'
  BY DEF LibraryInv, LibraryTypeOK, WorkerIsSound
<1>2. ~fate'.raced => FilesStand'
  BY DEF LibraryInv, FilesStand, is_broadcast_ready, Worker
<1>3. QED BY <1>1, <1>2 DEF LibraryInv, is_broadcast_ready

\* The worker of a step that may write one row: the row waits, or names a file
\* that is there.
LEMMA WorkerWrites ==
    ASSUME LibraryInv, UNCHANGED <<cache, profile, clear, plan, fate, adder, queue>>,
           worker.pc # "none", worker' \in Worker, worker'.profile = worker.profile,
           worker'.pc \notin {"encode", "sidecar", "record"},
           NEW m \in Files, NEW status \in {Waiting, "normalized"},
           NEW copy \in Profiles \cup {NoCopy}, update_media_status(m, status, copy),
           status = "normalized" => copy # NoCopy /\ (~fate.raced => <<m, copy>> \in cache.files)
    PROVE  LibraryInv'
<1>1. /\ lib' \in [Files -> Row]
      /\ \A x \in Files : is_broadcast_ready(x)' => lib'[x].copy # NoCopy
      /\ ~fate.raced /\ clear # "mark" =>
           \A x \in Files : is_broadcast_ready(x)' =>
                    <<x, lib'[x].copy>> \in cache.files \cup fate.torn
  BY RowsStand
<1>2. ~fate.raced => clear # "mark"
  BY DEF LibraryInv, FilesStand
<1>3. LibraryTypeOK' /\ WorkerIsSound'
  BY <1>1 DEF LibraryInv, LibraryTypeOK, WorkerIsSound
<1>4. ~fate'.raced => FilesStand'
  BY <1>1, <1>2 DEF LibraryInv, FilesStand
<1>5. QED BY <1>1, <1>3, <1>4 DEF LibraryInv

\* Every step of the worker: what it is about to mark ready it has seen in the
\* cache, or has put there.
LEMMA WorkerKeepsLibrary == LibraryInv /\ WorkerSteps => LibraryInv'
<1> SUFFICES ASSUME LibraryInv, WorkerSteps PROVE LibraryInv'
  OBVIOUS
<1>0. /\ worker \in Worker /\ cache \in Store /\ queue \subseteq Files /\ lib \in [Files -> Row]
      /\ (worker.pc # "none" => worker.profile \in Profiles)
      /\ (worker.pc \in {"encode", "sidecar", "record"} => worker.job # {} /\ Job \in Files)
      /\ (~fate.raced => FilesStand)
  BY JobIsOne DEF LibraryInv, LibraryTypeOK, WorkerIsSound
<1>p. NoCopy \notin Profiles /\ NoCopy \in Profiles \cup {NoCopy}
      /\ Waiting \in {Waiting, "normalized"} /\ "normalized" \in {Waiting, "normalized"}
      /\ Waiting # "normalized"
  BY LibraryAssumption DEF Waiting
<1>1. ASSUME TakeBatch PROVE LibraryInv'
  <2>1. /\ worker' \in Worker /\ worker'.pc \in {"exit", "analyse"}
        /\ worker'.profile = worker.profile
    BY <1>0, <1>1 DEF TakeBatch, Worker
  <2>2. QED BY <1>1, <2>1, WorkerMoves DEF TakeBatch
<1>2. ASSUME WorkerEnds PROVE LibraryInv'
  <2>1. worker' \in Worker /\ worker'.pc = "none"
    BY <1>2 DEF WorkerEnds, Worker, NoWorker
  <2>2. QED BY <1>0, <1>2, <2>1, WorkerMoves DEF WorkerEnds
<1>3. ASSUME Analysed PROVE LibraryInv'
  <2>1. /\ worker' \in Worker /\ worker'.pc \in {"take", "estimate"}
        /\ worker'.profile = worker.profile
    BY <1>0, <1>3 DEF Analysed, Worker
  <2>2. QED BY <1>0, <1>3, <2>1, WorkerMoves DEF Analysed
<1>4. ASSUME BatchEnds PROVE LibraryInv'
  <2>1. /\ worker' \in Worker /\ worker'.pc = "take" /\ worker'.profile = worker.profile
    BY <1>0, <1>4 DEF BatchEnds, Worker
  <2>2. QED BY <1>0, <1>4, <2>1, WorkerMoves DEF BatchEnds
<1>5. ASSUME NEW m \in Files, prepare_all(m) PROVE LibraryInv'
  <2> DEFINE pc == IF lookup(m, worker.profile) THEN "record" ELSE "encode"
  <2>1. worker' = [worker EXCEPT !.job = {m}, !.ready = @ \ {m}, !.pc = pc]
        /\ UNCHANGED <<lib, cache, profile, queue, draining, adder, clear, plan, fate>>
        /\ worker.pc = "prepare"
    BY <1>5 DEF prepare_all
  <2>2. pc \in {"record", "encode"} /\ (pc = "record" => <<m, worker.profile>> \in cache.files)
    BY DEF lookup
  <2> HIDE DEF pc
  <2>3. /\ worker' \in Worker /\ worker'.pc = pc /\ worker'.profile = worker.profile
        /\ worker'.job = {m}
    BY <1>0, <2>1, <2>2 DEF Worker
  <2>4. Job' = m
    BY <2>3 DEF Job
  <2>5. QED BY <1>0, <2>1, <2>2, <2>3, <2>4, WorkerMoves
<1>6. ASSUME NEW m \in Files, analyse(m) PROVE LibraryInv'
  <2> DEFINE left == [worker EXCEPT !.batch = @ \ {m}]
             more == [left EXCEPT !.ready = @ \cup {m}]
  <2>1. /\ UNCHANGED <<cache, profile, queue, draining, adder, clear, plan, fate>>
        /\ worker.pc = "analyse" /\ worker.profile \in Profiles
    BY <1>0, <1>6 DEF analyse
  <2>2. /\ left \in Worker /\ left.pc = "analyse" /\ left.profile = worker.profile
        /\ more \in Worker /\ more.pc = "analyse" /\ more.profile = worker.profile
    <3>1. left \in Worker /\ left.pc = "analyse" /\ left.profile = worker.profile
      BY <1>0, <2>1 DEF Worker
    <3> HIDE DEF left
    <3>2. QED BY <3>1 DEF Worker
  <2>3. /\ worker' \in {left, more}
        /\ \/ UNCHANGED lib
           \/ update_media_status(m, Waiting, NoCopy)
           \/ update_media_status(m, "normalized", worker.profile) /\ lookup(m, worker.profile)
    BY <1>6 DEF analyse
  <2> HIDE DEF left, more
  <2>4. /\ worker' \in Worker /\ worker'.pc = "analyse" /\ worker'.profile = worker.profile
    BY <2>2, <2>3
  <2>5. CASE UNCHANGED lib
    BY <1>0, <2>1, <2>4, <2>5, WorkerMoves
  <2>6. CASE update_media_status(m, Waiting, NoCopy)
    BY <1>p, <2>1, <2>4, <2>6, WorkerWrites
  <2>7. CASE update_media_status(m, "normalized", worker.profile) /\ lookup(m, worker.profile)
    <3>1. worker.profile # NoCopy /\ <<m, worker.profile>> \in cache.files
      BY <1>p, <2>1, <2>7 DEF lookup
    <3>2. QED BY <1>p, <2>1, <2>4, <2>7, <3>1, WorkerWrites
  <2>8. QED BY <2>3, <2>5, <2>6, <2>7
<1>7. ASSUME estimate_disk PROVE LibraryInv'
  <2>1. /\ UNCHANGED <<cache, profile, queue, draining, adder, clear, plan, fate>>
        /\ worker.pc = "estimate"
    BY <1>7 DEF estimate_disk
  <2>2. CASE worker' = [worker EXCEPT !.pc = "prepare"] /\ UNCHANGED lib
    <3>1. worker' \in Worker /\ worker'.pc = "prepare" /\ worker'.profile = worker.profile
      BY <1>0, <2>2 DEF Worker
    <3>2. QED BY <1>0, <2>1, <2>2, <3>1, WorkerMoves
  <2>3. CASE /\ lib' = [m \in Files |-> IF m \in worker.ready /\ lib[m].there
                                        THEN [lib[m] EXCEPT !.status = Waiting] ELSE lib[m]]
             /\ worker' = [worker EXCEPT !.pc = "take", !.ready = {}]
    <3>1. worker' \in Worker /\ worker'.pc = "take" /\ worker'.profile = worker.profile
      BY <1>0, <2>3 DEF Worker
    <3>2. \A m \in Files : [lib[m] EXCEPT !.status = Waiting] \in Row
                           /\ [lib[m] EXCEPT !.status = Waiting].status = Waiting
      BY <1>0 DEF Row
    <3>3. lib' \in [Files -> Row] /\ \A m \in Files : lib'[m] = lib[m] \/ lib'[m].status = Waiting
      BY <1>0, <2>3, <3>2
    <3>4. LibraryTypeOK' /\ WorkerIsSound'
      BY <2>1, <3>1, <3>3 DEF LibraryInv, LibraryTypeOK, WorkerIsSound
    <3>5. \A m \in Files : is_broadcast_ready(m)' => is_broadcast_ready(m) /\ lib'[m] = lib[m]
      BY <1>p, <3>3 DEF is_broadcast_ready
    <3>6. ~fate'.raced => FilesStand'
      BY <1>0, <2>1, <3>1, <3>5 DEF FilesStand
    <3>7. QED BY <2>1, <3>4, <3>5, <3>6 DEF LibraryInv
  <2>4. QED BY <1>7, <2>2, <2>3 DEF estimate_disk
<1>8. ASSUME EncodeEnds PROVE LibraryInv'
  <2>1. /\ UNCHANGED <<profile, queue, draining, adder, clear, plan, fate>>
        /\ worker.pc = "encode" /\ Job \in Files
    BY <1>0, <1>8 DEF EncodeEnds
  <2>2. CASE /\ cache' = [cache EXCEPT !.files = @ \cup {<<Job, worker.profile>>}]
             /\ worker' = [worker EXCEPT !.pc = "sidecar"] /\ UNCHANGED lib
    <3>1. /\ worker' \in Worker /\ worker'.pc = "sidecar" /\ worker'.profile = worker.profile
          /\ worker'.job = worker.job
      BY <1>0, <2>2 DEF Worker
    <3>2. cache' \in Store /\ cache'.files = cache.files \cup {<<Job, worker.profile>>}
      BY <1>0, <2>1, <2>2 DEF Store
    <3>3. Job' = Job
      BY <3>1 DEF Job
    <3>4. LibraryTypeOK' /\ WorkerIsSound'
      BY <1>0, <2>1, <2>2, <3>1, <3>2 DEF LibraryInv, LibraryTypeOK, WorkerIsSound
    <3>5. ~fate'.raced => FilesStand'
      BY <1>0, <2>1, <2>2, <3>1, <3>2, <3>3 DEF FilesStand, is_broadcast_ready
    <3>6. QED BY <2>1, <2>2, <3>4, <3>5 DEF LibraryInv, is_broadcast_ready
  <2>3. CASE /\ update_media_status(Job, Waiting, NoCopy)
             /\ worker' = [worker EXCEPT !.pc = "prepare", !.job = {}] /\ UNCHANGED cache
    <3>1. worker' \in Worker /\ worker'.pc = "prepare" /\ worker'.profile = worker.profile
      BY <1>0, <2>3 DEF Worker
    <3>2. QED BY <1>p, <2>1, <2>3, <3>1, WorkerWrites
  <2>4. CASE worker' = [worker EXCEPT !.pc = "take", !.job = {}, !.ready = {}]
             /\ UNCHANGED <<lib, cache>>
    <3>1. worker' \in Worker /\ worker'.pc = "take" /\ worker'.profile = worker.profile
      BY <1>0, <2>4 DEF Worker
    <3>2. QED BY <1>0, <2>1, <2>4, <3>1, WorkerMoves
  <2>5. QED BY <1>8, <2>2, <2>3, <2>4 DEF EncodeEnds
<1>9. ASSUME write_metadata PROVE LibraryInv'
  <2>1. /\ UNCHANGED <<profile, queue, draining, adder, clear, plan, fate>>
        /\ worker.pc = "sidecar" /\ Job \in Files
    BY <1>0, <1>9 DEF write_metadata
  <2>2. CASE /\ cache' = [cache EXCEPT !.sidecars = @ \cup {<<Job, worker.profile>>}]
             /\ worker' = [worker EXCEPT !.pc = "record"] /\ UNCHANGED lib
    <3>1. /\ worker' \in Worker /\ worker'.pc = "record" /\ worker'.profile = worker.profile
          /\ worker'.job = worker.job
      BY <1>0, <2>2 DEF Worker
    <3>2. cache' \in Store /\ cache'.files = cache.files
      BY <1>0, <2>1, <2>2 DEF Store
    <3>3. Job' = Job
      BY <3>1 DEF Job
    <3>4. LibraryTypeOK' /\ WorkerIsSound'
      BY <1>0, <2>1, <2>2, <3>1, <3>2 DEF LibraryInv, LibraryTypeOK, WorkerIsSound
    <3>5. ~fate'.raced => FilesStand'
      BY <1>0, <2>1, <2>2, <3>1, <3>2, <3>3 DEF FilesStand, is_broadcast_ready
    <3>6. QED BY <2>1, <2>2, <3>4, <3>5 DEF LibraryInv, is_broadcast_ready
  <2>3. CASE /\ update_media_status(Job, Waiting, NoCopy)
             /\ worker' = [worker EXCEPT !.pc = "prepare", !.job = {}] /\ UNCHANGED cache
    <3>1. worker' \in Worker /\ worker'.pc = "prepare" /\ worker'.profile = worker.profile
      BY <1>0, <2>3 DEF Worker
    <3>2. QED BY <1>p, <2>1, <2>3, <3>1, WorkerWrites
  <2>4. QED BY <1>9, <2>2, <2>3 DEF write_metadata
<1>10. ASSUME RecordPrepared PROVE LibraryInv'
  <2>1. /\ UNCHANGED <<cache, profile, queue, draining, adder, clear, plan, fate>>
        /\ worker.pc = "record" /\ Job \in Files /\ worker.profile \in Profiles
        /\ update_media_status(Job, "normalized", worker.profile)
        /\ worker' = [worker EXCEPT !.pc = "prepare", !.job = {}]
    BY <1>0, <1>10 DEF RecordPrepared
  <2>2. worker' \in Worker /\ worker'.pc = "prepare" /\ worker'.profile = worker.profile
    BY <1>0, <2>1 DEF Worker
  <2>3. ~fate.raced => <<Job, worker.profile>> \in cache.files
    BY <1>0, <2>1 DEF FilesStand
  <2>4. QED BY <1>p, <2>1, <2>2, <2>3, WorkerWrites
<1>11. QED
  BY <1>1, <1>2, <1>3, <1>4, <1>5, <1>6, <1>7, <1>8, <1>9, <1>10 DEF WorkerSteps

\* What a clear leaves behind is written down.
LEMMA TornIsKept ==
    ASSUME LibraryTypeOK, NEW entries \in SUBSET (Files \X (Profiles \cup {NoCopy}))
    PROVE  /\ Torn(entries) \in Fate /\ Torn(entries).raced = fate.raced
           /\ Torn(entries).changes = fate.changes
           /\ fate.torn \subseteq Torn(entries).torn
           /\ ~fate.raced => entries \subseteq Torn(entries).torn
<1>1. fate \in Fate
  BY DEF LibraryTypeOK
<1>2. CASE fate.raced
  BY <1>1, <1>2 DEF Torn
<1>3. CASE ~fate.raced
  <2>1. Torn(entries) = [fate EXCEPT !.torn = @ \cup entries]
    BY <1>3 DEF Torn
  <2>2. QED BY <1>1, <1>3, <2>1 DEF Fate
<1>4. QED BY <1>2, <1>3

\* What the rows claim are entries.
LEMMA ClaimsAreEntries ==
    ASSUME LibraryTypeOK, NEW rows \in SUBSET Files
    PROVE  /\ Claimed(rows) \in SUBSET (Files \X (Profiles \cup {NoCopy}))
           /\ \A m \in rows : is_broadcast_ready(m) => <<m, lib[m].copy>> \in Claimed(rows)
<1>1. \A m \in Files : lib[m].copy \in Profiles \cup {NoCopy}
  BY DEF LibraryTypeOK, Row
<1>2. QED BY <1>1 DEF Claimed

\* Clearing, starting, stopping and dying.
LEMMA RestKeepsLibrary ==
    ASSUME LibraryInv,
           \/ clear_cache \/ clear_all \/ MarkCleared
           \/ (\E items \in SUBSET Files : build_plan(items))
           \/ stop_broadcast \/ AppDies
    PROVE  LibraryInv'
<1>0. /\ fate \in Fate
      /\ LibraryTypeOK /\ WorkerIsSound /\ (clear # "idle" => ~adder) /\ (~fate.raced => FilesStand)
      /\ \A m \in Files : is_broadcast_ready(m) => lib[m].copy # NoCopy
  BY DEF LibraryInv, LibraryTypeOK
<1>1. ASSUME clear_cache PROVE LibraryInv'
  <2>1. /\ fate' = [fate EXCEPT !.changes = @ + 1] /\ clear' = "clear" /\ clear = "idle" /\ ~adder
        /\ UNCHANGED <<lib, cache, profile, queue, draining, adder, worker, plan>>
    BY <1>1 DEF clear_cache, Changed, Free
  <2>2. fate' \in Fate /\ fate'.raced = fate.raced /\ fate'.torn = fate.torn
    BY <1>0, <2>1 DEF Fate
  <2>3. QED
    BY <1>0, <2>1, <2>2
    DEF LibraryInv, LibraryTypeOK, WorkerIsSound, FilesStand, is_broadcast_ready, Job
<1>2. ASSUME clear_all PROVE LibraryInv'
  <2>1. PICK gone \in SUBSET cache.files, stripped \in SUBSET cache.sidecars :
          /\ cache' = [files |-> cache.files \ gone, sidecars |-> cache.sidecars \ stripped]
          /\ \/ gone = cache.files /\ stripped = cache.sidecars /\ clear' = "mark"
             \/ clear' = "idle"
          /\ fate' = IF worker.pc # "none" \/ plan # {} THEN [fate EXCEPT !.raced = TRUE]
                     ELSE IF clear' = "mark" THEN fate ELSE Torn(gone \cap Claimed(Files))
    BY <1>2 DEF clear_all
  <2>2. clear = "clear" /\ UNCHANGED <<lib, profile, queue, draining, adder, worker, plan>>
    BY <1>2 DEF clear_all
  <2>3. cache' \in Store /\ cache'.files = cache.files \ gone
    BY <1>0, <2>1 DEF LibraryTypeOK, Store
  <2>4. LibraryTypeOK /\ Claimed(Files) \in SUBSET (Files \X (Profiles \cup {NoCopy}))
        /\ (\A m \in Files : is_broadcast_ready(m) => <<m, lib[m].copy>> \in Claimed(Files))
    BY <1>0, ClaimsAreEntries
  <2>5. CASE worker.pc # "none" \/ plan # {}
    <3>1. fate' \in Fate /\ fate'.raced
      BY <1>0, <2>1, <2>5 DEF Fate
    <3>2. QED
      BY <1>0, <2>1, <2>2, <2>3, <3>1
      DEF LibraryInv, LibraryTypeOK, WorkerIsSound, is_broadcast_ready
  <2>6. CASE worker.pc = "none" /\ plan = {} /\ clear' = "mark"
    <3>1. fate' = fate /\ gone = cache.files
      BY <2>1, <2>6
    <3>2. QED
      BY <1>0, <2>1, <2>2, <2>3, <2>6, <3>1
      DEF LibraryInv, LibraryTypeOK, WorkerIsSound, FilesStand, is_broadcast_ready
  <2>7. CASE worker.pc = "none" /\ plan = {} /\ clear' # "mark"
    <3> DEFINE lost == gone \cap Claimed(Files)
    <3>1. fate' = Torn(lost) /\ clear' = "idle"
      BY <2>1, <2>7
    <3>2. lost \in SUBSET (Files \X (Profiles \cup {NoCopy}))
      BY <2>4
    <3>3. \A m \in Files : is_broadcast_ready(m) /\ <<m, lib[m].copy>> \in gone => <<m, lib[m].copy>> \in lost
      BY <2>4
    <3> HIDE DEF lost
    <3>4. /\ fate' \in Fate /\ fate'.raced = fate.raced
          /\ fate.torn \subseteq fate'.torn /\ (~fate.raced => lost \subseteq fate'.torn)
      BY <1>0, <3>1, <3>2, TornIsKept
    <3>5. ~fate'.raced => FilesStand'
      BY <1>0, <2>2, <2>3, <2>7, <3>1, <3>3, <3>4 DEF FilesStand, is_broadcast_ready
    <3>6. QED
      BY <1>0, <2>2, <2>3, <2>7, <3>1, <3>4, <3>5
      DEF LibraryInv, LibraryTypeOK, WorkerIsSound, is_broadcast_ready
  <2>8. QED BY <2>5, <2>6, <2>7
<1>3. ASSUME MarkCleared PROVE LibraryInv'
  <2>1. PICK marked \in SUBSET {m \in Files : lib[m].copy # NoCopy} :
          /\ lib' = [m \in Files |-> IF m \in marked THEN [lib[m] EXCEPT !.status = Waiting]
                                     ELSE lib[m]]
          /\ fate' = Torn(Claimed(Files \ marked))
    BY <1>3 DEF MarkCleared
  <2>2. /\ clear = "mark" /\ clear' = "idle"
        /\ UNCHANGED <<cache, profile, queue, draining, adder, worker, plan>>
    BY <1>3 DEF MarkCleared
  <2>3. \A m \in Files : [lib[m] EXCEPT !.status = Waiting] \in Row
                         /\ [lib[m] EXCEPT !.status = Waiting].status = Waiting
    BY <1>0 DEF LibraryTypeOK, Row
  <2>4. lib' \in [Files -> Row]
    BY <1>0, <2>1, <2>3 DEF LibraryTypeOK
  <2>5. \A m \in Files : is_broadcast_ready(m)' =>
          m \in Files \ marked /\ is_broadcast_ready(m) /\ lib'[m] = lib[m]
    BY <1>0, <2>1, <2>3 DEF is_broadcast_ready, Waiting
  <2> DEFINE left == Claimed(Files \ marked)
  <2>6. /\ left \in SUBSET (Files \X (Profiles \cup {NoCopy}))
        /\ \A m \in Files \ marked : is_broadcast_ready(m) => <<m, lib[m].copy>> \in left
    BY <1>0, ClaimsAreEntries
  <2>7. fate' = Torn(left)
    BY <2>1
  <2> HIDE DEF left
  <2>8. /\ fate' \in Fate /\ fate'.raced = fate.raced
        /\ (~fate.raced => left \subseteq fate'.torn)
    BY <1>0, <2>6, <2>7, TornIsKept
  <2>9. \A m \in Files : is_broadcast_ready(m)' /\ ~fate.raced => <<m, lib'[m].copy>> \in fate'.torn
    BY <2>5, <2>6, <2>8
  <2>10. ~fate'.raced => FilesStand'
    BY <1>0, <2>2, <2>8, <2>9 DEF FilesStand
  <2>11. \A m \in Files : is_broadcast_ready(m)' => lib'[m].copy # NoCopy
    BY <1>0, <2>5
  <2>12. QED
    BY <1>0, <2>2, <2>4, <2>8, <2>10, <2>11 DEF LibraryInv, LibraryTypeOK, WorkerIsSound
<1>4. ASSUME NEW items \in SUBSET Files, build_plan(items) PROVE LibraryInv'
  <2>1. /\ items # {} /\ plan' = {<<m, lib[m].copy>> : m \in items}
        /\ \A m \in items : <<m, lib[m].copy>> \in cache.files
        /\ UNCHANGED <<lib, cache, profile, queue, draining, adder, worker, clear, fate>>
    BY <1>4 DEF build_plan
  <2>2. cache.files # {} /\ plan' \subseteq cache.files
    BY <2>1
  <2>3. QED
    BY <1>0, <2>1, <2>2
    DEF LibraryInv, LibraryTypeOK, WorkerIsSound, FilesStand, is_broadcast_ready, Job
<1>5. ASSUME stop_broadcast PROVE LibraryInv'
  BY <1>0, <1>5
  DEF stop_broadcast, LibraryInv, LibraryTypeOK, WorkerIsSound, FilesStand, is_broadcast_ready, Job
<1>6. ASSUME AppDies PROVE LibraryInv'
  <2> DEFINE lost == IF clear = "mark" THEN Claimed(Files) ELSE {}
             left == Torn(lost)
  <2>1. /\ fate' = [left EXCEPT !.changes = fate.changes + 1]
        /\ queue' = {} /\ adder' = FALSE /\ worker' = NoWorker /\ clear' = "idle" /\ plan' = {}
        /\ UNCHANGED <<lib, cache, profile>>
    BY <1>6 DEF AppDies
  <2>2. /\ lost \in SUBSET (Files \X (Profiles \cup {NoCopy}))
        /\ clear = "mark" => \A m \in Files : is_broadcast_ready(m) => <<m, lib[m].copy>> \in lost
    BY <1>0, ClaimsAreEntries
  <2> HIDE DEF lost
  <2>3. /\ left \in Fate /\ left.raced = fate.raced /\ fate.torn \subseteq left.torn
        /\ (~fate.raced => lost \subseteq left.torn)
    BY <1>0, <2>2, TornIsKept
  <2> HIDE DEF left
  <2>4. fate' \in Fate /\ fate'.raced = left.raced /\ fate'.torn = left.torn
    BY <1>0, <2>1, <2>3 DEF Fate
  <2>5. NoWorker \in Worker /\ NoWorker.pc = "none"
    BY DEF NoWorker, Worker
  <2>6. ~fate'.raced => FilesStand'
    BY <1>0, <2>1, <2>2, <2>3, <2>4, <2>5 DEF FilesStand, is_broadcast_ready
  <2>7. QED
    BY <1>0, <2>1, <2>4, <2>5, <2>6
    DEF LibraryInv, LibraryTypeOK, WorkerIsSound, is_broadcast_ready
<1>7. QED BY <1>1, <1>2, <1>3, <1>4, <1>5, <1>6

\* The invariant of the library holds in every behaviour.
THEOREM LibraryInvariance == LibrarySpec => []LibraryInv
<1>1. LibraryInv /\ [LibraryNext]_libraryVars => LibraryInv'
  <2> SUFFICES ASSUME LibraryInv, [LibraryNext]_libraryVars PROVE LibraryInv'
    OBVIOUS
  <2>1. CASE UNCHANGED libraryVars
    BY <2>1 DEF libraryVars, LibraryInv, LibraryTypeOK, WorkerIsSound, FilesStand,
       is_broadcast_ready, Job
  <2>2. CASE LibraryNext
    BY <2>2, UserKeepsLibrary, WorkerKeepsLibrary, RestKeepsLibrary DEF LibraryNext
  <2>3. QED BY <2>1, <2>2
<1>2. QED BY <1>1, LibraryInitially, PTL DEF LibrarySpec

\* A manifest on air names files that are there, and a row that says it is ready
\* names one, or one that a clear took before it failed or died: unless a clear
\* met the worker or a start.
THEOREM ReadyKeepsItsFile == LibrarySpec => []ReadyHasFile
<1>1. LibraryInv => ReadyHasFile
  BY DEF LibraryInv, FilesStand, ReadyHasFile, Known, Claimed
<1>2. QED BY <1>1, LibraryInvariance, PTL

-----------------------------------------------------------------------------
(* The channel *)

Show == [pc : {"off", "list", "insert", "bind", "apply", "waiting", "live"},
         window : Windows \cup {Elsewhere}, id : Ids \cup {NoId}]

Broadcast == [there : BOOLEAN, window : Windows \cup {Elsewhere},
              life : {"none", "ready", "live", "complete"}, bound : BOOLEAN, auto : BOOLEAN]

ChannelTypeOK ==
    /\ show \in Show /\ tube \in [Ids -> Broadcast]
    /\ live_session \in [id : Ids \cup {NoId}, auto : BOOLEAN, went_live : BOOLEAN]
    /\ GOING_LIVE \in [pc : {"none", "spawned", "asks", "marks"}, id : Ids \cup {NoId}]
    /\ finishing \in BOOLEAN /\ ending \subseteq Ids
    /\ noticed \in {"none", "off", "waiting", "live"}
    /\ past \in [troubles : Nat, left : SUBSET Ids, late : BOOLEAN]

\* A broadcast made for one of the user's windows.
Planned(b) == b \in Ids /\ tube[b].there /\ tube[b].window \in Windows

\* No window has two broadcasts to choose from, and what the user made for
\* another time stays as it was made.
TubeIsSound ==
    /\ \A b, c \in Ids : /\ tube[b].there /\ tube[b].life = "ready"
                         /\ tube[c].there /\ tube[c].life = "ready"
                         /\ tube[b].window = tube[c].window /\ tube[b].window \in Windows
                         => b = c
    /\ \A b \in Ids : tube[b].there /\ tube[b].window = Elsewhere =>
           tube[b].life = "ready" /\ ~tube[b].bound
    /\ \A b \in Ids : tube[b].life # "none" => tube[b].there

\* A preparation works for its window, which has no broadcast when it makes one;
\* on the air the session is the broadcast it bound.
ShowIsSound ==
    /\ show.pc \in {"list", "insert", "bind"} => show.window \in Windows
    /\ show.pc = "insert" => choose_broadcast(show.window) = {}
    /\ show.pc = "bind" => Planned(show.id)
    /\ show.pc # "off" /\ ~past.late => ~finishing /\ noticed # "off"
    /\ show.pc \in {"apply", "waiting", "live"} /\ show.id # NoId /\ ~past.late
         => live_session.id = show.id

\* Only planned broadcasts are taken live, and the session knows of its own
\* whether it starts by itself.
SessionIsSound ==
    /\ live_session # NoSession => Planned(live_session.id)
    /\ live_session.id \in Ids => live_session.auto = tube[live_session.id].auto
    /\ GOING_LIVE.pc \in {"asks", "marks"} => Planned(GOING_LIVE.id)

\* What is live and does not stop by itself is the session's, is being ended,
\* or was left.
LiveIsKnown ==
    \A b \in Ids : tube[b].life = "live" /\ ~tube[b].auto
        => b \in past.left \/ b = live_session.id \/ b \in ending

ChannelInv ==
    ChannelTypeOK /\ TubeIsSound /\ ShowIsSound /\ SessionIsSound /\ LiveIsKnown

\* No session is no broadcast.
LEMMA NoIdIsNone == NoId \notin Ids /\ NoSession.id = NoId /\ Elsewhere \notin Windows
BY ChannelAssumption DEF NoId, Ids, NoSession, Elsewhere

\* The channel begins with at most a broadcast of the user's own.
LEMMA ChannelInitially == ChannelInit => ChannelInv
<1> SUFFICES ASSUME ChannelInit PROVE ChannelInv
  OBVIOUS
<1>1. PICK users \in BOOLEAN :
         tube = [b \in Ids |-> IF b = 1 /\ users
                               THEN [NoBroadcast EXCEPT !.there = TRUE, !.life = "ready"]
                               ELSE NoBroadcast]
  BY DEF ChannelInit
<1>2. \A b \in Ids :
        /\ tube[b] \in Broadcast /\ tube[b].window = Elsewhere /\ ~tube[b].bound
        /\ tube[b].life \in {"none", "ready"}
        /\ tube[b].life = "ready" => tube[b].there
        /\ tube[b].there => tube[b].life = "ready"
  <2> TAKE b \in Ids
  <2>1. CASE b = 1 /\ users
    <3>1. tube[b] = [NoBroadcast EXCEPT !.there = TRUE, !.life = "ready"]
      BY <1>1, <2>1
    <3>2. QED BY <3>1 DEF NoBroadcast, Broadcast
  <2>2. CASE ~(b = 1 /\ users)
    <3>1. tube[b] = NoBroadcast
      BY <1>1, <2>2
    <3>2. QED BY <3>1 DEF NoBroadcast, Broadcast
  <2>3. QED BY <2>1, <2>2
<1>3. tube \in [Ids -> Broadcast]
  BY <1>1, <1>2
<1>4. ChannelTypeOK
  BY <1>3 DEF ChannelInit, ChannelTypeOK, Show, Off, NoSession, NoThread
<1>5. TubeIsSound
  BY <1>2, NoIdIsNone DEF TubeIsSound
<1>6. /\ show.pc = "off" /\ live_session = NoSession /\ GOING_LIVE.pc = "none"
      /\ live_session.id \notin Ids
  BY NoIdIsNone DEF ChannelInit, Off, NoThread
<1>7. ShowIsSound
  BY <1>6 DEF ShowIsSound
<1>8. SessionIsSound /\ LiveIsKnown
  BY <1>2, <1>6 DEF SessionIsSound, LiveIsKnown
<1>9. QED BY <1>4, <1>5, <1>7, <1>8 DEF ChannelInv

\* A preparation that is refused leaves the stream off, or on the air with the
\* broadcast it had bound.
LEMMA RefusedType ==
    ASSUME show \in Show, Refused
    PROVE  /\ show' \in Show /\ show'.pc \in {"off", "waiting"}
           /\ show'.id = NoId \/ (show.pc = "apply" /\ show'.id = show.id)
<1>1. CASE show' = Off
  BY <1>1 DEF Show, Off
<1>2. CASE show' = [Off EXCEPT !.pc = "waiting",
                               !.id = IF show.pc = "apply" THEN show.id ELSE NoId]
  <2>1. PICK i \in Ids \cup {NoId} :
           /\ i = NoId \/ (show.pc = "apply" /\ i = show.id)
           /\ show' = [Off EXCEPT !.pc = "waiting", !.id = i]
    BY <1>2 DEF Show
  <2>2. show' = [pc |-> "waiting", window |-> Elsewhere, id |-> i]
    BY <2>1 DEF Off
  <2>3. QED BY <2>1, <2>2 DEF Show
<1>3. QED BY <1>1, <1>2 DEF Refused

\* The counting of troubles.
LEMMA TroubleType ==
    ASSUME past \in [troubles : Nat, left : SUBSET Ids, late : BOOLEAN],
           Trouble \/ UNCHANGED past
    PROVE  /\ past' \in [troubles : Nat, left : SUBSET Ids, late : BOOLEAN]
           /\ past'.left = past.left /\ past'.late = past.late
BY DEF Trouble

\* Preparing a broadcast.
LEMMA PreparationKeepsChannel ==
    ASSUME ChannelInv,
           \/ \E w \in Windows : prepare_inner(w)
           \/ FindBroadcast \/ (\E answered \in BOOLEAN : create_broadcast(answered))
           \/ bind_broadcast \/ apply_to \/ PrepareFails
    PROVE  ChannelInv'
<1>0. ChannelTypeOK /\ TubeIsSound /\ ShowIsSound /\ SessionIsSound /\ LiveIsKnown
  BY DEF ChannelInv
<1>t. /\ show \in Show /\ tube \in [Ids -> Broadcast]
      /\ past \in [troubles : Nat, left : SUBSET Ids, late : BOOLEAN]
  BY <1>0 DEF ChannelTypeOK
<1>1. ASSUME NEW w \in Windows, prepare_inner(w) PROVE ChannelInv'
  <2> DEFINE late == finishing \/ noticed = "off"
  <2>1. PICK pc \in {"waiting", "list"} :
           show' = [Off EXCEPT !.pc = pc, !.window = IF pc = "list" THEN w ELSE Elsewhere]
    BY <1>1 DEF prepare_inner
  <2>2. /\ past' = [past EXCEPT !.late = late] /\ show.pc = "off"
        /\ UNCHANGED <<tube, live_session, GOING_LIVE, finishing, ending, noticed>>
    BY <1>1 DEF prepare_inner, threads
  <2>3. late \in BOOLEAN /\ (~late => ~finishing /\ noticed # "off")
    OBVIOUS
  <2> HIDE DEF late
  <2>4. /\ past' \in [troubles : Nat, left : SUBSET Ids, late : BOOLEAN]
        /\ past'.late = late /\ past'.left = past.left
    BY <1>t, <2>2, <2>3
  <2>5. /\ show' \in Show /\ show'.pc = pc /\ show'.id = NoId
        /\ pc = "list" => show'.window \in Windows
    BY <2>1 DEF Off, Show
  <2>6. ChannelTypeOK' /\ TubeIsSound' /\ SessionIsSound' /\ LiveIsKnown'
    BY <1>0, <2>2, <2>4, <2>5
    DEF ChannelTypeOK, TubeIsSound, SessionIsSound, LiveIsKnown, Planned
  <2>7. ShowIsSound'
    BY <2>2, <2>3, <2>4, <2>5 DEF ShowIsSound
  <2>8. QED BY <2>6, <2>7 DEF ChannelInv
<1>2. ASSUME FindBroadcast PROVE ChannelInv'
  <2>1. /\ show.pc = "list"
        /\ UNCHANGED <<tube, live_session, past, GOING_LIVE, finishing, ending, noticed>>
    BY <1>2 DEF FindBroadcast, InStep, threads
  <2>2. show.window \in Windows
    BY <1>0, <2>1 DEF ShowIsSound
  <2>3. CASE choose_broadcast(show.window) = {}
    <3>1. show' = [show EXCEPT !.pc = "insert"]
      BY <1>2, <2>3 DEF FindBroadcast, MoveTo
    <3>2. show' \in Show /\ show'.pc = "insert" /\ show'.window = show.window
      BY <1>t, <3>1 DEF Show
    <3>3. choose_broadcast(show.window)' = {}
      BY <2>1, <2>3, <3>2 DEF choose_broadcast
    <3>4. ShowIsSound'
      BY <1>0, <2>1, <2>2, <3>2, <3>3 DEF ShowIsSound
    <3>5. QED
      BY <1>0, <2>1, <3>2, <3>4
      DEF ChannelInv, ChannelTypeOK, TubeIsSound, SessionIsSound, LiveIsKnown, Planned
  <2>4. CASE choose_broadcast(show.window) # {}
    <3>1. PICK b \in choose_broadcast(show.window) :
             show' = [show EXCEPT !.pc = "bind", !.id = b]
      BY <1>2, <2>4 DEF FindBroadcast
    <3>2. b \in Ids /\ Planned(b)
      BY <2>2 DEF choose_broadcast, Planned
    <3>3. show' \in Show /\ show'.pc = "bind" /\ show'.window = show.window /\ show'.id = b
      BY <1>t, <3>1, <3>2 DEF Show
    <3>4. ShowIsSound'
      BY <1>0, <2>1, <2>2, <3>2, <3>3 DEF ShowIsSound, Planned
    <3>5. QED
      BY <1>0, <2>1, <3>3, <3>4
      DEF ChannelInv, ChannelTypeOK, TubeIsSound, SessionIsSound, LiveIsKnown, Planned
  <2>5. QED BY <2>3, <2>4
<1>3. ASSUME NEW answered \in BOOLEAN, create_broadcast(answered) PROVE ChannelInv'
  <2>1. PICK b \in Ids, auto \in BOOLEAN :
           /\ ~tube[b].there
           /\ tube' = [tube EXCEPT ![b] = [there |-> TRUE, window |-> show.window, life |-> "ready",
                                           bound |-> FALSE, auto |-> auto]]
           /\ IF answered
              THEN show' = [show EXCEPT !.pc = "bind", !.id = b] /\ UNCHANGED past
              ELSE Refused /\ Trouble
    BY <1>3 DEF create_broadcast
  <2> DEFINE new == [there |-> TRUE, window |-> show.window, life |-> "ready",
                     bound |-> FALSE, auto |-> auto]
  <2>2. /\ show.pc = "insert"
        /\ UNCHANGED <<live_session, GOING_LIVE, finishing, ending, noticed>>
    BY <1>3 DEF create_broadcast, InStep, threads
  <2>3. show.window \in Windows /\ choose_broadcast(show.window) = {}
    BY <1>0, <2>2 DEF ShowIsSound
  <2>4. new \in Broadcast
    BY <2>3 DEF Broadcast
  <2>5. /\ tube' \in [Ids -> Broadcast] /\ tube'[b] = new
        /\ \A c \in Ids \ {b} : tube'[c] = tube[c]
    BY <1>t, <2>1, <2>4
  <2>6. /\ past' \in [troubles : Nat, left : SUBSET Ids, late : BOOLEAN]
        /\ past'.left = past.left /\ past'.late = past.late
    BY <1>t, <2>1, TroubleType
  <2>7. \A c \in Ids : Planned(c) => Planned(c)' /\ c # b
    BY <2>1, <2>5 DEF Planned
  <2>8. Planned(b)'
    BY <2>3, <2>5 DEF Planned
  <2>9. TubeIsSound'
    <3>1. \A c \in Ids \ {b} :
             ~(tube[c].there /\ tube[c].life = "ready" /\ tube[c].window = show.window)
      BY <2>3 DEF choose_broadcast
    <3>2. QED BY <1>0, <2>3, <2>5, <3>1, NoIdIsNone DEF TubeIsSound
  <2>10. SessionIsSound'
    BY <1>0, <2>2, <2>5, <2>7, NoIdIsNone DEF SessionIsSound, ChannelTypeOK, Planned, NoSession
  <2>11. LiveIsKnown'
    BY <1>0, <2>2, <2>5, <2>6 DEF LiveIsKnown
  <2>12. show' \in Show /\ ShowIsSound'
    <3>1. CASE answered
      <4>1. show' \in Show /\ show'.pc = "bind" /\ show'.window = show.window /\ show'.id = b
        BY <1>t, <2>1, <3>1 DEF Show
      <4>2. QED BY <1>0, <2>2, <2>3, <2>6, <2>8, <4>1 DEF ShowIsSound
    <3>2. CASE ~answered
      <4>1. show' \in Show /\ show'.pc \in {"off", "waiting"} /\ show'.id = NoId
        BY <1>t, <2>1, <2>2, <3>2, RefusedType
      <4>2. QED BY <1>0, <2>2, <2>6, <4>1 DEF ShowIsSound
    <3>3. QED BY <3>1, <3>2
  <2>13. QED
    BY <1>0, <2>2, <2>5, <2>6, <2>9, <2>10, <2>11, <2>12 DEF ChannelInv, ChannelTypeOK
<1>4. ASSUME bind_broadcast PROVE ChannelInv'
  <2> DEFINE b == show.id
             s == [id |-> b, auto |-> tube[b].auto, went_live |-> FALSE]
  <2>1. /\ show.pc = "bind" /\ UNCHANGED <<GOING_LIVE, finishing, ending, noticed>>
        /\ tube' = [tube EXCEPT ![b].bound = TRUE]
        /\ live_session' = s
        /\ show' = [show EXCEPT !.pc = "apply", !.window = Elsewhere]
        /\ past' = IF live_session.id \in {NoId, b} THEN past
                   ELSE [past EXCEPT !.left = @ \cup {live_session.id}]
    BY <1>4 DEF bind_broadcast, InStep, threads
  <2>2. b \in Ids /\ Planned(b) /\ tube[b] \in Broadcast
    BY <1>0, <1>t, <2>1 DEF ShowIsSound, Planned
  <2>3. /\ tube' \in [Ids -> Broadcast]
        /\ \A c \in Ids : /\ tube'[c].there = tube[c].there /\ tube'[c].window = tube[c].window
                          /\ tube'[c].life = tube[c].life /\ tube'[c].auto = tube[c].auto
                          /\ c # b => tube'[c].bound = tube[c].bound
    BY <1>t, <2>1, <2>2 DEF Broadcast
  <2>4. show' \in Show /\ show'.pc = "apply" /\ show'.id = b
    BY <1>t, <2>1 DEF Show
  <2>5. /\ live_session' \in [id : Ids \cup {NoId}, auto : BOOLEAN, went_live : BOOLEAN]
        /\ live_session'.id = b /\ live_session'.auto = tube[b].auto
    BY <2>1, <2>2 DEF Broadcast
  <2>6. /\ past' \in [troubles : Nat, left : SUBSET Ids, late : BOOLEAN]
        /\ past'.late = past.late /\ past.left \subseteq past'.left
        /\ live_session.id \in {NoId, b} \/ live_session.id \in past'.left
    <3>1. live_session.id \in Ids \cup {NoId}
      BY <1>0 DEF ChannelTypeOK
    <3>2. QED BY <1>t, <2>1, <3>1
  <2>7. \A c \in Ids : Planned(c) => Planned(c)'
    BY <2>3 DEF Planned
  <2> HIDE DEF b
  <2>8. TubeIsSound'
    BY <1>0, <2>2, <2>3, NoIdIsNone DEF TubeIsSound, Planned
  <2>9. ShowIsSound'
    BY <1>0, <2>1, <2>4, <2>5, <2>6 DEF ShowIsSound
  <2>10. SessionIsSound'
    BY <1>0, <2>1, <2>2, <2>3, <2>5, <2>7 DEF SessionIsSound, Planned
  <2>11. LiveIsKnown'
    BY <1>0, <2>1, <2>3, <2>5, <2>6, NoIdIsNone DEF LiveIsKnown
  <2>12. QED
    BY <1>0, <2>1, <2>3, <2>4, <2>5, <2>6, <2>8, <2>9, <2>10, <2>11 DEF ChannelInv, ChannelTypeOK
<1>5. ASSUME apply_to PROVE ChannelInv'
  <2>1. /\ show.pc = "apply" /\ show' = [show EXCEPT !.pc = "waiting"]
        /\ UNCHANGED <<tube, live_session, past, GOING_LIVE, finishing, ending, noticed>>
    BY <1>5 DEF apply_to, InStep, MoveTo, threads
  <2>2. show' \in Show /\ show'.pc = "waiting" /\ show'.id = show.id
    BY <1>t, <2>1 DEF Show
  <2>3. ShowIsSound'
    BY <1>0, <2>1, <2>2 DEF ShowIsSound
  <2>4. QED
    BY <1>0, <2>1, <2>2, <2>3
    DEF ChannelInv, ChannelTypeOK, TubeIsSound, SessionIsSound, LiveIsKnown, Planned
<1>6. ASSUME PrepareFails PROVE ChannelInv'
  <2>1. /\ show.pc \in {"list", "insert", "bind", "apply"} /\ Refused
        /\ Trouble \/ UNCHANGED past
        /\ UNCHANGED <<live_session, GOING_LIVE, finishing, ending, noticed>>
        /\ \/ UNCHANGED tube
           \/ show.pc = "bind" /\ tube' = [tube EXCEPT ![show.id].bound = TRUE]
    BY <1>6 DEF PrepareFails, threads
  <2>2. /\ past' \in [troubles : Nat, left : SUBSET Ids, late : BOOLEAN]
        /\ past'.left = past.left /\ past'.late = past.late
    BY <1>t, <2>1, TroubleType
  <2>3. /\ show' \in Show /\ show'.pc \in {"off", "waiting"}
        /\ show'.id = NoId \/ (show.pc = "apply" /\ show'.id = show.id)
    BY <1>t, <2>1, RefusedType
  <2>4. /\ tube' \in [Ids -> Broadcast]
        /\ \A c \in Ids : /\ tube'[c].there = tube[c].there /\ tube'[c].window = tube[c].window
                          /\ tube'[c].life = tube[c].life /\ tube'[c].auto = tube[c].auto
                          /\ tube'[c].bound = tube[c].bound \/ Planned(c)
    <3>1. CASE UNCHANGED tube
      BY <1>t, <3>1
    <3>2. CASE show.pc = "bind" /\ tube' = [tube EXCEPT ![show.id].bound = TRUE]
      <4>1. show.id \in Ids /\ Planned(show.id)
        BY <1>0, <3>2 DEF ShowIsSound, Planned
      <4>2. PICK b \in Ids : b = show.id /\ tube' = [tube EXCEPT ![b].bound = TRUE]
        BY <3>2, <4>1
      <4>3. [tube[b] EXCEPT !.bound = TRUE] \in Broadcast
        BY <1>t DEF Broadcast
      <4>4. tube' \in [Ids -> Broadcast]
        BY <1>t, <4>2, <4>3
      <4>5. /\ \A c \in Ids \ {b} : tube'[c] = tube[c]
            /\ tube'[b] = [tube[b] EXCEPT !.bound = TRUE]
        BY <1>t, <4>2
      <4>6. /\ tube'[b].there = tube[b].there /\ tube'[b].window = tube[b].window
            /\ tube'[b].life = tube[b].life /\ tube'[b].auto = tube[b].auto
        BY <1>t, <4>5 DEF Broadcast
      <4>7. QED BY <4>1, <4>2, <4>4, <4>5, <4>6
    <3>3. QED BY <2>1, <3>1, <3>2
  <2>5. \A c \in Ids : Planned(c) => Planned(c)'
    BY <2>4 DEF Planned
  <2>6. TubeIsSound'
    BY <1>0, <2>4, NoIdIsNone DEF TubeIsSound, Planned
  <2>7. ShowIsSound'
    BY <1>0, <2>1, <2>2, <2>3 DEF ShowIsSound
  <2>8. SessionIsSound' /\ LiveIsKnown'
    BY <1>0, <2>1, <2>2, <2>4, <2>5 DEF SessionIsSound, LiveIsKnown, Planned
  <2>9. QED
    BY <1>0, <2>1, <2>2, <2>3, <2>4, <2>6, <2>7, <2>8 DEF ChannelInv, ChannelTypeOK
<1>7. QED BY <1>1, <1>2, <1>3, <1>4, <1>5, <1>6

\* The stream, YouTube and the tick.
LEMMA StreamKeepsChannel ==
    ASSUME ChannelInv,
           \/ StreamMoves \/ (\E b \in Ids : YoutubeMoves(b))
           \/ TickReads \/ youtube_follow_broadcast
    PROVE  ChannelInv'
<1>0. ChannelTypeOK /\ TubeIsSound /\ ShowIsSound /\ SessionIsSound /\ LiveIsKnown
  BY DEF ChannelInv
<1>t. /\ show \in Show /\ tube \in [Ids -> Broadcast]
  BY <1>0 DEF ChannelTypeOK
<1>1. ASSUME StreamMoves PROVE ChannelInv'
  <2>1. /\ UNCHANGED <<tube, live_session, past, GOING_LIVE, finishing, ending, noticed>>
        /\ show.pc \in {"waiting", "live"}
        /\ \/ \E pc \in {"waiting", "live"} : show' = [show EXCEPT !.pc = pc]
           \/ show' = Off
    BY <1>1 DEF StreamMoves, MoveTo, OnAir, threads
  <2>2. /\ show' \in Show
        /\ show'.pc = "off" \/ (show'.pc \in {"waiting", "live"} /\ show'.id = show.id)
    BY <1>t, <2>1 DEF Show, Off
  <2>3. ShowIsSound'
    BY <1>0, <2>1, <2>2 DEF ShowIsSound
  <2>4. QED
    BY <1>0, <2>1, <2>2, <2>3
    DEF ChannelInv, ChannelTypeOK, TubeIsSound, SessionIsSound, LiveIsKnown, Planned
<1>2. ASSUME NEW b \in Ids, YoutubeMoves(b) PROVE ChannelInv'
  <2>1. /\ UNCHANGED <<show, live_session, past, GOING_LIVE, finishing, ending, noticed>>
        /\ tube[b].auto /\ tube[b].bound /\ tube[b].life \in {"ready", "live"}
        /\ \E life \in {"live", "complete"} : tube' = [tube EXCEPT ![b].life = life]
    BY <1>2 DEF YoutubeMoves, threads
  <2>2. /\ tube' \in [Ids -> Broadcast]
        /\ \A c \in Ids : /\ tube'[c].there = tube[c].there /\ tube'[c].window = tube[c].window
                          /\ tube'[c].bound = tube[c].bound /\ tube'[c].auto = tube[c].auto
                          /\ c # b => tube'[c].life = tube[c].life
        /\ tube'[b].life \in {"live", "complete"}
    BY <1>t, <2>1 DEF Broadcast
  <2>3. TubeIsSound'
    BY <1>0, <2>1, <2>2 DEF TubeIsSound
  <2>4. SessionIsSound' /\ LiveIsKnown'
    BY <1>0, <2>1, <2>2 DEF SessionIsSound, LiveIsKnown, Planned
  <2>5. ShowIsSound'
    BY <1>0, <2>1, <2>2 DEF ShowIsSound, Planned, choose_broadcast
  <2>6. QED BY <1>0, <2>1, <2>2, <2>3, <2>4, <2>5 DEF ChannelInv, ChannelTypeOK
<1>3. ASSUME TickReads PROVE ChannelInv'
  <2>1. /\ UNCHANGED <<show, tube, live_session, past, GOING_LIVE, finishing, ending>>
        /\ noticed' = show.pc /\ show.pc \in {"off", "waiting", "live"}
    BY <1>3 DEF TickReads, OnAir
  <2>2. ShowIsSound'
    BY <1>0, <2>1 DEF ShowIsSound, Planned, choose_broadcast
  <2>3. QED
    BY <1>0, <2>1, <2>2
    DEF ChannelInv, ChannelTypeOK, TubeIsSound, SessionIsSound, LiveIsKnown, Planned
<1>4. ASSUME youtube_follow_broadcast PROVE ChannelInv'
  <2> DEFINE f == finishing \/ (noticed = "off" /\ live_session # NoSession)
             spawned == [NoThread EXCEPT !.pc = "spawned"]
  <2>1. /\ UNCHANGED <<show, tube, live_session, past, ending>>
        /\ noticed' = "none" /\ finishing' = f
        /\ GOING_LIVE' \in {GOING_LIVE, spawned}
    BY <1>4 DEF youtube_follow_broadcast
  <2>2. f \in BOOLEAN /\ (f => finishing \/ noticed = "off")
    BY <1>0 DEF ChannelTypeOK
  <2>3. /\ GOING_LIVE' \in [pc : {"none", "spawned", "asks", "marks"}, id : Ids \cup {NoId}]
        /\ GOING_LIVE' = GOING_LIVE \/ GOING_LIVE'.pc = "spawned"
    BY <1>0, <2>1 DEF ChannelTypeOK, NoThread
  <2> HIDE DEF f
  <2>4. ShowIsSound'
    BY <1>0, <2>1, <2>2 DEF ShowIsSound, Planned, choose_broadcast
  <2>5. SessionIsSound'
    BY <1>0, <2>1, <2>3 DEF SessionIsSound, Planned
  <2>6. QED
    BY <1>0, <2>1, <2>2, <2>3, <2>4, <2>5
    DEF ChannelInv, ChannelTypeOK, TubeIsSound, LiveIsKnown
<1>5. QED BY <1>1, <1>2, <1>3, <1>4

\* The threads that take a broadcast live and end it, and a restart.
LEMMA ThreadsKeepChannel ==
    ASSUME ChannelInv,
           \/ GoLiveFinds \/ try_go_live \/ GoLiveMarks
           \/ FinishTakes \/ (\E b \in Ids : FinishEnds(b))
           \/ AppRestarts
    PROVE  ChannelInv'
<1>0. ChannelTypeOK /\ TubeIsSound /\ ShowIsSound /\ SessionIsSound /\ LiveIsKnown
  BY DEF ChannelInv
<1>t. /\ show \in Show /\ tube \in [Ids -> Broadcast]
      /\ past \in [troubles : Nat, left : SUBSET Ids, late : BOOLEAN]
      /\ live_session \in [id : Ids \cup {NoId}, auto : BOOLEAN, went_live : BOOLEAN]
      /\ GOING_LIVE \in [pc : {"none", "spawned", "asks", "marks"}, id : Ids \cup {NoId}]
  BY <1>0 DEF ChannelTypeOK
<1>n. NoThread \in [pc : {"none", "spawned", "asks", "marks"}, id : Ids \cup {NoId}]
      /\ NoThread.pc = "none"
  BY DEF NoThread
<1>1. ASSUME GoLiveFinds PROVE ChannelInv'
  <2>1. /\ UNCHANGED <<show, tube, live_session, past, finishing, ending, noticed>>
        /\ \/ GOING_LIVE' = NoThread
           \/ /\ GOING_LIVE' = [pc |-> "asks", id |-> live_session.id]
              /\ live_session # NoSession
    BY <1>1 DEF GoLiveFinds
  <2>2. /\ GOING_LIVE' \in [pc : {"none", "spawned", "asks", "marks"}, id : Ids \cup {NoId}]
        /\ GOING_LIVE'.pc = "none" \/ Planned(GOING_LIVE'.id)
    BY <1>0, <1>t, <1>n, <2>1 DEF SessionIsSound
  <2>3. SessionIsSound'
    BY <1>0, <2>1, <2>2 DEF SessionIsSound, Planned
  <2>4. QED
    BY <1>0, <2>1, <2>2, <2>3
    DEF ChannelInv, ChannelTypeOK, TubeIsSound, ShowIsSound, LiveIsKnown, Planned,
        choose_broadcast
<1>2. ASSUME try_go_live PROVE ChannelInv'
  <2> DEFINE b == GOING_LIVE.id
             marks == [GOING_LIVE EXCEPT !.pc = "marks"]
  <2>1. /\ UNCHANGED <<show, live_session, finishing, ending, noticed>>
        /\ GOING_LIVE' \in {marks, NoThread} /\ GOING_LIVE.pc = "asks"
        /\ \/ UNCHANGED tube /\ (Trouble \/ UNCHANGED past)
           \/ /\ go_live_step(b) = "Transition" /\ tube[b].life = "ready"
              /\ tube' = [tube EXCEPT ![b].life = "live"]
              /\ past' = [past EXCEPT !.left = IF live_session.id = b THEN @ ELSE @ \cup {b}]
    BY <1>2 DEF try_go_live
  <2>2. b \in Ids /\ Planned(b)
    BY <1>0, <2>1 DEF SessionIsSound, Planned
  <2>3. /\ GOING_LIVE' \in [pc : {"none", "spawned", "asks", "marks"}, id : Ids \cup {NoId}]
        /\ GOING_LIVE'.pc = "none" \/ GOING_LIVE'.id = b
    BY <1>t, <1>n, <2>1
  <2> HIDE DEF b, marks
  <2>4. CASE UNCHANGED tube /\ (Trouble \/ UNCHANGED past)
    <3>1. /\ past' \in [troubles : Nat, left : SUBSET Ids, late : BOOLEAN]
          /\ past'.left = past.left /\ past'.late = past.late
      BY <1>t, <2>4, TroubleType
    <3>2. SessionIsSound'
      BY <1>0, <2>1, <2>2, <2>3, <2>4 DEF SessionIsSound, Planned
    <3>3. ShowIsSound'
      BY <1>0, <2>1, <2>4, <3>1 DEF ShowIsSound, Planned, choose_broadcast
    <3>4. QED
      BY <1>0, <2>1, <2>3, <2>4, <3>1, <3>2, <3>3
      DEF ChannelInv, ChannelTypeOK, TubeIsSound, LiveIsKnown
  <2>5. CASE /\ tube[b].life = "ready" /\ tube' = [tube EXCEPT ![b].life = "live"]
             /\ past' = [past EXCEPT !.left = IF live_session.id = b THEN @ ELSE @ \cup {b}]
    <3>1. /\ tube' \in [Ids -> Broadcast]
          /\ \A c \in Ids : /\ tube'[c].there = tube[c].there /\ tube'[c].window = tube[c].window
                            /\ tube'[c].bound = tube[c].bound /\ tube'[c].auto = tube[c].auto
                            /\ c # b => tube'[c].life = tube[c].life
          /\ tube'[b].life = "live"
      BY <1>t, <2>2, <2>5 DEF Broadcast
    <3>2. /\ past' \in [troubles : Nat, left : SUBSET Ids, late : BOOLEAN]
          /\ past.left \subseteq past'.left /\ past'.late = past.late
          /\ live_session.id = b \/ b \in past'.left
      BY <1>t, <2>2, <2>5
    <3>3. TubeIsSound'
      BY <1>0, <2>2, <3>1, NoIdIsNone DEF TubeIsSound, Planned
    <3>4. SessionIsSound'
      BY <1>0, <2>1, <2>2, <2>3, <3>1 DEF SessionIsSound, Planned
    <3>5. ShowIsSound'
      BY <1>0, <2>1, <3>1, <3>2 DEF ShowIsSound, Planned, choose_broadcast
    <3>6. LiveIsKnown'
      BY <1>0, <2>1, <3>1, <3>2 DEF LiveIsKnown
    <3>7. QED
      BY <1>0, <2>1, <2>3, <3>1, <3>2, <3>3, <3>4, <3>5, <3>6 DEF ChannelInv, ChannelTypeOK
  <2>6. QED BY <2>1, <2>4, <2>5
<1>3. ASSUME GoLiveMarks PROVE ChannelInv'
  <2>1. /\ UNCHANGED <<show, tube, past, finishing, ending, noticed>>
        /\ GOING_LIVE' = NoThread
        /\ live_session' = [live_session EXCEPT !.went_live = live_session # NoSession]
    BY <1>3 DEF GoLiveMarks
  <2>2. /\ live_session' \in [id : Ids \cup {NoId}, auto : BOOLEAN, went_live : BOOLEAN]
        /\ live_session'.id = live_session.id /\ live_session'.auto = live_session.auto
    BY <1>t, <2>1
  <2>3. live_session' # NoSession => live_session # NoSession
    <3>1. SUFFICES ASSUME live_session = NoSession PROVE live_session' = NoSession
      OBVIOUS
    <3>2. live_session' = [live_session EXCEPT !.went_live = FALSE]
      BY <2>1, <3>1
    <3>3. QED BY <3>1, <3>2 DEF NoSession
  <2>4. SessionIsSound' /\ ShowIsSound' /\ LiveIsKnown'
    BY <1>0, <1>n, <2>1, <2>2, <2>3
    DEF SessionIsSound, ShowIsSound, LiveIsKnown, Planned, choose_broadcast
  <2>5. QED
    BY <1>0, <1>n, <2>1, <2>2, <2>4 DEF ChannelInv, ChannelTypeOK, TubeIsSound
<1>4. ASSUME FinishTakes PROVE ChannelInv'
  <2>1. /\ UNCHANGED <<show, tube, past, GOING_LIVE, noticed>>
        /\ finishing /\ finishing' = FALSE /\ live_session' = NoSession
        /\ ending' = IF live_session = NoSession \/ (live_session.auto /\ ~live_session.went_live)
                     THEN ending ELSE ending \cup {live_session.id}
    BY <1>4 DEF FinishTakes
  <2>2. /\ live_session' \in [id : Ids \cup {NoId}, auto : BOOLEAN, went_live : BOOLEAN]
        /\ live_session'.id = NoId
    BY <2>1 DEF NoSession
  <2>3. ending' \subseteq Ids /\ ending \subseteq ending'
    BY <1>0, <2>1 DEF ChannelTypeOK, SessionIsSound, Planned
  <2>4. SessionIsSound'
    BY <1>0, <2>1, <2>2, NoIdIsNone DEF SessionIsSound, Planned
  <2>5. ShowIsSound'
    BY <1>0, <2>1 DEF ShowIsSound, Planned, choose_broadcast
  <2>6. ASSUME NEW b \in Ids, tube[b].life = "live", ~tube[b].auto, b = live_session.id
        PROVE  b \in ending'
    BY <1>0, <2>1, <2>6, NoIdIsNone DEF SessionIsSound
  <2>7. LiveIsKnown'
    BY <1>0, <2>1, <2>3, <2>6 DEF LiveIsKnown
  <2>8. QED
    BY <1>0, <2>1, <2>2, <2>3, <2>4, <2>5, <2>7 DEF ChannelInv, ChannelTypeOK, TubeIsSound
<1>5. ASSUME NEW b \in Ids, FinishEnds(b) PROVE ChannelInv'
  <2>1. /\ UNCHANGED <<show, live_session, GOING_LIVE, finishing, noticed>>
        /\ ending' = ending \ {b}
        /\ \/ /\ tube' = [tube EXCEPT ![b].life = IF @ = "live" THEN "complete" ELSE @]
              /\ UNCHANGED past
           \/ /\ past' = [past EXCEPT !.troubles = @ + 1, !.left = @ \cup {b}]
              /\ UNCHANGED tube
    BY <1>5 DEF FinishEnds
  <2>2. CASE /\ tube' = [tube EXCEPT ![b].life = IF @ = "live" THEN "complete" ELSE @]
             /\ UNCHANGED past
    <3>1. /\ tube' \in [Ids -> Broadcast]
          /\ \A c \in Ids : /\ tube'[c].there = tube[c].there /\ tube'[c].window = tube[c].window
                            /\ tube'[c].bound = tube[c].bound /\ tube'[c].auto = tube[c].auto
                            /\ c # b => tube'[c].life = tube[c].life
          /\ tube[b].life # "live" => tube'[b].life = tube[b].life
          /\ tube[b].life = "live" => tube'[b].life = "complete"
      BY <1>t, <2>2 DEF Broadcast
    <3>2. TubeIsSound' /\ LiveIsKnown'
      BY <1>0, <2>1, <2>2, <3>1 DEF TubeIsSound, LiveIsKnown
    <3>3. SessionIsSound' /\ ShowIsSound'
      BY <1>0, <2>1, <2>2, <3>1 DEF SessionIsSound, ShowIsSound, Planned, choose_broadcast
    <3>4. QED BY <1>0, <2>1, <2>2, <3>1, <3>2, <3>3 DEF ChannelInv, ChannelTypeOK
  <2>3. CASE /\ past' = [past EXCEPT !.troubles = @ + 1, !.left = @ \cup {b}]
             /\ UNCHANGED tube
    <3>1. /\ past' \in [troubles : Nat, left : SUBSET Ids, late : BOOLEAN]
          /\ past'.left = past.left \cup {b} /\ past'.late = past.late
      <4>1. past.left \cup {b} \in SUBSET Ids /\ past.troubles + 1 \in Nat
        BY <1>t
      <4>2. past' = [troubles |-> past.troubles + 1, left |-> past.left \cup {b},
                     late |-> past.late]
        BY <1>t, <2>3
      <4>3. QED BY <1>t, <4>1, <4>2
    <3>2. LiveIsKnown'
      BY <1>0, <2>1, <2>3, <3>1 DEF LiveIsKnown
    <3>3. SessionIsSound' /\ ShowIsSound'
      BY <1>0, <2>1, <2>3, <3>1 DEF SessionIsSound, ShowIsSound, Planned, choose_broadcast
    <3>4. QED BY <1>0, <2>1, <2>3, <3>1, <3>2, <3>3 DEF ChannelInv, ChannelTypeOK, TubeIsSound
  <2>4. QED BY <2>1, <2>2, <2>3
<1>6. ASSUME AppRestarts PROVE ChannelInv'
  <2>1. /\ past' = [troubles |-> past.troubles + 1, late |-> FALSE,
                    left |-> {b \in Ids : tube[b].there}]
        /\ show' = Off /\ live_session' = NoSession
        /\ GOING_LIVE' = NoThread /\ finishing' = FALSE /\ ending' = {} /\ noticed' = "none"
        /\ UNCHANGED tube
    BY <1>6 DEF AppRestarts
  <2>2. /\ past' \in [troubles : Nat, left : SUBSET Ids, late : BOOLEAN]
        /\ past'.left = {b \in Ids : tube[b].there}
    BY <1>t, <2>1
  <2>3. show' \in Show /\ show'.pc = "off"
    BY <2>1 DEF Off, Show
  <2>4. SessionIsSound'
    BY <1>n, <2>1, NoIdIsNone DEF SessionIsSound
  <2>5. ShowIsSound'
    BY <2>3 DEF ShowIsSound
  <2>6. LiveIsKnown' /\ TubeIsSound'
    BY <1>0, <2>1, <2>2 DEF LiveIsKnown, TubeIsSound
  <2>7. live_session' \in [id : Ids \cup {NoId}, auto : BOOLEAN, went_live : BOOLEAN]
    BY <2>1 DEF NoSession
  <2>8. QED
    BY <1>n, <1>0, <2>1, <2>2, <2>3, <2>4, <2>5, <2>6, <2>7 DEF ChannelInv, ChannelTypeOK
<1>7. QED BY <1>1, <1>2, <1>3, <1>4, <1>5, <1>6

\* The invariant of the channel holds in every behaviour.
THEOREM ChannelInvariance == ChannelSpec => []ChannelInv
<1>1. ChannelInv /\ [ChannelNext]_channelVars => ChannelInv'
  <2> SUFFICES ASSUME ChannelInv, [ChannelNext]_channelVars PROVE ChannelInv'
    OBVIOUS
  <2>1. CASE UNCHANGED channelVars
    BY <2>1 DEF channelVars, ChannelInv, ChannelTypeOK, TubeIsSound, ShowIsSound, SessionIsSound,
       LiveIsKnown, Planned, choose_broadcast
  <2>2. CASE ChannelNext
    BY <2>2, PreparationKeepsChannel, StreamKeepsChannel, ThreadsKeepChannel DEF ChannelNext
  <2>3. QED BY <2>1, <2>2
<1>2. QED BY <1>1, ChannelInitially, PTL DEF ChannelSpec

\* One broadcast per window, a session that is the broadcast on the air, and
\* nothing left live that does not stop by itself.
THEOREM ChannelStaysKept == ChannelSpec => []ChannelIsKept
<1>1. ChannelInv => ChannelIsKept
  <2> SUFFICES ASSUME ChannelInv PROVE ChannelIsKept
    OBVIOUS
  <2>1. ASSUME NEW w \in Windows PROVE Cardinality(choose_broadcast(w)) <= 1
    <3>1. CASE choose_broadcast(w) = {}
      BY <3>1, FS_EmptySet
    <3>2. CASE choose_broadcast(w) # {}
      <4>1. PICK b : b \in choose_broadcast(w)
        BY <3>2
      <4>2. choose_broadcast(w) = {b}
        BY <2>1, <4>1 DEF ChannelInv, TubeIsSound, choose_broadcast
      <4>3. QED BY <4>2, FS_Singleton
    <3>3. QED BY <3>1, <3>2
  <2>2. OneBroadcastPerWindow
    BY <2>1 DEF OneBroadcastPerWindow, ChannelInv, TubeIsSound
  <2>3. AirHasItsSession
    BY DEF AirHasItsSession, ChannelInv, ShowIsSound, OnAir
  <2>4. NothingLeftLive
    BY NoIdIsNone DEF NothingLeftLive, Settled, ChannelInv, LiveIsKnown
  <2>5. QED BY <2>2, <2>3, <2>4 DEF ChannelIsKept
<1>2. QED BY <1>1, ChannelInvariance, PTL

-----------------------------------------------------------------------------
(* The chat bot *)

Bot == [pc : {"none", "running", "sending", "paused", "ended"}, stop : BOOLEAN, chat : BOOLEAN,
        cursor : Nat, last_sent : Texts \cup {Silence}, due : BOOLEAN,
        sending : Texts \cup {Silence}, heard : Texts \cup {Silence}, told : BOOLEAN,
        again : SUBSET {"known", "unknown"}, after : Nat]

\* A cursor points into the list, so that a text can be read there.
InList(bot) == Len(settings.active) > 0 => bot.cursor < Len(settings.active)

\* What a bot has been told is in the chat is its last_sent, which is how it
\* repeats nothing that it knows of.
Remembers(bot) ==
    Varied => /\ "known" \notin bot.again
              /\ bot.told /\ bot.heard # Silence => bot.last_sent = bot.heard

Sends(bot) ==
    bot.pc = "sending" =>
        /\ bot.sending \in Texts /\ (Varied => bot.sending # bot.last_sent)
        /\ bot.after = 0

\* One that has been let go has at most its last call to come back from, and
\* then its farewell to say.
WindsDown(bot) ==
    /\ bot.after <= 2
    /\ bot.pc \notin {"none", "ended"} => bot.after <= 1 /\ (~bot.stop => bot.after = 0)

Sound(bot) == bot \in Bot /\ InList(bot) /\ Remembers(bot) /\ Sends(bot) /\ WindsDown(bot)

ChatInv ==
    /\ settings \in ChatSettings
    /\ bots \in [Bots -> Bot]
    /\ \A b \in Bots : Sound(bots[b])
    /\ OneBotStays

----------------------------------------------------------------------------
\* The next place of the rotation is a place of the list, and another one
\* when there are two.
LEMMA FollowingPlace ==
    ASSUME NEW n \in Nat, n > 0, NEW i \in 0..(n - 1)
    PROVE  Following(n, i) \in 0..(n - 1) /\ (n > 1 => Following(n, i) # i)
<1>1. CASE i + 1 = n
  BY <1>1 DEF Following
<1>2. CASE i + 1 < n
  BY <1>2 DEF Following
<1>3. QED BY <1>1, <1>2

\* ChatScheduler::pick returns a message of the list and a cursor into it.
LEMMA PickType ==
    ASSUME NEW active \in Seq(Texts), Len(active) > 0, NEW order, NEW avoid \in BOOLEAN,
           NEW cursor \in 0..(Len(active) - 1), NEW last, NEW rand \in 0..(Len(active) - 1)
    PROVE  LET p == pick(active, order, avoid, cursor, last, rand)
           IN p.text \in Texts /\ p.cursor \in 0..(Len(active) - 1)
<1> DEFINE n == Len(active)
           chosen == IF order = "sequential" THEN Sequential(active, cursor)
                     ELSE Random(active, cursor, last, avoid, rand)
<1>1. \A i \in 0..(n - 1) : active[i + 1] \in Texts /\ Following(n, i) \in 0..(n - 1)
  <2>1. n \in Nat /\ n > 0
    OBVIOUS
  <2>2. \A i \in 0..(n - 1) : active[i + 1] \in Texts
    OBVIOUS
  <2>3. \A i \in 0..(n - 1) : Following(n, i) \in 0..(n - 1)
    <3> HIDE DEF n
    <3>1. QED BY <2>1, FollowingPlace
  <2>4. QED BY <2>2, <2>3
<1>2. chosen.text \in Texts /\ chosen.cursor \in 0..(n - 1)
  BY <1>1 DEF Sequential, Random
<1> HIDE DEF chosen
<1>3. pick(active, order, avoid, cursor, last, rand) =
          IF avoid /\ n > 1 /\ chosen.text = last
          THEN [text |-> IF active[chosen.cursor + 1] # last THEN active[chosen.cursor + 1]
                         ELSE chosen.text,
                cursor |-> Following(n, chosen.cursor)]
          ELSE chosen
  BY DEF pick, chosen
<1>4. QED BY <1>1, <1>2, <1>3

\* It never returns the last message again, in either order, when the list
\* holds two or more different ones and repeats are to be avoided.
LEMMA PickVaries ==
    ASSUME NEW active \in Seq(Texts), Len(active) > 1, Distinct(active), NEW order,
           NEW cursor \in 0..(Len(active) - 1), NEW last, NEW rand \in 0..(Len(active) - 1)
    PROVE  pick(active, order, TRUE, cursor, last, rand).text # last
<1> DEFINE n == Len(active)
<1>1. \A i, j \in 0..(n - 1) : i # j => active[i + 1] # active[j + 1]
  <2>1. \A i \in 0..(n - 1) : i + 1 \in DOMAIN active
    OBVIOUS
  <2>2. QED BY <2>1 DEF Distinct
<1>2. \A i \in 0..(n - 1) : /\ Following(n, i) \in 0..(n - 1)
                            /\ active[Following(n, i) + 1] # active[i + 1]
  <2>1. n \in Nat /\ n > 1
    OBVIOUS
  <2>2. \A i \in 0..(n - 1) : Following(n, i) \in 0..(n - 1) /\ Following(n, i) # i
    <3> HIDE DEF n
    <3>1. n > 0
      BY <2>1
    <3>2. QED BY <2>1, <3>1, FollowingPlace
  <2>3. QED BY <1>1, <2>2
<1>3. CASE order = "sequential"
  BY <1>2, <1>3 DEF pick, Sequential
<1>4. CASE order # "sequential"
  <2>1. Random(active, cursor, last, TRUE, rand).text # last
    BY <1>2 DEF Random
  <2>2. QED BY <1>4, <2>1 DEF pick
<1>5. QED BY <1>3, <1>4

\* What is picked for a bot is a text of its list, and not the one it last knew
\* to be posted.
LEMMA PickedIsNew ==
    ASSUME ChatInv, NEW b \in Bots, NEW p \in Picks(b)
    PROVE  /\ p.text \in Texts /\ p.cursor \in Nat
           /\ Len(settings.active) > 0 => p.cursor < Len(settings.active)
           /\ Varied => p.text # bots[b].last_sent
<1> DEFINE active == settings.active
<1>1. active \in Seq(Texts) /\ settings.avoid_repeats = TRUE
  BY ListsAreTexts DEF ChatInv, ChatSettings
<1>2. bots[b] \in Bot /\ InList(bots[b])
  BY DEF ChatInv, Sound
<1>3. PICK rand \in 0..(Len(active) - 1) :
          p = pick(active, settings.order, TRUE, bots[b].cursor, bots[b].last_sent, rand)
  BY <1>1 DEF Picks
<1>4. Len(active) > 0 /\ bots[b].cursor \in 0..(Len(active) - 1)
  BY <1>1, <1>2 DEF InList, Bot
<1>5. p.text \in Texts /\ p.cursor \in 0..(Len(active) - 1)
  BY <1>1, <1>3, <1>4, PickType
<1>6. Distinct(active) /\ Len(active) > 1 => p.text # bots[b].last_sent
  BY <1>1, <1>3, <1>4, PickVaries
<1>7. QED BY <1>1, <1>5, <1>6 DEF Varied

\* A message that has reached the chat.
LEMMA PostedFields ==
    ASSUME NEW bot \in Bot, NEW text \in Texts, NEW told \in BOOLEAN
    PROVE  LET q == Posted(bot, text, told) IN
           /\ q \in Bot /\ q.pc = bot.pc /\ q.stop = bot.stop /\ q.cursor = bot.cursor
           /\ q.last_sent = bot.last_sent /\ q.heard = text /\ q.told = told
           /\ "known" \in q.again => "known" \in bot.again \/ (text = bot.heard /\ bot.told)
           /\ q.after = IF bot.stop THEN bot.after + 1 ELSE bot.after
<1> DEFINE twice == IF text # bot.heard THEN bot.again
                    ELSE bot.again \cup {IF bot.told THEN "known" ELSE "unknown"}
           late == IF bot.stop THEN bot.after + 1 ELSE bot.after
<1>1. /\ twice \in SUBSET {"known", "unknown"} /\ late \in Nat
      /\ "known" \in twice => "known" \in bot.again \/ (text = bot.heard /\ bot.told)
  BY DEF Bot
<1>2. Posted(bot, text, told) =
        [bot EXCEPT !.heard = text, !.told = told, !.again = twice, !.after = late]
  BY DEF Posted
<1> HIDE DEF twice, late
<1> DEFINE q == [bot EXCEPT !.heard = text, !.told = told, !.again = twice, !.after = late]
<1>3. /\ q.pc = bot.pc /\ q.stop = bot.stop /\ q.cursor = bot.cursor
      /\ q.last_sent = bot.last_sent /\ q.heard = text /\ q.told = told
      /\ q.again = twice /\ q.after = late
  BY <1>1 DEF Bot
<1>4. q \in Bot
  BY <1>1 DEF Bot
<1> HIDE DEF q
<1>5. Posted(bot, text, told) = q
  BY <1>2 DEF q
<1>6. late = IF bot.stop THEN bot.after + 1 ELSE bot.after
  BY DEF late
<1>7. QED BY <1>1, <1>3, <1>4, <1>5, <1>6

\* A bot that goes on, to run or to wait: all it needs is what it remembers.
LEMMA GoesOnSound ==
    ASSUME NEW bot \in Bot, InList(bot), Remembers(bot), bot.after <= 1,
           ~bot.stop => bot.after = 0, NEW pc \in {"running", "paused"}
    PROVE  /\ Sound([bot EXCEPT !.pc = pc])
           /\ [bot EXCEPT !.pc = pc].stop = bot.stop /\ [bot EXCEPT !.pc = pc].pc = pc
<1> DEFINE q == [bot EXCEPT !.pc = pc]
<1>1. /\ q \in Bot /\ q.pc = pc /\ q.stop = bot.stop /\ q.cursor = bot.cursor
      /\ q.last_sent = bot.last_sent /\ q.heard = bot.heard /\ q.told = bot.told
      /\ q.again = bot.again /\ q.after = bot.after
  BY DEF Bot
<1> HIDE DEF q
<1>2. InList(q) /\ Remembers(q)
  BY <1>1 DEF InList, Remembers
<1>3. Sends(q) /\ WindsDown(q)
  <2>1. bot.after \in Nat /\ pc # "sending"
    BY DEF Bot
  <2>2. QED BY <1>1, <2>1 DEF Sends, WindsDown
<1>4. Sound(q)
  BY <1>1, <1>2, <1>3 DEF Sound
<1>5. QED BY <1>1, <1>4 DEF q

\* The invariant holds at first and is kept by every step.
LEMMA NewBotIsSound ==
    ASSUME settings \in ChatSettings
    PROVE  /\ NoBot \in Bot /\ Sound(NoBot)
           /\ \A due \in BOOLEAN :
                Sound([NoBot EXCEPT !.pc = "running", !.chat = TRUE, !.due = due])
           /\ Sound([NoBot EXCEPT !.pc = "running"])
<1>1. settings.active \in Seq(Texts)
  BY ListsAreTexts DEF ChatSettings
<1>2. NoBot \in Bot
  <2>1. 0 \in Nat /\ Silence \in Texts \cup {Silence} /\ {} \in SUBSET {"known", "unknown"}
    OBVIOUS
  <2>2. "none" \in {"none", "running", "sending", "paused", "ended"}
    OBVIOUS
  <2>3. QED BY <2>1, <2>2, Zenon DEF NoBot, Bot
<1>3. /\ NoBot.cursor = 0 /\ NoBot.again = {} /\ NoBot.heard = Silence /\ NoBot.after = 0
      /\ NoBot.pc = "none" /\ ~NoBot.stop
  BY DEF NoBot
<1>4. InList(NoBot) /\ Remembers(NoBot)
  BY <1>1, <1>3 DEF InList, Remembers
<1>5. Sound(NoBot)
  BY <1>2, <1>3, <1>4 DEF Sound, Sends, WindsDown
<1>6. Sound([NoBot EXCEPT !.pc = "running"])
  <2>1. NoBot.after <= 1 /\ "running" \in {"running", "paused"}
    BY <1>3
  <2>2. QED BY <1>2, <1>3, <1>4, <2>1, GoesOnSound, Zenon
<1>7. ASSUME NEW due \in BOOLEAN
      PROVE  Sound([NoBot EXCEPT !.pc = "running", !.chat = TRUE, !.due = due])
  <2> DEFINE q == [NoBot EXCEPT !.chat = TRUE, !.due = due]
  <2>1. /\ q \in Bot /\ q.cursor = 0 /\ q.again = {} /\ q.heard = Silence /\ q.after = 0 /\ ~q.stop
    BY <1>2, <1>3 DEF Bot
  <2>2. [q EXCEPT !.pc = "running"] = [NoBot EXCEPT !.pc = "running", !.chat = TRUE, !.due = due]
    BY DEF NoBot
  <2> HIDE DEF q
  <2>3. InList(q) /\ Remembers(q)
    BY <1>1, <2>1 DEF InList, Remembers
  <2>4. Sound([q EXCEPT !.pc = "running"])
    <3>1. q.after <= 1 /\ "running" \in {"running", "paused"}
      BY <2>1
    <3>2. QED BY <2>1, <2>3, <3>1, GoesOnSound, Zenon
  <2>5. QED BY <2>2, <2>4
<1>8. QED BY <1>2, <1>5, <1>6, <1>7

\* A thread that has ended keeps its history and nothing else.
LEMMA EndedIsSound ==
    ASSUME settings \in ChatSettings, NEW bot \in Bot, Varied => "known" \notin bot.again,
           bot.after <= 2
    PROVE  Sound(Ended(bot)) /\ Ended(bot).pc = "ended"
<1> DEFINE q == Ended(bot)
<1>1. /\ q \in Bot /\ q.pc = "ended" /\ q.cursor = 0 /\ q.heard = Silence
      /\ q.again = bot.again /\ q.after = bot.after
  BY NewBotIsSound DEF Ended, Bot, NoBot
<1> HIDE DEF q
<1>2. InList(q)
  BY <1>1, ListsAreTexts DEF InList, ChatSettings
<1>3. Sound(q)
  BY <1>1, <1>2 DEF Sound, Remembers, Sends, WindsDown
<1>4. QED BY <1>1, <1>3 DEF q

\* The invariant holds at first.
LEMMA ChatInitially == ChatInit => ChatInv
<1> SUFFICES ASSUME ChatInit PROVE ChatInv
  OBVIOUS
<1>1. settings \in ChatSettings /\ Sound(NoBot)
  BY NewBotIsSound DEF ChatInit
<1>2. NoBot.pc = "none"
  BY DEF NoBot
<1>3. QED BY <1>1, <1>2 DEF ChatInit, ChatInv, Sound, OneBotStays, is_running

\* A step of a bot's own thread changes that bot alone, keeps it sound and
\* does not call it back from its way out.
LEMMA OwnStep ==
    ASSUME ChatInv, UNCHANGED <<settings, attached>>, NEW b \in Bots, NEW bot,
           Becomes(b, bot), Sound(bot),
           bot.pc \notin {"none", "ended"} /\ ~bot.stop => is_running(b) /\ ~bots[b].stop
    PROVE  ChatInv'
<1>1. bots' = [bots EXCEPT ![b] = bot] /\ bots \in [Bots -> Bot]
  BY DEF Becomes, ChatInv
<1>2. bots' \in [Bots -> Bot] /\ \A c \in Bots : bots'[c] = IF c = b THEN bot ELSE bots[c]
  BY <1>1 DEF Sound
<1>3. \A c \in Bots : Sound(bots[c])'
  BY <1>2 DEF ChatInv, Sound, InList, Remembers, Sends, WindsDown, Varied
<1>4. OneBotStays'
  BY <1>2 DEF ChatInv, OneBotStays, is_running
<1>5. QED BY <1>2, <1>3, <1>4 DEF ChatInv

\* A failure ends a bot or makes it wait.
LEMMA FailingKeeps ==
    ASSUME ChatInv, UNCHANGED <<settings, attached>>, NEW b \in Bots, NEW code, NEW bot \in Bot,
           Fails(b, code, bot), InList(bot), Remembers(bot), bot.after <= 1,
           ~bot.stop => bot.after = 0, is_running(b), bot.stop = bots[b].stop
    PROVE  ChatInv'
<1>1. settings \in ChatSettings
  BY DEF ChatInv
<1>2. bot.after <= 2 /\ (Varied => "known" \notin bot.again)
  BY DEF Bot, Remembers
<1>3. CASE is_fatal_for_bot(code)
  <2>1. Becomes(b, Ended(bot)) /\ Sound(Ended(bot)) /\ Ended(bot).pc = "ended"
    BY <1>1, <1>2, <1>3, EndedIsSound DEF Fails
  <2>2. QED BY <2>1, OwnStep
<1>4. CASE ~is_fatal_for_bot(code)
  <2>1. /\ Becomes(b, [bot EXCEPT !.pc = "paused"]) /\ Sound([bot EXCEPT !.pc = "paused"])
        /\ [bot EXCEPT !.pc = "paused"].stop = bot.stop
    BY <1>4, GoesOnSound DEF Fails
  <2>2. QED BY <2>1, OwnStep
<1>5. QED BY <1>3, <1>4

\* The call returns.
LEMMA ReturnKeeps ==
    ASSUME ChatInv, NEW b \in Bots, SendReturns(b)
    PROVE  ChatInv'
<1> DEFINE bot == [bots[b] EXCEPT !.sending = Silence]
           text == bots[b].sending
<1>1. /\ Sound(bots[b]) /\ bots[b] \in Bot /\ bots[b].pc = "sending" /\ is_running(b)
      /\ UNCHANGED <<settings, attached>>
  BY DEF ChatInv, Sound, SendReturns, is_running, Ours
<1>2. /\ text \in Texts /\ (Varied => text # bots[b].last_sent) /\ bots[b].after = 0
      /\ Silence \notin Texts
  BY <1>1, ListsAreTexts DEF Sound, Sends
<1>3. /\ bot \in Bot /\ bot.pc = "sending" /\ bot.stop = bots[b].stop /\ bot.cursor = bots[b].cursor
      /\ bot.last_sent = bots[b].last_sent /\ bot.heard = bots[b].heard /\ bot.told = bots[b].told
      /\ bot.again = bots[b].again /\ bot.after = 0
  BY <1>1, <1>2 DEF Bot
<1>4. InList(bot) /\ Remembers(bot)
  BY <1>1, <1>3 DEF Sound, InList, Remembers
<1>5. \/ Becomes(b, [mark_sent(Posted(bot, text, TRUE), text) EXCEPT !.pc = "running"])
      \/ Fails(b, "LL-YOUTUBE-004", Posted(bot, text, FALSE))
      \/ \E code \in Failures : Fails(b, code, bot)
  BY DEF SendReturns
<1> HIDE DEF bot, text
<1>6. ~(Varied /\ text = bot.heard /\ bot.told)
  BY <1>2, <1>3, <1>4 DEF Remembers
<1>7. ASSUME NEW told \in BOOLEAN
      PROVE  LET q == Posted(bot, text, told) IN
             /\ q \in Bot /\ q.stop = bots[b].stop /\ q.cursor = bot.cursor
             /\ q.last_sent = bot.last_sent /\ q.heard = text /\ q.told = told
             /\ InList(q) /\ (Varied => "known" \notin q.again)
             /\ q.after <= 1 /\ (~q.stop => q.after = 0)
  <2> DEFINE q == Posted(bot, text, told)
  <2>1. /\ q \in Bot /\ q.pc = bot.pc /\ q.stop = bot.stop /\ q.cursor = bot.cursor
        /\ q.last_sent = bot.last_sent /\ q.heard = text /\ q.told = told
        /\ "known" \in q.again => "known" \in bot.again \/ (text = bot.heard /\ bot.told)
        /\ q.after = IF bot.stop THEN bot.after + 1 ELSE bot.after
    BY <1>2, <1>3, PostedFields
  <2> HIDE DEF q
  <2>2. InList(q) /\ (Varied => "known" \notin q.again)
    BY <1>4, <1>6, <2>1 DEF InList, Remembers
  <2>3. QED BY <1>3, <2>1, <2>2 DEF q
<1>8. CASE Becomes(b, [mark_sent(Posted(bot, text, TRUE), text) EXCEPT !.pc = "running"])
  <2> DEFINE q == Posted(bot, text, TRUE)
             m == mark_sent(q, text)
  <2>1. /\ q \in Bot /\ q.stop = bots[b].stop /\ q.cursor = bot.cursor
        /\ q.heard = text /\ q.told = TRUE
        /\ InList(q) /\ (Varied => "known" \notin q.again)
        /\ q.after <= 1 /\ (~q.stop => q.after = 0)
    BY <1>7
  <2> HIDE DEF q
  <2>2. /\ m \in Bot /\ m.stop = q.stop /\ m.cursor = q.cursor /\ m.last_sent = text
        /\ m.heard = text /\ m.told = TRUE /\ m.again = q.again /\ m.after = q.after
    BY <1>2, <2>1 DEF mark_sent, Bot
  <2>3. Becomes(b, [m EXCEPT !.pc = "running"])
    BY <1>8 DEF q
  <2> HIDE DEF m
  <2>4. InList(m) /\ Remembers(m)
    BY <2>1, <2>2 DEF InList, Remembers
  <2>5. Sound([m EXCEPT !.pc = "running"]) /\ [m EXCEPT !.pc = "running"].stop = m.stop
    BY <2>1, <2>2, <2>4, GoesOnSound
  <2>6. QED BY <1>1, <2>1, <2>2, <2>3, <2>5, OwnStep
<1>9. CASE Fails(b, "LL-YOUTUBE-004", Posted(bot, text, FALSE))
  <2> DEFINE q == Posted(bot, text, FALSE)
  <2>1. /\ q \in Bot /\ q.stop = bots[b].stop /\ q.told = FALSE
        /\ InList(q) /\ (Varied => "known" \notin q.again)
        /\ q.after <= 1 /\ (~q.stop => q.after = 0)
    BY <1>7
  <2>2. Fails(b, "LL-YOUTUBE-004", q)
    BY <1>9
  <2> HIDE DEF q
  <2>3. Remembers(q)
    BY <2>1 DEF Remembers
  <2>4. QED BY <1>1, <2>1, <2>2, <2>3, FailingKeeps
<1>10. ASSUME NEW code \in Failures, Fails(b, code, bot) PROVE ChatInv'
  BY <1>1, <1>3, <1>4, <1>10, FailingKeeps
<1>11. QED BY <1>5, <1>8, <1>9, <1>10

\* Every other step of the bot's thread.
LEMMA ThreadKeeps ==
    ASSUME ChatInv, NEW b \in Bots,
           \/ FindChat(b) \/ IntervalPasses(b) \/ Send(b) \/ BackoffEnds(b)
           \/ NoToken(b) \/ Leave(b)
    PROVE  ChatInv'
<1>1. /\ Sound(bots[b]) /\ bots[b] \in Bot /\ InList(bots[b]) /\ Remembers(bots[b])
      /\ settings \in ChatSettings
  BY DEF ChatInv, Sound
<1>2. \A pc \in {"running", "paused"} : Runs(b, pc) =>
          is_running(b) /\ ~bots[b].stop /\ bots[b].after = 0
  BY <1>1 DEF Runs, is_running, Sound, WindsDown
<1>3. 0 <= 1
  OBVIOUS
<1>4. CASE FindChat(b)
  <2>0. UNCHANGED <<settings, attached>> /\ is_running(b) /\ ~bots[b].stop /\ bots[b].after = 0
    BY <1>2, <1>4 DEF FindChat, Ours
  <2>1. CASE Becomes(b, [NoBot EXCEPT !.pc = "running", !.chat = TRUE,
                                      !.due = settings.send_on_start])
    <3>1. settings.send_on_start \in BOOLEAN
      BY <1>1 DEF ChatSettings
    <3>2. QED BY <1>1, <2>0, <2>1, <3>1, NewBotIsSound, OwnStep
  <2>2. CASE UNCHANGED bots
    BY <2>0, <2>2 DEF ChatInv, Sound, InList, Remembers, Sends, WindsDown, Varied, OneBotStays,
       is_running
  <2>3. CASE \E code \in Failures : Fails(b, code, bots[b])
    BY <1>1, <1>3, <2>0, <2>3, FailingKeeps
  <2>4. QED BY <1>4, <2>1, <2>2, <2>3 DEF FindChat
<1>5. CASE IntervalPasses(b)
  <2> DEFINE q == [bots[b] EXCEPT !.due = TRUE]
  <2>1. UNCHANGED <<settings, attached>> /\ is_running(b) /\ Becomes(b, q)
    BY <1>5 DEF IntervalPasses, Ours
  <2>2. /\ q \in Bot /\ q.pc = bots[b].pc /\ q.stop = bots[b].stop /\ q.cursor = bots[b].cursor
        /\ q.last_sent = bots[b].last_sent /\ q.heard = bots[b].heard /\ q.told = bots[b].told
        /\ q.again = bots[b].again /\ q.after = bots[b].after /\ q.sending = bots[b].sending
    BY <1>1 DEF Bot
  <2> HIDE DEF q
  <2>3. Sound(q)
    BY <1>1, <2>2 DEF Sound, InList, Remembers, Sends, WindsDown
  <2>4. QED BY <2>1, <2>2, <2>3, OwnStep
<1>6. CASE Send(b)
  <2>0. UNCHANGED <<settings, attached>> /\ is_running(b) /\ ~bots[b].stop /\ bots[b].after = 0
    BY <1>2, <1>6 DEF Send, Ours
  <2>1. PICK p \in Picks(b) :
          LET bot == [bots[b] EXCEPT !.cursor = p.cursor]
          IN  IF token THEN Becomes(b, [bot EXCEPT !.pc = "sending", !.sending = p.text])
              ELSE Fails(b, "LL-YOUTUBE-001", bot)
    BY <1>6 DEF Send
  <2> DEFINE bot == [bots[b] EXCEPT !.cursor = p.cursor]
             q == [bot EXCEPT !.pc = "sending", !.sending = p.text]
  <2>2. /\ p.text \in Texts /\ p.cursor \in Nat
        /\ Len(settings.active) > 0 => p.cursor < Len(settings.active)
        /\ Varied => p.text # bots[b].last_sent
    BY PickedIsNew
  <2>3. /\ bot \in Bot /\ bot.cursor = p.cursor /\ bot.stop = bots[b].stop
        /\ bot.last_sent = bots[b].last_sent /\ bot.heard = bots[b].heard
        /\ bot.told = bots[b].told /\ bot.again = bots[b].again /\ bot.after = 0
    BY <1>1, <2>0, <2>2 DEF Bot
  <2>4. IF token THEN Becomes(b, q) ELSE Fails(b, "LL-YOUTUBE-001", bot)
    BY <2>1
  <2> HIDE DEF bot
  <2>5. InList(bot) /\ Remembers(bot)
    BY <1>1, <2>2, <2>3 DEF InList, Remembers
  <2>6. /\ q \in Bot /\ q.cursor = p.cursor /\ q.stop = bot.stop /\ q.pc = "sending"
        /\ q.last_sent = bot.last_sent /\ q.heard = bot.heard /\ q.sending = p.text
        /\ q.told = bot.told /\ q.again = bot.again /\ q.after = 0
    BY <2>2, <2>3 DEF Bot
  <2> HIDE DEF q
  <2>7. Sound(q)
    BY <1>3, <2>2, <2>3, <2>5, <2>6 DEF Sound, InList, Remembers, Sends, WindsDown
  <2>8. CASE token
    BY <2>0, <2>3, <2>4, <2>6, <2>7, <2>8, OwnStep
  <2>9. CASE ~token
    BY <1>3, <2>0, <2>3, <2>4, <2>5, <2>9, FailingKeeps
  <2>10. QED BY <2>8, <2>9
<1>7. CASE BackoffEnds(b)
  <2>0. UNCHANGED <<settings, attached>> /\ is_running(b) /\ ~bots[b].stop /\ bots[b].after = 0
    BY <1>2, <1>7 DEF BackoffEnds, Ours
  <2>1. Sound([bots[b] EXCEPT !.pc = "running"])
    BY <1>1, <1>3, <2>0, GoesOnSound
  <2>2. QED BY <1>7, <2>0, <2>1, OwnStep DEF BackoffEnds
<1>8. CASE NoToken(b)
  <2>0. UNCHANGED <<settings, attached>> /\ is_running(b) /\ ~bots[b].stop /\ bots[b].after = 0
    BY <1>2, <1>8 DEF NoToken, Ours
  <2>1. QED BY <1>1, <1>3, <1>8, <2>0, FailingKeeps DEF NoToken
<1>9. CASE Leave(b)
  <2>0. UNCHANGED <<settings, attached>> /\ bots[b].after <= 1
    BY <1>1, <1>9 DEF Leave, Ours, Sound, WindsDown
  <2>1. ASSUME NEW bot \in Bot, Varied => "known" \notin bot.again, bot.after <= 2,
               Becomes(b, Ended(bot))
        PROVE  ChatInv'
    <3>1. Sound(Ended(bot)) /\ Ended(bot).pc = "ended"
      BY <1>1, <2>1, EndedIsSound
    <3>2. QED BY <2>0, <2>1, <3>1, OwnStep
  <2>2. ASSUME NEW p \in Picks(b), Becomes(b, Ended(Posted(bots[b], p.text, FALSE)))
        PROVE  ChatInv'
    <3>0. PICK no \in BOOLEAN : no = FALSE
      OBVIOUS
    <3> DEFINE q == Posted(bots[b], p.text, no)
    <3>1. p.text \in Texts /\ (Varied => p.text # bots[b].last_sent) /\ Silence \notin Texts
      BY PickedIsNew, ListsAreTexts
    <3>2. /\ q \in Bot
          /\ "known" \in q.again => "known" \in bots[b].again \/ (p.text = bots[b].heard /\ bots[b].told)
          /\ q.after = IF bots[b].stop THEN bots[b].after + 1 ELSE bots[b].after
      BY <1>1, <3>1, PostedFields
    <3>3. Becomes(b, Ended(q))
      BY <2>2, <3>0
    <3> HIDE DEF q
    <3>4. Varied => "known" \notin q.again
      BY <1>1, <3>1, <3>2 DEF Remembers
    <3>5. q.after <= 2
      BY <1>1, <2>0, <3>2 DEF Bot
    <3>6. QED BY <2>1, <3>2, <3>3, <3>4, <3>5
  <2>3. bots[b].after <= 2 /\ (Varied => "known" \notin bots[b].again)
    BY <1>1 DEF Sound, WindsDown, Remembers
  <2>4. QED BY <1>1, <1>9, <2>1, <2>2, <2>3 DEF Leave
<1>10. QED BY <1>4, <1>5, <1>6, <1>7, <1>8, <1>9

\* Letting the attached bot go leaves no bot that stays.
LEMMA LetGo ==
    ASSUME ChatInv
    PROVE  /\ Detached \in [Bots -> Bot]
           /\ \A b \in Bots : Sound(Detached[b])
           /\ \A b \in Bots : Detached[b].pc \notin {"none", "ended"} => Detached[b].stop
<1>1. bots \in [Bots -> Bot] /\ \A b \in Bots : Sound(bots[b])
  BY DEF ChatInv
<1>2. CASE ~bot_is_running
  BY <1>1, <1>2 DEF Detached, bot_is_running, ChatInv, OneBotStays, is_running, Bot
<1>3. CASE bot_is_running
  <2> DEFINE gone == [bots[attached] EXCEPT !.stop = TRUE]
  <2>1. attached \in Bots /\ Detached = [bots EXCEPT ![attached] = gone]
    BY <1>1, <1>3 DEF Detached, bot_is_running
  <2>2. Sound(gone) /\ gone.stop
    <3>1. bots[attached] \in Bot /\ Sound(bots[attached]) /\ bots[attached].pc \notin {"none", "ended"}
      BY <1>1, <1>3, <2>1 DEF bot_is_running, is_running
    <3>2. /\ gone \in Bot /\ gone.stop /\ gone.pc = bots[attached].pc
          /\ gone.cursor = bots[attached].cursor /\ gone.last_sent = bots[attached].last_sent
          /\ gone.heard = bots[attached].heard /\ gone.told = bots[attached].told
          /\ gone.again = bots[attached].again /\ gone.after = bots[attached].after
          /\ gone.sending = bots[attached].sending
      BY <3>1 DEF Bot
    <3> HIDE DEF gone
    <3>3. QED BY <3>1, <3>2 DEF Sound, InList, Remembers, Sends, WindsDown
  <2> HIDE DEF gone
  <2>3. \A b \in Bots : Detached[b] = IF b = attached THEN gone ELSE bots[b]
    BY <1>1, <2>1
  <2>4. Detached \in [Bots -> Bot]
    BY <1>1, <2>1, <2>2 DEF Sound
  <2>5. QED BY <1>1, <2>2, <2>3, <2>4 DEF ChatInv, OneBotStays, is_running, Bot
<1>4. QED BY <1>2, <1>3

\* Every step of the service keeps it.
LEMMA ServiceKeeps ==
    ASSUME ChatInv,
           FollowOffAir \/ FollowOnAir \/ start_bot_for \/ begin_connect \/ disconnect
    PROVE  ChatInv'
<1>1. ASSUME UNCHANGED <<settings, bots, attached>> PROVE ChatInv'
  BY <1>1 DEF ChatInv, Sound, InList, Remembers, Sends, WindsDown, Varied,
     OneBotStays, is_running
<1>2. ASSUME stop_bot, UNCHANGED settings PROVE ChatInv'
  BY <1>2, LetGo DEF stop_bot, ChatInv, Sound, InList, Remembers, Sends, WindsDown, Varied,
     OneBotStays, is_running
<1>3. CASE start_bot_for
  <2>1. CASE UNCHANGED <<bots, attached>>
    BY <1>1, <1>3, <2>1 DEF start_bot_for
  <2>2. CASE \E b \in Bots : /\ bots' = [Detached EXCEPT ![b] = [NoBot EXCEPT !.pc = "running"]]
                             /\ attached' = b
    <3>1. PICK b \in Bots : /\ bots' = [Detached EXCEPT ![b] = [NoBot EXCEPT !.pc = "running"]]
                            /\ attached' = b
      BY <2>2
    <3>2. Sound([NoBot EXCEPT !.pc = "running"]) /\ UNCHANGED settings
      BY <1>3, NewBotIsSound DEF ChatInv, start_bot_for
    <3>3. \A c \in Bots :
              bots'[c] = IF c = b THEN [NoBot EXCEPT !.pc = "running"] ELSE Detached[c]
      BY <3>1, LetGo
    <3>4. bots' \in [Bots -> Bot]
      BY <3>1, <3>2, LetGo DEF Sound
    <3>5. \A c \in Bots : Sound(bots[c])'
      BY <3>2, <3>3, LetGo DEF Sound, InList, Remembers, Sends, WindsDown, Varied
    <3>6. OneBotStays'
      BY <3>1, <3>3, LetGo DEF OneBotStays, is_running
    <3>7. QED BY <3>2, <3>4, <3>5, <3>6 DEF ChatInv
  <2>3. QED BY <1>3, <2>1, <2>2 DEF start_bot_for
<1>4. QED BY <1>1, <1>2, <1>3 DEF FollowOffAir, FollowOnAir, begin_connect, disconnect

----------------------------------------------------------------------------
\* In every state a bot's cursor lies in its list, what it was told is in the chat
\* is what it will not pick next, and the bots that are not on their way out are
\* the attached one.
THEOREM ChatInvariance == ChatSpec => []ChatInv
<1>1. ChatInit => ChatInv
  BY ChatInitially
<1>2. ChatInv /\ [ChatNext]_chatVars => ChatInv'
  <2> SUFFICES ASSUME ChatInv, [ChatNext]_chatVars PROVE ChatInv'
    OBVIOUS
  <2>1. CASE UNCHANGED chatVars
    BY <2>1 DEF chatVars, ChatInv, Sound, InList, Remembers, Sends, WindsDown, Varied,
     OneBotStays, is_running
  <2>2. CASE ChatNext
    BY <2>2, ThreadKeeps, ReturnKeeps, ServiceKeeps DEF ChatNext
  <2>3. QED BY <2>1, <2>2
<1>3. QED BY <1>1, <1>2, PTL DEF ChatSpec

\* bot.rs, chat.rs: through failed sends, answers that are lost, retries,
\* farewells, reconnected accounts and bots that overlap, no bot repeats what it
\* knows to be in the chat, one of them stays, and the others post two messages
\* more at most.
THEOREM ChatStaysOneVoice == ChatSpec => []ChatIsOneVoice
<1>1. ChatInv => ChatIsOneVoice
  BY DEF ChatInv, ChatIsOneVoice, ChatNeverDoubles, LeavesSoon, Sound, Remembers, WindsDown
<1>2. QED BY <1>1, ChatInvariance, PTL
-----------------------------------------------------------------------------
(* The allowance *)

Ledger == [day : Nat, spent : Nat, exhausted : BOOLEAN, bucket_calls : [Bucketed -> Nat],
           shut : SUBSET Bucketed]

Call == [pc : {"none", "send", "answer"}, method : Used \cup {"none"}, charged : Int,
         refused : BOOLEAN]

\* What may be spent in a day.
Pool == Floor0(Allowance - RESERVE_UNITS)

QuotaTypeOK ==
    /\ ledger \in Ledger /\ ledger.spent <= Pool
    /\ stored \in Ledger /\ stored.spent <= Pool
    /\ call \in [Callers -> Call]
    /\ google \in [day : Nat, own : Nat, older : Nat]
    /\ today \in Nat

\* Google's day is ours or the one after, and nothing is charged to a day that
\* has not begun.
DaysAgree ==
    /\ today = google.day \/ today + 1 = google.day
    /\ \A c \in Callers : call[c].charged <= today
    /\ google.own > 0 => today = google.day

\* The units charged to Google's day and on their way, each a point of its own
\* so that a sum over the callers is a number of points.
MaxUnits == 50
OnTheWay(r, day) == r.pc = "send" /\ r.charged = day
OwedOf(requests, day) ==
    {x \in Callers \X (1..MaxUnits) :
        OnTheWay(requests[x[1]], day) /\ x[2] <= units(requests[x[1]].method)}
Owed == OwedOf(call, google.day)

\* A count that knows of all that Google has counted or is about to count today.
Covers(s) ==
    google.own > 0 \/ Owed # {} =>
        s.day = google.day /\ google.own + Cardinality(Owed) <= s.spent

QuotaInv == QuotaTypeOK /\ DaysAgree /\ Covers(ledger) /\ Covers(stored)

\* What a call costs.
LEMMA UnitsType == \A m : units(m) \in 1..MaxUnits
BY DEF units, MaxUnits

\* A product with one element is as large as the other factor.
LEMMA ShareSize ==
    ASSUME NEW c, NEW n \in Nat
    PROVE  IsFiniteSet({c} \X (1..n)) /\ Cardinality({c} \X (1..n)) = n
<1>1. IsFiniteSet({c}) /\ Cardinality({c}) = 1
  BY FS_Singleton
<1>2. IsFiniteSet(1..n) /\ Cardinality(1..n) = n
  BY FS_Interval
<1>3. IsFiniteSet({c} \X (1..n)) /\ Cardinality({c} \X (1..n)) = Cardinality({c}) * Cardinality(1..n)
  BY <1>1, <1>2, FS_Product
<1>4. QED BY <1>1, <1>2, <1>3

\* What is owed can be counted.
LEMMA OwedIsFinite ==
    ASSUME NEW requests, NEW day
    PROVE  /\ IsFiniteSet(OwedOf(requests, day))
           /\ Cardinality(OwedOf(requests, day)) \in Nat
           /\ OwedOf(requests, day) # {} => Cardinality(OwedOf(requests, day)) > 0
<1>1. IsFiniteSet(1..MaxUnits)
  <2>1. MaxUnits \in Nat
    BY DEF MaxUnits
  <2>2. QED BY <2>1, FS_Interval
<1>2. IsFiniteSet(Callers \X (1..MaxUnits))
  BY <1>1, FS_Product, QuotaAssumption
<1>3. OwedOf(requests, day) \in SUBSET (Callers \X (1..MaxUnits))
  BY DEF OwedOf
<1>4. IsFiniteSet(OwedOf(requests, day))
  BY <1>2, <1>3, FS_Subset
<1>5. QED BY <1>4, FS_CardinalityType, FS_EmptySet

\* A request that is sent, or is no longer under way, counts for its units.
LEMMA OwedMoves ==
    ASSUME NEW f, NEW g, NEW day, NEW c \in Callers, \A d \in Callers \ {c} : f[d] = g[d],
           ~OnTheWay(f[c], day)
    PROVE  Cardinality(OwedOf(g, day)) =
             Cardinality(OwedOf(f, day)) + IF OnTheWay(g[c], day) THEN units(g[c].method) ELSE 0
<1>1. CASE ~OnTheWay(g[c], day)
  <2>1. OwedOf(g, day) = OwedOf(f, day)
    BY <1>1 DEF OwedOf
  <2>2. QED BY <1>1, <2>1, OwedIsFinite
<1>2. CASE OnTheWay(g[c], day)
  <2> DEFINE n == units(g[c].method)
             share == {c} \X (1..n)
  <2>1. n \in 1..MaxUnits /\ n \in Nat
    BY UnitsType DEF MaxUnits
  <2>2. IsFiniteSet(share) /\ Cardinality(share) = n
    BY <2>1, ShareSize
  <2>3. OwedOf(g, day) = OwedOf(f, day) \cup share
    <3>1. \A x \in share : x \in OwedOf(g, day)
      BY <1>2, <2>1 DEF OwedOf, MaxUnits
    <3>2. \A x \in Callers \X (1..MaxUnits) : x[1] # c =>
             (x \in OwedOf(g, day) <=> x \in OwedOf(f, day))
      BY DEF OwedOf
    <3>3. \A x \in OwedOf(g, day) : x[1] = c => x \in share
      BY <2>1 DEF OwedOf
    <3>4. \A x \in OwedOf(f, day) : x[1] # c
      BY DEF OwedOf
    <3> HIDE DEF share
    <3>5. QED BY <3>1, <3>2, <3>3, <3>4 DEF OwedOf
  <2>4. OwedOf(f, day) \cap share = {}
    BY DEF OwedOf
  <2>5. IsFiniteSet(OwedOf(f, day)) /\ Cardinality(OwedOf(f, day)) \in Nat
    BY OwedIsFinite
  <2> HIDE DEF share, n
  <2>6. Cardinality(OwedOf(g, day)) =
          Cardinality(OwedOf(f, day)) + Cardinality(share) - Cardinality({})
    BY <2>2, <2>3, <2>4, <2>5, FS_Union
  <2>7. QED BY <1>2, <2>1, <2>2, <2>5, <2>6, FS_EmptySet DEF n
<1>3. QED BY <1>1, <1>2

\* A charge adds what the call costs.
LEMMA ChargeAdds ==
    ASSUME NEW s \in Ledger, NEW m, s.spent <= Pool, can_afford(s, m)
    PROVE  /\ charge(s, m) \in Ledger /\ charge(s, m).day = s.day
           /\ charge(s, m).spent = s.spent + units(m) /\ charge(s, m).spent <= Pool
<1> DEFINE counts == [b \in Bucketed |-> s.bucket_calls[b] + IF b = m THEN 1 ELSE 0]
<1>1. counts \in [Bucketed -> Nat]
  BY DEF Ledger
<1>2. charge(s, m) = [s EXCEPT !.spent = s.spent + units(m), !.bucket_calls = counts]
  BY DEF charge
<1> HIDE DEF counts
<1>3. units(m) \in 1..50
  BY UnitsType DEF MaxUnits
<1>4. s.spent + units(m) \in Nat /\ s.spent + units(m) <= Pool
  <2>1. s.spent \in Nat /\ Pool \in Nat
    BY QuotaAssumption DEF Ledger, Pool, Floor0, RESERVE_UNITS
  <2>2. units(m) <= Floor0(Pool - s.spent)
    BY <1>3, <2>1 DEF can_afford, remaining, Pool
  <2>3. QED BY <1>3, <2>1, <2>2 DEF Floor0
<1>5. charge(s, m) = [day |-> s.day, spent |-> s.spent + units(m), exhausted |-> s.exhausted,
                      bucket_calls |-> counts, shut |-> s.shut]
  BY <1>2 DEF Ledger
<1>6. QED BY <1>1, <1>4, <1>5 DEF Ledger

\* Rolling a count over counts nothing of the day before.
LEMMA RollOverType ==
    ASSUME NEW s \in Ledger, s.spent <= Pool, today \in Nat
    PROVE  /\ roll_over(s) \in Ledger /\ roll_over(s).spent <= Pool
           /\ roll_over(s).day = today /\ (s.day = today => roll_over(s) = s)
<1>1. Pool \in Nat
  BY QuotaAssumption DEF Pool, Floor0, RESERVE_UNITS
<1>2. NewDay(today) \in Ledger /\ NewDay(today).spent = 0 /\ NewDay(today).day = today
  BY DEF NewDay, Ledger
<1>3. QED BY <1>1, <1>2 DEF roll_over

\* Shutting a count counts nothing.
LEMMA ShutType ==
    ASSUME NEW s \in Ledger, NEW m
    PROVE  /\ mark_exhausted(s, m) \in Ledger
           /\ mark_exhausted(s, m).day = s.day /\ mark_exhausted(s, m).spent = s.spent
BY DEF mark_exhausted, Ledger

\* A step about neither the requests nor Google's day leaves a count covering.
LEMMA StillCovers ==
    ASSUME NEW s, Covers(s), google' = google, call' = call, NEW t,
           t.day = s.day /\ t.spent = s.spent
    PROVE  Covers(t)'
BY DEF Covers, Owed, OwedOf, OnTheWay

\* A new ledger and a new day agree.
LEMMA QuotaInitially == QuotaInit => QuotaInv
<1> SUFFICES ASSUME QuotaInit PROVE QuotaInv
  OBVIOUS
<1>1. NewDay(0) \in Ledger /\ NewDay(0).spent = 0
  BY DEF NewDay, Ledger
<1>2. Pool \in Nat
  BY QuotaAssumption DEF Pool, Floor0, RESERVE_UNITS
<1>3. NoCall \in Call
  BY DEF NoCall, Call
<1>4. QuotaTypeOK
  BY <1>1, <1>2, <1>3 DEF QuotaInit, QuotaTypeOK
<1>5. DaysAgree
  BY DEF QuotaInit, DaysAgree, NoCall
<1>6. Owed = {}
  BY DEF QuotaInit, Owed, OwedOf, OnTheWay, NoCall
<1>7. QED BY <1>4, <1>5, <1>6 DEF QuotaInit, QuotaInv, Covers

\* Every step keeps the ledger ahead.
LEMMA QuotaStep == QuotaInv /\ [QuotaNext]_quotaVars => QuotaInv'
<1> SUFFICES ASSUME QuotaInv, [QuotaNext]_quotaVars PROVE QuotaInv'
  OBVIOUS
<1>0. QuotaTypeOK /\ DaysAgree /\ Covers(ledger) /\ Covers(stored)
  BY DEF QuotaInv
<1>t. /\ ledger \in Ledger /\ stored \in Ledger /\ ledger.spent <= Pool /\ stored.spent <= Pool
      /\ call \in [Callers -> Call] /\ google \in [day : Nat, own : Nat, older : Nat]
      /\ today \in Nat
  BY <1>0 DEF QuotaTypeOK
<1>p. Pool \in Nat
  BY QuotaAssumption DEF Pool, Floor0, RESERVE_UNITS
<1>o. Owed # {} => today = google.day
  <2> SUFFICES ASSUME Owed # {} PROVE today = google.day
    OBVIOUS
  <2>1. PICK c \in Callers : call[c].charged = google.day
    BY DEF Owed, OwedOf, OnTheWay
  <2>2. QED BY <1>0, <1>t, <2>1 DEF DaysAgree
<1>n. roll_over(ledger) \in Ledger /\ roll_over(ledger).spent <= Pool /\ Covers(roll_over(ledger))
  BY <1>0, <1>t, <1>o, RollOverType DEF Covers, DaysAgree
<1>1. ASSUME NEW c \in Callers, NEW m \in Used, try_spend(c, m) PROVE QuotaInv'
  <2> DEFINE rolled == roll_over(ledger)
  <2>1. call[c].pc = "none" /\ google' = google /\ today' = today
    BY <1>1 DEF try_spend
  <2>2. CASE ~can_afford(rolled, m)
    <3>1. ledger' = rolled /\ stored' = stored /\ call' = call
      BY <1>1, <2>2 DEF try_spend
    <3> HIDE DEF rolled
    <3>2. Covers(ledger)' /\ Covers(stored)'
      BY <1>0, <1>n, <2>1, <3>1 DEF Covers, Owed, OwedOf, OnTheWay, rolled
    <3>3. QED BY <1>0, <1>t, <1>n, <2>1, <3>1, <3>2 DEF QuotaInv, QuotaTypeOK, DaysAgree, rolled
  <2>3. CASE can_afford(rolled, m)
    <3> DEFINE r == [pc |-> "send", method |-> m, charged |-> today, refused |-> FALSE]
    <3>1. ledger' = charge(rolled, m) /\ stored' = ledger' /\ call' = [call EXCEPT ![c] = r]
      BY <1>1, <2>3 DEF try_spend
    <3>2. r \in Call /\ call' \in [Callers -> Call] /\ call'[c] = r
          /\ \A d \in Callers \ {c} : call[d] = call'[d]
      BY <1>t, <3>1 DEF Call
    <3> HIDE DEF rolled
    <3>3. /\ ledger' \in Ledger /\ ledger'.day = rolled.day
          /\ ledger'.spent = rolled.spent + units(m) /\ ledger'.spent <= Pool
      BY <1>n, <2>3, <3>1, ChargeAdds DEF rolled
    <3>4. rolled.day = today /\ rolled.spent \in Nat /\ units(m) \in Nat
      BY <1>t, <1>n, RollOverType, UnitsType DEF rolled, Ledger, MaxUnits
    <3>5. DaysAgree'
      BY <1>0, <1>t, <2>1, <3>2 DEF DaysAgree
    <3>6. Covers(ledger)'
      <4>1. Cardinality(Owed') = Cardinality(Owed) + IF today = google.day THEN units(m) ELSE 0
        <5>1. ~OnTheWay(call[c], google.day) /\ (OnTheWay(r, google.day) <=> today = google.day)
          BY <2>1 DEF OnTheWay
        <5>2. Owed' = OwedOf(call', google.day)
          BY <2>1 DEF Owed
        <5> HIDE DEF r
        <5>3. Cardinality(OwedOf(call', google.day)) = Cardinality(OwedOf(call, google.day)) +
                IF OnTheWay(call'[c], google.day) THEN units(call'[c].method) ELSE 0
          BY <3>2, <5>1, OwedMoves
        <5>4. call'[c].method = m
          BY <3>2 DEF r
        <5>5. QED BY <3>2, <5>1, <5>2, <5>3, <5>4 DEF Owed
      <4>2. Cardinality(Owed) \in Nat /\ (Owed # {} => Cardinality(Owed) > 0)
        BY OwedIsFinite DEF Owed
      <4>3. Cardinality(Owed') \in Nat /\ (Owed' # {} => Cardinality(Owed') > 0)
        BY OwedIsFinite DEF Owed
      <4>4. CASE today = google.day
        <5>1. google.own + Cardinality(Owed) <= rolled.spent
          <6>1. CASE google.own > 0 \/ Owed # {}
            BY <1>n, <6>1 DEF Covers, rolled
          <6>2. CASE ~(google.own > 0) /\ Owed = {}
            BY <1>t, <3>4, <6>2, FS_EmptySet
          <6>3. QED BY <6>1, <6>2
        <5>2. google.own + Cardinality(Owed') <= ledger'.spent
          BY <1>t, <3>3, <3>4, <4>1, <4>2, <4>4, <5>1
        <5>3. QED BY <2>1, <3>3, <3>4, <4>4, <5>2 DEF Covers
      <4>5. CASE today # google.day
        <5>1. ~(google.own > 0) /\ Owed = {}
          BY <1>0, <1>o, <4>5 DEF DaysAgree
        <5>2. Cardinality(Owed') = 0
          BY <4>1, <4>5, <5>1, FS_EmptySet
        <5>3. QED BY <2>1, <4>3, <5>1, <5>2 DEF Covers
      <4>6. QED BY <4>4, <4>5
    <3>7. Covers(stored)'
      BY <3>1, <3>6 DEF Covers
    <3>8. QED BY <1>t, <2>1, <3>1, <3>2, <3>3, <3>5, <3>6, <3>7 DEF QuotaInv, QuotaTypeOK
  <2>4. QED BY <2>2, <2>3
<1>2. ASSUME NEW c \in Callers, Reaches(c) PROVE QuotaInv'
  <2> DEFINE m == call[c].method
             own == call[c].charged = google.day
  <2>1. /\ call[c].pc = "send" /\ UNCHANGED <<ledger, stored, today>>
        /\ \/ google' = IF own THEN [google EXCEPT !.own = @ + units(m)]
                        ELSE [google EXCEPT !.older = @ + units(m)]
           \/ google' = google
        /\ call' \in [Callers -> Call] /\ call'[c].pc # "send" /\ call'[c].charged <= today
        /\ \A d \in Callers \ {c} : call'[d] = call[d]
    <3>1. CASE call' = [call EXCEPT ![c] = NoCall] /\ UNCHANGED google
      <4>1. NoCall \in Call /\ NoCall.pc # "send" /\ NoCall.charged <= today
        BY <1>t DEF NoCall, Call
      <4>2. QED BY <1>2, <1>t, <3>1, <4>1 DEF Reaches
    <3>2. ASSUME NEW refused \in BOOLEAN,
                 call' = [call EXCEPT ![c] = [pc |-> "answer", method |-> m,
                                              charged |-> call[c].charged, refused |-> refused]]
          PROVE  /\ call' \in [Callers -> Call] /\ call'[c].pc # "send"
                 /\ call'[c].charged <= today /\ \A d \in Callers \ {c} : call'[d] = call[d]
      <4> DEFINE r == [pc |-> "answer", method |-> m, charged |-> call[c].charged,
                       refused |-> refused]
      <4>1. call[c] \in Call /\ r \in Call
        BY <1>t DEF Call
      <4>2. call' = [call EXCEPT ![c] = r]
        BY <3>2
      <4>3. r.pc # "send" /\ r.charged <= today
        BY <1>0 DEF DaysAgree
      <4> HIDE DEF r
      <4>4. QED BY <1>t, <4>1, <4>2, <4>3
    <3>3. QED BY <1>2, <3>1, <3>2 DEF Reaches
  <2>2. units(m) \in Nat /\ units(m) > 0
    BY UnitsType DEF MaxUnits
  <2>3. google' \in [day : Nat, own : Nat, older : Nat] /\ google'.day = google.day
        /\ google'.own \in {google.own, IF own THEN google.own + units(m) ELSE google.own}
    BY <1>t, <2>1, <2>2
  <2>4. Cardinality(Owed) = Cardinality(Owed') + IF own THEN units(m) ELSE 0
    <3>1. ~OnTheWay(call'[c], google.day) /\ (OnTheWay(call[c], google.day) <=> own)
      BY <2>1 DEF OnTheWay
    <3>2. Owed' = OwedOf(call', google.day)
      BY <2>3 DEF Owed
    <3>3. QED BY <2>1, <3>1, <3>2, OwedMoves DEF Owed
  <2>5. /\ Cardinality(Owed) \in Nat /\ (Owed # {} => Cardinality(Owed) > 0)
        /\ Cardinality(Owed') \in Nat /\ (Owed' # {} => Cardinality(Owed') > 0)
    BY OwedIsFinite DEF Owed
  <2>6. own => Owed # {}
    BY <2>2, <2>4, <2>5, FS_EmptySet
  <2>7. (google'.own > 0 \/ Owed' # {}) => (google.own > 0 \/ Owed # {})
    BY <1>t, <2>3, <2>4, <2>5, <2>6, FS_EmptySet
  <2>8. google'.own + Cardinality(Owed') <= google.own + Cardinality(Owed)
    BY <1>t, <2>2, <2>3, <2>4, <2>5
  <2>9. Covers(ledger)' /\ Covers(stored)'
    <3>1. ASSUME NEW s \in Ledger, Covers(s)
          PROVE  google'.own > 0 \/ Owed' # {} =>
                   s.day = google'.day /\ google'.own + Cardinality(Owed') <= s.spent
      BY <1>t, <2>3, <2>5, <2>7, <2>8, <3>1 DEF Covers, Ledger
    <3>2. QED BY <1>0, <1>t, <2>1, <3>1 DEF Covers
  <2>10. DaysAgree'
    BY <1>0, <1>t, <1>o, <2>1, <2>3, <2>6 DEF DaysAgree
  <2>11. QED BY <1>t, <2>1, <2>3, <2>9, <2>10 DEF QuotaInv, QuotaTypeOK
<1>3. ASSUME NEW c \in Callers, note_exhausted(c) PROVE QuotaInv'
  <2>1. /\ call[c].pc = "answer" /\ call' = [call EXCEPT ![c] = NoCall]
        /\ UNCHANGED <<google, today>>
        /\ \/ UNCHANGED <<ledger, stored>>
           \/ ledger' = mark_exhausted(roll_over(ledger), call[c].method) /\ stored' = ledger'
    BY <1>3 DEF note_exhausted
  <2>2. NoCall \in Call /\ NoCall.pc = "none" /\ NoCall.charged <= today
    BY <1>t DEF NoCall, Call
  <2>3. call' \in [Callers -> Call] /\ call'[c] = NoCall
        /\ \A d \in Callers \ {c} : call'[d] = call[d]
    BY <1>t, <2>1, <2>2
  <2>4. Owed' = Owed
    BY <2>1, <2>2, <2>3 DEF Owed, OwedOf, OnTheWay
  <2>5. DaysAgree'
    BY <1>0, <2>1, <2>2, <2>3 DEF DaysAgree
  <2>6. /\ ledger' \in Ledger /\ ledger'.spent <= Pool /\ Covers(ledger)'
        /\ stored' \in Ledger /\ stored'.spent <= Pool /\ Covers(stored)'
    <3>1. CASE UNCHANGED <<ledger, stored>>
      BY <1>0, <1>t, <2>1, <2>4, <3>1 DEF Covers
    <3>2. CASE ledger' = mark_exhausted(roll_over(ledger), call[c].method) /\ stored' = ledger'
      <4>1. /\ ledger' \in Ledger /\ ledger'.day = roll_over(ledger).day
            /\ ledger'.spent = roll_over(ledger).spent
        BY <1>n, <3>2, ShutType
      <4>2. Covers(ledger)'
        BY <1>n, <2>1, <2>4, <4>1 DEF Covers
      <4>3. QED BY <1>n, <3>2, <4>1, <4>2 DEF Covers
    <3>3. QED BY <2>1, <3>1, <3>2
  <2>7. QED BY <1>t, <2>1, <2>3, <2>5, <2>6 DEF QuotaInv, QuotaTypeOK
<1>4. ASSUME Relaunch PROVE QuotaInv'
  <2>1. ledger' = stored /\ call' = [d \in Callers |-> NoCall] /\ UNCHANGED <<stored, google, today>>
    BY <1>4 DEF Relaunch
  <2>2. NoCall \in Call /\ NoCall.pc = "none" /\ NoCall.charged <= today
    BY <1>t DEF NoCall, Call
  <2>3. call' \in [Callers -> Call] /\ \A d \in Callers : call'[d] = NoCall
    BY <2>1, <2>2
  <2>4. Owed' = {} /\ Cardinality(Owed') = 0
    BY <2>2, <2>3, FS_EmptySet DEF Owed, OwedOf, OnTheWay
  <2>5. Cardinality(Owed) \in Nat
    BY OwedIsFinite DEF Owed
  <2>6. Covers(stored)'
    BY <1>0, <1>t, <2>1, <2>4, <2>5 DEF Covers, Ledger
  <2>7. Covers(ledger)' /\ DaysAgree'
    BY <1>0, <2>1, <2>2, <2>3, <2>6 DEF Covers, DaysAgree
  <2>8. QED BY <1>t, <2>1, <2>3, <2>6, <2>7 DEF QuotaInv, QuotaTypeOK
<1>5. ASSUME GoogleResets PROVE QuotaInv'
  <2>1. /\ google.day = today /\ google' = [day |-> today + 1, own |-> 0, older |-> 0]
        /\ today' = today + 1 \/ today' = today
        /\ UNCHANGED <<ledger, stored, call>>
    BY <1>5 DEF GoogleResets
  <2>2. \A c \in Callers : call[c].charged \in Int /\ call[c].charged <= today
    BY <1>0, <1>t DEF DaysAgree, Call
  <2>3. \A c \in Callers : call[c].charged # today + 1
    BY <1>t, <2>2
  <2>4. Owed' = {}
    BY <2>1, <2>3 DEF Owed, OwedOf, OnTheWay
  <2>5. Covers(ledger)' /\ Covers(stored)'
    BY <2>1, <2>4 DEF Covers
  <2>6. DaysAgree'
    BY <1>t, <2>1, <2>2 DEF DaysAgree
  <2>7. QED BY <1>t, <2>1, <2>5, <2>6 DEF QuotaInv, QuotaTypeOK
<1>6. ASSUME DayTurns PROVE QuotaInv'
  <2>1. today < google.day /\ today' = today + 1 /\ UNCHANGED <<ledger, stored, call, google>>
    BY <1>6 DEF DayTurns
  <2>2. \A c \in Callers : call[c].charged \in Int /\ call[c].charged <= today
    BY <1>0, <1>t DEF DaysAgree, Call
  <2>3. DaysAgree'
    BY <1>0, <1>t, <2>1, <2>2 DEF DaysAgree
  <2>4. QED BY <1>0, <1>t, <2>1, <2>3 DEF QuotaInv, QuotaTypeOK, Covers, Owed, OwedOf, OnTheWay
<1>7. CASE UNCHANGED quotaVars
  BY <1>0, <1>7 DEF quotaVars, QuotaInv, QuotaTypeOK, DaysAgree, Covers, Owed, OwedOf, OnTheWay
<1>8. QED BY <1>1, <1>2, <1>3, <1>4, <1>5, <1>6, <1>7 DEF QuotaNext

\* The ledger, in memory and on disk, knows of all that Google has counted and
\* of all that is on its way there.
THEOREM QuotaInvariance == QuotaSpec => []QuotaInv
<1>1. QED BY QuotaInitially, QuotaStep, PTL DEF QuotaSpec

\* What Google counts today of what was charged today is in the ledger, and
\* short of the allowance by the reserve, for any number of callers.
THEOREM LedgerStaysAhead == QuotaSpec => []LedgerCoversGoogle
<1>1. QuotaInv => LedgerCoversGoogle
  <2> SUFFICES ASSUME QuotaInv PROVE LedgerCoversGoogle
    OBVIOUS
  <2>1. /\ ledger \in Ledger /\ stored \in Ledger /\ ledger.spent <= Pool
        /\ google.own \in Nat /\ Covers(ledger) /\ Covers(stored)
    BY DEF QuotaInv, QuotaTypeOK
  <2>2. Cardinality(Owed) \in Nat /\ Pool \in Nat
    BY OwedIsFinite, QuotaAssumption DEF Owed, Pool, Floor0, RESERVE_UNITS
  <2>3. google.own > 0 => \A s \in {ledger, stored} : s.day = google.day /\ google.own <= s.spent
    BY <2>1, <2>2 DEF Covers, Ledger
  <2>4. google.own <= Pool
    BY <2>1, <2>2, <2>3 DEF Ledger
  <2>5. QED BY <2>3, <2>4 DEF LedgerCoversGoogle, Pool
<1>2. QED BY <1>1, QuotaInvariance, PTL

=============================================================================
