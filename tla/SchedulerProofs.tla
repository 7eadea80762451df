--------------------------- MODULE SchedulerProofs ---------------------------
(***************************************************************************)
(* Facts about the scheduling rules that hold for every day length, every  *)
(* table of schedules and every instant.                                   *)
(***************************************************************************)
EXTENDS Scheduler, WellFoundedInduction, TLAPS

\* A non-empty set of naturals has a least element.
LEMMA LeastNat ==
    ASSUME NEW T, T \subseteq Nat, T # {}
    PROVE  \E n \in T : \A m \in T : n <= m
<1>1. PICK n \in T : \A m \in T : ~(<<m, n>> \in OpToRel(<, Nat))
  BY NatLessThanWellFounded, WFMin
<1>2. ASSUME NEW m \in T PROVE n <= m
  <2>1. m \in Nat /\ n \in Nat
    OBVIOUS
  <2>2. ~(m < n)
    BY <1>1, <2>1 DEF OpToRel
  <2>3. QED BY <2>1, <2>2
<1>3. QED BY <1>2

\* Among occurrences one begins first.
LEMMA FirstStart ==
    ASSUME NEW A, A \subseteq Occurrence, A # {}
    PROVE  \E o \in A : \A p \in A : o.start <= p.start
<1> DEFINE T == {o.start : o \in A}
<1>1. T \subseteq Nat /\ T # {}
  BY DEF Occurrence
<1>2. PICK n \in T : \A m \in T : n <= m
  BY <1>1, LeastNat
<1>3. PICK o \in A : o.start = n
  OBVIOUS
<1>4. QED BY <1>2, <1>3

\* The division of the clock into days.
LEMMA DayBounds ==
    ASSUME NEW t \in Nat
    PROVE  Day(t) \in Nat
BY DayLenAssumption DEF Day

\* occurrence_starting_on() makes a window that begins before it ends, also
\* when the end is at or before the start and rolls over to the next day.
LEMMA OccurrenceType ==
    ASSUME NEW s \in Schedule, NEW d \in Nat
    PROVE  occurrence_starting_on(s, d) \in Occurrence
<1>1. /\ s.start \in Nat /\ s.end \in Nat /\ s.schedule_id \in Nat
      /\ s.start < DayLen /\ DayLen \in Nat
  BY DayLenAssumption DEF Schedule, Clock
<1> DEFINE b == d * DayLen
<1>2. b \in Nat /\ (d + 1) * DayLen = b + DayLen
  BY <1>1
<1> HIDE DEF b
<1>3. CASE crosses_midnight(s.start, s.end)
  <2>1. occurrence_starting_on(s, d) = [schedule_id |-> s.schedule_id,
            start |-> b + s.start, end |-> b + DayLen + s.end]
    BY <1>2, <1>3 DEF occurrence_starting_on, b
  <2>2. QED BY <1>1, <1>2, <2>1 DEF Occurrence
<1>4. CASE ~crosses_midnight(s.start, s.end)
  <2>1. occurrence_starting_on(s, d) = [schedule_id |-> s.schedule_id,
            start |-> b + s.start, end |-> b + s.end]
    BY <1>4 DEF occurrence_starting_on, b
  <2>2. s.start < s.end
    BY <1>1, <1>4 DEF crosses_midnight
  <2>3. QED BY <1>1, <1>2, <2>1, <2>2 DEF Occurrence
<1>5. QED BY <1>3, <1>4

\* What active_occurrence() reports is nothing, or a window that is open.
LEMMA ActiveIsOpen ==
    ASSUME NEW s \in Schedule, NEW t \in Nat, active_occurrence(s, t) # NoOcc
    PROVE  active_occurrence(s, t) \in Occurrence /\ Contains(active_occurrence(s, t), t)
<1> DEFINE A == active_occurrences(s, t)
<1>1. A # {} /\ active_occurrence(s, t) = CHOOSE o \in A : \A p \in A : o.start <= p.start
  BY DEF active_occurrence
<1>2. \A o \in A : o \in Occurrence /\ Contains(o, t)
  <2>1. \A d \in DaysSelected(s, {Day(t) - 1, Day(t)}) : Day(t) # 0 => d \in Nat
    BY DayBounds DEF DaysSelected
  <2>2. QED BY <2>1, OccurrenceType DEF active_occurrences
<1>3. A \subseteq Occurrence
  BY <1>2
<1>4. active_occurrence(s, t) \in A
  BY <1>1, <1>3, FirstStart
<1>5. QED BY <1>2, <1>4

\* Earliest() of some occurrences is one of them.
LEMMA EarliestIsOne ==
    ASSUME NEW S, S \subseteq Occurrence, S # {}
    PROVE  Earliest(S) \in S
<1> DEFINE F == {o \in S : \A p \in S : o.start <= p.start}
           T == {o.schedule_id : o \in F}
<1>1. F # {} /\ F \subseteq Occurrence
  BY FirstStart
<1>2. T \subseteq Nat /\ T # {}
  BY <1>1 DEF Occurrence
<1>3. PICK n \in T : \A m \in T : n <= m
  BY <1>2, LeastNat
<1>4. \E o \in F : \A p \in F : o.schedule_id <= p.schedule_id
  BY <1>3
<1>5. Earliest(S) \in F
  BY <1>4 DEF Earliest
<1>6. QED BY <1>5

\* evaluate() never asks for a window that is not open: whenever it says
\* ShouldBroadcast, the occurrence it names contains the present instant.
THEOREM BroadcastsOpenWindows ==
    ASSUME NEW S \in SUBSET Schedule, NEW o \in Occurrence \cup {NoOcc}, NEW t \in Nat,
           evaluate(S, o, t).kind = "ShouldBroadcast"
    PROVE  /\ evaluate(S, o, t).occ \in Occurrence
           /\ Contains(evaluate(S, o, t).occ, t)
<1> DEFINE open == OpenWindows(S, t)
<1>1. CASE Contains(o, t)
  <2>1. evaluate(S, o, t).occ = o
    BY <1>1 DEF evaluate
  <2>2. o # NoOcc
    BY <1>1 DEF Contains, NoOcc
  <2>3. QED BY <1>1, <2>1, <2>2
<1>2. CASE ~Contains(o, t)
  <2>1. open # {} /\ evaluate(S, o, t).occ = Earliest(open)
    BY <1>2 DEF evaluate
  <2>2. \A w \in open : w \in Occurrence /\ Contains(w, t)
    BY ActiveIsOpen DEF OpenWindows
  <2>3. Earliest(open) \in open
    BY <2>1, <2>2, EarliestIsOne
  <2>4. QED BY <2>1, <2>2, <2>3
<1>3. QED BY <1>1, <1>2

\* A running window that is still open is kept, whatever else is open.
LEMMA RunningWindowIsKept ==
    ASSUME NEW S, NEW o \in Occurrence, NEW t \in Nat, Contains(o, t)
    PROVE  evaluate(S, o, t) = [kind |-> "ShouldBroadcast", occ |-> o]
BY DEF evaluate

=============================================================================
