------------------------ MODULE ScheduleTimesProofs ------------------------
(***************************************************************************)
(* Proofs about ScheduleTimes: for days and weeks of any length, changes   *)
(* of the clocks at any time and every schedule.                           *)
(***************************************************************************)
EXTENDS ScheduleTimes, FiniteSetTheorems, FunctionTheorems, WellFoundedInduction, TLAPS

-----------------------------------------------------------------------------
(* Greatest and least elements of finite sets of integers. *)

\* A finite non-empty set of integers has a greatest element: a smallest one
\* without would lose an element and still have none.
LEMMA GreatestExists ==
    ASSUME NEW S \in SUBSET Int, IsFiniteSet(S), S # {}
    PROVE  \E x \in S : \A y \in S : x >= y
<1> DEFINE Bad == {T \in FiniteSubsetsOf(Int) : T # {} /\ ~\E x \in T : \A y \in T : x >= y}
<1> SUFFICES ASSUME Bad # {} PROVE FALSE
  BY DEF FiniteSubsetsOf
<1>1. PICK T \in Bad : \A U \in Bad : <<U, T>> \notin StrictSubsetOrdering(Int)
  <2> HIDE DEF Bad
  <2>1. Bad \subseteq FiniteSubsetsOf(Int)
    BY DEF Bad
  <2> QED
    BY <2>1, FS_StrictSubsetOrderingWellFounded, WFMin
<1>2. PICK t \in T : TRUE
  OBVIOUS
<1> DEFINE R == T \ {t}
<1>3. R \in FiniteSubsetsOf(Int) /\ <<R, T>> \in StrictSubsetOrdering(Int)
  BY <1>2, FS_Subset DEF FiniteSubsetsOf, StrictSubsetOrdering
<1>4. R \notin Bad
  BY <1>1, <1>3
<1>5. CASE R = {}
  <2>1. T = {t} /\ t \in Int
    BY <1>2, <1>5 DEF FiniteSubsetsOf
  <2> QED
    BY <2>1
<1>6. CASE R # {}
  <2>1. PICK x \in R : \A y \in R : x >= y
    BY <1>3, <1>4, <1>6
  <2>2. x \in Int /\ t \in Int /\ T \subseteq Int
    BY <1>2, <2>1 DEF FiniteSubsetsOf
  <2>3. (\A y \in T : x >= y) \/ (\A y \in T : t >= y)
    BY <2>1, <2>2
  <2> QED
    BY <1>2, <2>1, <2>3
<1> QED
  BY <1>5, <1>6

\* Max of a finite non-empty set bounds its elements.
LEMMA MaxBounds ==
    ASSUME NEW S \in SUBSET Int, IsFiniteSet(S), S # {}
    PROVE  Max(S) \in S /\ \A y \in S : Max(S) >= y
BY GreatestExists DEF Max

\* Min of a finite non-empty set is one of its elements and bounds them.
LEMMA MinBounds ==
    ASSUME NEW S \in SUBSET Int, IsFiniteSet(S), S # {}
    PROVE  Min(S) \in S /\ \A y \in S : Min(S) =< y
<1> DEFINE N == {-x : x \in S}
           f == [x \in S |-> -x]
<1>1. f \in Surjection(S, N)
  BY DEF Surjection
<1>2. IsFiniteSet(N) /\ N \in SUBSET Int /\ N # {}
  <2>1. IsFiniteSet(N)
    <3> HIDE DEF N, f
    <3> QED
      BY <1>1, FS_Surjection
  <2>2. N \in SUBSET Int /\ N # {}
    OBVIOUS
  <2> QED
    BY <2>1, <2>2
<1>3. PICK n \in N : \A y \in N : n >= y
  BY <1>2, GreatestExists
<1>4. PICK x \in S : n = -x
  OBVIOUS
<1>5. \A y \in S : x =< y
  <2> TAKE y \in S
  <2>1. -y \in N /\ y \in Int /\ x \in Int
    OBVIOUS
  <2>2. n >= -y
    BY <1>3, <2>1
  <2> QED
    BY <1>4, <2>1, <2>2
<1> QED
  BY <1>5 DEF Min

-----------------------------------------------------------------------------
(* Schedules across the changes of the clocks. *)

\* LocalizeWallTime gives the first instant at which local clocks have reached
\* the time of the day, whichever day the clocks change on.
LEMMA WallTimeIsFirstReached ==
    ASSUME NEW day \in Int, NEW time \in Int, NEW n \in Int, n = day * DayHours + time
    PROVE  LET t == LocalizeWallTime(day, time)
           IN  t \in Int /\ Local(t) >= n /\ \A u \in Int : u < t => Local(u) < n
<1> DEFINE candidates == {n, n - 1}
           exact == {t \in candidates : Local(t) = n}
           later == {t \in candidates : Local(t) >= n}
           latest(t) == \A u \in later : Local(t) <= Local(u)
<1>1. Springs \in Int /\ Falls \in Int /\ Springs < Falls
  BY ScheduleTimesAssumption
<1>2. LocalizeWallTime(day, time) =
        IF exact # {} THEN Min(exact) ELSE CHOOSE t \in later : latest(t)
  BY DEF LocalizeWallTime
<1>3. CASE n - 1 \in exact
  <2>1. Min(exact) = n - 1
    BY <1>3 DEF Min
  <2> QED
    BY <1>1, <1>2, <1>3, <2>1 DEF Local
<1>4. CASE n - 1 \notin exact /\ n \in exact
  <2>1. exact = {n}
    BY <1>4
  <2>2. Min(exact) = n
    BY <2>1 DEF Min
  <2>3. Local(n) = n /\ Local(n - 1) # n /\ LocalizeWallTime(day, time) = n
    BY <1>2, <1>4, <2>2
  <2> HIDE DEF exact, later, candidates
  <2> QED
    BY <1>1, <2>3 DEF Local
<1>5. CASE exact = {}
  <2>1. n = Springs
    BY <1>1, <1>5 DEF Local
  <2>2. later = {n}
    BY <1>1, <2>1 DEF Local
  <2>3. LocalizeWallTime(day, time) = n
    <3>1. n \in later /\ latest(n) /\ \A t \in later : t = n
      BY <1>1, <2>1, <2>2 DEF Local
    <3>2. (CHOOSE t \in later : latest(t)) = n
      <4> HIDE DEF later
      <4> QED
        BY <3>1
    <3> QED
      BY <1>2, <1>5, <3>2
  <2> QED
    BY <1>1, <2>1, <2>3 DEF Local
<1> QED
  BY <1>3, <1>4, <1>5

\* What is reached later on the clocks is later.
LEMMA ReachedLater ==
    ASSUME NEW s \in Int, NEW t \in Int, Local(t) > Local(s)
    PROVE  t > s
BY ScheduleTimesAssumption DEF Local

\* An instant's day and time of day make up what the clocks read.
LEMMA DayAndTime ==
    ASSUME NEW local \in Int
    PROVE  /\ DayOf(local) \in Int /\ TimeOf(local) \in Int
           /\ local = DayOf(local) * DayHours + TimeOf(local)
           /\ 0 <= TimeOf(local) /\ TimeOf(local) < DayHours
BY ScheduleTimesAssumption DEF DayOf, TimeOf

\* So is any time of any later day.
LEMMA LaterDay ==
    ASSUME NEW s \in Int, NEW day \in Int, day > DayOf(Local(s)), NEW time \in Nat
    PROVE  LET t == LocalizeWallTime(day, time) IN t \in Int /\ t > s
<1> DEFINE d == DayOf(Local(s))
           p == day * DayHours
           q == d * DayHours
<1>1. Local(s) \in Int /\ DayHours \in Nat /\ DayHours > 0
  BY ScheduleTimesAssumption DEF Local
<1>2. /\ d \in Int /\ TimeOf(Local(s)) \in Int /\ Local(s) = q + TimeOf(Local(s))
      /\ 0 <= TimeOf(Local(s)) /\ TimeOf(Local(s)) < DayHours
  BY <1>1, DayAndTime
<1>3. p >= q + DayHours /\ p \in Int /\ q \in Int
  BY <1>1, <1>2
<1>4. p + time \in Int /\ p + time > Local(s)
  <2> HIDE DEF p, q
  <2> QED
    BY <1>1, <1>2, <1>3
<1>5. LET t == LocalizeWallTime(day, time) IN t \in Int /\ Local(t) >= p + time
  BY <1>4, WallTimeIsFirstReached
<1> QED
  BY <1>1, <1>4, <1>5, ReachedLater DEF Local

\* The window of an occurrence ends after its start, also when the clocks change
\* in between: no occurrence is over before it begins (compute_schedule_stop_time).
THEOREM WindowIsNotEmpty ==
    ASSUME NEW start \in Int, NEW ends \in Nat
    PROVE  WindowEnd(start, ends) \in Int /\ WindowEnd(start, ends) > start
<1> DEFINE day == DayOf(Local(start))
           time == TimeOf(Local(start))
<1>1. /\ Local(start) \in Int /\ day \in Int /\ time \in Int /\ DayHours \in Int
      /\ Local(start) = day * DayHours + time
  <2>1. Local(start) \in Int /\ DayHours \in Int
    BY ScheduleTimesAssumption DEF Local
  <2> QED
    BY <2>1, DayAndTime
<1>2. CASE ends <= time
  BY <1>1, <1>2, LaterDay DEF WindowEnd
<1>3. CASE ~(ends <= time)
  <2> DEFINE q == day * DayHours
  <2>1. q + ends \in Int /\ q + ends > Local(start)
    <3>1. q \in Int
      BY <1>1
    <3> HIDE DEF q
    <3> QED
      BY <1>1, <1>3, <3>1 DEF q
  <2>2. LET t == LocalizeWallTime(day, ends) IN t \in Int /\ Local(t) >= q + ends
    BY <1>1, <2>1, WallTimeIsFirstReached
  <2>3. WindowEnd(start, ends) = LocalizeWallTime(day, ends)
    BY <1>3 DEF WindowEnd
  <2> QED
    BY <1>1, <2>1, <2>2, <2>3, ReachedLater DEF Local
<1> QED
  BY <1>2, <1>3

\* A weekday stays the same a number of weeks later.
LEMMA RemainderIsUnique ==
    ASSUME NEW m \in Nat, m > 0, NEW w \in 0..(m - 1), NEW k \in Int
    PROVE  (w + k * m) % m = w
<1> DEFINE x == w + k * m
           j == (x \div m) - k
<1>1. x \in Int /\ j \in Int /\ x % m \in 0..(m - 1) /\ x = (x \div m) * m + (x % m)
  OBVIOUS
<1>2. w - (x % m) = j * m
  BY <1>1
<1>3. j = 0
  <2>1. j >= 1 => j * m >= m
    BY <1>1
  <2>2. j <= -1 => j * m <= -m
    BY <1>1
  <2> HIDE DEF j, x
  <2> QED
    BY <1>1, <1>2, <2>1, <2>2
<1> QED
  BY <1>1, <1>2, <1>3

\* Readings of the clocks at the same time of day are in the order of their days.
LEMMA DaysInOrder ==
    ASSUME NEW d \in Int, NEW e \in Int, d =< e
    PROVE  d * DayHours =< e * DayHours
BY ScheduleTimesAssumption

\* The reading of a day at a time of day has that day and that time of day.
LEMMA ReadingOfDay ==
    ASSUME NEW d \in Int, NEW time \in 0..(DayHours - 1)
    PROVE  DayOf(d * DayHours + time) = d /\ TimeOf(d * DayHours + time) = time
<1> DEFINE p == d * DayHours
           e == DayOf(p + time)
           q == e * DayHours
<1>1. DayHours \in Nat /\ DayHours > 0 /\ p \in Int /\ p + time \in Int /\ time \in Int
  BY ScheduleTimesAssumption
<1>2. TimeOf(p + time) = time
  <2>1. (time + d * DayHours) % DayHours = time
    BY <1>1, RemainderIsUnique
  <2>2. time + d * DayHours = p + time
    BY <1>1
  <2> QED
    BY <2>1, <2>2 DEF TimeOf
<1>3. e \in Int /\ p + time = e * DayHours + time
  BY <1>1, <1>2, DayAndTime
<1>4. p = q
  <2>1. q \in Int /\ p + time = q + time
    BY <1>1, <1>3
  <2> HIDE DEF p, q
  <2> QED
    BY <1>1, <2>1
<1>5. ~(e + 1 =< d) /\ ~(d + 1 =< e)
  <2>1. e + 1 =< d => (e + 1) * DayHours =< d * DayHours
    BY <1>3, DaysInOrder
  <2>2. d + 1 =< e => (d + 1) * DayHours =< e * DayHours
    BY <1>3, DaysInOrder
  <2>3. (e + 1) * DayHours = e * DayHours + DayHours /\ (d + 1) * DayHours = d * DayHours + DayHours
    BY <1>1, <1>3
  <2> QED
    BY <1>1, <1>4, <2>1, <2>2, <2>3
<1>6. e = d
  <2> HIDE DEF e
  <2> QED
    BY <1>3, <1>5
<1> QED
  BY <1>2, <1>6

\* The next start of a repeating schedule is on the first later day it names.
LEMMA NextDay ==
    ASSUME NEW start \in Int, NEW repeat, NEW weekdays \in SUBSET (0..(Week - 1))
    PROVE  LET named(d) == /\ d > DayOf(Local(start))
                           /\ repeat = "daily" \/ Weekday(d) \in ResolveWeekdays(start, weekdays)
           IN  \E day \in Int :
                 /\ named(day) /\ \A d \in Int : named(d) => day =< d
                 /\ ComputeNextRepeatingStart(start, repeat, weekdays)
                      = LocalizeWallTime(day, TimeOf(Local(start)))
<1> DEFINE day == DayOf(Local(start))
           time == TimeOf(Local(start))
           matching == IF repeat = "daily" THEN {day + 1}
                       ELSE {d \in (day + 1)..(day + 2 * Week) :
                               Weekday(d) \in ResolveWeekdays(start, weekdays)}
<1>1. day \in Int /\ time \in Nat /\ Week \in Nat /\ Week > 0
  <2>1. Local(start) \in Int
    BY ScheduleTimesAssumption DEF Local
  <2> QED
    BY <2>1, DayAndTime, ScheduleTimesAssumption
<1>2. matching # {}
  <2>1. CASE repeat = "daily"
    BY <2>1
  <2>2. CASE repeat # "daily"
    <3>1. PICK w \in ResolveWeekdays(start, weekdays) : w \in 0..(Week - 1)
      <4>1. Weekday(day) \in 0..(Week - 1)
        BY <1>1 DEF Weekday
      <4> QED
        BY <4>1 DEF ResolveWeekdays
    <3> DEFINE d == day + 1 + ((w - day - 1) % Week)
    <3>2. d \in (day + 1)..(day + 2 * Week)
      BY <1>1, <3>1
    <3>3. Weekday(d) = w
      <4> DEFINE k == -((w - day - 1) \div Week)
      <4>1. k \in Int /\ d = w + k * Week
        <5> DEFINE y == w - day - 1
        <5>1. y \in Int /\ y = (y \div Week) * Week + (y % Week)
          BY <1>1, <3>1
        <5>2. y \div Week \in Int /\ (-(y \div Week)) * Week = -((y \div Week) * Week)
          BY <1>1, <5>1
        <5>3. k * Week = -((y \div Week) * Week) /\ k \in Int
          BY <5>2
        <5> DEFINE A == (y \div Week) * Week
                   B == y % Week
        <5>4. A \in Int /\ B \in Int /\ w - day - 1 = A + B /\ d = day + 1 + B /\ k * Week = -A
          BY <1>1, <3>1, <5>1, <5>3
        <5>5. w \in Int
          BY <1>1, <3>1
        <5> HIDE DEF A, B, d, k, day
        <5>6. d = w - A
          BY <1>1, <5>4, <5>5
        <5>7. w - A = w + k * Week
          <6> DEFINE M == k * Week
          <6>1. M = -A
            BY <5>4
          <6> HIDE DEF M
          <6>2. w - A = w + M
            BY <5>4, <5>5, <6>1
          <6> QED
            BY <6>2 DEF M
        <5> QED
          BY <5>3, <5>6, <5>7
      <4> HIDE DEF d, k
      <4> QED
        BY <1>1, <3>1, <4>1, RemainderIsUnique DEF Weekday
    <3> QED
      BY <2>2, <3>1, <3>2, <3>3
  <2> QED
    BY <2>1, <2>2
<1>3. matching \in SUBSET Int /\ IsFiniteSet(matching)
  <2> DEFINE a == day + 1
             b == day + 2 * Week
  <2>1. a \in Int /\ b \in Int /\ a <= b
    BY <1>1
  <2>2. matching \in SUBSET (a..b)
    BY <1>1, <2>1
  <2> HIDE DEF matching, a, b
  <2>3. IsFiniteSet(a..b)
    BY <2>1, FS_Interval
  <2>4. IsFiniteSet(matching)
    BY <2>2, <2>3, FS_Subset
  <2>5. a..b \in SUBSET Int
    BY <2>1
  <2> QED
    BY <2>2, <2>4, <2>5
<1>4. Min(matching) \in matching /\ \A d \in matching : Min(matching) =< d
  BY <1>2, <1>3, MinBounds
<1>5. Min(matching) \in Int /\ Min(matching) > day
  BY <1>1, <1>4
<1>6. ComputeNextRepeatingStart(start, repeat, weekdays) = LocalizeWallTime(Min(matching), time)
  BY DEF ComputeNextRepeatingStart
<1>7. repeat = "daily" \/ Weekday(Min(matching)) \in ResolveWeekdays(start, weekdays)
  BY <1>4
<1>8. ASSUME NEW d \in Int, d > day,
             repeat = "daily" \/ Weekday(d) \in ResolveWeekdays(start, weekdays)
      PROVE  Min(matching) =< d
  <2>1. CASE repeat = "daily"
    BY <1>1, <1>4, <1>8, <2>1
  <2>2. CASE repeat # "daily" /\ d =< day + 2 * Week
    <3>1. d \in matching
      BY <1>1, <1>8, <2>2
    <3> HIDE DEF matching
    <3> QED
      BY <1>4, <3>1
  <2>3. CASE repeat # "daily" /\ d > day + 2 * Week
    <3>1. Min(matching) =< day + 2 * Week
      BY <1>1, <1>4, <2>3
    <3> HIDE DEF matching
    <3> QED
      BY <1>1, <1>5, <1>8, <2>3, <3>1
  <2> QED
    BY <1>1, <1>8, <2>1, <2>2, <2>3
<1> HIDE DEF matching
<1> QED
  BY <1>5, <1>6, <1>7, <1>8

\* The next start of a repeating schedule is after the last one, whatever the
\* weekdays and the changes of the clocks: the scheduler cannot launch an
\* occurrence for ever (compute_next_repeating_start).
THEOREM RecurrenceAdvances ==
    ASSUME NEW start \in Int, NEW repeat, NEW weekdays \in SUBSET (0..(Week - 1))
    PROVE  LET next == ComputeNextRepeatingStart(start, repeat, weekdays)
           IN  next \in Int /\ next > start
<1>1. PICK day \in Int :
        /\ day > DayOf(Local(start))
        /\ ComputeNextRepeatingStart(start, repeat, weekdays)
             = LocalizeWallTime(day, TimeOf(Local(start)))
  BY NextDay
<1>2. Local(start) \in Int
  BY ScheduleTimesAssumption DEF Local
<1>3. TimeOf(Local(start)) \in Nat
  BY <1>2, DayAndTime
<1> QED
  BY <1>1, <1>3, LaterDay

\* The stop of an occurrence is an instant, when there is one.
LEMMA StopType ==
    ASSUME NEW start \in Int \cup {None}, NEW explicit \in Int \cup {None},
           NEW ends \in Nat \cup {None}, NEW after \in Nat \cup {None}
    PROVE  ComputeScheduleStop(start, explicit, ends, after) \in Int \cup {None}
<1> DEFINE candidates == {start + a : a \in {after} \ {None}}
                            \cup {WindowEnd(start, e) : e \in {ends} \ {None}}
           future == {t \in candidates : t > start}
           chosen == IF future # {} THEN future ELSE candidates
<1>1. SUFFICES ASSUME explicit = None, start # None, {ends, after} # {None}
               PROVE  Min(chosen) \in Int
  BY DEF ComputeScheduleStop
<1>2. start \in Int /\ None \notin Int
  BY <1>1, ScheduleTimesAssumption
<1>3. candidates # {} /\ candidates \in SUBSET Int
  <2>1. \A e \in {ends} \ {None} : WindowEnd(start, e) \in Int
    BY <1>2, WindowIsNotEmpty
  <2>2. \A a \in {after} \ {None} : start + a \in Int
    BY <1>2
  <2> QED
    BY <1>1, <2>1, <2>2
<1>4. candidates \in SUBSET {start + after, WindowEnd(start, ends)}
  OBVIOUS
<1>5. IsFiniteSet({start + after, WindowEnd(start, ends)})
  <2> DEFINE a == start + after
             b == WindowEnd(start, ends)
  <2> HIDE DEF a, b
  <2>1. IsFiniteSet({a}) /\ {a, b} = {a} \cup {b}
    BY FS_Singleton
  <2>2. IsFiniteSet({a, b})
    BY <2>1, FS_AddElement
  <2> QED
    BY <2>2 DEF a, b
<1>6. chosen \in SUBSET candidates /\ chosen # {}
  BY <1>3
<1> HIDE DEF chosen, candidates
<1>7. IsFiniteSet(chosen)
  BY <1>4, <1>5, <1>6, FS_Subset
<1> QED
  BY <1>3, <1>6, <1>7, MinBounds
=============================================================================
