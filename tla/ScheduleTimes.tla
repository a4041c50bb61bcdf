--------------------------- MODULE ScheduleTimes ---------------------------
(***************************************************************************)
(* The arithmetic of schedules, backend/app/core/stream_schedule.py, in    *)
(* hours.  An instant (UTC) is a number of hours since a midnight; a day   *)
(* has DayHours of them and a week Week days, the first of them day 0.     *)
(* The user's time zone is an hour ahead of UTC from Springs until Falls:  *)
(* local clocks skip an hour at Springs and repeat one at Falls.           *)
(***************************************************************************)
EXTENDS Integers, FiniteSets, FiniteSetsExt

CONSTANTS
    DayHours, Week,  \* 24 and 7 in the world
    Springs, Falls,  \* instants of the changes of the clocks
    None             \* no instant, no constraint

ASSUME ScheduleTimesAssumption ==
    /\ DayHours \in Nat \ {0} /\ Week \in Nat \ {0}
    /\ Springs \in Nat /\ Falls \in Nat /\ Springs < Falls
    /\ None \notin Int

Local(t) == IF Springs <= t /\ t < Falls THEN t + 1 ELSE t   \* what local clocks read

DayOf(local) == local \div DayHours
TimeOf(local) == local % DayHours
Weekday(day) == day % Week

\* Mutant: of a time the clocks read twice, the later is taken.
LocalizeLate(day, time) ==
    LET naive == day * DayHours + time
        candidates == {naive, naive - 1}
        exact == {t \in candidates : Local(t) = naive}
    IN  IF exact # {} THEN Max(exact) ELSE naive

\* _localize_wall_time: the earliest instant at which local clocks read the time
\* of the day; when they skip it, the instant with the next reading.
LocalizeWallTime(day, time) ==
    LET naive == day * DayHours + time
        candidates == {naive, naive - 1}
        exact == {t \in candidates : Local(t) = naive}
        later == {t \in candidates : Local(t) >= naive}
    IN  IF exact # {} THEN Min(exact)
        ELSE CHOOSE t \in later : \A u \in later : Local(t) <= Local(u)

\* resolve_weekly_weekdays: without any, the weekday of the start.
ResolveWeekdays(start, weekdays) ==
    IF weekdays # {} THEN weekdays ELSE {Weekday(DayOf(Local(start)))}

\* compute_next_repeating_start, of a schedule that repeats
ComputeNextRepeatingStart(start, repeat, weekdays) ==
    LET day == DayOf(Local(start))
        matching == IF repeat = "daily" THEN {day + 1}
                    ELSE {d \in (day + 1)..(day + 2 * Week) : Weekday(d) \in ResolveWeekdays(start, weekdays)}
    IN  LocalizeWallTime(Min(matching), TimeOf(Local(start)))

\* The end of the window of an occurrence, on the next day when the time of day
\* at which it ends is not after the start's.
WindowEnd(start, ends) ==
    LET day == DayOf(Local(start))
    IN  LocalizeWallTime(IF ends <= TimeOf(Local(start)) THEN day + 1 ELSE day, ends)

\* compute_schedule_stop_time: an explicit stop, else the first constraint to
\* end the occurrence after its start.
ComputeScheduleStop(start, explicit, ends, after) ==
    LET candidates == {start + a : a \in {after} \ {None}}
                         \cup {WindowEnd(start, e) : e \in {ends} \ {None}}
        future == {t \in candidates : t > start}
    IN  IF explicit # None THEN explicit
        ELSE IF start = None \/ {ends, after} = {None} THEN None
        ELSE Min(IF future # {} THEN future ELSE candidates)
=============================================================================
