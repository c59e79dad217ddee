---------------------------- MODULE DailyUpdate ----------------------------
(***************************************************************************)
(* The calendar of update.sh: on which dates it tries to update, what it   *)
(* does then being in Supervision.  The clock goes on between any two      *)
(* readings of the script, but it stays on a date, and on each side of     *)
(* startTime, for many turns of the loop.                                  *)
(***************************************************************************)
EXTENDS Integers

CONSTANTS
  MaxDate,        \* bound: the dates are 1 .. MaxDate
  Turns           \* bound: the turns of the loop a half of a date has at least

VARIABLES
  date, late,     \* the clock: the date, and whether it is past startTime
  pc,             \* boot, loop, time, date, update
  isNewDay, perDate,
  curTime, curDate,   \* curTime: what was read is past startTime
  turns,          \* of the loop since the clock, the start or an update, up to Turns
  fresh,          \* fewer than Turns since the start or an update
  tried,          \* history: the dates on which an update was decided on,
  again,          \* those on which one was decided on twice,
  under,          \* those on which one was under way,
  cut             \* and whether there was a midnight while fresh

vars == <<date, late, pc, isNewDay, perDate, curTime, curDate, turns, fresh, tried, again, under, cut>>
clock == <<date, late>>
history == <<tried, again, under, cut>>

Init ==
  /\ date = 1 /\ late \in BOOLEAN
  /\ pc = "boot" /\ isNewDay = 1 /\ perDate = 0
  /\ curTime = FALSE /\ curDate = 0
  /\ turns = 0 /\ fresh = FALSE
  /\ tried = {} /\ again = {} /\ under = {} /\ cut = FALSE

\* An update lasts as long as its downloads do; the start and its end may come
\* at any time.
Tick ==
  /\ turns = Turns \/ fresh \/ pc = "update"
  /\ IF late THEN date < MaxDate /\ date' = date + 1 ELSE UNCHANGED date
  /\ late' = ~late
  /\ turns' = 0 /\ fresh' = FALSE
  /\ under' = IF pc = "update" THEN under \cup {date'} ELSE under
  /\ cut' = (cut \/ (fresh /\ late))
  /\ UNCHANGED <<pc, isNewDay, perDate, curTime, curDate, tried, again>>

-----------------------------------------------------------------------------
Boot ==
  /\ pc = "boot" /\ pc' = "loop"
  /\ perDate' = date
  /\ fresh' = TRUE
  /\ UNCHANGED <<clock, isNewDay, curTime, curDate, turns, history>>

ReadTime ==
  /\ pc = "loop" /\ pc' = "time"
  /\ curTime' = late
  \* history: the date the time is of
  /\ tried' = IF isNewDay = 1 /\ late THEN tried \cup {date} ELSE tried
  /\ again' = IF isNewDay = 1 /\ late THEN again \cup (tried \cap {date}) ELSE again
  /\ UNCHANGED <<clock, isNewDay, perDate, curDate, turns, fresh, under, cut>>

ReadDate ==
  /\ pc = "time" /\ pc' = "date"
  /\ curDate' = date
  /\ UNCHANGED <<clock, isNewDay, perDate, curTime, turns, fresh, history>>

\* sleep 2, and the loop's next turn.
EndTurn ==
  /\ pc' = "loop"
  /\ turns' = IF turns < Turns THEN turns + 1 ELSE turns
  /\ fresh' = (fresh /\ turns' < Turns)

Update ==
  /\ pc = "date" /\ isNewDay = 1 /\ curTime
  /\ pc' = "update"
  /\ under' = under \cup {date}
  /\ fresh' = FALSE
  /\ UNCHANGED <<clock, isNewDay, perDate, curTime, curDate, turns, tried, again, cut>>

\* Whatever came of it: no version file, an empty one, the recorded version or
\* another.
Updated ==
  /\ pc = "update"
  /\ isNewDay' = 0
  /\ pc' = "loop" /\ turns' = 0 /\ fresh' = TRUE
  /\ UNCHANGED <<clock, perDate, curTime, curDate, history>>

TooEarly ==
  /\ pc = "date" /\ isNewDay = 1 /\ ~curTime
  /\ EndTurn
  /\ UNCHANGED <<clock, isNewDay, perDate, curTime, curDate, history>>

SameDay ==
  /\ pc = "date" /\ isNewDay = 0 /\ curDate <= perDate
  /\ EndTurn
  /\ UNCHANGED <<clock, isNewDay, perDate, curTime, curDate, history>>

\* Mutant of NewDay: the new date is not kept.
NewDayAnyway ==
  /\ pc = "date" /\ isNewDay = 0 /\ curDate > perDate
  /\ isNewDay' = 1
  /\ EndTurn
  /\ UNCHANGED <<clock, perDate, curTime, curDate, history>>

NewDay ==
  /\ pc = "date" /\ isNewDay = 0 /\ curDate > perDate
  /\ isNewDay' = 1 /\ perDate' = curDate
  /\ EndTurn
  /\ UNCHANGED <<clock, curTime, curDate, history>>

Script == Boot \/ ReadTime \/ ReadDate \/ Update \/ Updated \/ TooEarly \/ SameDay \/ NewDay

Next == Tick \/ Script

Spec == Init /\ [][Next]_vars

-----------------------------------------------------------------------------
(***************************************************************************)
(* update.sh:7, "once a day": no date has two updates, and none passes     *)
(* without one but the dates on which an earlier one was still under way.  *)
(* This is so if midnight does not come within the first turns of the loop *)
(* after the start or after an update; perDate is old then, and the next   *)
(* date may have two.                                                      *)
(***************************************************************************)
OnceADay == cut \/ (again = {} /\ 1 .. date - 1 \subseteq tried \cup under)

=============================================================================
