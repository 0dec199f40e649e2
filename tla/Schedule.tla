------------------------------- MODULE Schedule --------------------------------
(***************************************************************************)
(* The two schedules of the program: when a camera's motion detection runs *)
(* (detect/config.go) and when a notification rule applies                 *)
(* (notify/worker.go). Both read the same JSON, each with a copy of the    *)
(* code of its own. A day is Minutes long; a schedule maps some of the     *)
(* keys "everyday" and the days to a list of windows (here a set: any one  *)
(* that is open opens the schedule) or to something else. A window is the  *)
(* two times it starts with and whether there is more in its list; a list  *)
(* that is shorter, or not one, has a time missing, which does not parse.  *)
(* The variable is the schedule, as an API client may put it together key  *)
(* by key and window by window.                                            *)
(***************************************************************************)
EXTENDS Naturals, FiniteSets

CONSTANTS
    Days,           \* number of days in a week
    Minutes,        \* number of minutes in a day
    MaxWindows      \* bound: windows of a schedule

ASSUME ScheduleAssumption == Days \in Nat \ {0} /\ Minutes \in Nat \ {0}

VARIABLE sched
schedVars == <<sched>>

BadTime == Minutes + 1                  \* what parseHM refuses
Hours == 0..Minutes \union {BadTime}    \* "24:00" parses
DayKeys == 0..Days - 1
SchedWindow == Hours \X Hours \X BOOLEAN
Longer(w) == w[3]

(* The value of a key: a list of windows, null or anything else that is no *)
(* list, or none as the key is not there.                                  *)
NoKey == [is |-> "none", windows |-> {}]
OtherKey == [is |-> "other", windows |-> {}]
ListOf(W) == [is |-> "list", windows |-> W]
EmptySchedule(s) == s.everyday = NoKey /\ \A d \in DayKeys : s.day[d] = NoKey
WindowCount == Cardinality(sched.everyday.windows)
               + Cardinality({d \in DayKeys : sched.day[d].windows # {}})

----------------------------------------------------------------------------
(* Whether the window is open at minute now; equal ends are no time at all.*)
(* Mutant: a window of equal ends is taken for one that wraps.             *)
WithinStrict(w, now) ==
    /\ BadTime \notin {w[1], w[2]}
    /\ IF w[1] < w[2] THEN now >= w[1] /\ now < w[2] ELSE now >= w[1] \/ now < w[2]
Within(w, now) ==
    /\ BadTime \notin {w[1], w[2]}
    /\ IF w[1] <= w[2] THEN now >= w[1] /\ now < w[2] ELSE now >= w[1] \/ now < w[2]

(* MotionConfig.Active: "everyday", when it is there at all, hides the day.*)
(* What is no list decodes to no windows, and of a list that is longer     *)
(* than two the [2]string keeps the first two.                             *)
WindowsOf(s, day) == (IF s.everyday # NoKey THEN s.everyday ELSE s.day[day]).windows
Active(s, day, now) == EmptySchedule(s) \/ \E w \in WindowsOf(s, day) : Within(w, now)

(* scheduleActive: "everyday" hides the day when it is a list, and a       *)
(* window that is not of exactly two is passed over.                       *)
(* Mutant: the day's windows are added to those of every day.              *)
ScheduleActiveBoth(s, day, now) ==
    \/ EmptySchedule(s)
    \/ \E w \in s.everyday.windows \union s.day[day].windows : ~Longer(w) /\ Within(w, now)
ScheduleActive(s, day, now) ==
    \/ EmptySchedule(s)
    \/ \E w \in (IF s.everyday.is = "list" THEN s.everyday ELSE s.day[day]).windows :
          ~Longer(w) /\ Within(w, now)

----------------------------------------------------------------------------
ScheduleInit == sched = [everyday |-> NoKey, day |-> [d \in DayKeys |-> NoKey]]

EditEveryday ==
    \/ sched' = [sched EXCEPT !.everyday = OtherKey]
    \/ sched' = [sched EXCEPT !.everyday = ListOf({})]
    \/ /\ sched.everyday.is = "list" /\ WindowCount < MaxWindows
       /\ \E w \in SchedWindow :
             sched' = [sched EXCEPT !.everyday = ListOf(@.windows \union {w})]

EditDay(d) ==
    \/ sched' = [sched EXCEPT !.day[d] = OtherKey]
    \/ sched' = [sched EXCEPT !.day[d] = ListOf({})]
    \/ /\ sched.day[d].is = "list" /\ WindowCount < MaxWindows
       /\ \E w \in SchedWindow : sched' = [sched EXCEPT !.day[d] = ListOf({w})]

ScheduleNext == EditEveryday \/ \E d \in DayKeys : EditDay(d)
ScheduleSpec == ScheduleInit /\ [][ScheduleNext]_schedVars

----------------------------------------------------------------------------
Now == 0..Minutes - 1

(* The two copies agree: a rule applies exactly when a motion detection of *)
(* the same schedule runs, but for two cases. Detection alone runs in a    *)
(* window whose list is longer than two. A rule alone applies, by the day, *)
(* when "everyday" is there and is not a list.                             *)
SchedulesAgree ==
    \A d \in DayKeys, now \in Now :
        /\ Active(sched, d, now) /\ ~ScheduleActive(sched, d, now) =>
              \E w \in WindowsOf(sched, d) : Longer(w) /\ Within(w, now)
        /\ ScheduleActive(sched, d, now) /\ ~Active(sched, d, now) =>
              sched.everyday.is = "other"
SchedulesAlwaysAgree ==
    \A d \in DayKeys, now \in Now : Active(sched, d, now) <=> ScheduleActive(sched, d, now)

(* Read on the circle of a day: windows of every day are open for the time *)
(* that passes from their start to their end, midnight or not, and one     *)
(* that does not parse never.                                              *)
Since(a, b) == (b + Minutes - a) % Minutes
WindowsOnTheCircle ==
    sched.everyday.is = "list" =>
        \A d \in DayKeys, now \in Now :
            Active(sched, d, now) <=>
                \E w \in sched.everyday.windows :
                    /\ BadTime \notin {w[1], w[2]}
                    /\ \/ w[1] = 0 /\ w[2] = Minutes
                       \/ Since(w[1] % Minutes, now) < Since(w[1] % Minutes, w[2] % Minutes)

(* A schedule means the same to both of its readers but in the two cases,  *)
(* and that is what the circle of the day says.                            *)
ScheduleSafe == SchedulesAgree /\ WindowsOnTheCircle

(* detect/config.go:51 "Windows may wrap midnight": the night a day's      *)
(* window opens goes on after midnight. It does not: the hours after       *)
(* midnight are looked up under the next day, and those before the end of  *)
(* the window are open on the morning of the day itself.                   *)
NightsGoOn ==
    sched.everyday = NoKey =>
        \A d \in DayKeys, now \in Now :
            (\E w \in sched.day[d].windows : w[2] < w[1] /\ w[1] < Minutes /\ now < w[2])
                => Active(sched, (d + 1) % Days, now)
===============================================================================
