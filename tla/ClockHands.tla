------------------------------- MODULE ClockHands ------------------------------
(***************************************************************************)
(* The local times at which src/src/analog_clock_face.rs draws, and the    *)
(* angles of the hands in them.  f32 angles are modelled by integers in    *)
(* 1/180000 of the circle, in which every hand angle is exact.             *)
(***************************************************************************)
EXTENDS Integers

DaySeconds == 86400
Midnight == DaySeconds * 1000

CONSTANTS
  Dates,        \* <<day, month>> pairs
  StartTime,    \* when the time gets known
  Later         \* milliseconds between two pictures

ASSUME ClockHandsAssumption ==
  /\ Dates \subseteq (1..31) \X (1..12)
  /\ StartTime \in 0..Midnight - 1
  /\ Later \subseteq Nat \ {0}

VARIABLE local_time  \* the time of the last picture

Circle == 180000

\* The number at the mark of minute i.
NumberAt(i) == IF i = 0 THEN 12 ELSE i \div 5

\* chrono (external): the hour on a clock face, and whether it is PM.
hour12(t) == [pm |-> t.hour >= 12, hour |-> IF t.hour % 12 = 0 THEN 12 ELSE t.hour % 12]

seconds_phi(t) == (t.second * 1000 + t.milli) * 3
minutes_phi(t) == (t.minute * 60 + t.second) * 50

\* Mutants of hours_phi: "subtract 1 to move range from 1..12 to 0..11" as
\* the comment has it, and the stalling hand of the code commented out.
HoursFromZero(t) == ((hour12(t).hour - 1) * 60 + t.minute) * 250
HoursStalling(t) == hour12(t).hour * 60 * 250
hours_phi(t) == (hour12(t).hour * 60 + t.minute) * 250

-----------------------------------------------------------------------------
(* The time passes (time_now and its local time zone)                      *)

MillisOf(t) == ((t.hour * 60 + t.minute) * 60 + t.second) * 1000 + t.milli
TimeAt(millis, date) ==
  LET seconds == millis \div 1000
  IN [hour |-> seconds \div 3600, minute |-> (seconds \div 60) % 60,
      second |-> seconds % 60, milli |-> millis % 1000,
      day |-> date[1], month |-> date[2]]

TimeInit == local_time \in {TimeAt(StartTime, date) : date \in Dates}

\* The next picture is drawn at a later time; a new day has any date.
TimePasses(d) ==
  LET millis == MillisOf(local_time) + d
      today == <<local_time.day, local_time.month>>
  IN \E date \in (IF millis < Midnight THEN {today} ELSE Dates) :
       local_time' = TimeAt(millis % Midnight, date)

TimeNext == \E d \in Later : TimePasses(d)

TimeSpec == TimeInit /\ [][TimeNext]_local_time

-----------------------------------------------------------------------------
(* Properties                                                              *)

LocalTime ==
  [hour : 0..23, minute : 0..59, second : 0..59, milli : 0..999, day : 1..31, month : 1..12]

\* Who reads the clock reads the local time: the hour is the number at the
\* last hour mark that the hour hand has passed, the minute and the second
\* are the marks that the other two have passed, and the label tells AM from
\* PM.
MarkPassed(phi) == (phi % Circle) \div (Circle \div 60)
ReadsBack(t) ==
  LET number == NumberAt((MarkPassed(hours_phi(t)) \div 5) * 5)
  IN /\ t.hour = (number % 12) + (IF hour12(t).pm THEN 12 ELSE 0)
     /\ t.minute = MarkPassed(minutes_phi(t))
     /\ t.second = MarkPassed(seconds_phi(t))
HandsReadable == ReadsBack(local_time)

\* From one picture to the next the hands turn as far as the time between
\* them says, over every full minute and hour and over noon and midnight: the
\* second hand sweeps, the others step by what a second and a minute are.
Turn(phi1, phi2) == (phi2 - phi1) % Circle
Sweep ==
  LET passed == (MillisOf(local_time') - MillisOf(local_time)) % Midnight
  IN /\ Turn(seconds_phi(local_time), seconds_phi(local_time')) = (3 * passed) % Circle
     /\ Turn(minutes_phi(local_time), minutes_phi(local_time')) <= 50 * (passed \div 1000 + 1)
     /\ Turn(hours_phi(local_time), hours_phi(local_time')) <= 250 * (passed \div 60000 + 1)
HandsSweep == [][Sweep]_local_time
================================================================================
