-------------------------- MODULE ClockFaceProofs --------------------------
(***************************************************************************)
(* Proofs about what the clock draws: for every millisecond of every day,  *)
(* the angles of its hands; for every stroke on the screen, the way that   *)
(* the lit beam takes; for every picture, how much of a buffer it needs.   *)
(***************************************************************************)
EXTENDS ClockFace, SequenceTheorems, WellFoundedInduction, TLAPS

(***************************************************************************)
(* Induction, stated with the set of the numbers for which a claim holds.  *)
(***************************************************************************)

\* A set with 0 and with every successor of its elements has all numbers:
\* there is no least number outside of it.
LEMMA SetInduction ==
  ASSUME NEW S, 0 \in S, \A n \in Nat : n \in S => n + 1 \in S
  PROVE  \A n \in Nat : n \in S
  <1> DEFINE Outside == Nat \ S
             R == OpToRel(<, Nat)
  <1> SUFFICES ASSUME Outside # {} PROVE FALSE
    OBVIOUS
  <1>1. IsWellFoundedOn(R, Nat)
    BY NatLessThanWellFounded
  <1>2. Outside \subseteq Nat
    OBVIOUS
  <1> HIDE DEF Outside, R
  <1>3. PICK x \in Outside : \A y \in Outside : <<y, x>> \notin R
    BY <1>1, <1>2, WFMin
  <1>4. x \in Nat /\ x \notin S /\ x # 0
    BY <1>3 DEF Outside
  <1>5. x - 1 \in Nat /\ (x - 1) + 1 = x
    BY <1>4
  <1>6. x - 1 \in Outside /\ <<x - 1, x>> \in R
    BY <1>4, <1>5 DEF Outside, R, OpToRel
  <1> QED
    BY <1>3, <1>6

(***************************************************************************)
(* The hands.                                                              *)
(***************************************************************************)
\* A number of milliseconds within a day is a time of day.
LEMMA DayTime ==
  ASSUME NEW millis \in 0..Midnight - 1
  PROVE  LET seconds == millis \div 1000
         IN /\ seconds \div 3600 \in 0..23 /\ (seconds \div 60) % 60 \in 0..59
            /\ seconds % 60 \in 0..59 /\ millis % 1000 \in 0..999
  <1> DEFINE seconds == millis \div 1000
  <1>1. DaySeconds \in Nat
    BY DEF DaySeconds
  <1>2. seconds \in Nat /\ seconds < DaySeconds /\ millis % 1000 \in 0..999
    BY <1>1 DEF Midnight
  <1> HIDE DEF seconds
  <1>3. seconds < 86400
    BY <1>2 DEF DaySeconds
  <1>4. /\ seconds \div 3600 \in 0..23 /\ (seconds \div 60) % 60 \in 0..59
        /\ seconds % 60 \in 0..59
    BY <1>2, <1>3
  <1> QED
    BY <1>2, <1>4 DEF seconds

\* So it makes a local time.
LEMMA TimeAtFacts ==
  ASSUME NEW millis \in 0..Midnight - 1, NEW date \in (1..31) \X (1..12)
  PROVE  TimeAt(millis, date) \in LocalTime
  <1> DEFINE seconds == millis \div 1000
             hour == seconds \div 3600
             minute == (seconds \div 60) % 60
             second == seconds % 60
             milli == millis % 1000
  <1>1. date[1] \in 1..31 /\ date[2] \in 1..12
    OBVIOUS
  <1>2. /\ hour \in 0..23 /\ minute \in 0..59
        /\ second \in 0..59 /\ milli \in 0..999
    BY DayTime
  <1>3. TimeAt(millis, date) = [hour |-> hour, minute |-> minute, second |-> second,
                                milli |-> milli, day |-> date[1], month |-> date[2]]
    BY Zenon DEF TimeAt
  <1> HIDE DEF hour, minute, second, milli
  <1> QED
    BY <1>1, <1>2, <1>3 DEF LocalTime

\* The hour hand, between the mark of its hour and the next one.
LEMMA HourMark ==
  ASSUME NEW t \in LocalTime
  PROVE  NumberAt((MarkPassed(hours_phi(t)) \div 5) * 5) = hour12(t).hour
  <1> DEFINE h == hour12(t).hour
  <1>1. h \in 1..12 /\ t.minute \in 0..59
    BY DEF hour12, LocalTime
  <1> HIDE DEF h
  <1>2. hours_phi(t) = 15000 * h + 250 * t.minute
    BY <1>1 DEF hours_phi, h
  <1>3. CASE h = 12
    <2>1. hours_phi(t) % Circle = 250 * t.minute
      BY <1>1, <1>2, <1>3 DEF Circle
    <2>2. MarkPassed(hours_phi(t)) \in 0..4
      BY <1>1, <2>1 DEF MarkPassed, Circle
    <2> QED
      BY <1>3, <2>2 DEF NumberAt, h
  <1>4. CASE h # 12
    <2>1. hours_phi(t) % Circle = 15000 * h + 250 * t.minute
      BY <1>1, <1>2, <1>4 DEF Circle
    <2>2. MarkPassed(hours_phi(t)) \in 5 * h..5 * h + 4
      BY <1>1, <2>1 DEF MarkPassed, Circle
    <2>3. MarkPassed(hours_phi(t)) \div 5 = h
      BY <1>1, <2>2
    <2> QED
      BY <1>1, <2>3 DEF NumberAt, h
  <1> QED
    BY <1>3, <1>4

\* All three hands and the hour of the day.
LEMMA ReadsBackAlways ==
  ASSUME NEW t \in LocalTime
  PROVE  ReadsBack(t)
  <1> DEFINE hour == t.hour  minute == t.minute  second == t.second  milli == t.milli
  <1>1. /\ hour \in 0..23 /\ minute \in 0..59 /\ second \in 0..59 /\ milli \in 0..999
    BY DEF LocalTime
  <1>2. /\ hour12(t).hour = (IF hour % 12 = 0 THEN 12 ELSE hour % 12)
        /\ hour12(t).pm <=> hour >= 12
    BY DEF hour12
  <1>3. minutes_phi(t) = (minute * 60 + second) * 50
    BY DEF minutes_phi
  <1>4. seconds_phi(t) = (second * 1000 + milli) * 3
    BY DEF seconds_phi
  <1> HIDE DEF hour, minute, second, milli
  <1>5. hour = (hour12(t).hour % 12) + (IF hour12(t).pm THEN 12 ELSE 0)
    BY <1>1, <1>2
  <1>6. minute = MarkPassed(minutes_phi(t))
    BY <1>1, <1>3 DEF MarkPassed, Circle
  <1>7. second = MarkPassed(seconds_phi(t))
    BY <1>1, <1>4 DEF MarkPassed, Circle
  <1> QED
    BY <1>5, <1>6, <1>7, HourMark DEF ReadsBack, hour, minute, second

\* The clock face stays within the times of day.
InDay == local_time \in LocalTime

\* InDay is inductive: a new day begins at 0 o'clock of one of the dates.
LEMMA LocalTimeHolds == TimeSpec => []InDay
  <1>1. TimeInit => InDay
    BY ClockHandsAssumption, TimeAtFacts DEF TimeInit, InDay
  <1>2. InDay /\ [TimeNext]_local_time => InDay'
    <2> SUFFICES ASSUME local_time \in LocalTime, NEW d \in Later, TimePasses(d)
                 PROVE  local_time' \in LocalTime
      BY DEF TimeNext, InDay
    <2> DEFINE millis == MillisOf(local_time) + d
    <2>1. MillisOf(local_time) \in Nat /\ d \in Nat
      <3>1. /\ local_time.hour \in Nat /\ local_time.minute \in Nat
            /\ local_time.second \in Nat /\ local_time.milli \in Nat
        BY DEF LocalTime
      <3> QED
        BY <3>1, ClockHandsAssumption DEF MillisOf
    <2>2. millis % Midnight \in 0..Midnight - 1
      <3>1. Midnight \in Nat /\ Midnight > 0
        BY DEF Midnight, DaySeconds
      <3> QED
        BY <2>1, <3>1
    <2>3. CASE \E date \in Dates : local_time' = TimeAt(millis % Midnight, date)
      BY <2>2, <2>3, TimeAtFacts, ClockHandsAssumption
    <2>4. CASE local_time' = TimeAt(millis % Midnight, <<local_time.day, local_time.month>>)
      <3>1. <<local_time.day, local_time.month>> \in (1..31) \X (1..12)
        BY DEF LocalTime
      <3> HIDE DEF millis
      <3> QED
        BY <2>2, <2>4, <3>1, TimeAtFacts, Zenon
    <2> QED
      BY <2>3, <2>4 DEF TimePasses
  <1> QED
    BY <1>1, <1>2, PTL DEF TimeSpec

\* Whenever the clock draws, the hour is the number that the hour hand has
\* passed, minute and second the marks passed by the other two.
THEOREM AlwaysReadable == TimeSpec => []HandsReadable
  <1>1. InDay => HandsReadable
    BY ReadsBackAlways DEF HandsReadable, InDay
  <1> QED
    BY <1>1, LocalTimeHolds, PTL

\* The angles as functions of the milliseconds since midnight.
LEMMA PhiOfMillis ==
  ASSUME NEW t \in LocalTime
  PROVE  LET millis == MillisOf(t)
         IN /\ millis \in Nat
            /\ seconds_phi(t) = 3 * (millis % 60000)
            /\ minutes_phi(t) = 50 * ((millis \div 1000) % 3600)
            /\ \E turns \in {0, 1} :
                 hours_phi(t) = 250 * ((millis \div 60000) % 720) + Circle * turns
  <1> DEFINE hour == t.hour  minute == t.minute  second == t.second  milli == t.milli
             millis == MillisOf(t)
  <1>1. /\ hour \in 0..23 /\ minute \in 0..59 /\ second \in 0..59 /\ milli \in 0..999
    BY DEF LocalTime
  <1>2. millis = ((hour * 60 + minute) * 60 + second) * 1000 + milli
    BY DEF MillisOf
  <1>3. hour12(t).hour = (IF hour % 12 = 0 THEN 12 ELSE hour % 12)
    BY DEF hour12
  <1>4. /\ seconds_phi(t) = (second * 1000 + milli) * 3
        /\ minutes_phi(t) = (minute * 60 + second) * 50
        /\ hours_phi(t) = (hour12(t).hour * 60 + minute) * 250
    BY DEF seconds_phi, minutes_phi, hours_phi
  <1> HIDE DEF hour, minute, second, milli, millis
  <1>5. /\ millis \in Nat /\ millis \div 1000 = (hour * 60 + minute) * 60 + second
        /\ millis \div 60000 = hour * 60 + minute
    BY SMT, <1>1, <1>2
  <1>6. seconds_phi(t) = 3 * (millis % 60000)
    BY SMT, <1>1, <1>2, <1>4
  <1>7. minutes_phi(t) = 50 * ((millis \div 1000) % 3600)
    BY SMT, <1>1, <1>4, <1>5
  <1>8. \E turns \in {0, 1} :
          hours_phi(t) = 250 * ((millis \div 60000) % 720) + Circle * turns
    <2>1. hour12(t).hour = hour % 12 \/ (hour12(t).hour = 12 /\ hour % 12 = 0)
      BY <1>3
    <2>2. (millis \div 60000) % 720 = (hour % 12) * 60 + minute
      BY SMT, <1>1, <1>5
    <2>3. \/ hours_phi(t) = 250 * ((millis \div 60000) % 720) + Circle * 0
          \/ hours_phi(t) = 250 * ((millis \div 60000) % 720) + Circle * 1
      BY SMT, <1>1, <1>4, <2>1, <2>2 DEF Circle
    <2> QED
      BY <2>3
  <1> QED
    BY <1>5, <1>6, <1>7, <1>8 DEF millis

\* So they turn by what passes, modulo a day: seconds, minutes and hours.
LEMMA TurnOfMillis ==
  ASSUME NEW a \in Nat, NEW b \in Nat, NEW m \in {0, 1}, NEW n \in {0, 1}
  PROVE  LET passed == (b - a) % Midnight
         IN /\ Turn(3 * (a % 60000), 3 * (b % 60000)) = (3 * passed) % Circle
            /\ Turn(50 * ((a \div 1000) % 3600), 50 * ((b \div 1000) % 3600))
                 <= 50 * (passed \div 1000 + 1)
            /\ Turn(250 * ((a \div 60000) % 720) + Circle * m,
                    250 * ((b \div 60000) % 720) + Circle * n)
                 <= 250 * (passed \div 60000 + 1)
  <1> DEFINE passed == (b - a) % Midnight
             days == -((b - a) \div Midnight)
  <1>1. passed \in Nat /\ days \in Int /\ passed = b - a + 86400000 * days
    BY SMT DEF Midnight, DaySeconds
  <1> HIDE DEF passed, days
  <1>2. (3 * (b % 60000) - 3 * (a % 60000)) % 180000 = (3 * passed) % 180000
    BY SMT, <1>1
  <1>3. (50 * ((b \div 1000) % 3600) - 50 * ((a \div 1000) % 3600)) % 180000
          <= 50 * (passed \div 1000 + 1)
    BY SMT, <1>1
  <1>4. ((250 * ((b \div 60000) % 720) + 180000 * n)
           - (250 * ((a \div 60000) % 720) + 180000 * m)) % 180000
          <= 250 * (passed \div 60000 + 1)
    BY SMTT(30), <1>1
  <1> QED
    BY SMT, <1>2, <1>3, <1>4 DEF passed, Turn, Circle

\* From every picture to the next, the hands turn as far as the time that
\* passed says, over full minutes and hours, noon and midnight.
THEOREM HandsFollowTime == TimeSpec => HandsSweep
  <1>1. InDay /\ InDay' => Sweep
    <2> SUFFICES ASSUME InDay, InDay' PROVE Sweep
      OBVIOUS
    <2> DEFINE a == MillisOf(local_time)  b == MillisOf(local_time')
    <2>1. local_time \in LocalTime /\ local_time' \in LocalTime
      BY DEF InDay
    <2>2. /\ a \in Nat /\ b \in Nat
          /\ seconds_phi(local_time) = 3 * (a % 60000)
          /\ seconds_phi(local_time') = 3 * (b % 60000)
          /\ minutes_phi(local_time) = 50 * ((a \div 1000) % 3600)
          /\ minutes_phi(local_time') = 50 * ((b \div 1000) % 3600)
      BY <2>1, PhiOfMillis
    <2>3. PICK m \in {0, 1} : hours_phi(local_time) = 250 * ((a \div 60000) % 720) + Circle * m
      BY <2>1, PhiOfMillis
    <2>4. PICK n \in {0, 1} : hours_phi(local_time') = 250 * ((b \div 60000) % 720) + Circle * n
      BY <2>1, PhiOfMillis
    <2> HIDE DEF a, b
    <2> QED
      BY <2>2, <2>3, <2>4, TurnOfMillis DEF Sweep, a, b
  <1> QED
    BY <1>1, LocalTimeHolds, PTL DEF HandsSweep

(***************************************************************************)
(* The dithering of add_point, for all coordinates of a screen.            *)
(***************************************************************************)
\* The two samples of one point average to its exact coordinates: 8 bit DACs
\* show a 9 bit picture, and no coordinate up to 510 wraps around in its u8.
THEOREM HalvesAverage ==
  \A x \in 0..MaxCoordinate : FirstHalf(x) + SecondHalf(x) = x
  BY Z3 DEF MaxCoordinate, FirstHalf, SecondHalf, U8

\* On the way to a neighbouring point and back neither DAC moves by more
\* than one step: between the halves of a point and between the second half
\* of one point and the first half of the next.
THEOREM HalvesStep ==
  \A x, y \in 0..MaxCoordinate : Abs(x - y) <= 1 =>
    /\ Abs(SecondHalf(x) - FirstHalf(x)) <= 1
    /\ Abs(FirstHalf(y) - SecondHalf(x)) <= 1
  BY Z3 DEF MaxCoordinate, FirstHalf, SecondHalf, U8, Abs, Sign

(***************************************************************************)
(* From points to samples.                                                 *)
(***************************************************************************)

\* Near without the absolute values.
LEMMA NearFacts ==
  ASSUME NEW a \in Int \X Int, NEW b \in Int \X Int
  PROVE  Near(a, b) <=> a[1] - b[1] \in -1..1 /\ a[2] - b[2] \in -1..1
  <1> DEFINE x == a[1] - b[1]
             y == a[2] - b[2]
  <1>1. x \in Int /\ y \in Int
    OBVIOUS
  <1> HIDE DEF x, y
  <1>2. Longer(Abs(x), Abs(y)) <= 1 <=> x \in -1..1 /\ y \in -1..1
    <2>1. /\ Abs(x) = IF x < 0 THEN -x ELSE x
          /\ Abs(y) = IF y < 0 THEN -y ELSE y
      BY <1>1 DEF Abs, Sign
    <2> QED
      BY <1>1, <2>1 DEF Longer
  <1> QED
    BY <1>2 DEF Near, x, y

\* Coordinates are integers, and every point is near to itself.
LEMMA ScreenFacts ==
  ASSUME NEW p \in Screen
  PROVE  /\ p \in Int \X Int /\ p = <<p[1], p[2]>>
         /\ p[1] \in 0..255 * GLOBAL_SCALE /\ p[2] \in 0..255 * GLOBAL_SCALE
         /\ Near(p, p)
  <1>1. /\ p \in Int \X Int /\ p = <<p[1], p[2]>>
        /\ p[1] \in 0..255 * GLOBAL_SCALE /\ p[2] \in 0..255 * GLOBAL_SCALE
    BY ScaleAssumption DEF Screen
  <1> QED
    BY <1>1, NearFacts

\* The two samples of a point, as numbers.
LEMMA HalfFacts ==
  ASSUME NEW x \in 0..MaxCoordinate, NEW y \in 0..MaxCoordinate, x - y \in -1..1
  PROVE  /\ FirstHalf(x) \in Int /\ SecondHalf(x) \in Int /\ FirstHalf(y) \in Int
         /\ FirstHalf(x) - SecondHalf(x) \in -1..1
         /\ SecondHalf(x) - FirstHalf(y) \in -1..1
  BY Z3 DEF MaxCoordinate, FirstHalf, SecondHalf, U8

\* The points ps are a way of the beam that starts at a and stops one step
\* short of b, without a jump.
Walk(ps, a, b) ==
  /\ ps \in Seq(Screen)
  /\ ps = <<>> => a = b
  /\ ps # <<>> => ps[1] = a /\ Near(ps[Len(ps)], b)
  /\ \A k \in 1..Len(ps) - 1 : Near(ps[k], ps[k + 1])

\* The samples of near points are near: those of one point to each other,
\* and the last one of a point to the first one of the next.
LEMMA PointSamples ==
  ASSUME NEW p \in Screen, NEW q \in Screen, Near(p, q)
  PROVE  /\ \A k \in 1..GLOBAL_SCALE - 1 : Near(AddPoint(p)[k], AddPoint(p)[k + 1])
         /\ Near(AddPoint(p)[GLOBAL_SCALE], AddPoint(q)[1])
         /\ Near(AddPoint(q)[1], AddPoint(p)[GLOBAL_SCALE])
  <1>1. p[1] - q[1] \in -1..1 /\ p[2] - q[2] \in -1..1
    BY NearFacts, ScaleAssumption DEF Screen
  <1>2. CASE GLOBAL_SCALE = 2
    <2>1. /\ p[1] \in 0..MaxCoordinate /\ p[2] \in 0..MaxCoordinate
          /\ q[1] \in 0..MaxCoordinate /\ q[2] \in 0..MaxCoordinate
      BY <1>2 DEF Screen, MaxCoordinate
    <2>2. /\ FirstHalf(p[1]) \in Int /\ SecondHalf(p[1]) \in Int /\ FirstHalf(q[1]) \in Int
          /\ FirstHalf(p[1]) - SecondHalf(p[1]) \in -1..1
          /\ SecondHalf(p[1]) - FirstHalf(q[1]) \in -1..1
      BY <1>1, <2>1, HalfFacts
    <2>3. /\ FirstHalf(p[2]) \in Int /\ SecondHalf(p[2]) \in Int /\ FirstHalf(q[2]) \in Int
          /\ FirstHalf(p[2]) - SecondHalf(p[2]) \in -1..1
          /\ SecondHalf(p[2]) - FirstHalf(q[2]) \in -1..1
      BY <1>1, <2>1, HalfFacts
    <2> DEFINE first == <<FirstHalf(p[1]), FirstHalf(p[2])>>
               second == <<SecondHalf(p[1]), SecondHalf(p[2])>>
               next == <<FirstHalf(q[1]), FirstHalf(q[2])>>
    <2>4. first \in Int \X Int /\ second \in Int \X Int /\ next \in Int \X Int
      BY <2>2, <2>3
    <2>5. Near(first, second) /\ Near(second, next) /\ Near(next, second)
      BY <2>2, <2>3, <2>4, NearFacts
    <2>6. AddPoint(p)[1] = first /\ AddPoint(p)[2] = second /\ AddPoint(q)[1] = next
      BY <1>2 DEF AddPoint
    <2> QED
      BY <1>2, <2>5, <2>6
  <1>3. CASE GLOBAL_SCALE = 1
    <2>1. p \in (0..255) \X (0..255) /\ q \in (0..255) \X (0..255)
      BY <1>3 DEF Screen
    <2>2. AddPoint(p)[1] = p /\ AddPoint(q)[1] = q
      BY <1>3, <2>1 DEF AddPoint, U8
    <2>3. Near(p, q) /\ Near(q, p)
      BY <1>1, <2>1, NearFacts
    <2> QED
      BY <1>3, <2>2, <2>3
  <1> QED
    BY <1>2, <1>3, ScaleAssumption

\* So the samples of a walk never jump, and those of a round end next to
\* where they began.
LEMMA WalkSamples ==
  ASSUME NEW ps, NEW a, NEW b, Walk(ps, a, b)
  PROVE  LET samples == AddPoints(ps)
         IN /\ Len(samples) = GLOBAL_SCALE * Len(ps)
            /\ \A k \in 1..Len(samples) - 1 : Near(samples[k], samples[k + 1])
            /\ a = b /\ samples # <<>> => Near(samples[1], samples[Len(samples)])
  <1> DEFINE samples == AddPoints(ps)
             G == GLOBAL_SCALE
  <1>0. /\ ps \in Seq(Screen) /\ Len(ps) \in Nat /\ G \in {1, 2}
        /\ \A k \in 1..Len(ps) : ps[k] \in Screen
        /\ G * Len(ps) \in Nat
    BY ScaleAssumption DEF Walk
  <1>1. samples = [k \in 1..G * Len(ps) |-> AddPoint(ps[(k - 1) \div G + 1])[((k - 1) % G) + 1]]
    BY DEF AddPoints
  <1>2. Len(samples) = G * Len(ps)
    BY <1>0, <1>1
  <1> HIDE DEF samples
  <1>3. ASSUME NEW k \in 1..Len(samples) - 1
        PROVE  Near(samples[k], samples[k + 1])
    <2> DEFINE j == (k - 1) \div G + 1
    <2>1. k \in 1..G * Len(ps) /\ k + 1 \in 1..G * Len(ps) /\ j \in 1..Len(ps)
      BY <1>0, <1>2
    <2>2. CASE G = 2 /\ k % 2 = 1
      <3>1. (k - 1) % 2 = 0 /\ ((k + 1) - 1) % 2 = 1 /\ ((k + 1) - 1) \div 2 + 1 = j
        BY <2>1, <2>2
      <3>2. samples[k] = AddPoint(ps[j])[1] /\ samples[k + 1] = AddPoint(ps[j])[2]
        BY <1>1, <2>1, <2>2, <3>1
      <3>3. Near(ps[j], ps[j])
        BY <1>0, <2>1, ScreenFacts
      <3> QED
        BY <1>0, <2>1, <2>2, <3>2, <3>3, PointSamples
    <2>3. CASE G = 1 \/ (G = 2 /\ k % 2 = 0)
      <3>1. /\ ((k - 1) % G) + 1 = G /\ ((k + 1) - 1) % G = 0
            /\ ((k + 1) - 1) \div G + 1 = j + 1 /\ j \in 1..Len(ps) - 1 /\ j + 1 \in 1..Len(ps)
        BY <1>0, <1>2, <2>1, <2>3
      <3>2. samples[k] = AddPoint(ps[j])[G] /\ samples[k + 1] = AddPoint(ps[j + 1])[1]
        BY <1>1, <2>1, <3>1
      <3>3. Near(ps[j], ps[j + 1])
        BY <3>1 DEF Walk
      <3> QED
        BY <1>0, <2>1, <3>1, <3>2, <3>3, PointSamples
    <2>4. (G = 2 /\ k % 2 = 1) \/ (G = 1 \/ (G = 2 /\ k % 2 = 0))
      <3>1. k % 2 = 0 \/ k % 2 = 1
        BY <2>1
      <3>2. G = 1 \/ G = 2
        BY <1>0
      <3> QED
        BY <3>1, <3>2
    <2> QED
      BY <2>2, <2>3, <2>4
  <1>4. ASSUME a = b, samples # <<>>
        PROVE  Near(samples[1], samples[Len(samples)])
    <2> DEFINE n == Len(ps)
    <2>1. n \in Nat /\ n > 0 /\ ps # <<>>
      BY <1>0, <1>1, <1>4
    <2>2. Near(ps[n], ps[1])
      BY <1>4, <2>1 DEF Walk
    <2>3. /\ (1 - 1) \div G + 1 = 1 /\ ((1 - 1) % G) + 1 = 1
          /\ (G * n - 1) \div G + 1 = n /\ ((G * n - 1) % G) + 1 = G
          /\ 1 \in 1..G * n /\ G * n \in 1..G * n
      BY <1>0, <2>1
    <2>4. samples[1] = AddPoint(ps[1])[1] /\ samples[G * n] = AddPoint(ps[n])[G]
      BY <1>1, <2>3
    <2>5. ps[1] \in Screen /\ ps[n] \in Screen
      BY <1>0, <2>1
    <2> QED
      BY <1>2, <2>2, <2>4, <2>5, PointSamples
  <1> QED
    BY <1>2, <1>3, <1>4 DEF samples

(***************************************************************************)
(* From lines to points.                                                   *)
(***************************************************************************)

\* Between two multiples of d that follow each other there is at most one
\* multiple of m, if m is not smaller than d.
LEMMA DivStep ==
  ASSUME NEW n \in Nat, NEW d \in Nat, NEW m \in Nat, m > 0, d <= m
  PROVE  /\ n \div m \in Nat
         /\ n \div m <= (n + d) \div m
         /\ (n + d) \div m <= n \div m + 1
  BY SMT

\* Division keeps the order, and is exact for a multiple.
LEMMA DivMono ==
  ASSUME NEW n \in Nat, NEW d \in Nat, NEW m \in Nat, m > 0, n <= m * d
  PROVE  n \div m <= d
  <1>1. (m * d) \div m = d
    BY SMT
  <1>2. m * d \in Nat
    BY SMT
  <1>3. n \div m <= (m * d) \div m
    BY SMT, <1>2
  <1> QED
    BY <1>1, <1>3

\* What one coordinate of the Bresenham iterator does on the way by d, in
\* the i-th of m steps: it stays between its ends, reaches the far one after
\* m steps, and moves by at most one.
LEMMA MovedFacts ==
  ASSUME NEW d \in Int, NEW m \in Nat, m > 0, Abs(d) <= m, NEW i \in 0..m
  PROVE  LET Moved(k) == Sign(d) * ((k * Abs(d)) \div m)
         IN /\ Moved(0) = 0 /\ Moved(m) = d
            /\ Moved(i) \in (IF d < 0 THEN d..0 ELSE 0..d)
            /\ Moved(i) - Moved(i + 1) \in -1..1
  <1> DEFINE D == Abs(d)
             n == i * D
  <1>1. D \in Nat /\ D <= m /\ d = Sign(d) * D /\ Sign(d) \in {1, -1} /\ (d < 0 <=> Sign(d) = -1)
    BY DEF Abs, Sign
  <1> HIDE DEF D
  <1>2. n \in Nat /\ n <= m * D /\ (i + 1) * D = n + D
    BY SMT, <1>1
  <1> HIDE DEF n
  <1>3. n \div m \in Nat /\ n \div m <= D
    BY <1>1, <1>2, DivStep, DivMono
  <1>4. n \div m <= (n + D) \div m /\ (n + D) \div m <= n \div m + 1
    BY <1>1, <1>2, DivStep
  <1>5. (n + D) \div m \in Int /\ (n + D) \div m - n \div m \in 0..1
    BY SMT, <1>1, <1>2, <1>3, <1>4
  <1>6. (0 * D) \div m = 0 /\ (m * D) \div m = D
    BY SMT, <1>1
  <1> DEFINE q == n \div m
             r == (n + D) \div m
  <1>7. q \in Nat /\ q <= D /\ r \in Int /\ r - q \in 0..1
    BY <1>3, <1>5
  <1> HIDE DEF q, r
  <1>8. /\ Sign(d) * q \in (IF d < 0 THEN d..0 ELSE 0..d)
        /\ Sign(d) * q - Sign(d) * r \in -1..1
    <2>1. CASE Sign(d) = 1
      BY <1>1, <1>7, <2>1
    <2>2. CASE Sign(d) = -1
      BY <1>1, <1>7, <2>2
    <2> QED
      BY <1>1, <2>1, <2>2
  <1>9. (i * Abs(d)) \div m = q /\ ((i + 1) * Abs(d)) \div m = r
    BY <1>2 DEF q, r, n, D
  <1>10. /\ Sign(d) * ((0 * Abs(d)) \div m) = 0
         /\ Sign(d) * ((m * Abs(d)) \div m) = d
    <2>1. Sign(d) * 0 = 0
      BY <1>1
    <2> QED
      BY <1>1, <1>6, <2>1 DEF D
  <1> QED
    BY <1>8, <1>9, <1>10

\* A line is a walk from its start to its end.
LEMMA LineWalk ==
  ASSUME NEW a \in Screen, NEW b \in Screen
  PROVE  Walk(Bresenham(a, b), a, b)
  <1> DEFINE dx == b[1] - a[1]
             dy == b[2] - a[2]
             m == Longer(Abs(dx), Abs(dy))
             MovedX(i) == Sign(dx) * ((i * Abs(dx)) \div m)
             MovedY(i) == Sign(dy) * ((i * Abs(dy)) \div m)
             Point(i) == <<a[1] + MovedX(i), a[2] + MovedY(i)>>
             ps == Bresenham(a, b)
  <1>1. /\ a[1] \in Nat /\ a[2] \in Nat /\ b[1] \in Nat /\ b[2] \in Nat
        /\ a = <<a[1], a[2]>> /\ b = <<b[1], b[2]>>
    BY ScreenFacts, ScaleAssumption
  <1>2. dx \in Int /\ dy \in Int
    BY <1>1
  <1>3. m \in Nat /\ Abs(dx) <= m /\ Abs(dy) <= m /\ (m = 0 => dx = 0 /\ dy = 0)
    <2> HIDE DEF dx, dy
    <2> QED
      BY <1>2 DEF Longer, Abs, Sign
  <1>4. ps = [i \in 1..m |-> Point(i - 1)]
    BY DEF Bresenham
  <1>5. CASE m = 0
    <2>1. ps = <<>>
      BY <1>4, <1>5
    <2>2. a = b
      BY <1>1, <1>3, <1>5
    <2> QED
      BY <2>1, <2>2 DEF Walk
  <1>6. CASE m > 0
    <2>1. ASSUME NEW i \in 0..m
          PROVE  /\ MovedX(0) = 0 /\ MovedX(m) = dx
                 /\ MovedX(i) \in (IF dx < 0 THEN dx..0 ELSE 0..dx)
                 /\ MovedX(i) - MovedX(i + 1) \in -1..1
      <3> HIDE DEF dx, m
      <3> QED
        BY <1>2, <1>3, <1>6, MovedFacts
    <2>2. ASSUME NEW i \in 0..m
          PROVE  /\ MovedY(0) = 0 /\ MovedY(m) = dy
                 /\ MovedY(i) \in (IF dy < 0 THEN dy..0 ELSE 0..dy)
                 /\ MovedY(i) - MovedY(i + 1) \in -1..1
      <3> HIDE DEF dy, m
      <3> QED
        BY <1>2, <1>3, <1>6, MovedFacts
    <2> HIDE DEF MovedX, MovedY, m
    <2>3. 0 \in 0..m /\ m \in 0..m
      BY <1>3
    <2>4. Point(0) = a /\ Point(m) = b
      BY <1>1, <2>1, <2>2, <2>3
    <2>5. ASSUME NEW i \in 0..m
          PROVE  Point(i) \in Screen
      <3>1. /\ a[1] \in 0..255 * GLOBAL_SCALE /\ a[2] \in 0..255 * GLOBAL_SCALE
            /\ b[1] \in 0..255 * GLOBAL_SCALE /\ b[2] \in 0..255 * GLOBAL_SCALE
            /\ 255 * GLOBAL_SCALE \in Nat
        BY ScreenFacts, ScaleAssumption
      <3>2. a[1] + MovedX(i) \in 0..255 * GLOBAL_SCALE
        BY <2>1, <3>1
      <3>3. a[2] + MovedY(i) \in 0..255 * GLOBAL_SCALE
        BY <2>2, <3>1
      <3> QED
        BY <3>2, <3>3 DEF Screen
    <2>6. ASSUME NEW i \in 0..m - 1
          PROVE  Near(Point(i), Point(i + 1))
      <3>1. i \in 0..m /\ i + 1 \in 0..m
        BY <1>3
      <3>2. MovedX(i) \in Int /\ MovedX(i + 1) \in Int /\ MovedX(i) - MovedX(i + 1) \in -1..1
        BY <1>2, <2>1, <3>1
      <3>3. MovedY(i) \in Int /\ MovedY(i + 1) \in Int /\ MovedY(i) - MovedY(i + 1) \in -1..1
        BY <1>2, <2>2, <3>1
      <3>4. /\ Point(i) \in Int \X Int /\ Point(i + 1) \in Int \X Int
            /\ Point(i)[1] - Point(i + 1)[1] = MovedX(i) - MovedX(i + 1)
            /\ Point(i)[2] - Point(i + 1)[2] = MovedY(i) - MovedY(i + 1)
        BY <1>1, <3>2, <3>3
      <3> QED
        BY <3>2, <3>3, <3>4, NearFacts
    <2> HIDE DEF Point, ps
    <2>7. ps \in Seq(Screen) /\ Len(ps) = m /\ ps # <<>>
      BY <1>3, <1>4, <1>6, <2>5
    <2>8. ps[1] = a
      BY <1>3, <1>4, <1>6, <2>4
    <2>9. Near(ps[Len(ps)], b)
      <3>1. m - 1 \in 0..m - 1 /\ (m - 1) + 1 = m /\ m \in 1..m
        BY <1>3, <1>6
      <3>2. ps[Len(ps)] = Point(m - 1)
        BY <1>4, <2>7, <3>1
      <3> QED
        BY <2>4, <2>6, <3>1, <3>2
    <2>10. ASSUME NEW k \in 1..Len(ps) - 1
           PROVE  Near(ps[k], ps[k + 1])
      <3>1. /\ k - 1 \in 0..m - 1 /\ (k - 1) + 1 = k /\ k \in 1..m /\ k + 1 \in 1..m
            /\ (k + 1) - 1 = k
        BY <1>3, <2>7
      <3>2. ps[k] = Point(k - 1) /\ ps[k + 1] = Point(k)
        BY <1>4, <3>1
      <3> QED
        BY <2>6, <3>1, <3>2
    <2> QED
      BY <2>7, <2>8, <2>9, <2>10 DEF Walk, ps
  <1> QED
    BY <1>3, <1>5, <1>6

(***************************************************************************)
(* From strokes to lines.                                                  *)
(***************************************************************************)

\* The recursion in FlattenSeq defines a function.
LEMMA FlattenDefined ==
  ASSUME NEW T, NEW seqs \in Seq(Seq(T)), seqs # <<>>
  PROVE  \E f : /\ f = [n \in 1..Len(seqs) |-> IF n = 1 THEN seqs[n] ELSE f[n - 1] \o seqs[n]]
                /\ FlattenSeq(seqs) = f[Len(seqs)]
  <1> DEFINE Recursive(g, m) ==
               g = [n \in 1..m |-> IF n = 1 THEN seqs[n] ELSE g[n - 1] \o seqs[n]]
             Defined == {m \in Nat : m <= Len(seqs) => \E g : Recursive(g, m)}
  <1> HIDE DEF Recursive
  <1>1. 0 \in Defined
    <2>1. Recursive(<<>>, 0)
      BY DEF Recursive
    <2> QED
      BY <2>1
  <1>2. ASSUME NEW m \in Nat, m \in Defined
        PROVE  m + 1 \in Defined
    <2> SUFFICES ASSUME m + 1 <= Len(seqs)
                 PROVE  \E h : Recursive(h, m + 1)
      OBVIOUS
    <2>1. PICK g : Recursive(g, m)
      BY <1>2
    <2> DEFINE new == IF m + 1 = 1 THEN seqs[m + 1] ELSE g[m] \o seqs[m + 1]
               h == [n \in 1..m + 1 |-> IF n = m + 1 THEN new ELSE g[n]]
    <2>2. ASSUME NEW n \in 1..m + 1
          PROVE  h[n] = IF n = 1 THEN seqs[n] ELSE h[n - 1] \o seqs[n]
      <3>1. CASE n = m + 1
        BY <3>1
      <3>2. CASE n # m + 1
        <4>1. n \in 1..m /\ h[n] = g[n]
          BY <3>2
        <4>2. g[n] = IF n = 1 THEN seqs[n] ELSE g[n - 1] \o seqs[n]
          BY <2>1, <4>1 DEF Recursive
        <4>3. n # 1 => h[n - 1] = g[n - 1]
          BY <4>1
        <4> QED
          BY <4>1, <4>2, <4>3
      <3> QED
        BY <3>1, <3>2
    <2>3. Recursive(h, m + 1)
      BY <2>2 DEF Recursive
    <2> QED
      BY <2>3
  <1> HIDE DEF Defined
  <1>3. \A m \in Nat : m \in Defined
    BY <1>1, <1>2, SetInduction
  <1>4. \E g : Recursive(g, Len(seqs))
    <2>1. Len(seqs) \in Nat /\ Len(seqs) <= Len(seqs)
      OBVIOUS
    <2> QED
      BY <1>3, <2>1 DEF Defined
  <1>5. Len(seqs) # 0
    OBVIOUS
  <1> QED
    BY <1>4, <1>5 DEF FlattenSeq, Recursive

\* What concatenation does.
LEMMA ConcatFacts ==
  ASSUME NEW T, NEW p \in Seq(T), NEW q \in Seq(T)
  PROVE  /\ p \o q \in Seq(T) /\ Len(p \o q) = Len(p) + Len(q)
         /\ \A k \in 1..Len(p) : (p \o q)[k] = p[k]
         /\ \A k \in 1..Len(q) : (p \o q)[Len(p) + k] = q[k]
  OBVIOUS

\* A sequence of sequences of T's makes a sequence of T's.
LEMMA FlattenType ==
  ASSUME NEW T, NEW seqs \in Seq(Seq(T))
  PROVE  FlattenSeq(seqs) \in Seq(T)
  <1>1. CASE seqs = <<>>
    BY <1>1 DEF FlattenSeq
  <1>2. CASE seqs # <<>>
    <2>1. PICK f : /\ f = [n \in 1..Len(seqs) |-> IF n = 1 THEN seqs[n] ELSE f[n - 1] \o seqs[n]]
                   /\ FlattenSeq(seqs) = f[Len(seqs)]
      BY <1>2, FlattenDefined
    <2> DEFINE Typed == {n \in Nat : n + 1 <= Len(seqs) => f[n + 1] \in Seq(T)}
    <2>2. 0 \in Typed
      BY <1>2, <2>1
    <2>3. ASSUME NEW n \in Nat, n \in Typed
          PROVE  n + 1 \in Typed
      <3> SUFFICES ASSUME (n + 1) + 1 <= Len(seqs)
                   PROVE  f[(n + 1) + 1] \in Seq(T)
        OBVIOUS
      <3>1. /\ (n + 1) + 1 \in 1..Len(seqs) /\ (n + 1) + 1 # 1
            /\ ((n + 1) + 1) - 1 = n + 1 /\ f[n + 1] \in Seq(T)
        BY <2>3
      <3>2. f[(n + 1) + 1] = f[n + 1] \o seqs[(n + 1) + 1]
        BY <2>1, <3>1
      <3>3. seqs[(n + 1) + 1] \in Seq(T)
        BY <3>1
      <3> QED
        BY <3>1, <3>2, <3>3
    <2> HIDE DEF Typed
    <2>4. \A n \in Nat : n \in Typed
      BY <2>2, <2>3, SetInduction
    <2>5. \A n \in Nat : n + 1 <= Len(seqs) => f[n + 1] \in Seq(T)
      BY <2>4 DEF Typed
    <2>6. PICK n \in Nat : n + 1 = Len(seqs)
      <3>1. Len(seqs) - 1 \in Nat /\ (Len(seqs) - 1) + 1 = Len(seqs)
        BY <1>2
      <3> QED
        BY <3>1
    <2>7. n + 1 <= Len(seqs)
      BY <2>6
    <2> QED
      BY <2>1, <2>5, <2>6, <2>7
  <1> QED
    BY <1>1, <1>2

\* A walk that starts where another one stops continues it.
LEMMA WalkOn ==
  ASSUME NEW p, NEW q, NEW a \in Screen, NEW b \in Screen, NEW c \in Screen,
         Walk(p, a, b), Walk(q, b, c)
  PROVE  Walk(p \o q, a, c)
  <1>1. p \in Seq(Screen) /\ q \in Seq(Screen)
    BY DEF Walk
  <1>2. CASE p = <<>>
    <2>1. p \o q = q /\ a = b
      BY <1>1, <1>2 DEF Walk
    <2> QED
      BY <2>1
  <1>3. CASE q = <<>>
    <2>1. p \o q = p /\ b = c
      BY <1>1, <1>3 DEF Walk
    <2> QED
      BY <2>1
  <1>4. CASE p # <<>> /\ q # <<>>
    <2> DEFINE r == p \o q
               m == Len(p)
    <2>1. /\ r \in Seq(Screen) /\ Len(r) = m + Len(q)
          /\ \A k \in 1..m : r[k] = p[k]
          /\ \A k \in 1..Len(q) : r[m + k] = q[k]
      BY <1>1, ConcatFacts
    <2>2. m \in Nat /\ m > 0 /\ Len(q) \in Nat /\ Len(q) > 0
      BY <1>1, <1>4
    <2>3. /\ p[1] = a /\ Near(p[m], b) /\ \A k \in 1..m - 1 : Near(p[k], p[k + 1])
          /\ q[1] = b /\ Near(q[Len(q)], c) /\ \A k \in 1..Len(q) - 1 : Near(q[k], q[k + 1])
      BY <1>4 DEF Walk
    <2> HIDE DEF r, m
    <2>4. r[1] = a /\ Near(r[Len(r)], c) /\ r # <<>>
      <3>1. 1 \in 1..m /\ Len(q) \in 1..Len(q) /\ Len(r) # 0
        BY <2>1, <2>2
      <3> QED
        BY <2>1, <2>3, <3>1
    <2>5. ASSUME NEW k \in 1..Len(r) - 1
          PROVE  Near(r[k], r[k + 1])
      <3>1. CASE k < m
        <4>1. k \in 1..m - 1 /\ k \in 1..m /\ k + 1 \in 1..m
          BY <2>2, <3>1
        <4> QED
          BY <2>1, <2>3, <4>1
      <3>2. CASE k = m
        <4>1. r[m] = p[m] /\ r[m + 1] = q[1]
          BY <2>1, <2>2
        <4> QED
          BY <2>3, <3>2, <4>1
      <3>3. CASE k > m
        <4>1. /\ k - m \in 1..Len(q) - 1 /\ k - m \in 1..Len(q) /\ (k - m) + 1 \in 1..Len(q)
              /\ m + (k - m) = k /\ m + ((k - m) + 1) = k + 1
          BY <2>1, <2>2, <3>3
        <4>2. r[k] = q[k - m] /\ r[k + 1] = q[(k - m) + 1]
          BY <2>1, <4>1
        <4> QED
          BY <2>3, <4>1, <4>2
      <3> QED
        BY <2>2, <3>1, <3>2, <3>3
    <2> QED
      BY <2>1, <2>4, <2>5 DEF Walk, r
  <1> QED
    BY <1>2, <1>3, <1>4

\* Lines that follow each other make one walk.
LEMMA TraceWalk ==
  ASSUME NEW lines \in Seq(Screen \X Screen), lines # <<>>,
         \A i \in 1..Len(lines) - 1 : lines[i + 1][1] = lines[i][2]
  PROVE  Walk(Trace(lines), lines[1][1], lines[Len(lines)][2])
  <1> DEFINE N == Len(lines)
             seqs == [i \in DOMAIN lines |-> Bresenham(lines[i][1], lines[i][2])]
  <1>1. /\ N \in Nat /\ N > 0
        /\ \A i \in 1..N : lines[i][1] \in Screen /\ lines[i][2] \in Screen
    OBVIOUS
  <1>2. \A i \in 1..N : Walk(seqs[i], lines[i][1], lines[i][2])
    BY <1>1, LineWalk
  <1>3. seqs \in Seq(Seq(Screen)) /\ Len(seqs) = N /\ seqs # <<>>
    <2>1. \A i \in 1..N : seqs[i] \in Seq(Screen)
      BY <1>2 DEF Walk
    <2>2. DOMAIN seqs = 1..N
      OBVIOUS
    <2> HIDE DEF seqs
    <2>3. seqs = [i \in 1..N |-> seqs[i]]
      BY <2>2 DEF seqs
    <2> QED
      BY <1>1, <2>1, <2>3
  <1>4. Trace(lines) = FlattenSeq(seqs)
    BY DEF Trace
  <1> HIDE DEF seqs
  <1>5. PICK f : /\ f = [n \in 1..N |-> IF n = 1 THEN seqs[n] ELSE f[n - 1] \o seqs[n]]
                 /\ FlattenSeq(seqs) = f[N]
    BY <1>3, FlattenDefined
  <1> DEFINE Joined == {n \in Nat : n + 1 <= N => Walk(f[n + 1], lines[1][1], lines[n + 1][2])}
  <1>6. 0 \in Joined
    <2>1. 1 \in 1..N /\ f[1] = seqs[1]
      BY <1>1, <1>5
    <2> QED
      BY <1>2, <2>1
  <1>7. ASSUME NEW n \in Nat, n \in Joined
        PROVE  n + 1 \in Joined
    <2> SUFFICES ASSUME (n + 1) + 1 <= N
                 PROVE  Walk(f[(n + 1) + 1], lines[1][1], lines[(n + 1) + 1][2])
      OBVIOUS
    <2> DEFINE k == n + 1
    <2>1. /\ k + 1 \in 1..N /\ k + 1 # 1 /\ (k + 1) - 1 = k /\ k \in 1..N - 1
          /\ k \in 1..N /\ 1 \in 1..N /\ k <= N
      OBVIOUS
    <2>2. Walk(f[k], lines[1][1], lines[k][2])
      BY <1>7, <2>1
    <2> HIDE DEF k
    <2>3. f[k + 1] = f[k] \o seqs[k + 1]
      BY <1>5, <2>1
    <2>4. lines[k + 1][1] = lines[k][2] /\ Walk(seqs[k + 1], lines[k + 1][1], lines[k + 1][2])
      BY <1>2, <2>1
    <2>5. Walk(f[k] \o seqs[k + 1], lines[1][1], lines[k + 1][2])
      BY <1>1, <2>1, <2>2, <2>4, WalkOn
    <2> QED
      BY <2>3, <2>5 DEF k
  <1> HIDE DEF Joined
  <1>8. \A n \in Nat : n \in Joined
    BY <1>6, <1>7, SetInduction
  <1>9. \A n \in Nat : n + 1 <= N => Walk(f[n + 1], lines[1][1], lines[n + 1][2])
    BY <1>8 DEF Joined
  <1>10. PICK n \in Nat : n + 1 = N
    <2>1. N - 1 \in Nat /\ (N - 1) + 1 = N
      BY <1>1
    <2> QED
      BY <2>1
  <1>11. n + 1 <= N
    BY <1>1, <1>10
  <1> QED
    BY <1>4, <1>5, <1>9, <1>10, <1>11

\* What the face, the hands and the label are made of.
Figure(s) ==
  /\ s.kind \in {"dot", "line", "closed", "open"}
  /\ s.points \in Seq(Int \X Int)
  /\ s.kind = "dot" => Len(s.points) = 1 /\ s.exposure \in Nat
  /\ s.kind = "line" => Len(s.points) = 2

\* When a function is a sequence.
LEMMA SequenceFacts ==
  ASSUME NEW T, NEW n \in Nat, NEW f, f = [i \in 1..n |-> f[i]], \A i \in 1..n : f[i] \in T
  PROVE  f \in Seq(T) /\ Len(f) = n /\ (n > 0 => f # <<>>)
  OBVIOUS

\* A part without samples has no jump.
LEMMA NothingIsSmooth ==
  ASSUME NEW s
  PROVE  Smooth(s, AddPoints(<<>>))
  <1>1. AddPoints(<<>>) = <<>>
    BY ScaleAssumption DEF AddPoints
  <1> QED
    BY <1>1 DEF Smooth

\* A walk has none either, and a round closes.
LEMMA WalkIsSmooth ==
  ASSUME NEW s, NEW ps, NEW a, NEW b, Walk(ps, a, b), s.kind = "closed" => a = b
  PROVE  Smooth(s, AddPoints(ps))
  <1> DEFINE samples == AddPoints(ps)
  <1>1. /\ \A k \in 1..Len(samples) - 1 : Near(samples[k], samples[k + 1])
        /\ a = b /\ samples # <<>> => Near(samples[1], samples[Len(samples)])
    BY WalkSamples
  <1> HIDE DEF samples
  <1>2. Smooth(s, samples)
    BY <1>1 DEF Smooth
  <1> QED
    BY <1>2 DEF samples

\* Whatever its corners on the screen are, the lit beam runs through a
\* stroke without a jump, over every corner and over the dithered halves of
\* every point, at either scale; and round a closed one to where it began.
THEOREM StrokesAreSmooth ==
  ASSUME NEW s, Figure(s), \A k \in DOMAIN s.points : s.points[k] \in Screen
  PROVE  Smooth(s, SamplesOf(s))
  <1> DEFINE ps == s.points
             n == Len(ps)
  <1>1. n \in Nat /\ ps \in Seq(Int \X Int) /\ \A k \in 1..n : ps[k] \in Screen
    BY DEF Figure
  <1>2. CASE s.kind = "dot"
    <2> DEFINE dots == [i \in 1..s.exposure |-> ps[1]]
    <2>1. s.exposure \in Nat /\ ps[1] \in Screen
      BY <1>1, <1>2 DEF Figure
    <2>2. Near(ps[1], ps[1])
      BY <2>1, ScreenFacts
    <2>3. Walk(dots, ps[1], ps[1])
      <3>1. dots \in Seq(Screen) /\ Len(dots) = s.exposure
        BY <2>1
      <3> QED
        BY <2>1, <2>2, <3>1 DEF Walk
    <2>4. SamplesOf(s) = AddPoints(dots)
      BY <1>2 DEF SamplesOf, AddDot2
    <2> QED
      BY <2>3, <2>4, WalkIsSmooth
  <1>3. CASE s.kind = "line"
    <2>1. ps[1] \in Screen /\ ps[2] \in Screen
      BY <1>1, <1>3 DEF Figure
    <2>2. SamplesOf(s) = AddPoints(Bresenham(ps[1], ps[2]))
      BY <1>3 DEF SamplesOf, AddLine
    <2> QED
      BY <1>3, <2>1, <2>2, LineWalk, WalkIsSmooth
  <1>4. CASE s.kind = "closed"
    <2> DEFINE lines == ClosedPolygonToLines(ps)
    <2>1. SamplesOf(s) = AddPoints(Trace(lines))
      BY <1>4 DEF SamplesOf, AddClosedPolygon
    <2>2. lines = [i \in 1..n |-> <<ps[i], IF i < n THEN ps[i + 1] ELSE ps[1]>>]
      BY DEF ClosedPolygonToLines, Successor
    <2> HIDE DEF lines
    <2>3. CASE n = 0
      <3>1. lines = <<>>
        BY <2>2, <2>3
      <3>2. Trace(lines) = <<>>
        BY <3>1 DEF Trace, FlattenSeq
      <3> QED
        BY <2>1, <3>2, NothingIsSmooth
    <2>4. CASE n > 0
      <3>1. lines \in Seq(Screen \X Screen) /\ Len(lines) = n /\ lines # <<>>
        <4>1. ASSUME NEW i \in 1..n
              PROVE  lines[i] \in Screen \X Screen
          <5>1. ps[i] \in Screen /\ ps[1] \in Screen /\ (i < n => ps[i + 1] \in Screen)
            BY <1>1
          <5>2. lines[i] = <<ps[i], IF i < n THEN ps[i + 1] ELSE ps[1]>>
            BY <2>2
          <5> QED
            BY <5>1, <5>2
        <4>2. lines = [i \in 1..n |-> lines[i]]
          BY <2>2
        <4>3. n \in Nat /\ n > 0
          BY <1>1, <2>4
        <4> HIDE DEF n
        <4> QED
          BY <4>1, <4>2, <4>3, SequenceFacts
      <3>2. \A i \in 1..n - 1 : lines[i + 1][1] = lines[i][2]
        BY <1>1, <2>2
      <3>3. lines[1][1] = ps[1] /\ lines[n][2] = ps[1]
        BY <1>1, <2>2, <2>4
      <3>4. Walk(Trace(lines), ps[1], ps[1])
        BY <3>1, <3>2, <3>3, TraceWalk
      <3> QED
        BY <2>1, <3>4, WalkIsSmooth
    <2> QED
      BY <1>1, <2>3, <2>4
  <1>5. CASE s.kind = "open"
    <2> DEFINE lines == OpenPolygonToLines(ps)
    <2>1. SamplesOf(s) = AddPoints(Trace(lines))
      BY <1>5 DEF SamplesOf, AddOpenPolygon
    <2>2. lines = [i \in 1..(IF n > 1 THEN n - 1 ELSE 0) |-> <<ps[i], ps[i + 1]>>]
      BY <1>1 DEF OpenPolygonToLines, Longer
    <2> HIDE DEF lines
    <2>3. CASE n <= 1
      <3>1. lines = <<>>
        BY <1>1, <2>2, <2>3
      <3>2. Trace(lines) = <<>>
        BY <3>1 DEF Trace, FlattenSeq
      <3> QED
        BY <2>1, <3>2, NothingIsSmooth
    <2>4. CASE n > 1
      <3>1. lines \in Seq(Screen \X Screen) /\ Len(lines) = n - 1 /\ lines # <<>>
        <4>1. ASSUME NEW i \in 1..n - 1
              PROVE  lines[i] \in Screen \X Screen
          <5>1. ps[i] \in Screen /\ ps[i + 1] \in Screen
            BY <1>1
          <5>2. lines[i] = <<ps[i], ps[i + 1]>>
            BY <2>2, <2>4
          <5> QED
            BY <5>1, <5>2
        <4>2. lines = [i \in 1..n - 1 |-> lines[i]]
          BY <2>2, <2>4
        <4>3. n - 1 \in Nat /\ n - 1 > 0
          BY <1>1, <2>4
        <4> HIDE DEF n
        <4> QED
          BY <4>1, <4>2, <4>3, SequenceFacts
      <3>2. \A i \in 1..Len(lines) - 1 : lines[i + 1][1] = lines[i][2]
        BY <1>1, <2>2, <2>4, <3>1
      <3>3. Walk(Trace(lines), lines[1][1], lines[Len(lines)][2])
        BY <3>1, <3>2, TraceWalk
      <3> QED
        BY <1>5, <2>1, <3>3, WalkIsSmooth
    <2> QED
      BY <1>1, <2>3, <2>4
  <1> QED
    BY <1>2, <1>3, <1>4, <1>5 DEF Figure

(***************************************************************************)
(* Sines, and points around the center.                                    *)
(***************************************************************************)

\* Not expanded inside of an interval, whose elements a prover would list.
LEMMA Units == UNIT = 10000 /\ Degree = 500 /\ Circle = 180000
  BY DEF UNIT, Degree, Circle

\* The table from 0 to 91 degrees, and from 45 degrees on.
LEMMA SinesTable ==
  /\ \A i \in 1..92 : Sines[i] \in Int /\ Sines[i] >= 0 /\ Sines[i] <= UNIT
  /\ \A i \in 46..92 : Sines[i] >= 6900
  BY DEF Sines, UNIT

\* A value between two others.
LEMMA Interpolated ==
  ASSUME NEW u \in Int, NEW v \in Int, NEW r \in 0..499
  PROVE  LET x == u + ((v - u) * r) \div 500
         IN x \in Int /\ ((u <= x /\ x <= v) \/ (v <= x /\ x <= u))
  <1> DEFINE n == (v - u) * r
  <1>1. CASE v >= u
    <2>1. n >= 0 /\ n <= (v - u) * 500 /\ n \in Int
      BY <1>1, SMT
    <2> HIDE DEF n
    <2>2. n \div 500 \in 0..v - u
      BY <1>1, <2>1, SMT
    <2> QED
      BY <1>1, <2>2, SMT DEF n
  <1>2. CASE v < u
    <2>1. n <= 0 /\ n >= (v - u) * 500 /\ n \in Int
      BY <1>2, SMT
    <2> HIDE DEF n
    <2>2. n \div 500 \in v - u..0
      BY <1>2, <2>1, SMT
    <2> QED
      BY <1>2, <2>2, SMT DEF n
  <1> QED
    BY <1>1, <1>2, SMT

\* The first quadrant, and its second half.
LEMMA SinUpFacts ==
  ASSUME NEW a \in Nat, a <= 45000
  PROVE  /\ SinUp(a) \in Int /\ SinUp(a) >= 0 /\ SinUp(a) <= UNIT
         /\ a >= 22500 => SinUp(a) >= 6900
  <1> DEFINE i == a \div 500 + 1
             r == a % 500
             u == Sines[i]
             v == Sines[i + 1]
             x == u + ((v - u) * r) \div 500
  <1>1. i \in 1..91 /\ i + 1 \in 1..92 /\ r \in 0..499 /\ a \div 500 + 2 = i + 1
    BY SMT
  <1>2. a >= 22500 => i \in 46..92 /\ i + 1 \in 46..92
    BY SMT
  <1>3. SinUp(a) = x
    BY <1>1, Units DEF SinUp
  <1> HIDE DEF i, r
  <1>4. /\ u \in Int /\ u >= 0 /\ u <= UNIT /\ v \in Int /\ v >= 0 /\ v <= UNIT
        /\ a >= 22500 => u >= 6900 /\ v >= 6900
    BY <1>1, <1>2, SinesTable
  <1> HIDE DEF u, v
  <1>5. x \in Int /\ ((u <= x /\ x <= v) \/ (v <= x /\ x <= u))
    BY <1>1, <1>4, Interpolated
  <1> HIDE DEF x
  <1>6. UNIT \in Int
    BY Units
  <1> QED
    BY <1>3, <1>4, <1>5, <1>6

\* A turn folded into the first quadrant.
Folded(x) == LET h == IF x < 90000 THEN x ELSE x - 90000
             IN IF h <= 45000 THEN h ELSE 90000 - h

\* The sine of a turn is the one of its fold, negated in the second half.
LEMMA FoldedFacts ==
  ASSUME NEW x \in Nat, x < Circle
  PROVE  /\ Folded(x) \in Nat /\ Folded(x) <= 45000
         /\ Sin(x) = IF x < 90000 THEN SinUp(Folded(x)) ELSE -SinUp(Folded(x))
  <1>1. Circle = 180000 /\ x % Circle = x /\ Circle \div 2 = 90000
    BY Units, SMT
  <1>2. Folded(x) \in Nat /\ Folded(x) <= 45000
    BY <1>1, SMT DEF Folded
  <1>3. ASSUME NEW h \in Nat
        PROVE  SinHalf(h) = SinUp(IF h <= 45000 THEN h ELSE 90000 - h)
    <2>1. 2 * h <= 90000 <=> h <= 45000
      BY SMT
    <2> QED
      BY <1>1, <2>1 DEF SinHalf
  <1>4. CASE x < 90000
    BY <1>1, <1>3, <1>4 DEF Sin, Folded
  <1>5. CASE ~(x < 90000)
    <2>1. x - 90000 \in Nat
      BY <1>5, SMT
    <2> QED
      BY <1>1, <1>3, <1>5, <2>1 DEF Sin, Folded
  <1> QED
    BY <1>2, <1>4, <1>5

\* No sine or cosine is beyond 1, and never both are small.
LEMMA SinFacts ==
  ASSUME NEW phi \in Int
  PROVE  /\ Sin(phi) \in Int /\ -UNIT <= Sin(phi) /\ Sin(phi) <= UNIT
         /\ Cos(phi) \in Int /\ -UNIT <= Cos(phi) /\ Cos(phi) <= UNIT
         /\ \/ Sin(phi) >= 6900 \/ Sin(phi) <= -6900
            \/ Cos(phi) >= 6900 \/ Cos(phi) <= -6900
  <1> DEFINE a == phi % Circle
             c == (phi + Circle \div 4) % Circle
             f == Folded(a)
             g == Folded(c)
  <1>1. Circle = 180000 /\ Circle \div 4 = 45000 /\ UNIT = 10000
    BY Units, SMT
  <1>2. /\ a \in Nat /\ a < Circle /\ c \in Nat /\ c < Circle
        /\ c = a + 45000 \/ c = a + 45000 - 180000
    BY <1>1, SMT
  <1>3. Sin(phi) = Sin(a) /\ Cos(phi) = Sin(c)
    <2>1. a % Circle = a /\ c % Circle = c
      BY <1>1, <1>2, SMT
    <2> QED
      BY <2>1 DEF Sin, Cos
  <1> HIDE DEF a, c
  <1>4. f + g = 45000
    BY <1>1, <1>2, SMT DEF Folded
  <1>5. /\ f \in Nat /\ f <= 45000 /\ g \in Nat /\ g <= 45000
        /\ Sin(phi) = SinUp(f) \/ Sin(phi) = -SinUp(f)
        /\ Cos(phi) = SinUp(g) \/ Cos(phi) = -SinUp(g)
    BY <1>2, <1>3, FoldedFacts
  <1> HIDE DEF f, g
  <1>6. /\ SinUp(f) \in Int /\ SinUp(f) >= 0 /\ SinUp(f) <= UNIT
        /\ SinUp(g) \in Int /\ SinUp(g) >= 0 /\ SinUp(g) <= UNIT
        /\ f >= 22500 => SinUp(f) >= 6900
        /\ g >= 22500 => SinUp(g) >= 6900
    BY <1>5, SinUpFacts
  <1>7. f >= 22500 \/ g >= 22500
    BY <1>4, <1>5, SMT
  <1> QED
    BY <1>1, <1>5, <1>6, <1>7, SMT

\* The roundings, within one unit.
LEMMA CeilFacts ==
  ASSUME NEW n \in Int
  PROVE  /\ Ceil(n, UNIT) \in Int
         /\ UNIT * Ceil(n, UNIT) >= n /\ UNIT * Ceil(n, UNIT) < n + UNIT
  <1>1. /\ -((-n) \div 10000) \in Int
        /\ 10000 * (-((-n) \div 10000)) >= n /\ 10000 * (-((-n) \div 10000)) < n + 10000
    BY SMT
  <1> QED
    BY <1>1, Units DEF Ceil

\* An integer is its sign times its absolute value.
LEMMA SignFacts ==
  ASSUME NEW n \in Int
  PROVE  /\ Abs(n) \in Nat /\ n = Sign(n) * Abs(n)
         /\ (Sign(n) = 1 /\ Abs(n) = n) \/ (Sign(n) = -1 /\ Abs(n) = -n)
  BY DEF Abs, Sign

\* "as isize" is less than one unit off, towards zero.
LEMMA TruncateFacts ==
  ASSUME NEW n \in Int
  PROVE  /\ Truncate(n, UNIT) \in Int
         /\ UNIT * Truncate(n, UNIT) > n - UNIT /\ UNIT * Truncate(n, UNIT) < n + UNIT
         /\ n >= 0 => UNIT * Truncate(n, UNIT) <= n
         /\ n <= 0 => UNIT * Truncate(n, UNIT) >= n
  <1> DEFINE a == Abs(n)
             t == a \div 10000
  <1>1. a \in Nat /\ ((Sign(n) = 1 /\ a = n) \/ (Sign(n) = -1 /\ a = -n))
    BY SignFacts
  <1> HIDE DEF a
  <1>2. t \in Nat /\ 10000 * t <= a /\ a < 10000 * t + 10000
    BY <1>1, SMT
  <1>3. Truncate(n, UNIT) = Sign(n) * t
    BY Units DEF Truncate, a
  <1> HIDE DEF t
  <1> QED
    BY <1>1, <1>2, <1>3, Units

\* roundf is at most half a unit off.
LEMMA RoundFacts ==
  ASSUME NEW n \in Int
  PROVE  /\ Round(n, 2 * UNIT) \in Int
         /\ UNIT * (2 * Round(n, 2 * UNIT)) >= n - UNIT
         /\ UNIT * (2 * Round(n, 2 * UNIT)) <= n + UNIT
         /\ Round(n, 10 * UNIT) \in Int
         /\ UNIT * (10 * Round(n, 10 * UNIT)) >= n - 5 * UNIT
         /\ UNIT * (10 * Round(n, 10 * UNIT)) <= n + 5 * UNIT
  <1> DEFINE a == Abs(n)
             s == (a + 10000) \div 20000
             t == (a + 50000) \div 100000
  <1>1. a \in Nat /\ ((Sign(n) = 1 /\ a = n) \/ (Sign(n) = -1 /\ a = -n))
    BY SignFacts
  <1>2. Round(n, 2 * UNIT) = Sign(n) * s /\ Round(n, 10 * UNIT) = Sign(n) * t
    <2>1. /\ 2 * UNIT = 20000 /\ (2 * UNIT) \div 2 = 10000
          /\ 10 * UNIT = 100000 /\ (10 * UNIT) \div 2 = 50000
      BY Units, SMT
    <2> QED
      BY <2>1 DEF Round
  <1> HIDE DEF a
  <1>3. /\ s \in Nat /\ 20000 * s <= a + 10000 /\ a + 10000 < 20000 * s + 20000
        /\ t \in Nat /\ 100000 * t <= a + 50000 /\ a + 50000 < 100000 * t + 100000
    BY <1>1, SMT
  <1> HIDE DEF s, t
  <1> QED
    BY <1>1, <1>2, <1>3, Units

\* A product with a sine or cosine.
LEMMA SineProduct ==
  ASSUME NEW s \in Int, -UNIT <= s, s <= UNIT, NEW r \in Nat
  PROVE  s * r \in Int /\ -UNIT * r <= s * r /\ s * r <= UNIT * r
  <1>1. -10000 <= s /\ s <= 10000
    BY Units
  <1>2. s * r \in Int /\ -10000 * r <= s * r /\ s * r <= 10000 * r
    BY <1>1, SMT
  <1> QED
    BY <1>2, Units

\* A point at a distance from the center is within it.
LEMMA RadialFacts ==
  ASSUME NEW phi \in Int, NEW radius \in Nat
  PROVE  LET p == radial_to_cartesian(phi, radius)
         IN /\ p \in Int \X Int
            /\ Center - radius <= p[1] /\ p[1] <= Center + radius
            /\ Center - radius <= p[2] /\ p[2] <= Center + radius
  <1>1. Center \in Int
    BY ScaleAssumption DEF Center
  <1>2. ASSUME NEW s \in Int, -UNIT <= s, s <= UNIT
        PROVE  LET c == Ceil(s * radius, UNIT) + Center
               IN c \in Int /\ Center - radius <= c /\ c <= Center + radius
    <2> DEFINE n == s * radius
               c == Ceil(n, UNIT)
    <2>1. n \in Int /\ -UNIT * radius <= n /\ n <= UNIT * radius
      BY <1>2, SineProduct
    <2> HIDE DEF n
    <2>2. c \in Int /\ UNIT * c >= n /\ UNIT * c < n + UNIT
      BY <2>1, CeilFacts
    <2> HIDE DEF c
    <2>3. -radius <= c /\ c <= radius
      BY <2>1, <2>2, Units
    <2> QED
      BY <1>1, <2>2, <2>3 DEF c, n
  <1> QED
    BY <1>2, SinFacts DEF radial_to_cartesian

\* Points in the same direction, but not at the same distance, differ.
LEMMA RadialApart ==
  ASSUME NEW phi \in Int, NEW inner \in Nat, NEW outer \in Nat, inner + 2 <= outer
  PROVE  radial_to_cartesian(phi, inner) # radial_to_cartesian(phi, outer)
  <1>1. Center \in Int
    BY ScaleAssumption DEF Center
  <1>2. ASSUME NEW s \in Int, s >= 6900 \/ s <= -6900
        PROVE  Ceil(s * inner, UNIT) + Center # Ceil(s * outer, UNIT) + Center
    <2> DEFINE m == s * inner
               n == s * outer
               c == Ceil(m, UNIT)
               d == Ceil(n, UNIT)
    <2>1. m \in Int /\ n \in Int /\ (n >= m + 13800 \/ m >= n + 13800)
      BY <1>2, SMT
    <2> HIDE DEF m, n
    <2>2. /\ c \in Int /\ UNIT * c >= m /\ UNIT * c < m + UNIT
          /\ d \in Int /\ UNIT * d >= n /\ UNIT * d < n + UNIT
      BY <2>1, CeilFacts
    <2> HIDE DEF c, d
    <2>3. c # d
      BY <2>1, <2>2, Units
    <2> QED
      BY <1>1, <2>2, <2>3 DEF c, d, m, n
  <1>3. /\ Sin(phi) \in Int /\ Cos(phi) \in Int
        /\ Sin(phi) >= 6900 \/ Sin(phi) <= -6900 \/ Cos(phi) >= 6900 \/ Cos(phi) <= -6900
    BY SinFacts
  <1> DEFINE C(s, r) == Ceil(s * r, UNIT) + Center
  <1>4. \A s \in Int : s >= 6900 \/ s <= -6900 => C(s, inner) # C(s, outer)
    BY <1>2
  <1>5. \A r \in Nat : /\ radial_to_cartesian(phi, r)[1] = C(Sin(phi), r)
                      /\ radial_to_cartesian(phi, r)[2] = C(Cos(phi), r)
    BY DEF radial_to_cartesian
  <1> HIDE DEF C
  <1>6. C(Sin(phi), inner) # C(Sin(phi), outer) \/ C(Cos(phi), inner) # C(Cos(phi), outer)
    BY <1>3, <1>4
  <1> QED
    BY <1>5, <1>6

(***************************************************************************)
(* The pictograms.                                                         *)
(***************************************************************************)

\* The square around every pictogram, and points of it that no scale of the
\* clock puts on the same pixel.
Box == {p \in Int \X Int : -16500 <= p[1] /\ p[1] <= 16500 /\ -16500 <= p[2] /\ p[2] <= 16500}
Wide(c, d) == c - d >= 1700 /\ (c - d >= 2300 \/ d >= 0 \/ c <= 0)
Apart(p, q) == Wide(p[1], q[1]) \/ Wide(q[1], p[1]) \/ Wide(p[2], q[2]) \/ Wide(q[2], p[2])

\* A line of a pictogram has such points in the k-th place.
Goes(line, k) == k + 1 <= Len(line) /\ Apart(line[k], line[k + 1])
Comes(line) == Goes(line, Len(line) - 1) \/ line[Len(line)] = line[1]
Whole(line) == Comes(line) /\ \E k \in Nat \ {0} : Goes(line, k)
Pictogram(drawing) ==
  /\ drawing \in Seq(Seq(Box))
  /\ \A n \in 1..Len(drawing) : Whole(drawing[n])

\* The same by the numbers of the table: points far enough apart whatever
\* their signs are, and a line of n points whose last one is apart from the
\* one before it or is the first one.
GoesFar(line, k) ==
  /\ k + 1 <= Len(line)
  /\ LET p == line[k] q == line[k + 1]
     IN \/ p[1] - q[1] >= 3000 \/ q[1] - p[1] >= 3000
        \/ p[2] - q[2] >= 3000 \/ q[2] - p[2] >= 3000
Ends(line, n) ==
  /\ Len(line) = n
  /\ \/ GoesFar(line, n - 1)
     \/ line[n] = line[1]
     \/ Wide(line[n - 1][2], line[n][2])
     \/ Wide(line[n][2], line[n - 1][2])

\* Points of the square that are far apart are apart.
LEMMA FarIsApart ==
  ASSUME NEW line \in Seq(Box), NEW k \in Nat \ {0}, GoesFar(line, k)
  PROVE  Goes(line, k)
  <1> DEFINE p == line[k]
             q == line[k + 1]
  <1>1. k + 1 <= Len(line) /\ p \in Box /\ q \in Box
    BY DEF GoesFar
  <1>2. \/ p[1] - q[1] >= 3000 \/ q[1] - p[1] >= 3000
        \/ p[2] - q[2] >= 3000 \/ q[2] - p[2] >= 3000
    BY DEF GoesFar
  <1>3. Goes(line, k) <=> Apart(p, q)
    BY <1>1 DEF Goes
  <1> HIDE DEF p, q
  <1>4. p[1] \in Int /\ p[2] \in Int /\ q[1] \in Int /\ q[2] \in Int
    BY <1>1 DEF Box
  <1>5. \A c, d \in Int : c - d >= 3000 => Wide(c, d)
    BY DEF Wide
  <1>6. Apart(p, q)
    BY <1>2, <1>4, <1>5 DEF Apart
  <1> QED
    BY <1>3, <1>6

\* What the numbers of the table say of a line.
LEMMA WholeLine ==
  ASSUME NEW line \in Seq(Box), NEW k \in Nat \ {0}, NEW n \in Nat \ {0, 1},
         GoesFar(line, k), Ends(line, n)
  PROVE  Whole(line)
  <1>1. Goes(line, k)
    BY FarIsApart
  <1>2. n - 1 \in Nat \ {0} /\ (n - 1) + 1 = n /\ Len(line) = n
    BY DEF Ends
  <1>3. CASE GoesFar(line, n - 1)
    <2>1. Goes(line, n - 1)
      BY <1>2, <1>3, FarIsApart
    <2> QED
      BY <1>1, <1>2, <2>1 DEF Whole, Comes
  <1>4. CASE line[n] = line[1]
    BY <1>1, <1>2, <1>4 DEF Whole, Comes
  <1>5. CASE Wide(line[n - 1][2], line[n][2]) \/ Wide(line[n][2], line[n - 1][2])
    <2>1. Goes(line, n - 1)
      BY <1>2, <1>5 DEF Goes, Apart
    <2> QED
      BY <1>1, <1>2, <2>1 DEF Whole, Comes
  <1> QED
    BY <1>3, <1>4, <1>5 DEF Ends

\* A sequence of U's, by its elements.
LEMMA Retyped ==
  ASSUME NEW T, NEW U, NEW s \in Seq(T), \A n \in 1..Len(s) : s[n] \in U
  PROVE  s \in Seq(U)
  OBVIOUS

\* An element of one of four sequences put together.
LEMMA FourTables ==
  ASSUME NEW T, NEW p \in Seq(T), NEW q \in Seq(T), NEW r \in Seq(T), NEW s \in Seq(T),
         NEW n \in 1..Len(p) + Len(q) + Len(r) + Len(s)
  PROVE  (p \o q \o r \o s)[n] \in T
  <1>1. p \o q \in Seq(T) /\ Len(p \o q) = Len(p) + Len(q)
    OBVIOUS
  <1>2. p \o q \o r \in Seq(T) /\ Len(p \o q \o r) = Len(p) + Len(q) + Len(r)
    BY <1>1
  <1>3. /\ p \o q \o r \o s \in Seq(T)
        /\ Len(p \o q \o r \o s) = Len(p) + Len(q) + Len(r) + Len(s)
    BY <1>2
  <1> QED
    BY <1>3

\* A line of a drawing of a table.
LEMMA LineOfTable ==
  ASSUME NEW table \in Seq(Seq(Seq(Box))), NEW n \in 1..Len(table), NEW j \in 1..Len(table[n])
  PROVE  table[n][j] \in Seq(Box)
  <1>1. table[n] \in Seq(Seq(Box))
    OBVIOUS
  <1> QED
    BY <1>1

\* All that the table of the font is needed for.
LEMMA FontFacts ==
  ASSUME NEW index \in 0..14
  PROVE  Pictogram(FONT(index))
  <1> DEFINE Long(drawing) == \A n \in 1..Len(drawing) : Whole(drawing[n])
  <1>1. /\ Len(Digits0To5) = 6 /\ Len(Digits6To9) = 4 /\ Len(Numerals) = 3 /\ Len(Letters) = 2
        /\ Digits0To5 \in Seq(Seq(Seq(Box))) /\ Digits6To9 \in Seq(Seq(Seq(Box)))
        /\ Numerals \in Seq(Seq(Seq(Box))) /\ Letters \in Seq(Seq(Seq(Box)))
    BY DEF Digits0To5, Digits6To9, Numerals, Letters, Box
  <1>2. \A n \in 1..6 : Long(Digits0To5[n])
    <2>1. /\ Len(Digits0To5[1]) = 1 /\ Len(Digits0To5[2]) = 1 /\ Len(Digits0To5[3]) = 1
          /\ Len(Digits0To5[4]) = 1 /\ Len(Digits0To5[5]) = 1 /\ Len(Digits0To5[6]) = 1
      BY DEF Digits0To5
    <2>2. \A m \in 1..6 : \A j \in 1..Len(Digits0To5[m]) : Digits0To5[m][j] \in Seq(Box)
      BY <1>1, LineOfTable
    <2>3. Whole(Digits0To5[1][1])
      <3>1. GoesFar(Digits0To5[1][1], 3)
        BY DEF Digits0To5, GoesFar
      <3>2. Len(Digits0To5[1][1]) = 17 /\ Digits0To5[1][1][17] = Digits0To5[1][1][1]
        BY DEF Digits0To5, GoesFar
      <3>3. Ends(Digits0To5[1][1], 17)
        BY <3>2 DEF Ends, Wide
      <3>4. Digits0To5[1][1] \in Seq(Box)
        BY <2>1, <2>2
      <3> QED
        BY <3>1, <3>3, <3>4, WholeLine
    <2>4. Whole(Digits0To5[2][1])
      <3>1. GoesFar(Digits0To5[2][1], 3)
        BY DEF Digits0To5, GoesFar
      <3>2. Len(Digits0To5[2][1]) = 4 /\ GoesFar(Digits0To5[2][1], 3)
        BY DEF Digits0To5, GoesFar
      <3>3. Ends(Digits0To5[2][1], 4)
        BY <3>2 DEF Ends, Wide
      <3>4. Digits0To5[2][1] \in Seq(Box)
        BY <2>1, <2>2
      <3> QED
        BY <3>1, <3>3, <3>4, WholeLine
    <2>5. Whole(Digits0To5[3][1])
      <3>1. GoesFar(Digits0To5[3][1], 5)
        BY DEF Digits0To5, GoesFar
      <3>2. Len(Digits0To5[3][1]) = 14 /\ GoesFar(Digits0To5[3][1], 13)
        BY DEF Digits0To5, GoesFar
      <3>3. Ends(Digits0To5[3][1], 14)
        BY <3>2 DEF Ends, Wide
      <3>4. Digits0To5[3][1] \in Seq(Box)
        BY <2>1, <2>2
      <3> QED
        BY <3>1, <3>3, <3>4, WholeLine
    <2>6. Whole(Digits0To5[4][1])
      <3>1. GoesFar(Digits0To5[4][1], 1)
        BY DEF Digits0To5, GoesFar
      <3>2. /\ Len(Digits0To5[4][1]) = 15
            /\ Digits0To5[4][1][14][2] = 7564 /\ Digits0To5[4][1][15][2] = 5786
        BY DEF Digits0To5, GoesFar
      <3>3. Ends(Digits0To5[4][1], 15)
        BY <3>2 DEF Ends, Wide
      <3>4. Digits0To5[4][1] \in Seq(Box)
        BY <2>1, <2>2
      <3> QED
        BY <3>1, <3>3, <3>4, WholeLine
    <2>7. Whole(Digits0To5[5][1])
      <3>1. GoesFar(Digits0To5[5][1], 1)
        BY DEF Digits0To5, GoesFar
      <3>2. Len(Digits0To5[5][1]) = 4 /\ GoesFar(Digits0To5[5][1], 3)
        BY DEF Digits0To5, GoesFar
      <3>3. Ends(Digits0To5[5][1], 4)
        BY <3>2 DEF Ends, Wide
      <3>4. Digits0To5[5][1] \in Seq(Box)
        BY <2>1, <2>2
      <3> QED
        BY <3>1, <3>3, <3>4, WholeLine
    <2>8. Whole(Digits0To5[6][1])
      <3>1. GoesFar(Digits0To5[6][1], 1)
        BY DEF Digits0To5, GoesFar
      <3>2. /\ Len(Digits0To5[6][1]) = 17
            /\ Digits0To5[6][1][16][2] = 7564 /\ Digits0To5[6][1][17][2] = 5786
        BY DEF Digits0To5, GoesFar
      <3>3. Ends(Digits0To5[6][1], 17)
        BY <3>2 DEF Ends, Wide
      <3>4. Digits0To5[6][1] \in Seq(Box)
        BY <2>1, <2>2
      <3> QED
        BY <3>1, <3>3, <3>4, WholeLine
    <2> QED
      BY <2>1, <2>3, <2>4, <2>5, <2>6, <2>7, <2>8
  <1>3. \A n \in 1..4 : Long(Digits6To9[n])
    <2>1. /\ Len(Digits6To9[1]) = 1 /\ Len(Digits6To9[2]) = 1 /\ Len(Digits6To9[3]) = 1
          /\ Len(Digits6To9[4]) = 1
      BY DEF Digits6To9
    <2>2. \A m \in 1..4 : \A j \in 1..Len(Digits6To9[m]) : Digits6To9[m][j] \in Seq(Box)
      BY <1>1, LineOfTable
    <2>3. Whole(Digits6To9[1][1])
      <3>1. GoesFar(Digits6To9[1][1], 6)
        BY DEF Digits6To9, GoesFar
      <3>2. /\ Len(Digits6To9[1][1]) = 23
            /\ Digits6To9[1][1][22][2] = 452 /\ Digits6To9[1][1][23][2] = 3133
        BY DEF Digits6To9, GoesFar
      <3>3. Ends(Digits6To9[1][1], 23)
        BY <3>2 DEF Ends, Wide
      <3>4. Digits6To9[1][1] \in Seq(Box)
        BY <2>1, <2>2
      <3> QED
        BY <3>1, <3>3, <3>4, WholeLine
    <2>4. Whole(Digits6To9[2][1])
      <3>1. GoesFar(Digits6To9[2][1], 1)
        BY DEF Digits6To9, GoesFar
      <3>2. Len(Digits6To9[2][1]) = 3 /\ GoesFar(Digits6To9[2][1], 2)
        BY DEF Digits6To9, GoesFar
      <3>3. Ends(Digits6To9[2][1], 3)
        BY <3>2 DEF Ends, Wide
      <3>4. Digits6To9[2][1] \in Seq(Box)
        BY <2>1, <2>2
      <3> QED
        BY <3>1, <3>3, <3>4, WholeLine
    <2>5. Whole(Digits6To9[3][1])
      <3>1. GoesFar(Digits6To9[3][1], 6)
        BY DEF Digits6To9, GoesFar
      <3>2. Len(Digits6To9[3][1]) = 29 /\ Digits6To9[3][1][29] = Digits6To9[3][1][1]
        BY DEF Digits6To9, GoesFar
      <3>3. Ends(Digits6To9[3][1], 29)
        BY <3>2 DEF Ends, Wide
      <3>4. Digits6To9[3][1] \in Seq(Box)
        BY <2>1, <2>2
      <3> QED
        BY <3>1, <3>3, <3>4, WholeLine
    <2>6. Whole(Digits6To9[4][1])
      <3>1. GoesFar(Digits6To9[4][1], 15)
        BY DEF Digits6To9, GoesFar
      <3>2. /\ Len(Digits6To9[4][1]) = 23
            /\ Digits6To9[4][1][22][2] = 8453 /\ Digits6To9[4][1][23][2] = 6675
        BY DEF Digits6To9, GoesFar
      <3>3. Ends(Digits6To9[4][1], 23)
        BY <3>2 DEF Ends, Wide
      <3>4. Digits6To9[4][1] \in Seq(Box)
        BY <2>1, <2>2
      <3> QED
        BY <3>1, <3>3, <3>4, WholeLine
    <2> QED
      BY <2>1, <2>3, <2>4, <2>5, <2>6
  <1>4. \A n \in 1..3 : Long(Numerals[n])
    <2>1. /\ Len(Numerals[1]) = 2 /\ Len(Numerals[2]) = 2 /\ Len(Numerals[3]) = 2
      BY DEF Numerals
    <2>2. \A m \in 1..3 : \A j \in 1..Len(Numerals[m]) : Numerals[m][j] \in Seq(Box)
      BY <1>1, LineOfTable
    <2>3. Whole(Numerals[1][1])
      <3>1. GoesFar(Numerals[1][1], 3)
        BY DEF Numerals, GoesFar
      <3>2. Len(Numerals[1][1]) = 17 /\ Numerals[1][1][17] = Numerals[1][1][1]
        BY DEF Numerals, GoesFar
      <3>3. Ends(Numerals[1][1], 17)
        BY <3>2 DEF Ends, Wide
      <3>4. Numerals[1][1] \in Seq(Box)
        BY <2>1, <2>2
      <3> QED
        BY <3>1, <3>3, <3>4, WholeLine
    <2>4. Whole(Numerals[1][2])
      <3>1. GoesFar(Numerals[1][2], 3)
        BY DEF Numerals, GoesFar
      <3>2. Len(Numerals[1][2]) = 4 /\ GoesFar(Numerals[1][2], 3)
        BY DEF Numerals, GoesFar
      <3>3. Ends(Numerals[1][2], 4)
        BY <3>2 DEF Ends, Wide
      <3>4. Numerals[1][2] \in Seq(Box)
        BY <2>1, <2>2
      <3> QED
        BY <3>1, <3>3, <3>4, WholeLine
    <2>5. Whole(Numerals[2][1])
      <3>1. GoesFar(Numerals[2][1], 3)
        BY DEF Numerals, GoesFar
      <3>2. Len(Numerals[2][1]) = 4 /\ GoesFar(Numerals[2][1], 3)
        BY DEF Numerals, GoesFar
      <3>3. Ends(Numerals[2][1], 4)
        BY <3>2 DEF Ends, Wide
      <3>4. Numerals[2][1] \in Seq(Box)
        BY <2>1, <2>2
      <3> QED
        BY <3>1, <3>3, <3>4, WholeLine
    <2>6. Whole(Numerals[2][2])
      <3>1. GoesFar(Numerals[2][2], 3)
        BY DEF Numerals, GoesFar
      <3>2. Len(Numerals[2][2]) = 4 /\ GoesFar(Numerals[2][2], 3)
        BY DEF Numerals, GoesFar
      <3>3. Ends(Numerals[2][2], 4)
        BY <3>2 DEF Ends, Wide
      <3>4. Numerals[2][2] \in Seq(Box)
        BY <2>1, <2>2
      <3> QED
        BY <3>1, <3>3, <3>4, WholeLine
    <2>7. Whole(Numerals[3][1])
      <3>1. GoesFar(Numerals[3][1], 4)
        BY DEF Numerals, GoesFar
      <3>2. Len(Numerals[3][1]) = 12 /\ GoesFar(Numerals[3][1], 11)
        BY DEF Numerals, GoesFar
      <3>3. Ends(Numerals[3][1], 12)
        BY <3>2 DEF Ends, Wide
      <3>4. Numerals[3][1] \in Seq(Box)
        BY <2>1, <2>2
      <3> QED
        BY <3>1, <3>3, <3>4, WholeLine
    <2>8. Whole(Numerals[3][2])
      <3>1. GoesFar(Numerals[3][2], 3)
        BY DEF Numerals, GoesFar
      <3>2. Len(Numerals[3][2]) = 4 /\ GoesFar(Numerals[3][2], 3)
        BY DEF Numerals, GoesFar
      <3>3. Ends(Numerals[3][2], 4)
        BY <3>2 DEF Ends, Wide
      <3>4. Numerals[3][2] \in Seq(Box)
        BY <2>1, <2>2
      <3> QED
        BY <3>1, <3>3, <3>4, WholeLine
    <2> QED
      BY <2>1, <2>3, <2>4, <2>5, <2>6, <2>7, <2>8
  <1>5. \A n \in 1..2 : Long(Letters[n])
    <2>1. /\ Len(Letters[1]) = 3 /\ Len(Letters[2]) = 2
      BY DEF Letters
    <2>2. \A m \in 1..2 : \A j \in 1..Len(Letters[m]) : Letters[m][j] \in Seq(Box)
      BY <1>1, LineOfTable
    <2>3. Whole(Letters[1][1])
      <3>1. GoesFar(Letters[1][1], 1)
        BY DEF Letters, GoesFar
      <3>2. Len(Letters[1][1]) = 5 /\ GoesFar(Letters[1][1], 4)
        BY DEF Letters, GoesFar
      <3>3. Ends(Letters[1][1], 5)
        BY <3>2 DEF Ends, Wide
      <3>4. Letters[1][1] \in Seq(Box)
        BY <2>1, <2>2
      <3> QED
        BY <3>1, <3>3, <3>4, WholeLine
    <2>4. Whole(Letters[1][2])
      <3>1. GoesFar(Letters[1][2], 1)
        BY DEF Letters, GoesFar
      <3>2. Len(Letters[1][2]) = 3 /\ GoesFar(Letters[1][2], 2)
        BY DEF Letters, GoesFar
      <3>3. Ends(Letters[1][2], 3)
        BY <3>2 DEF Ends, Wide
      <3>4. Letters[1][2] \in Seq(Box)
        BY <2>1, <2>2
      <3> QED
        BY <3>1, <3>3, <3>4, WholeLine
    <2>5. Whole(Letters[1][3])
      <3>1. GoesFar(Letters[1][3], 1)
        BY DEF Letters, GoesFar
      <3>2. Len(Letters[1][3]) = 2 /\ GoesFar(Letters[1][3], 1)
        BY DEF Letters, GoesFar
      <3>3. Ends(Letters[1][3], 2)
        BY <3>2 DEF Ends, Wide
      <3>4. Letters[1][3] \in Seq(Box)
        BY <2>1, <2>2
      <3> QED
        BY <3>1, <3>3, <3>4, WholeLine
    <2>6. Whole(Letters[2][1])
      <3>1. GoesFar(Letters[2][1], 1)
        BY DEF Letters, GoesFar
      <3>2. Len(Letters[2][1]) = 5 /\ GoesFar(Letters[2][1], 4)
        BY DEF Letters, GoesFar
      <3>3. Ends(Letters[2][1], 5)
        BY <3>2 DEF Ends, Wide
      <3>4. Letters[2][1] \in Seq(Box)
        BY <2>1, <2>2
      <3> QED
        BY <3>1, <3>3, <3>4, WholeLine
    <2>7. Whole(Letters[2][2])
      <3>1. GoesFar(Letters[2][2], 1)
        BY DEF Letters, GoesFar
      <3>2. Len(Letters[2][2]) = 11 /\ GoesFar(Letters[2][2], 10)
        BY DEF Letters, GoesFar
      <3>3. Ends(Letters[2][2], 11)
        BY <3>2 DEF Ends, Wide
      <3>4. Letters[2][2] \in Seq(Box)
        BY <2>1, <2>2
      <3> QED
        BY <3>1, <3>3, <3>4, WholeLine
    <2> QED
      BY <2>1, <2>3, <2>4, <2>5, <2>6, <2>7
  <1> HIDE DEF Long
  <1> DEFINE Table == {drawing \in Seq(Seq(Box)) : Long(drawing)}
  <1>6. ASSUME NEW s \in Seq(Seq(Seq(Box))), \A n \in 1..Len(s) : Long(s[n])
        PROVE  s \in Seq(Table)
    <2>1. \A n \in 1..Len(s) : s[n] \in Table
      <3>1. \A n \in 1..Len(s) : s[n] \in Seq(Seq(Box))
        OBVIOUS
      <3> QED
        BY <1>6, <3>1
    <2> HIDE DEF Table
    <2> QED
      BY <2>1, Retyped
  <1> HIDE DEF Table
  <1>7. /\ Digits0To5 \in Seq(Table) /\ Digits6To9 \in Seq(Table)
        /\ Numerals \in Seq(Table) /\ Letters \in Seq(Table)
    BY <1>1, <1>2, <1>3, <1>4, <1>5, <1>6
  <1>8. FONT(index) \in Table
    <2>1. Len(Digits0To5) = 6 /\ Len(Digits6To9) = 4 /\ Len(Numerals) = 3 /\ Len(Letters) = 2
      BY <1>1
    <2>2. index + 1 \in 1..6 + 4 + 3 + 2
      OBVIOUS
    <2>3. index + 1 \in 1..Len(Digits0To5) + Len(Digits6To9) + Len(Numerals) + Len(Letters)
      BY <2>1, <2>2
    <2>4. (Digits0To5 \o Digits6To9 \o Numerals \o Letters)[index + 1] \in Table
      BY <1>7, <2>3, FourTables
    <2> QED
      BY <2>4 DEF FONT
  <1> QED
    BY <1>8 DEF Table, Pictogram, Long

(***************************************************************************)
(* Strokes on the screen.                                                  *)
(***************************************************************************)

\* What is not empty stays in a flattened sequence.
LEMMA FlattenFull ==
  ASSUME NEW T, NEW seqs \in Seq(Seq(T)), NEW k \in 1..Len(seqs), seqs[k] # <<>>
  PROVE  FlattenSeq(seqs) # <<>>
  <1>1. PICK f : /\ f = [n \in 1..Len(seqs) |-> IF n = 1 THEN seqs[n] ELSE f[n - 1] \o seqs[n]]
                 /\ FlattenSeq(seqs) = f[Len(seqs)]
    <2>1. seqs # <<>>
      OBVIOUS
    <2> QED
      BY <2>1, FlattenDefined
  <1> DEFINE N == Len(seqs)
             Full(n) == f[n] \in Seq(T) /\ (k <= n => f[n] # <<>>)
             Fulls == {n \in Nat : n + 1 <= N => Full(n + 1)}
  <1>2. N \in Nat /\ k \in 1..N
    OBVIOUS
  <1>3. 0 \in Fulls
    BY <1>1
  <1>4. ASSUME NEW n \in Nat, n \in Fulls
        PROVE  n + 1 \in Fulls
    <2> DEFINE m == n + 1
    <2> SUFFICES ASSUME m + 1 <= N
                 PROVE  Full(m + 1)
      OBVIOUS
    <2>1. m + 1 \in 1..N /\ m + 1 # 1 /\ (m + 1) - 1 = m /\ m \in 1..N /\ Full(m)
      BY <1>4
    <2> HIDE DEF m
    <2>2. f[m + 1] = f[m] \o seqs[m + 1]
      BY <1>1, <2>1
    <2>3. f[m] \in Seq(T) /\ seqs[m + 1] \in Seq(T)
      BY <2>1
    <2>4. f[m + 1] \in Seq(T) /\ Len(f[m + 1]) = Len(f[m]) + Len(seqs[m + 1])
      BY <2>2, <2>3
    <2>5. ASSUME k <= m + 1
          PROVE  f[m + 1] # <<>>
      <3>1. Len(f[m]) > 0 \/ Len(seqs[m + 1]) > 0
        <4>1. k <= m \/ k = m + 1
          BY <1>2, <2>1, <2>5
        <4> QED
          BY <2>1, <2>3, <4>1
      <3>2. Len(f[m]) \in Nat /\ Len(seqs[m + 1]) \in Nat
        BY <2>3
      <3> DEFINE x == Len(f[m])
                 y == Len(seqs[m + 1])
                 z == Len(f[m + 1])
      <3>3. x \in Nat /\ y \in Nat /\ z = x + y /\ (x > 0 \/ y > 0)
        BY <2>4, <3>1, <3>2
      <3> HIDE DEF x, y, z
      <3>4. z # 0
        BY <3>3
      <3>5. Len(f[m + 1]) # 0
        BY <3>4 DEF z
      <3> QED
        BY <3>5
    <2> QED
      BY <2>4, <2>5
  <1> HIDE DEF Fulls
  <1>5. \A n \in Nat : n \in Fulls
    BY <1>3, <1>4, SetInduction
  <1>6. \A n \in Nat : n + 1 <= N => f[n + 1] # <<>> \/ n + 1 < k
    BY <1>2, <1>5 DEF Fulls
  <1>7. PICK n \in Nat : n + 1 = N
    <2>1. N - 1 \in Nat /\ (N - 1) + 1 = N
      BY <1>2
    <2> QED
      BY <2>1
  <1>8. f[n + 1] # <<>>
    BY <1>2, <1>6, <1>7
  <1> QED
    BY <1>1, <1>7, <1>8

\* Strokes on the screen that have a way to go, or a time to stay.
\* An open polygon moves at its end, or ends where it began.
Arrives(ps) == ps[Len(ps) - 1] # ps[Len(ps)] \/ ps[Len(ps)] = ps[1]
Visible(s) ==
  /\ Figure(s)
  /\ \A k \in DOMAIN s.points : s.points[k] \in Screen
  /\ s.kind = "dot" => s.exposure > 0
  /\ s.kind # "dot" => \E k \in Nat \ {0} : k + 1 <= Len(s.points) /\ s.points[k] # s.points[k + 1]
  /\ s.kind = "open" => Arrives(s.points)

\* The way between two different points has samples, and a chain of lines
\* has those of each.
LEMMA TraceFull ==
  ASSUME NEW lines \in Seq(Screen \X Screen), NEW k \in 1..Len(lines), lines[k][1] # lines[k][2]
  PROVE  Trace(lines) \in Seq(Screen) /\ Trace(lines) # <<>>
  <1> DEFINE seqs == [i \in DOMAIN lines |-> Bresenham(lines[i][1], lines[i][2])]
  <1>1. \A i \in 1..Len(lines) : /\ lines[i][1] \in Screen /\ lines[i][2] \in Screen
                                 /\ Walk(seqs[i], lines[i][1], lines[i][2])
    BY LineWalk
  <1>2. seqs[k] # <<>> /\ \A i \in 1..Len(lines) : seqs[i] \in Seq(Screen)
    BY <1>1 DEF Walk
  <1>3. Trace(lines) = FlattenSeq(seqs)
    BY DEF Trace
  <1>4. DOMAIN seqs = 1..Len(lines) /\ Len(lines) \in Nat
    OBVIOUS
  <1>5. seqs = [i \in 1..Len(lines) |-> seqs[i]]
    OBVIOUS
  <1> HIDE DEF seqs
  <1>6. seqs \in Seq(Seq(Screen)) /\ Len(seqs) = Len(lines)
    BY <1>2, <1>4, <1>5, SequenceFacts
  <1> QED
    BY <1>2, <1>3, <1>6, FlattenType, FlattenFull

\* Samples of points are never fewer than the points.
LEMMA PointsFull ==
  ASSUME NEW ps \in Seq(Screen), ps # <<>>
  PROVE  AddPoints(ps) # <<>>
  <1>1. GLOBAL_SCALE * Len(ps) > 0 /\ GLOBAL_SCALE * Len(ps) \in Nat
    BY ScaleAssumption
  <1>2. Len(AddPoints(ps)) = GLOBAL_SCALE * Len(ps)
    BY <1>1 DEF AddPoints
  <1> QED
    BY <1>1, <1>2

\* What begins one of the sequences stays in a flattened one.
LEMMA FlattenKeeps ==
  ASSUME NEW T, NEW seqs \in Seq(Seq(T)), NEW k \in 1..Len(seqs), seqs[k] # <<>>
  PROVE  \E j \in 1..Len(FlattenSeq(seqs)) : FlattenSeq(seqs)[j] = seqs[k][1]
  <1>1. PICK f : /\ f = [n \in 1..Len(seqs) |-> IF n = 1 THEN seqs[n] ELSE f[n - 1] \o seqs[n]]
                 /\ FlattenSeq(seqs) = f[Len(seqs)]
    <2>1. seqs # <<>>
      OBVIOUS
    <2> QED
      BY <2>1, FlattenDefined
  <1> DEFINE N == Len(seqs)
             x == seqs[k][1]
             Kept(n) == k <= n => \E j \in 1..Len(f[n]) : f[n][j] = x
             Keeps(n) == f[n] \in Seq(T) /\ Kept(n)
             Ks == {n \in Nat : n + 1 <= N => Keeps(n + 1)}
  <1>2. N \in Nat /\ k \in 1..N /\ seqs[k] \in Seq(T) /\ 1 \in 1..Len(seqs[k])
    OBVIOUS
  <1>3. 0 \in Ks
    <2> SUFFICES ASSUME 0 + 1 <= N
                 PROVE  Keeps(0 + 1)
      OBVIOUS
    <2>1. 0 + 1 = 1 /\ 1 \in 1..N
      BY <1>2
    <2>2. f[1] = seqs[1] /\ seqs[1] \in Seq(T)
      BY <1>1, <2>1
    <2>3. k <= 1 => k = 1
      BY <1>2
    <2> QED
      BY <1>2, <2>1, <2>2, <2>3
  <1>4. ASSUME NEW n \in Nat, n \in Ks
        PROVE  n + 1 \in Ks
    <2> DEFINE m == n + 1
    <2> SUFFICES ASSUME m + 1 <= N
                 PROVE  Keeps(m + 1)
      OBVIOUS
    <2>1. m + 1 \in 1..N /\ m + 1 # 1 /\ (m + 1) - 1 = m /\ m \in 1..N /\ Keeps(m)
      BY <1>4
    <2> HIDE DEF m
    <2> DEFINE l == m + 1
               p == f[m]
               q == seqs[l]
    <2>2. f[l] = p \o q
      BY <1>1, <2>1
    <2>3. p \in Seq(T) /\ q \in Seq(T)
      BY <2>1
    <2>4. k <= l => k <= m \/ k = l
      BY <1>2, <2>1
    <2>5. k <= m => \E j \in 1..Len(p) : p[j] = x
      BY <2>1
    <2>6. k = l => q = seqs[k]
      OBVIOUS
    <2> HIDE DEF p, q, l, x
    <2>7. p \o q \in Seq(T) /\ Len(p \o q) = Len(p) + Len(q) /\ Len(p) \in Nat /\ Len(q) \in Nat
      BY <2>3
    <2>8. ASSUME k <= m
          PROVE  \E j \in 1..Len(p \o q) : (p \o q)[j] = x
      <3>1. PICK j \in 1..Len(p) : p[j] = x
        BY <2>5, <2>8
      <3>2. j \in 1..Len(p \o q) /\ (p \o q)[j] = p[j]
        BY <2>3, <2>7, ConcatFacts
      <3> QED
        BY <3>1, <3>2
    <2>9. ASSUME k = l
          PROVE  \E j \in 1..Len(p \o q) : (p \o q)[j] = x
      <3>1. 1 \in 1..Len(q) /\ q[1] = x
        BY <1>2, <2>6, <2>9 DEF x
      <3>2. Len(p) + 1 \in 1..Len(p \o q) /\ (p \o q)[Len(p) + 1] = q[1]
        BY <2>3, <2>7, <3>1, ConcatFacts
      <3> QED
        BY <3>1, <3>2
    <2>10. f[l] \in Seq(T) /\ Kept(l)
      BY <2>2, <2>4, <2>7, <2>8, <2>9
    <2> QED
      BY <2>10 DEF l
  <1> HIDE DEF Ks
  <1>5. \A n \in Nat : n \in Ks
    BY <1>3, <1>4, SetInduction
  <1> HIDE DEF Keeps
  <1>6. \A n \in Nat : n + 1 <= N => Keeps(n + 1)
    BY <1>5 DEF Ks
  <1>7. N - 1 \in Nat /\ (N - 1) + 1 = N
    BY <1>2
  <1>8. Keeps(N)
    <2>1. (N - 1) + 1 <= N => Keeps((N - 1) + 1)
      BY <1>6, <1>7
    <2> QED
      BY <1>2, <1>7, <2>1
  <1>9. k <= N
    BY <1>2
  <1>10. \E j \in 1..Len(f[N]) : f[N][j] = x
    BY <1>8, <1>9 DEF Keeps
  <1> QED
    BY <1>1, <1>10

\* Every line of a chain that goes anywhere visits the point it begins at.
LEMMA TraceVisits ==
  ASSUME NEW lines \in Seq(Screen \X Screen), NEW k \in 1..Len(lines), lines[k][1] # lines[k][2]
  PROVE  \E j \in 1..Len(Trace(lines)) : Trace(lines)[j] = lines[k][1]
  <1> DEFINE seqs == [i \in DOMAIN lines |-> Bresenham(lines[i][1], lines[i][2])]
  <1>1. \A i \in 1..Len(lines) : /\ lines[i][1] \in Screen /\ lines[i][2] \in Screen
                                 /\ Walk(seqs[i], lines[i][1], lines[i][2])
    BY LineWalk
  <1>2. /\ seqs[k] # <<>> /\ seqs[k][1] = lines[k][1]
        /\ \A i \in 1..Len(lines) : seqs[i] \in Seq(Screen)
    BY <1>1 DEF Walk
  <1>3. Trace(lines) = FlattenSeq(seqs)
    BY DEF Trace
  <1>4. DOMAIN seqs = 1..Len(lines) /\ Len(lines) \in Nat
    OBVIOUS
  <1>5. seqs = [i \in 1..Len(lines) |-> seqs[i]]
    OBVIOUS
  <1> HIDE DEF seqs
  <1>6. seqs \in Seq(Seq(Screen)) /\ Len(seqs) = Len(lines)
    BY <1>2, <1>4, <1>5, SequenceFacts
  <1>7. \E j \in 1..Len(FlattenSeq(seqs)) : FlattenSeq(seqs)[j] = seqs[k][1]
    BY <1>2, <1>6, FlattenKeeps
  <1> QED
    BY <1>2, <1>3, <1>7

\* One or two elements of a sequence.
LEMMA OneOf ==
  ASSUME NEW s, NEW i \in Int
  PROVE  SubSeq(s, i, i) = <<s[i]>>
  <1> DEFINE S == {s[i]}
             part == SubSeq(s, i, i)
  <1>1. \A j \in i..i : s[j] \in S
    OBVIOUS
  <1> HIDE DEF S
  <1>2. part \in Seq(S) /\ Len(part) = 1 /\ part[1] = s[i]
    <2>1. /\ part \in Seq(S) /\ Len(part) = IF i <= i THEN i - i + 1 ELSE 0
          /\ \A j \in 1..i - i + 1 : part[j] = s[i + j - 1]
      BY <1>1, SubSeqProperties
    <2>2. i - i + 1 = 1 /\ i + 1 - 1 = i
      OBVIOUS
    <2> QED
      BY <2>1, <2>2
  <1> HIDE DEF part
  <1>3. part = <<s[i]>>
    BY <1>2
  <1> QED
    BY <1>3 DEF part

\* And of two.
LEMMA TwoOf ==
  ASSUME NEW s, NEW i \in Int
  PROVE  SubSeq(s, i + 1, i + 2) = <<s[i + 1], s[i + 2]>>
  <1> DEFINE S == {s[i + 1], s[i + 2]}
             part == SubSeq(s, i + 1, i + 2)
  <1>1. \A j \in i + 1..i + 2 : s[j] \in S
    <2> SUFFICES ASSUME NEW j \in i + 1..i + 2 PROVE s[j] \in S
      OBVIOUS
    <2>1. j = i + 1 \/ j = i + 2
      OBVIOUS
    <2> QED
      BY <2>1
  <1> HIDE DEF S
  <1>2. part \in Seq(S) /\ Len(part) = 2 /\ part[1] = s[i + 1] /\ part[2] = s[i + 2]
    <2>1. /\ part \in Seq(S)
          /\ Len(part) = IF i + 1 <= i + 2 THEN i + 2 - (i + 1) + 1 ELSE 0
          /\ \A j \in 1..i + 2 - (i + 1) + 1 : part[j] = s[i + 1 + j - 1]
      BY <1>1, SubSeqProperties
    <2>2. /\ i + 2 - (i + 1) + 1 = 2 /\ i + 1 <= i + 2
          /\ i + 1 + 1 - 1 = i + 1 /\ i + 1 + 2 - 1 = i + 2
      OBVIOUS
    <2> QED
      BY <2>1, <2>2
  <1> HIDE DEF part
  <1>3. part = <<s[i + 1], s[i + 2]>>
    BY <1>2
  <1> QED
    BY <1>3 DEF part

\* Every point is among the samples of a sequence of points.
LEMMA PointVisited ==
  ASSUME NEW ps \in Seq(Screen), NEW i \in 1..Len(ps)
  PROVE  Visits(AddPoints(ps), ps[i])
  <1> DEFINE k == GLOBAL_SCALE * (i - 1)
             samples == AddPoints(ps)
             p == ps[i]
  <1>1. /\ GLOBAL_SCALE \in {1, 2} /\ GLOBAL_SCALE * Len(ps) \in Nat /\ k \in Nat
        /\ k + GLOBAL_SCALE <= GLOBAL_SCALE * Len(ps)
    BY ScaleAssumption
  <1>2. Len(samples) = GLOBAL_SCALE * Len(ps)
    BY <1>1 DEF AddPoints
  <1>3. CASE GLOBAL_SCALE = 1
    <2>1. k + 1 = i /\ k + GLOBAL_SCALE = i /\ i \in 1..Len(samples) /\ i \in Nat
      BY <1>2, <1>3
    <2>2. samples[i] = AddPoint(ps[(i - 1) \div 1 + 1])[((i - 1) % 1) + 1]
      BY <1>3 DEF AddPoints
    <2>3. (i - 1) \div 1 + 1 = i /\ ((i - 1) % 1) + 1 = 1
      OBVIOUS
    <2>4. samples[i] = AddPoint(p)[1]
      BY <2>2, <2>3
    <2>5. AddPoint(p) = <<AddPoint(p)[1]>>
      BY <1>3 DEF AddPoint
    <2> HIDE DEF samples, p, k
    <2>6. SubSeq(samples, i, i) = <<samples[i]>>
      BY <2>1, OneOf
    <2>7. k \in 0..Len(samples) - GLOBAL_SCALE
      BY <1>1, <1>2
    <2>8. SubSeq(samples, k + 1, k + GLOBAL_SCALE) = AddPoint(p)
      BY <2>1, <2>4, <2>5, <2>6
    <2>9. Visits(samples, p)
      BY <2>7, <2>8 DEF Visits
    <2> QED
      BY <2>9 DEF samples, p
  <1>4. CASE GLOBAL_SCALE = 2
    <2>1. /\ k + 1 = 2 * i - 1 /\ k + GLOBAL_SCALE = 2 * i
          /\ k + 1 \in 1..GLOBAL_SCALE * Len(ps) /\ k + 2 \in 1..GLOBAL_SCALE * Len(ps)
          /\ k + 2 = 2 * i
      BY <1>1, <1>4
    <2>2. /\ samples[k + 1] = AddPoint(ps[((k + 1) - 1) \div 2 + 1])[(((k + 1) - 1) % 2) + 1]
          /\ samples[k + 2] = AddPoint(ps[((k + 2) - 1) \div 2 + 1])[(((k + 2) - 1) % 2) + 1]
      BY <1>4, <2>1 DEF AddPoints
    <2>3. /\ ((k + 1) - 1) \div 2 + 1 = i /\ (((k + 1) - 1) % 2) + 1 = 1
          /\ ((k + 2) - 1) \div 2 + 1 = i /\ (((k + 2) - 1) % 2) + 1 = 2
      BY <1>4
    <2>4. samples[k + 1] = AddPoint(p)[1] /\ samples[k + 2] = AddPoint(p)[2]
      BY <2>2, <2>3
    <2>5. AddPoint(p) = <<AddPoint(p)[1], AddPoint(p)[2]>>
      BY <1>4 DEF AddPoint
    <2> HIDE DEF samples, p, k
    <2>6. SubSeq(samples, k + 1, k + 2) = <<samples[k + 1], samples[k + 2]>>
      BY <1>1, TwoOf
    <2>7. k \in 0..Len(samples) - GLOBAL_SCALE
      BY <1>1, <1>2
    <2>8. SubSeq(samples, k + 1, k + GLOBAL_SCALE) = AddPoint(p)
      BY <1>4, <2>4, <2>5, <2>6
    <2>9. Visits(samples, p)
      BY <2>7, <2>8 DEF Visits
    <2> QED
      BY <2>9 DEF samples, p
  <1> QED
    BY <1>1, <1>3, <1>4

\* A point of a path that is equal to p is followed by one that is; all are.
Stays(ps, k, n, p) == \A i \in k..n - 1 : ps[i] = p => ps[i + 1] = p
Rests(ps, k, n, p) == \A i \in k..n : ps[i] = p

\* A chain of equals.
LEMMA AllTheSame ==
  ASSUME NEW n \in Nat, NEW ps, NEW p, NEW k \in 1..n, ps[k] = p, Stays(ps, k, n, p)
  PROVE  Rests(ps, k, n, p)
  <1> DEFINE Same == {j \in Nat : k + j <= n => ps[k + j] = p}
  <1>1. 0 \in Same
    OBVIOUS
  <1>2. \A j \in Nat : j \in Same => j + 1 \in Same
    <2> SUFFICES ASSUME NEW j \in Nat, j \in Same, k + (j + 1) <= n
                 PROVE  ps[k + (j + 1)] = p
      OBVIOUS
    <2>1. k + j \in k..n - 1 /\ (k + j) + 1 = k + (j + 1) /\ ps[k + j] = p
      BY DEF Stays
    <2> QED
      BY <2>1 DEF Stays
  <1> HIDE DEF Same
  <1>3. \A j \in Nat : j \in Same
    BY <1>1, <1>2, SetInduction
  <1> SUFFICES ASSUME NEW i \in k..n
               PROVE  ps[i] = p
    BY DEF Rests
  <1>4. i - k \in Nat /\ k + (i - k) = i /\ i <= n
    OBVIOUS
  <1>5. i - k \in Same
    BY <1>3, <1>4
  <1> QED
    BY <1>4, <1>5 DEF Same

\* What add_... makes of such a stroke is never empty.
LEMMA StrokesAreFull ==
  ASSUME NEW s, Visible(s)
  PROVE  SamplesOf(s) # <<>>
  <1> DEFINE ps == s.points
             n == Len(ps)
  <1>1. /\ s.kind \in {"dot", "line", "closed", "open"}
        /\ n \in Nat /\ ps \in Seq(Int \X Int) /\ \A k \in 1..n : ps[k] \in Screen
    BY DEF Visible, Figure
  <1>2. CASE s.kind = "dot"
    <2> DEFINE dots == [i \in 1..s.exposure |-> ps[1]]
    <2>1. s.exposure \in Nat /\ s.exposure > 0 /\ ps[1] \in Screen
      BY <1>1, <1>2 DEF Visible, Figure
    <2>2. dots \in Seq(Screen) /\ dots # <<>>
      BY <2>1
    <2>3. SamplesOf(s) = AddPoints(dots)
      BY <1>2 DEF SamplesOf, AddDot2
    <2> QED
      BY <2>2, <2>3, PointsFull
  <1>3. ASSUME s.kind # "dot"
        PROVE  \E k \in 1..n - 1 : ps[k] # ps[k + 1]
    BY <1>1, <1>3 DEF Visible
  <1>4. CASE s.kind = "line"
    <2>1. n = 2 /\ ps[1] # ps[2]
      <3>1. n = 2
        BY <1>4 DEF Visible, Figure
      <3>2. PICK k \in 1..n - 1 : ps[k] # ps[k + 1]
        BY <1>3, <1>4
      <3>3. k = 1 /\ k + 1 = 2
        BY <3>1, <3>2
      <3> QED
        BY <3>1, <3>2, <3>3
    <2>2. SamplesOf(s) = AddPoints(Bresenham(ps[1], ps[2]))
      BY <1>4 DEF SamplesOf, AddLine
    <2>3. Walk(Bresenham(ps[1], ps[2]), ps[1], ps[2])
      BY <1>1, <2>1, LineWalk
    <2> QED
      BY <2>1, <2>2, <2>3, PointsFull DEF Walk
  <1>5. CASE s.kind = "closed"
    <2> DEFINE lines == ClosedPolygonToLines(ps)
    <2>1. SamplesOf(s) = AddPoints(Trace(lines))
      BY <1>5 DEF SamplesOf, AddClosedPolygon
    <2>2. lines = [i \in 1..n |-> <<ps[i], IF i < n THEN ps[i + 1] ELSE ps[1]>>]
      BY DEF ClosedPolygonToLines, Successor
    <2>3. PICK k \in 1..n - 1 : ps[k] # ps[k + 1]
      BY <1>3, <1>5
    <2> HIDE DEF lines
    <2>4. \A i \in 1..n : lines[i] \in Screen \X Screen
      <3> SUFFICES ASSUME NEW i \in 1..n PROVE lines[i] \in Screen \X Screen
        OBVIOUS
      <3>1. ps[i] \in Screen /\ ps[1] \in Screen /\ (i < n => ps[i + 1] \in Screen)
        BY <1>1
      <3>2. lines[i] = <<ps[i], IF i < n THEN ps[i + 1] ELSE ps[1]>>
        BY <2>2
      <3> QED
        BY <3>1, <3>2
    <2>5. lines = [i \in 1..n |-> lines[i]]
      BY <2>2
    <2>6. lines[k][1] # lines[k][2] /\ k \in 1..n
      BY <1>1, <2>2, <2>3
    <2> HIDE DEF n
    <2>7. lines \in Seq(Screen \X Screen) /\ Len(lines) = n
      BY <1>1, <2>4, <2>5, SequenceFacts
    <2> QED
      BY <2>1, <2>6, <2>7, TraceFull, PointsFull
  <1>6. CASE s.kind = "open"
    <2> DEFINE lines == OpenPolygonToLines(ps)
    <2>1. SamplesOf(s) = AddPoints(Trace(lines))
      BY <1>6 DEF SamplesOf, AddOpenPolygon
    <2>2. PICK k \in 1..n - 1 : ps[k] # ps[k + 1]
      BY <1>3, <1>6
    <2>3. n - 1 \in Nat /\ lines = [i \in 1..n - 1 |-> <<ps[i], ps[i + 1]>>]
      BY <1>1, <2>2 DEF OpenPolygonToLines, Longer
    <2> HIDE DEF lines
    <2>4. \A i \in 1..n - 1 : lines[i] \in Screen \X Screen
      <3> SUFFICES ASSUME NEW i \in 1..n - 1 PROVE lines[i] \in Screen \X Screen
        OBVIOUS
      <3>1. ps[i] \in Screen /\ ps[i + 1] \in Screen
        BY <1>1
      <3>2. lines[i] = <<ps[i], ps[i + 1]>>
        BY <2>3
      <3> QED
        BY <3>1, <3>2
    <2>5. lines = [i \in 1..n - 1 |-> lines[i]]
      BY <2>3
    <2>6. lines[k][1] # lines[k][2]
      BY <2>2, <2>3
    <2> HIDE DEF n
    <2>7. lines \in Seq(Screen \X Screen) /\ Len(lines) = n - 1
      BY <2>3, <2>4, <2>5, SequenceFacts
    <2> QED
      BY <2>1, <2>2, <2>6, <2>7, TraceFull, PointsFull
  <1> QED
    BY <1>1, <1>2, <1>4, <1>5, <1>6

\* A function on 1..n is a sequence.
LEMMA FunctionIsSequence ==
  ASSUME NEW T, NEW n \in Nat, NEW f \in [1..n -> T]
  PROVE  f \in Seq(T) /\ Len(f) = n
  OBVIOUS

\* A line of a chain along ps that goes anywhere visits the point it begins at.
LEMMA CornerVisited ==
  ASSUME NEW ps \in Seq(Screen), NEW n \in Nat, n = Len(ps), NEW m \in Nat, m <= n, NEW lines,
         lines = [i \in 1..m |-> <<ps[i], IF i < n THEN ps[i + 1] ELSE ps[1]>>],
         NEW k \in 1..m, ps[k] # (IF k < n THEN ps[k + 1] ELSE ps[1])
  PROVE  Visits(AddPoints(Trace(lines)), ps[k])
  <1> DEFINE T == Trace(lines)
  <1>1. \A i \in 1..m : lines[i] \in Screen \X Screen
    <2> SUFFICES ASSUME NEW i \in 1..m PROVE lines[i] \in Screen \X Screen
      OBVIOUS
    <2>1. i \in 1..n /\ 1 \in 1..n /\ (i < n => i + 1 \in 1..n)
      OBVIOUS
    <2>2. ps[i] \in Screen /\ ps[1] \in Screen /\ (i < n => ps[i + 1] \in Screen)
      BY <2>1
    <2>3. lines[i] = <<ps[i], IF i < n THEN ps[i + 1] ELSE ps[1]>>
      OBVIOUS
    <2> QED
      BY <2>2, <2>3
  <1>2. lines[k][1] = ps[k] /\ lines[k][1] # lines[k][2]
    OBVIOUS
  <1>3. lines \in Seq(Screen \X Screen) /\ Len(lines) = m
    <2> DEFINE Chain == Screen \X Screen
    <2>1. lines \in [1..m -> Chain]
      BY <1>1
    <2> HIDE DEF Chain
    <2>2. lines \in Seq(Chain) /\ Len(lines) = m
      BY <2>1, FunctionIsSequence
    <2> QED
      BY <2>2 DEF Chain
  <1>4. T \in Seq(Screen) /\ \E j \in 1..Len(T) : T[j] = ps[k]
    BY <1>2, <1>3, TraceFull, TraceVisits
  <1> HIDE DEF T
  <1>5. PICK j \in 1..Len(T) : T[j] = ps[k]
    BY <1>4
  <1>6. Visits(AddPoints(T), T[j])
    BY <1>4, PointVisited
  <1> QED
    BY <1>5, <1>6 DEF T

\* A corner that no line begins at is equal to the next, and so to all that
\* follow: round a closed polygon these are all.
LEMMA ClosedComplete ==
  ASSUME NEW ps \in Seq(Screen), NEW n \in Nat, n = Len(ps),
         NEW c \in 1..n - 1, ps[c] # ps[c + 1]
  PROVE  \A k \in 1..n : Visits(AddClosedPolygon(ps), ps[k])
  <1> DEFINE lines == ClosedPolygonToLines(ps)
             samples == AddClosedPolygon(ps)
             Follower(i) == IF i < n THEN ps[i + 1] ELSE ps[1]
  <1>1. samples = AddPoints(Trace(lines))
    BY DEF AddClosedPolygon
  <1>2. lines = [i \in 1..n |-> <<ps[i], IF i < n THEN ps[i + 1] ELSE ps[1]>>]
    BY DEF ClosedPolygonToLines, Successor
  <1> HIDE DEF lines, samples
  <1>3. \A i \in 1..n : ps[i] # Follower(i) => Visits(samples, ps[i])
    <2> SUFFICES ASSUME NEW i \in 1..n, ps[i] # Follower(i)
                 PROVE  Visits(samples, ps[i])
      OBVIOUS
    <2>1. n <= n
      OBVIOUS
    <2>2. Visits(AddPoints(Trace(lines)), ps[i])
      BY <1>2, <2>1, CornerVisited
    <2> QED
      BY <1>1, <2>2
  <1>4. ASSUME NEW k \in 1..n, ~Visits(samples, ps[k])
        PROVE  FALSE
    <2> DEFINE p == ps[k]
    <2>1. \A i \in 1..n : ps[i] = p => Follower(i) = p
      BY <1>3, <1>4
    <2>2. ps[k] = p
      OBVIOUS
    <2> HIDE DEF p
    <2>3. \A i \in 1..n - 1 : ps[i] = p => ps[i + 1] = p
      <3> SUFFICES ASSUME NEW i \in 1..n - 1, ps[i] = p
                   PROVE  ps[i + 1] = p
        OBVIOUS
      <3>1. i \in 1..n /\ i < n
        OBVIOUS
      <3> QED
        BY <2>1, <3>1
    <2>4. \A i \in k..n : ps[i] = p
      <3>1. Stays(ps, k, n, p)
        BY <2>3 DEF Stays
      <3>2. Rests(ps, k, n, p)
        BY <2>2, <3>1, AllTheSame
      <3> QED
        BY <3>2 DEF Rests
    <2>5. ps[1] = p
      <3>1. n \in k..n /\ n \in 1..n /\ ~(n < n)
        OBVIOUS
      <3>2. Follower(n) = p
        BY <2>1, <2>4, <3>1
      <3> QED
        BY <3>1, <3>2
    <2>6. \A i \in 1..n : ps[i] = p
      <3>1. 1 \in 1..n /\ Stays(ps, 1, n, p)
        BY <2>3 DEF Stays
      <3>2. Rests(ps, 1, n, p)
        BY <2>5, <3>1, AllTheSame
      <3> QED
        BY <3>2 DEF Rests
    <2>7. c \in 1..n /\ c + 1 \in 1..n
      OBVIOUS
    <2> QED
      BY <2>6, <2>7
  <1>5. \A k \in 1..n : Visits(samples, ps[k])
    BY <1>4
  <1> QED
    BY <1>5 DEF samples

\* Of an open one it would be the last, which it arrives at or began with.
LEMMA OpenComplete ==
  ASSUME NEW ps \in Seq(Screen), NEW n \in Nat, n = Len(ps),
         NEW c \in 1..n - 1, ps[c] # ps[c + 1], Arrives(ps)
  PROVE  \A k \in 1..n - 1 : Visits(AddOpenPolygon(ps), ps[k])
  <1> DEFINE lines == OpenPolygonToLines(ps)
             samples == AddOpenPolygon(ps)
  <1>1. samples = AddPoints(Trace(lines))
    BY DEF AddOpenPolygon
  <1>2. /\ n - 1 \in Nat
        /\ lines = [i \in 1..n - 1 |-> <<ps[i], IF i < n THEN ps[i + 1] ELSE ps[1]>>]
    BY DEF OpenPolygonToLines, Longer
  <1> HIDE DEF lines, samples
  <1>3. \A i \in 1..n - 1 : ps[i] # ps[i + 1] => Visits(samples, ps[i])
    <2> SUFFICES ASSUME NEW i \in 1..n - 1, ps[i] # ps[i + 1]
                 PROVE  Visits(samples, ps[i])
      OBVIOUS
    <2>1. n - 1 <= n /\ ps[i] # (IF i < n THEN ps[i + 1] ELSE ps[1])
      OBVIOUS
    <2>2. Visits(AddPoints(Trace(lines)), ps[i])
      BY <1>2, <2>1, CornerVisited
    <2> QED
      BY <1>1, <2>2
  <1>4. ASSUME NEW k \in 1..n - 1, ~Visits(samples, ps[k])
        PROVE  FALSE
    <2> DEFINE p == ps[k]
    <2>1. \A i \in 1..n - 1 : ps[i] = p => ps[i + 1] = p
      BY <1>3, <1>4
    <2>2. ps[k] = p /\ k \in 1..n
      OBVIOUS
    <2> HIDE DEF p
    <2>3. \A i \in k..n : ps[i] = p
      <3>1. Stays(ps, k, n, p)
        BY <2>1 DEF Stays
      <3>2. Rests(ps, k, n, p)
        BY <2>2, <3>1, AllTheSame
      <3> QED
        BY <3>2 DEF Rests
    <2>4. ps[n - 1] = p /\ ps[n] = p
      BY <2>3
    <2>5. ps[1] = p
      BY <2>4 DEF Arrives
    <2>6. \A i \in 1..n : ps[i] = p
      <3>1. 1 \in 1..n /\ Stays(ps, 1, n, p)
        BY <2>1 DEF Stays
      <3>2. Rests(ps, 1, n, p)
        BY <2>5, <3>1, AllTheSame
      <3> QED
        BY <3>2 DEF Rests
    <2>7. c \in 1..n /\ c + 1 \in 1..n
      OBVIOUS
    <2> QED
      BY <2>6, <2>7
  <1>5. \A k \in 1..n - 1 : Visits(samples, ps[k])
    BY <1>4
  <1> QED
    BY <1>5 DEF samples

\* What add_... makes of a stroke visits each of its points, only an open one
\* not its last.
THEOREM StrokesAreComplete ==
  ASSUME NEW s, Visible(s)
  PROVE  Complete(s, SamplesOf(s))
  <1> DEFINE ps == s.points
             n == Len(ps)
  <1>1. /\ s.kind \in {"dot", "line", "closed", "open"}
        /\ n \in Nat /\ ps \in Seq(Int \X Int) /\ \A k \in 1..n : ps[k] \in Screen
    BY DEF Visible, Figure
  <1>2. ps \in Seq(Screen)
    BY <1>1, Retyped
  <1>3. CASE s.kind = "dot"
    <2> DEFINE dots == [i \in 1..s.exposure |-> ps[1]]
    <2>1. n = 1 /\ s.exposure \in Nat /\ s.exposure > 0 /\ ps[1] \in Screen
      BY <1>1, <1>3 DEF Visible, Figure
    <2>2. dots \in Seq(Screen) /\ 1 \in 1..Len(dots) /\ dots[1] = ps[1]
      BY <2>1
    <2>3. SamplesOf(s) = AddPoints(dots)
      BY <1>3 DEF SamplesOf, AddDot2
    <2> HIDE DEF dots
    <2>4. Visits(SamplesOf(s), ps[1])
      BY <2>2, <2>3, PointVisited
    <2> QED
      BY <1>3, <2>1, <2>4 DEF Complete
  <1>4. ASSUME s.kind # "dot"
        PROVE  \E k \in 1..n - 1 : ps[k] # ps[k + 1]
    BY <1>1, <1>4 DEF Visible
  <1>5. CASE s.kind = "line"
    <2> DEFINE T == Bresenham(ps[1], ps[2])
    <2>1. n = 2 /\ ps[1] # ps[2] /\ ps[1] \in Screen /\ ps[2] \in Screen
      <3>1. n = 2
        BY <1>5 DEF Visible, Figure
      <3>2. PICK k \in 1..n - 1 : ps[k] # ps[k + 1]
        BY <1>4, <1>5
      <3>3. k = 1 /\ k + 1 = 2
        BY <3>1, <3>2
      <3> QED
        BY <1>1, <3>1, <3>2, <3>3
    <2>2. SamplesOf(s) = AddPoints(T)
      BY <1>5 DEF SamplesOf, AddLine
    <2>3. Walk(T, ps[1], ps[2])
      BY <2>1, LineWalk
    <2> HIDE DEF T
    <2>4. T \in Seq(Screen) /\ T # <<>> /\ T[1] = ps[1]
      BY <2>1, <2>3 DEF Walk
    <2>5. 1 \in 1..Len(T)
      BY <2>4
    <2>6. Visits(SamplesOf(s), ps[1])
      BY <2>2, <2>4, <2>5, PointVisited
    <2> QED
      BY <1>5, <2>1, <2>6 DEF Complete
  <1>6. CASE s.kind = "closed"
    <2>1. PICK c \in 1..n - 1 : ps[c] # ps[c + 1]
      BY <1>4, <1>6
    <2>2. \A k \in 1..n : Visits(AddClosedPolygon(ps), ps[k])
      BY <1>1, <1>2, <2>1, ClosedComplete
    <2>3. SamplesOf(s) = AddClosedPolygon(ps)
      BY <1>6 DEF SamplesOf
    <2> QED
      BY <1>1, <1>6, <2>2, <2>3 DEF Complete
  <1>7. CASE s.kind = "open"
    <2>1. PICK c \in 1..n - 1 : ps[c] # ps[c + 1]
      BY <1>4, <1>7
    <2>2. Arrives(ps)
      BY <1>7 DEF Visible
    <2>3. \A k \in 1..n - 1 : Visits(AddOpenPolygon(ps), ps[k])
      BY <1>1, <1>2, <2>1, <2>2, OpenComplete
    <2>4. SamplesOf(s) = AddOpenPolygon(ps)
      BY <1>7 DEF SamplesOf
    <2> QED
      BY <1>1, <1>7, <2>3, <2>4 DEF Complete
  <1> QED
    BY <1>1, <1>3, <1>5, <1>6, <1>7

\* So a visible stroke is all that the screen asks for.
LEMMA VisibleFacts ==
  ASSUME NEW s, Visible(s)
  PROVE  /\ Drawable(s, SamplesOf(s)) /\ Smooth(s, SamplesOf(s))
         /\ Complete(s, SamplesOf(s))
  BY StrokesAreFull, StrokesAreSmooth, StrokesAreComplete DEF Visible, Drawable

\* The sine at a full degree of the first quadrant.
LEMMA SinAt ==
  ASSUME NEW d \in 0..90
  PROVE  Sin(500 * d) = Sines[d + 1]
  <1> DEFINE a == 500 * d
  <1>1. a \in Nat /\ a <= 45000 /\ a \div 500 = d /\ a % 500 = 0 /\ a < Circle
    BY Units, SMT
  <1> HIDE DEF a
  <1>2. Folded(a) = a /\ a < 90000
    BY <1>1, SMT DEF Folded
  <1>3. Sin(a) = SinUp(a)
    BY <1>1, <1>2, FoldedFacts
  <1>4. SinUp(a) = Sines[d + 1] + ((Sines[d + 2] - Sines[d + 1]) * 0) \div 500
    BY <1>1, Units DEF SinUp
  <1> DEFINE u == Sines[d + 1]
             v == Sines[d + 2]
  <1>5. u \in Int /\ v \in Int
    BY SinesTable
  <1> HIDE DEF u, v
  <1>6. u + ((v - u) * 0) \div 500 = u
    BY <1>5, SMT
  <1> QED
    BY <1>3, <1>4, <1>6 DEF a, u, v

\* The direction of the second node of a circle.
LEMMA SecondNode ==
  /\ Sin(0) = 0 /\ Circle \div 40 = 4500 /\ Circle \div 10 = 18000 /\ Circle \div 8 = 22500
  /\ Sin(4500) = 1564 /\ Sin(18000) = 5878 /\ Sin(22500) = 7071
  <1>1. Sines[1] = 0 /\ Sines[10] = 1564 /\ Sines[37] = 5878 /\ Sines[46] = 7071
    BY DEF Sines
  <1>2. /\ Sin(500 * 0) = Sines[0 + 1] /\ Sin(500 * 9) = Sines[9 + 1]
        /\ Sin(500 * 36) = Sines[36 + 1] /\ Sin(500 * 45) = Sines[45 + 1]
    BY SinAt
  <1>3. Circle \div 40 = 4500 /\ Circle \div 10 = 18000 /\ Circle \div 8 = 22500
    BY Units, SMT
  <1> QED
    BY <1>1, <1>2, <1>3

\* One coordinate of a node of a circle.
LEMMA NodeFacts ==
  ASSUME NEW c \in Nat, NEW halves \in Nat, NEW s \in Int, -UNIT <= s, s <= UNIT
  PROVE  LET x == Round(2 * UNIT * c + s * halves, 2 * UNIT)
         IN /\ x \in Int /\ 2 * x >= 2 * c - halves - 1 /\ 2 * x <= 2 * c + halves + 1
            /\ s = 0 => x = c
            /\ s * halves > UNIT => x > c
  <1> DEFINE m == s * halves
             n == 2 * UNIT * c + m
             x == Round(n, 2 * UNIT)
  <1>1. m \in Int /\ -UNIT * halves <= m /\ m <= UNIT * halves
    BY SineProduct
  <1>2. s = 0 => m = 0
    BY SMT
  <1> HIDE DEF m
  <1>3. n \in Int
    BY <1>1, Units
  <1> HIDE DEF n
  <1>4. x \in Int /\ UNIT * (2 * x) >= n - UNIT /\ UNIT * (2 * x) <= n + UNIT
    BY <1>3, RoundFacts
  <1> HIDE DEF x
  <1>5. UNIT = 10000 /\ n = 20000 * c + m
    BY Units DEF n
  <1>6. x \in Int /\ 2 * x >= 2 * c - halves - 1 /\ 2 * x <= 2 * c + halves + 1
    BY <1>1, <1>4, <1>5
  <1>7. m = 0 => x = c
    BY <1>4, <1>5
  <1>8. m > UNIT => x > c
    BY <1>1, <1>4, <1>5
  <1> QED
    BY <1>2, <1>6, <1>7, <1>8 DEF m, n, x

\* Visible strokes as a set.
Parts ==
  {s \in [kind : {"line", "closed", "open"}, points : Seq(Screen)]
         \union [kind : {"dot"}, points : Seq(Screen), exposure : Nat] : Visible(s)}

\* Strokes along points of the screen, two of which differ.
LEMMA PolygonFacts ==
  ASSUME NEW ps \in Seq(Screen), NEW k \in Nat \ {0}, k + 1 <= Len(ps), ps[k] # ps[k + 1]
  PROVE  Closed(ps) \in Parts /\ (Arrives(ps) => Open(ps) \in Parts)
  <1>1. ps \in Seq(Int \X Int)
    <2>1. \A i \in 1..Len(ps) : ps[i] \in Int \X Int
      BY ScreenFacts
    <2> QED
      BY <2>1, Retyped
  <1>2. /\ Closed(ps).kind = "closed" /\ Closed(ps).points = ps
        /\ Open(ps).kind = "open" /\ Open(ps).points = ps
    BY DEF Closed, Open
  <1>3. Figure(Closed(ps)) /\ Figure(Open(ps))
    BY <1>1, <1>2 DEF Figure
  <1>4. Visible(Closed(ps)) /\ (Arrives(ps) => Visible(Open(ps)))
    BY <1>2, <1>3 DEF Visible
  <1>5. /\ Closed(ps) \in [kind : {"line", "closed", "open"}, points : Seq(Screen)]
        /\ Open(ps) \in [kind : {"line", "closed", "open"}, points : Seq(Screen)]
    BY DEF Closed, Open
  <1> QED
    BY <1>4, <1>5 DEF Parts

\* A line between two points of the screen.
LEMMA LineFacts ==
  ASSUME NEW a \in Screen, NEW b \in Screen, a # b
  PROVE  Line(a, b) \in Parts
  <1> DEFINE ps == <<a, b>>
  <1>1. ps \in Seq(Screen) /\ Len(ps) = 2 /\ ps \in Seq(Int \X Int)
    BY ScreenFacts
  <1>2. Line(a, b).kind = "line" /\ Line(a, b).points = ps
    BY DEF Line
  <1>3. Figure(Line(a, b))
    BY <1>1, <1>2 DEF Figure
  <1>4. Visible(Line(a, b))
    <2>1. 1 \in Nat \ {0} /\ 1 + 1 <= Len(ps) /\ ps[1] # ps[1 + 1]
      BY <1>1
    <2> QED
      BY <1>1, <1>2, <1>3, <2>1 DEF Visible
  <1>5. Line(a, b) \in [kind : {"line", "closed", "open"}, points : Seq(Screen)]
    BY <1>1 DEF Line
  <1> QED
    BY <1>4, <1>5 DEF Parts

\* A dot on the screen with an exposure.
LEMMA DotFacts ==
  ASSUME NEW p \in Screen, NEW exposure \in Nat \ {0}
  PROVE  Dot(p, exposure) \in Parts
  <1>1. <<p>> \in Seq(Screen) /\ <<p>> \in Seq(Int \X Int)
    BY ScreenFacts
  <1>2. Dot(p, exposure) = [kind |-> "dot", points |-> <<p>>, exposure |-> exposure]
    BY DEF Dot
  <1>3. Figure(Dot(p, exposure))
    BY <1>1, <1>2 DEF Figure
  <1> QED
    BY <1>1, <1>2, <1>3 DEF Parts, Visible

\* A circle on the screen is visible: its nodes surround the center.
LEMMA CircleFacts ==
  ASSUME NEW center \in Nat \X Nat, NEW halves \in Nat, NEW nodes \in {8, 10, 40},
         NEW rounds \in {1, 2},
         halves <= 2 * center[1], 2 * center[1] + halves <= 2 * (255 * GLOBAL_SCALE),
         halves <= 2 * center[2], 2 * center[2] + halves <= 2 * (255 * GLOBAL_SCALE),
         Sin(Circle \div nodes) * halves > UNIT
  PROVE  Closed(CircleNodes(center, halves, nodes, rounds)) \in Parts
  <1> DEFINE X(phi) == Round(2 * UNIT * center[1] + Sin(phi) * halves, 2 * UNIT)
             Y(phi) == Round(2 * UNIT * center[2] + Cos(phi) * halves, 2 * UNIT)
             step == Circle \div nodes
             n == nodes * rounds
             ps == CircleNodes(center, halves, nodes, rounds)
  <1>1. ps = [i \in 1..n |-> <<X((i - 1) * step), Y((i - 1) * step)>>]
    BY DEF CircleNodes
  <1>2. step \in Nat /\ n \in Nat /\ n >= 8
    BY Units, SMT
  <1>3. ASSUME NEW phi \in Int
        PROVE  <<X(phi), Y(phi)>> \in Screen
    <2>1. /\ Sin(phi) \in Int /\ -UNIT <= Sin(phi) /\ Sin(phi) <= UNIT
          /\ Cos(phi) \in Int /\ -UNIT <= Cos(phi) /\ Cos(phi) <= UNIT
      BY SinFacts
    <2>2. /\ X(phi) \in Int /\ 2 * X(phi) >= 2 * center[1] - halves - 1
          /\ 2 * X(phi) <= 2 * center[1] + halves + 1
      BY <2>1, NodeFacts
    <2>3. /\ Y(phi) \in Int /\ 2 * Y(phi) >= 2 * center[2] - halves - 1
          /\ 2 * Y(phi) <= 2 * center[2] + halves + 1
      BY <2>1, NodeFacts
    <2> HIDE DEF X, Y
    <2>4. X(phi) \in 0..255 * GLOBAL_SCALE /\ Y(phi) \in 0..255 * GLOBAL_SCALE
      <3>1. center[1] \in Nat /\ center[2] \in Nat /\ 255 * GLOBAL_SCALE \in Nat
        BY ScaleAssumption
      <3> QED
        BY <2>2, <2>3, <3>1
    <2> QED
      BY <2>4 DEF Screen
  <1>4. X(0) # X(step)
    <2>1. Sin(0) = 0 /\ Sin(0) \in Int /\ -UNIT <= Sin(0) /\ Sin(0) <= UNIT
      BY SecondNode, SinFacts
    <2>2. X(0) = center[1]
      BY <2>1, NodeFacts
    <2>3. Sin(step) \in Int /\ -UNIT <= Sin(step) /\ Sin(step) <= UNIT
      BY <1>2, SinFacts
    <2>4. X(step) > center[1]
      BY <2>3, NodeFacts
    <2> HIDE DEF X
    <2> QED
      BY <2>2, <2>4
  <1> HIDE DEF X, Y, step, n, ps
  <1>5. \A i \in 1..n : ps[i] = <<X((i - 1) * step), Y((i - 1) * step)>> /\ ps[i] \in Screen
    <2> SUFFICES ASSUME NEW i \in 1..n
                 PROVE  ps[i] = <<X((i - 1) * step), Y((i - 1) * step)>> /\ ps[i] \in Screen
      OBVIOUS
    <2>1. (i - 1) * step \in Int
      BY <1>2
    <2> QED
      BY <1>1, <1>3, <2>1
  <1>6. ps = [i \in 1..n |-> ps[i]]
    BY <1>1
  <1>7. ps \in Seq(Screen) /\ Len(ps) = n
    BY <1>2, <1>5, <1>6, SequenceFacts
  <1>8. ps[1] # ps[2]
    <2>1. 1 \in 1..n /\ 2 \in 1..n /\ (1 - 1) * step = 0 /\ (2 - 1) * step = step
      BY <1>2
    <2>2. ps[1][1] = X(0) /\ ps[2][1] = X(step)
      BY <1>5, <2>1
    <2> QED
      BY <1>4, <2>2
  <1>9. 1 \in Nat \ {0} /\ 1 + 1 <= Len(ps) /\ ps[1] # ps[1 + 1]
    BY <1>2, <1>7, <1>8
  <1>10. Closed(ps) \in Parts
    BY <1>7, <1>9, PolygonFacts
  <1> QED
    BY <1>10 DEF ps

\* How the coordinates of pictograms scale: none leaves the screen around a
\* place that is not at its edge, and those of points apart stay apart.
Scaling(T) ==
  /\ T \in [Int -> Int]
  /\ \A c \in Int : -16500 <= c /\ c <= 16500 =>
       -17 * GLOBAL_SCALE <= T[c] /\ T[c] <= 17 * GLOBAL_SCALE
  /\ \A c, d \in Int : Wide(c, d) => T[c] # T[d]

Inside(p) ==
  /\ p \in Int \X Int
  /\ 22 * GLOBAL_SCALE <= p[1] /\ p[1] <= 238 * GLOBAL_SCALE
  /\ 22 * GLOBAL_SCALE <= p[2] /\ p[2] <= 238 * GLOBAL_SCALE

\* A point of a pictogram at p, and the pictogram.
Placed(T, p, q) == <<T[q[1]] + p[1], T[-q[2]] + p[2]>>
DrawnAt(drawing, T, p) ==
  [n \in DOMAIN drawing |-> Open([k \in DOMAIN drawing[n] |-> Placed(T, p, drawing[n][k])])]

\* The coordinates of a point of a pictogram.
LEMMA BoxFacts ==
  ASSUME NEW q \in Box
  PROVE  /\ q[1] \in Int /\ -16500 <= q[1] /\ q[1] <= 16500
         /\ q[2] \in Int /\ -16500 <= q[2] /\ q[2] <= 16500
         /\ -q[2] \in Int /\ -16500 <= -q[2] /\ -q[2] <= 16500
  <1>1. /\ q[1] \in Int /\ -16500 <= q[1] /\ q[1] <= 16500
        /\ q[2] \in Int /\ -16500 <= q[2] /\ q[2] <= 16500
    BY DEF Box
  <1> QED
    BY <1>1

\* A scaled pictogram, placed inside of the margin, stays on the screen.
LEMMA PlacedFacts ==
  ASSUME NEW T, Scaling(T), NEW p, Inside(p), NEW q \in Box
  PROVE  Placed(T, p, q) \in Screen
  <1> DEFINE x == T[q[1]]
             y == T[-q[2]]
  <1>1. /\ x \in Int /\ -17 * GLOBAL_SCALE <= x /\ x <= 17 * GLOBAL_SCALE
        /\ y \in Int /\ -17 * GLOBAL_SCALE <= y /\ y <= 17 * GLOBAL_SCALE
    BY BoxFacts DEF Scaling
  <1>2. /\ p[1] \in Int /\ 22 * GLOBAL_SCALE <= p[1] /\ p[1] <= 238 * GLOBAL_SCALE
        /\ p[2] \in Int /\ 22 * GLOBAL_SCALE <= p[2] /\ p[2] <= 238 * GLOBAL_SCALE
    BY DEF Inside
  <1> HIDE DEF x, y
  <1>3. x + p[1] \in 0..255 * GLOBAL_SCALE /\ y + p[2] \in 0..255 * GLOBAL_SCALE
    <2>1. GLOBAL_SCALE \in Int
      BY ScaleAssumption
    <2>2. x + p[1] >= 5 * GLOBAL_SCALE /\ x + p[1] <= 255 * GLOBAL_SCALE
      BY <1>1, <1>2, <2>1
    <2>3. y + p[2] >= 5 * GLOBAL_SCALE /\ y + p[2] <= 255 * GLOBAL_SCALE
      BY <1>1, <1>2, <2>1
    <2> QED
      BY <1>1, <1>2, <2>1, <2>2, <2>3, ScaleAssumption
  <1> QED
    BY <1>3 DEF Placed, Screen, x, y

\* Points of a pictogram that are apart stay different ones.
LEMMA PlacedApart ==
  ASSUME NEW T, Scaling(T), NEW p, Inside(p), NEW q \in Box, NEW r \in Box, Apart(q, r)
  PROVE  Placed(T, p, q) # Placed(T, p, r)
  <1>1. /\ q[1] \in Int /\ q[2] \in Int /\ -q[2] \in Int
        /\ r[1] \in Int /\ r[2] \in Int /\ -r[2] \in Int /\ p[1] \in Int /\ p[2] \in Int
    BY BoxFacts DEF Inside
  <1>2. T \in [Int -> Int] /\ \A c, d \in Int : Wide(c, d) => T[c] # T[d]
    BY DEF Scaling
  <1>3. T[q[1]] # T[r[1]] \/ T[-q[2]] # T[-r[2]]
    <2>1. CASE Wide(q[1], r[1])
      BY <1>1, <1>2, <2>1
    <2>2. CASE Wide(r[1], q[1])
      BY <1>1, <1>2, <2>2
    <2>3. CASE Wide(q[2], r[2])
      <3>1. Wide(-r[2], -q[2])
        BY <1>1, <2>3 DEF Wide
      <3> QED
        BY <1>1, <1>2, <3>1
    <2>4. CASE Wide(r[2], q[2])
      <3>1. Wide(-q[2], -r[2])
        BY <1>1, <2>4 DEF Wide
      <3> QED
        BY <1>1, <1>2, <3>1
    <2> QED
      BY <2>1, <2>2, <2>3, <2>4 DEF Apart
  <1>4. /\ T[q[1]] \in Int /\ T[r[1]] \in Int /\ T[-q[2]] \in Int /\ T[-r[2]] \in Int
    BY <1>1, <1>2
  <1>5. T[q[1]] + p[1] # T[r[1]] + p[1] \/ T[-q[2]] + p[2] # T[-r[2]] + p[2]
    <2>1. \A a, b, c \in Int : a # b => a + c # b + c
      OBVIOUS
    <2> QED
      BY <1>1, <1>3, <1>4, <2>1, Zenon
  <1>6. Placed(T, p, q)[1] # Placed(T, p, r)[1] \/ Placed(T, p, q)[2] # Placed(T, p, r)[2]
    BY <1>5 DEF Placed
  <1> QED
    BY <1>6

\* So the lines of a pictogram are visible.
LEMMA DrawingFacts ==
  ASSUME NEW drawing, Pictogram(drawing), NEW T, Scaling(T), NEW p, Inside(p)
  PROVE  DrawnAt(drawing, T, p) \in Seq(Parts)
  <1> DEFINE Line_(n) == [k \in DOMAIN drawing[n] |-> Placed(T, p, drawing[n][k])]
             strokes == DrawnAt(drawing, T, p)
  <1>1. drawing \in Seq(Seq(Box)) /\ Len(drawing) \in Nat /\ DOMAIN drawing = 1..Len(drawing)
    BY DEF Pictogram
  <1>2. ASSUME NEW n \in 1..Len(drawing)
        PROVE  Open(Line_(n)) \in Parts
    <2> DEFINE line == drawing[n]
               ps == Line_(n)
    <2>1. /\ line \in Seq(Box) /\ Len(line) \in Nat /\ DOMAIN line = 1..Len(line)
          /\ \A k \in 1..Len(line) : line[k] \in Box
      BY <1>1
    <2>2. PICK k \in Nat \ {0} : k + 1 <= Len(line) /\ Apart(line[k], line[k + 1])
      BY <1>2 DEF Pictogram, Whole, Goes
    <2>10. LET m == Len(line) IN Apart(line[m - 1], line[m]) \/ line[m] = line[1]
      BY <1>2, <2>1 DEF Pictogram, Whole, Goes, Comes
    <2>3. ps = [i \in 1..Len(line) |-> Placed(T, p, line[i])]
      BY <2>1
    <2> HIDE DEF line, ps
    <2>4. \A i \in 1..Len(line) : ps[i] = Placed(T, p, line[i]) /\ ps[i] \in Screen
      BY <2>1, <2>3, PlacedFacts
    <2>5. ps = [i \in 1..Len(line) |-> ps[i]]
      BY <2>3
    <2>6. ps \in Seq(Screen) /\ Len(ps) = Len(line)
      BY <2>1, <2>4, <2>5, SequenceFacts
    <2>7. k \in 1..Len(line) /\ k + 1 \in 1..Len(line)
      BY <2>1, <2>2
    <2>8. ps[k] # ps[k + 1]
      BY <2>1, <2>2, <2>4, <2>7, PlacedApart
    <2>9. Arrives(ps)
      <3> DEFINE m == Len(line)
      <3>1. m \in 1..m /\ m - 1 \in 1..m /\ 1 \in 1..m /\ m \in Nat
        BY <2>1, <2>2
      <3>2. Apart(line[m - 1], line[m]) \/ line[m] = line[1]
        BY <2>10
      <3>3. Len(ps) = m
        BY <2>6
      <3> HIDE DEF m
      <3>4. \A i \in 1..m : line[i] \in Box /\ ps[i] = Placed(T, p, line[i])
        BY <2>1, <2>4 DEF m
      <3>5. CASE Apart(line[m - 1], line[m])
        <4>1. ps[m - 1] # ps[m]
          BY <3>1, <3>4, <3>5, PlacedApart
        <4> QED
          BY <3>3, <4>1 DEF Arrives
      <3>6. CASE line[m] = line[1]
        <4>1. ps[m] = ps[1]
          BY <3>1, <3>4, <3>6
        <4> QED
          BY <3>3, <4>1 DEF Arrives
      <3> QED
        BY <3>2, <3>5, <3>6
    <2>11. Open(ps) \in Parts
      BY <2>2, <2>6, <2>8, <2>9, PolygonFacts
    <2> QED
      BY <2>11 DEF ps
  <1>3. strokes = [n \in 1..Len(drawing) |-> Open(Line_(n))]
    BY <1>1 DEF DrawnAt
  <1> HIDE DEF Line_, strokes
  <1>4. \A n \in 1..Len(drawing) : strokes[n] \in Parts
    BY <1>2, <1>3
  <1>5. strokes = [n \in 1..Len(drawing) |-> strokes[n]]
    BY <1>3
  <1>6. strokes \in Seq(Parts)
    BY <1>1, <1>4, <1>5, SequenceFacts
  <1> QED
    BY <1>6 DEF strokes

\* The two scales of the clock: of the numbers on its face, and of its label.
FaceScale == [c \in Int |-> Truncate(c * 9 * GLOBAL_SCALE, UNIT)]
LabelScale == [c \in Int |-> Round(c * 75 * GLOBAL_SCALE, 10 * UNIT)]

\* The scale of a number, rounded to zero.
LEMMA FaceScaleAt ==
  ASSUME NEW c \in Int
  PROVE  /\ FaceScale[c] \in Int
         /\ UNIT * FaceScale[c] > 9 * (c * GLOBAL_SCALE) - UNIT
         /\ UNIT * FaceScale[c] < 9 * (c * GLOBAL_SCALE) + UNIT
         /\ c >= 0 => UNIT * FaceScale[c] <= 9 * (c * GLOBAL_SCALE)
         /\ c <= 0 => UNIT * FaceScale[c] >= 9 * (c * GLOBAL_SCALE)
  <1> DEFINE n == c * 9 * GLOBAL_SCALE
             t == FaceScale[c]
  <1>1. n \in Int /\ n = 9 * (c * GLOBAL_SCALE)
    BY ScaleAssumption, SMT
  <1>2. t = Truncate(n, UNIT)
    BY DEF FaceScale
  <1> HIDE DEF n, t
  <1>3. /\ Truncate(n, UNIT) \in Int
        /\ UNIT * Truncate(n, UNIT) > n - UNIT /\ UNIT * Truncate(n, UNIT) < n + UNIT
        /\ n >= 0 => UNIT * Truncate(n, UNIT) <= n
        /\ n <= 0 => UNIT * Truncate(n, UNIT) >= n
    BY <1>1, TruncateFacts
  <1>4. (c >= 0 => n >= 0) /\ (c <= 0 => n <= 0)
    BY <1>1, ScaleAssumption
  <1> QED
    BY <1>1, <1>2, <1>3, <1>4 DEF t

\* The one of the label, rounded to the nearest.
LEMMA LabelScaleAt ==
  ASSUME NEW c \in Int
  PROVE  /\ LabelScale[c] \in Int
         /\ UNIT * (10 * LabelScale[c]) >= 75 * (c * GLOBAL_SCALE) - 5 * UNIT
         /\ UNIT * (10 * LabelScale[c]) <= 75 * (c * GLOBAL_SCALE) + 5 * UNIT
  <1> DEFINE n == c * 75 * GLOBAL_SCALE
             x == Round(n, 10 * UNIT)
             t == LabelScale[c]
  <1>1. n \in Int /\ n = 75 * (c * GLOBAL_SCALE)
    BY ScaleAssumption, SMT
  <1>2. t = x
    BY DEF LabelScale
  <1> HIDE DEF n, t
  <1>3. x \in Int /\ UNIT * (10 * x) >= n - 5 * UNIT /\ UNIT * (10 * x) <= n + 5 * UNIT
    BY <1>1, RoundFacts
  <1> HIDE DEF x
  <1> QED
    BY <1>1, <1>2, <1>3 DEF t

\* The truncated scale of a number is a scaling.
LEMMA FaceScaling == Scaling(FaceScale)
  <1> DEFINE T == FaceScale
  <1>1. ASSUME NEW c \in Int
        PROVE  /\ T[c] \in Int
               /\ UNIT * T[c] > 9 * (c * GLOBAL_SCALE) - UNIT
               /\ UNIT * T[c] < 9 * (c * GLOBAL_SCALE) + UNIT
               /\ c >= 0 => UNIT * T[c] <= 9 * (c * GLOBAL_SCALE)
               /\ c <= 0 => UNIT * T[c] >= 9 * (c * GLOBAL_SCALE)
    BY FaceScaleAt
  <1>2. T \in [Int -> Int]
    <2>1. T = [c \in Int |-> T[c]]
      BY DEF FaceScale
    <2> HIDE DEF T
    <2> QED
      BY <1>1, <2>1
  <1> HIDE DEF T
  <1>3. ASSUME NEW c \in Int, -16500 <= c, c <= 16500
        PROVE  -17 * GLOBAL_SCALE <= T[c] /\ T[c] <= 17 * GLOBAL_SCALE
    <2> DEFINE t == T[c]
    <2>1. /\ t \in Int /\ UNIT * t > 9 * (c * GLOBAL_SCALE) - UNIT
          /\ UNIT * t < 9 * (c * GLOBAL_SCALE) + UNIT
      BY <1>1
    <2> HIDE DEF t
    <2>2. -17 * GLOBAL_SCALE <= t /\ t <= 17 * GLOBAL_SCALE
      BY <1>3, <2>1, ScaleAssumption, Units
    <2> QED
      BY <2>2 DEF t
  <1>4. ASSUME NEW c \in Int, NEW d \in Int, Wide(c, d)
        PROVE  T[c] # T[d]
    <2> DEFINE t == T[c]
               u == T[d]
    <2>1. /\ t \in Int /\ UNIT * t > 9 * (c * GLOBAL_SCALE) - UNIT
          /\ u \in Int /\ UNIT * u < 9 * (d * GLOBAL_SCALE) + UNIT
          /\ d >= 0 => UNIT * u <= 9 * (d * GLOBAL_SCALE)
          /\ c <= 0 => UNIT * t >= 9 * (c * GLOBAL_SCALE)
      BY <1>1
    <2> HIDE DEF t, u
    <2>2. t # u
      BY <1>4, <2>1, ScaleAssumption, Units DEF Wide
    <2> QED
      BY <2>2 DEF t, u
  <1>5. Scaling(T)
    BY <1>2, <1>3, <1>4 DEF Scaling
  <1> QED
    BY <1>5 DEF T

\* So is the rounded one of the label.
LEMMA LabelScaling == Scaling(LabelScale)
  <1> DEFINE T == LabelScale
  <1>1. ASSUME NEW c \in Int
        PROVE  /\ T[c] \in Int
               /\ UNIT * (10 * T[c]) >= 75 * (c * GLOBAL_SCALE) - 5 * UNIT
               /\ UNIT * (10 * T[c]) <= 75 * (c * GLOBAL_SCALE) + 5 * UNIT
    BY LabelScaleAt
  <1>2. T \in [Int -> Int]
    <2>1. T = [c \in Int |-> T[c]]
      BY DEF LabelScale
    <2> HIDE DEF T
    <2> QED
      BY <1>1, <2>1
  <1> HIDE DEF T
  <1>3. ASSUME NEW c \in Int, -16500 <= c, c <= 16500
        PROVE  -17 * GLOBAL_SCALE <= T[c] /\ T[c] <= 17 * GLOBAL_SCALE
    <2> DEFINE t == T[c]
    <2>1. /\ t \in Int /\ UNIT * (10 * t) >= 75 * (c * GLOBAL_SCALE) - 5 * UNIT
          /\ UNIT * (10 * t) <= 75 * (c * GLOBAL_SCALE) + 5 * UNIT
      BY <1>1
    <2> HIDE DEF t
    <2>2. -17 * GLOBAL_SCALE <= t /\ t <= 17 * GLOBAL_SCALE
      BY <1>3, <2>1, ScaleAssumption, Units
    <2> QED
      BY <2>2 DEF t
  <1>4. ASSUME NEW c \in Int, NEW d \in Int, Wide(c, d)
        PROVE  T[c] # T[d]
    <2> DEFINE t == T[c]
               u == T[d]
    <2>1. /\ t \in Int /\ UNIT * (10 * t) >= 75 * (c * GLOBAL_SCALE) - 5 * UNIT
          /\ u \in Int /\ UNIT * (10 * u) <= 75 * (d * GLOBAL_SCALE) + 5 * UNIT
      BY <1>1
    <2> HIDE DEF t, u
    <2>2. t # u
      BY <1>4, <2>1, ScaleAssumption, Units DEF Wide
    <2> QED
      BY <2>2 DEF t, u
  <1>5. Scaling(T)
    BY <1>2, <1>3, <1>4 DEF Scaling
  <1> QED
    BY <1>5 DEF T

\* The points of a pictogram are in its box.
LEMMA PointFacts ==
  ASSUME NEW drawing, Pictogram(drawing), NEW n \in DOMAIN drawing, NEW k \in DOMAIN drawing[n]
  PROVE  drawing[n][k] \in Box /\ drawing[n][k][1] \in Int /\ drawing[n][k][2] \in Int
  <1>1. drawing \in Seq(Seq(Box))
    BY DEF Pictogram
  <1>2. drawing[n] \in Seq(Box)
    BY <1>1
  <1>3. drawing[n][k] \in Box
    BY <1>2
  <1> QED
    BY <1>3, BoxFacts

\* A number on the face as a drawing.
LEMMA NumeralDrawn ==
  ASSUME NEW number \in 0..14, NEW p
  PROVE  Numeral(number, p) = DrawnAt(FONT(number), FaceScale, p)
  <1> DEFINE drawing == FONT(number)
             Place(q) == << Truncate(q[1] * 9 * GLOBAL_SCALE, UNIT) + p[1],
                            Truncate(-q[2] * 9 * GLOBAL_SCALE, UNIT) + p[2] >>
             Drawn(n) == [k \in DOMAIN drawing[n] |-> Place(drawing[n][k])]
             Written(n) == [k \in DOMAIN drawing[n] |-> Placed(FaceScale, p, drawing[n][k])]
  <1>1. Pictogram(drawing)
    BY FontFacts
  <1>2. /\ Numeral(number, p) = [n \in DOMAIN drawing |-> Open(Drawn(n))]
        /\ DrawnAt(drawing, FaceScale, p) = [n \in DOMAIN drawing |-> Open(Written(n))]
    BY DEF Numeral, DrawnAt
  <1> HIDE DEF drawing
  <1>3. ASSUME NEW q, q[1] \in Int, q[2] \in Int
        PROVE  Place(q) = Placed(FaceScale, p, q)
    <2>1. -q[2] \in Int /\ (-q[2]) * 9 * GLOBAL_SCALE = -q[2] * 9 * GLOBAL_SCALE
      BY <1>3, ScaleAssumption, SMT
    <2> QED
      BY <1>3, <2>1 DEF Placed, FaceScale
  <1> HIDE DEF Place
  <1>4. \A n \in DOMAIN drawing : \A k \in DOMAIN drawing[n] :
          Place(drawing[n][k]) = Placed(FaceScale, p, drawing[n][k])
    BY <1>1, <1>3, PointFacts
  <1>5. \A n \in DOMAIN drawing : Drawn(n) = Written(n)
    BY <1>4
  <1> HIDE DEF Drawn, Written
  <1>6. Numeral(number, p) = DrawnAt(drawing, FaceScale, p)
    BY <1>2, <1>5
  <1> QED
    BY <1>6 DEF drawing

\* A pictogram of the label as a drawing.
LEMMA PictogramDrawn ==
  ASSUME NEW index \in 0..14, NEW x, NEW y
  PROVE  DrawPictogram(index, x, y) = DrawnAt(FONT(index), LabelScale, <<x, y>>)
  <1> DEFINE drawing == FONT(index)
             p == <<x, y>>
             Place(q) == << Round(q[1] * 75 * GLOBAL_SCALE, 10 * UNIT) + x,
                            Round(-q[2] * 75 * GLOBAL_SCALE, 10 * UNIT) + y >>
             Drawn(n) == [k \in DOMAIN drawing[n] |-> Place(drawing[n][k])]
             Written(n) == [k \in DOMAIN drawing[n] |-> Placed(LabelScale, p, drawing[n][k])]
  <1>1. Pictogram(drawing)
    BY FontFacts
  <1>2. /\ DrawPictogram(index, x, y) = [n \in DOMAIN drawing |-> Open(Drawn(n))]
        /\ DrawnAt(drawing, LabelScale, p) = [n \in DOMAIN drawing |-> Open(Written(n))]
    BY DEF DrawPictogram, DrawnAt
  <1> HIDE DEF drawing
  <1>3. ASSUME NEW q, q[1] \in Int, q[2] \in Int
        PROVE  Place(q) = Placed(LabelScale, p, q)
    <2>1. -q[2] \in Int /\ (-q[2]) * 75 * GLOBAL_SCALE = -q[2] * 75 * GLOBAL_SCALE
      BY <1>3, ScaleAssumption, SMT
    <2> QED
      BY <1>3, <2>1 DEF Placed, LabelScale
  <1> HIDE DEF Place
  <1>4. \A n \in DOMAIN drawing : \A k \in DOMAIN drawing[n] :
          Place(drawing[n][k]) = Placed(LabelScale, p, drawing[n][k])
    BY <1>1, <1>3, PointFacts
  <1>5. \A n \in DOMAIN drawing : Drawn(n) = Written(n)
    BY <1>4
  <1> HIDE DEF Drawn, Written
  <1>6. DrawPictogram(index, x, y) = DrawnAt(drawing, LabelScale, p)
    BY <1>2, <1>5
  <1> QED
    BY <1>6 DEF drawing, p

\* A number on the face is visible.
LEMMA NumeralFacts ==
  ASSUME NEW number \in 0..14, NEW p, Inside(p)
  PROVE  Numeral(number, p) \in Seq(Parts)
  <1>1. DrawnAt(FONT(number), FaceScale, p) \in Seq(Parts)
    BY FontFacts, FaceScaling, DrawingFacts
  <1> QED
    BY <1>1, NumeralDrawn

\* So is a pictogram of the label.
LEMMA PictogramFacts ==
  ASSUME NEW index \in 0..14, NEW x, NEW y, Inside(<<x, y>>)
  PROVE  DrawPictogram(index, x, y) \in Seq(Parts)
  <1>1. DrawnAt(FONT(index), LabelScale, <<x, y>>) \in Seq(Parts)
    BY FontFacts, LabelScaling, DrawingFacts
  <1> QED
    BY <1>1, PictogramDrawn

\* The center of the screen.
LEMMA CenterFacts == Center = 130 * GLOBAL_SCALE /\ Center \in Nat /\ GLOBAL_SCALE \in Nat
  BY ScaleAssumption DEF Center

\* The two circles around the center.
LEMMA CirclesFacts ==
  /\ Closed(CircleNodes(<<Center, Center>>, 250 * GLOBAL_SCALE, 40, 1)) \in Parts
  /\ Closed(CircleNodes(<<Center, Center>>, 20 * GLOBAL_SCALE, 10, 1)) \in Parts
  <1> DEFINE center == <<Center, Center>>
  <1>1. /\ center \in Nat \X Nat /\ center[1] = 130 * GLOBAL_SCALE
        /\ center[2] = 130 * GLOBAL_SCALE
    BY CenterFacts
  <1> HIDE DEF center
  <1>2. Closed(CircleNodes(center, 250 * GLOBAL_SCALE, 40, 1)) \in Parts
    <2> DEFINE halves == 250 * GLOBAL_SCALE
    <2>1. /\ halves \in Nat /\ halves <= 2 * center[1] /\ halves <= 2 * center[2]
          /\ 2 * center[1] + halves <= 2 * (255 * GLOBAL_SCALE)
          /\ 2 * center[2] + halves <= 2 * (255 * GLOBAL_SCALE)
      BY <1>1, ScaleAssumption
    <2>2. Sin(Circle \div 40) * halves > UNIT
      BY SecondNode, Units, ScaleAssumption
    <2> HIDE DEF halves
    <2>3. Closed(CircleNodes(center, halves, 40, 1)) \in Parts
      BY <1>1, <2>1, <2>2, CircleFacts
    <2> QED
      BY <2>3 DEF halves
  <1>3. Closed(CircleNodes(center, 20 * GLOBAL_SCALE, 10, 1)) \in Parts
    <2> DEFINE halves == 20 * GLOBAL_SCALE
    <2>1. /\ halves \in Nat /\ halves <= 2 * center[1] /\ halves <= 2 * center[2]
          /\ 2 * center[1] + halves <= 2 * (255 * GLOBAL_SCALE)
          /\ 2 * center[2] + halves <= 2 * (255 * GLOBAL_SCALE)
      BY <1>1, ScaleAssumption
    <2>2. Sin(Circle \div 10) * halves > UNIT
      BY SecondNode, Units, ScaleAssumption
    <2> HIDE DEF halves
    <2>3. Closed(CircleNodes(center, halves, 10, 1)) \in Parts
      BY <1>1, <2>1, <2>2, CircleFacts
    <2> QED
      BY <2>3 DEF halves
  <1> QED
    BY <1>2, <1>3 DEF center

\* A point around the center, on the screen.
LEMMA RadialOnScreen ==
  ASSUME NEW phi \in Int, NEW radius \in Nat, radius <= 125 * GLOBAL_SCALE
  PROVE  radial_to_cartesian(phi, radius) \in Screen
  <1> DEFINE p == radial_to_cartesian(phi, radius)
  <1>1. /\ p \in Int \X Int
        /\ Center - radius <= p[1] /\ p[1] <= Center + radius
        /\ Center - radius <= p[2] /\ p[2] <= Center + radius
    BY RadialFacts
  <1> HIDE DEF p
  <1>2. p[1] \in 0..255 * GLOBAL_SCALE /\ p[2] \in 0..255 * GLOBAL_SCALE
    BY <1>1, CenterFacts
  <1> QED
    BY <1>1, <1>2 DEF Screen, p

\* The mark of a minute: a circle with its number, or a dot.
LEMMA MarkPieces ==
  ASSUME NEW i \in 0..59
  PROVE  LET phi == i * (Circle \div 60)
             outer == radial_to_cartesian(phi, 88 * GLOBAL_SCALE)
             outer_number == radial_to_cartesian(phi, 108 * GLOBAL_SCALE)
         IN /\ outer \in Nat \X Nat /\ Inside(outer_number) /\ NumberAt(i) \in 0..12
            /\ Closed(CircleNodes(outer, 5 * GLOBAL_SCALE, 8, 2)) \in Parts
            /\ Dot(outer, 14) \in Parts
  <1> DEFINE phi == i * (Circle \div 60)
             outer == radial_to_cartesian(phi, 88 * GLOBAL_SCALE)
             outer_number == radial_to_cartesian(phi, 108 * GLOBAL_SCALE)
  <1>1. phi \in Int
    BY Units, SMT
  <1> HIDE DEF phi
  <1>3. /\ outer \in Nat \X Nat
        /\ 42 * GLOBAL_SCALE <= outer[1] /\ outer[1] <= 218 * GLOBAL_SCALE
        /\ 42 * GLOBAL_SCALE <= outer[2] /\ outer[2] <= 218 * GLOBAL_SCALE
    <2> DEFINE radius == 88 * GLOBAL_SCALE
    <2>1. radius \in Nat /\ radius = 88 * GLOBAL_SCALE
      BY CenterFacts
    <2> HIDE DEF radius
    <2>2. LET p == radial_to_cartesian(phi, radius)
          IN /\ p \in Int \X Int
             /\ Center - radius <= p[1] /\ p[1] <= Center + radius
             /\ Center - radius <= p[2] /\ p[2] <= Center + radius
      BY <1>1, <2>1, RadialFacts
    <2>3. outer = radial_to_cartesian(phi, radius)
      BY DEF radius
    <2> HIDE DEF outer
    <2> QED
      BY <2>1, <2>2, <2>3, CenterFacts
  <1>4. Inside(outer_number)
    <2> DEFINE radius == 108 * GLOBAL_SCALE
    <2>1. radius \in Nat /\ radius = 108 * GLOBAL_SCALE
      BY CenterFacts
    <2> HIDE DEF radius
    <2>2. LET p == radial_to_cartesian(phi, radius)
          IN /\ p \in Int \X Int
             /\ Center - radius <= p[1] /\ p[1] <= Center + radius
             /\ Center - radius <= p[2] /\ p[2] <= Center + radius
      BY <1>1, <2>1, RadialFacts
    <2>3. outer_number = radial_to_cartesian(phi, radius)
      BY DEF radius
    <2> HIDE DEF outer_number
    <2> QED
      BY <2>1, <2>2, <2>3, CenterFacts DEF Inside
  <1> HIDE DEF outer, outer_number
  <1>5. NumberAt(i) \in 0..12
    BY SMT DEF NumberAt
  <1>6. Closed(CircleNodes(outer, 5 * GLOBAL_SCALE, 8, 2)) \in Parts
    <2> DEFINE halves == 5 * GLOBAL_SCALE
    <2>1. /\ halves \in Nat /\ halves <= 2 * outer[1] /\ halves <= 2 * outer[2]
          /\ 2 * outer[1] + halves <= 2 * (255 * GLOBAL_SCALE)
          /\ 2 * outer[2] + halves <= 2 * (255 * GLOBAL_SCALE)
      BY <1>3, CenterFacts
    <2>2. Sin(Circle \div 8) * halves > UNIT
      BY SecondNode, Units, ScaleAssumption
    <2> HIDE DEF halves
    <2>3. Closed(CircleNodes(outer, halves, 8, 2)) \in Parts
      BY <1>3, <2>1, <2>2, CircleFacts
    <2> QED
      BY <2>3 DEF halves
  <1>7. Dot(outer, 14) \in Parts
    <2>1. outer \in Screen
      BY <1>3, CenterFacts DEF Screen
    <2> QED
      BY <2>1, DotFacts
  <1> QED
    BY <1>3, <1>4, <1>5, <1>6, <1>7 DEF phi, outer, outer_number

\* So the mark is visible.
LEMMA MarkFacts ==
  ASSUME NEW i \in 0..59
  PROVE  Mark(i) \in Seq(Parts)
  <1> DEFINE phi == i * (Circle \div 60)
             outer == radial_to_cartesian(phi, 88 * GLOBAL_SCALE)
             outer_number == radial_to_cartesian(phi, 108 * GLOBAL_SCALE)
             circle == Closed(CircleNodes(outer, 5 * GLOBAL_SCALE, 8, 2))
             number == Numeral(NumberAt(i), outer_number)
  <1>1. /\ Inside(outer_number) /\ NumberAt(i) \in 0..12
        /\ circle \in Parts /\ Dot(outer, 14) \in Parts
    BY MarkPieces
  <1>2. Mark(i) = IF i % 5 = 0 THEN <<circle>> \o number ELSE <<Dot(outer, 14)>>
    BY DEF Mark
  <1> HIDE DEF phi, outer, outer_number
  <1>3. number \in Seq(Parts)
    <2>1. NumberAt(i) \in 0..14
      BY <1>1
    <2> QED
      BY <1>1, <2>1, NumeralFacts
  <1> HIDE DEF circle, number
  <1>4. <<circle>> \o number \in Seq(Parts)
    BY <1>1, <1>3
  <1>5. <<Dot(outer, 14)>> \in Seq(Parts)
    BY <1>1
  <1> QED
    BY <1>2, <1>4, <1>5

\* The whole static face.
LEMMA FaceFacts == draw_static_clock_face \in Seq(Parts)
  <1> DEFINE marks == [i \in 1..60 |-> Mark(i - 1)]
             c1 == Closed(CircleNodes(<<Center, Center>>, 250 * GLOBAL_SCALE, 40, 1))
             c2 == Closed(CircleNodes(<<Center, Center>>, 20 * GLOBAL_SCALE, 10, 1))
  <1>1. draw_static_clock_face = <<c1, c2>> \o FlattenSeq(marks)
    BY DEF draw_static_clock_face
  <1>2. c1 \in Parts /\ c2 \in Parts
    BY CirclesFacts
  <1> HIDE DEF c1, c2
  <1>3. \A i \in 1..60 : marks[i] \in Seq(Parts)
    <2> SUFFICES ASSUME NEW i \in 1..60
                 PROVE  marks[i] \in Seq(Parts)
      OBVIOUS
    <2>1. i - 1 \in 0..59
      OBVIOUS
    <2> QED
      BY <2>1, MarkFacts
  <1>4. marks = [i \in 1..60 |-> marks[i]]
    OBVIOUS
  <1> HIDE DEF marks
  <1>5. marks \in Seq(Seq(Parts))
    BY <1>3, <1>4, SequenceFacts
  <1>6. FlattenSeq(marks) \in Seq(Parts)
    BY <1>5, FlattenType
  <1>7. <<c1, c2>> \in Seq(Parts)
    BY <1>2
  <1> QED
    BY <1>1, <1>6, <1>7, ConcatFacts

(***************************************************************************)
(* The square root, and the place of the label.                            *)
(***************************************************************************)
IsRoot(r, n) == r \in Nat /\ r * r <= n /\ n < (r + 1) * (r + 1)

\* Every number has one root.
LEMMA RootExists == \A n \in Nat : \E r : IsRoot(r, n)
  <1> DEFINE Rooted == {n \in Nat : \E r : IsRoot(r, n)}
  <1>1. 0 \in Rooted
    <2>1. IsRoot(0, 0)
      BY DEF IsRoot
    <2> QED
      BY <2>1
  <1>2. ASSUME NEW n \in Nat, n \in Rooted
        PROVE  n + 1 \in Rooted
    <2>1. PICK r : IsRoot(r, n)
      BY <1>2
    <2>2. IsRoot(r, n + 1) \/ IsRoot(r + 1, n + 1)
      BY <2>1, SMT DEF IsRoot
    <2> QED
      BY <2>2
  <1> HIDE DEF Rooted
  <1>3. \A n \in Nat : n \in Rooted
    BY <1>1, <1>2, SetInduction
  <1> QED
    BY <1>3 DEF Rooted

\* A number has only one root.
LEMMA RootUnique ==
  ASSUME NEW n \in Nat, NEW r, IsRoot(r, n), NEW s, IsRoot(s, n)
  PROVE  r = s
  <1>1. r \in Nat /\ s \in Nat /\ r * r < (s + 1) * (s + 1) /\ s * s < (r + 1) * (r + 1)
    BY SMT DEF IsRoot
  <1>2. ASSUME NEW a \in Nat, NEW b \in Nat, a * a < b * b
        PROVE  a < b
    BY <1>2, SMT
  <1>3. r < s + 1 /\ s < r + 1
    BY <1>1, <1>2
  <1> QED
    BY <1>1, <1>3

\* One step of Sqrt.
LEMMA RootStep ==
  ASSUME NEW n \in Nat, n # 0, NEW q, IsRoot(q, n \div 4)
  PROVE  LET r == 2 * q
         IN IsRoot(IF (r + 1) * (r + 1) <= n THEN r + 1 ELSE r, n)
  <1> DEFINE k == n \div 4
             r == 2 * q
  <1>1. k \in Nat /\ 4 * k <= n /\ n < 4 * k + 4
    BY SMT
  <1>2. q \in Nat /\ q * q <= k /\ k + 1 <= (q + 1) * (q + 1)
    BY <1>1 DEF IsRoot
  <1> HIDE DEF k
  <1>3. r \in Nat /\ r * r <= n /\ n < (r + 2) * (r + 2)
    <2>1. r * r = 4 * (q * q) /\ (r + 2) * (r + 2) = 4 * ((q + 1) * (q + 1))
      BY <1>2, SMT
    <2>2. q * q \in Nat /\ (q + 1) * (q + 1) \in Nat
      BY <1>2, SMT
    <2> QED
      BY <1>1, <1>2, <2>1, <2>2, SMT
  <1> HIDE DEF r
  <1>4. IsRoot(IF (r + 1) * (r + 1) <= n THEN r + 1 ELSE r, n)
    <2>1. CASE (r + 1) * (r + 1) <= n
      <3>1. (r + 1) + 1 = r + 2 /\ r + 1 \in Nat
        BY <1>3
      <3> QED
        BY <1>3, <2>1, <3>1 DEF IsRoot
    <2>2. CASE ~((r + 1) * (r + 1) <= n)
      <3>1. n < (r + 1) * (r + 1)
        BY <1>3, <2>2, SMT
      <3> QED
        BY <1>3, <2>2, <3>1 DEF IsRoot
    <2> QED
      BY <2>1, <2>2
  <1> QED
    BY <1>4 DEF r

\* The recursive definition of Sqrt has a solution: the function of all roots.
LEMMA SqrtDefined ==
  Sqrt = [n \in Nat |-> IF n = 0 THEN 0
                        ELSE LET r == 2 * Sqrt[n \div 4]
                             IN IF (r + 1) * (r + 1) <= n THEN r + 1 ELSE r]
  <1> DEFINE Equation(f) == f = [n \in Nat |-> IF n = 0 THEN 0
                                  ELSE LET r == 2 * f[n \div 4]
                                       IN IF (r + 1) * (r + 1) <= n THEN r + 1 ELSE r]
             root == [n \in Nat |-> CHOOSE r : IsRoot(r, n)]
  <1>1. \A n \in Nat : IsRoot(root[n], n)
    BY RootExists
  <1>2. root = [n \in Nat |-> root[n]]
    OBVIOUS
  <1> HIDE DEF root
  <1>3. ASSUME NEW n \in Nat
        PROVE  root[n] = IF n = 0 THEN 0
                         ELSE LET r == 2 * root[n \div 4]
                              IN IF (r + 1) * (r + 1) <= n THEN r + 1 ELSE r
    <2>1. CASE n = 0
      <3>1. IsRoot(0, 0)
        BY DEF IsRoot
      <3> QED
        BY <1>1, <2>1, <3>1, RootUnique
    <2>2. CASE n # 0
      <3> DEFINE s == LET r == 2 * root[n \div 4] IN IF (r + 1) * (r + 1) <= n THEN r + 1 ELSE r
      <3>1. n \div 4 \in Nat
        BY SMT
      <3>2. IsRoot(s, n)
        BY <1>1, <2>2, <3>1, RootStep
      <3>3. IsRoot(root[n], n)
        BY <1>1
      <3> HIDE DEF s
      <3>4. root[n] = s
        BY <3>2, <3>3, RootUnique
      <3> QED
        BY <2>2, <3>4 DEF s
    <2> QED
      BY <2>1, <2>2
  <1>4. Equation(root)
    BY <1>2, <1>3
  <1>5. Sqrt = CHOOSE f : Equation(f)
    BY DEF Sqrt
  <1> HIDE DEF Equation
  <1>6. Equation(Sqrt)
    BY <1>4, <1>5
  <1> QED
    BY <1>6 DEF Equation

\* And Sqrt is that function.
LEMMA SqrtFacts == \A n \in Nat : IsRoot(Sqrt[n], n)
  <1> DEFINE Right == {m \in Nat : \A n \in 0..m : IsRoot(Sqrt[n], n)}
  <1>1. \A n \in Nat : Sqrt[n] = IF n = 0 THEN 0
                                 ELSE LET r == 2 * Sqrt[n \div 4]
                                      IN IF (r + 1) * (r + 1) <= n THEN r + 1 ELSE r
    BY SqrtDefined
  <1>2. IsRoot(Sqrt[0], 0)
    BY <1>1 DEF IsRoot
  <1>3. 0 \in Right
    BY <1>2
  <1>4. ASSUME NEW m \in Nat, m \in Right
        PROVE  m + 1 \in Right
    <2> DEFINE n == m + 1
    <2>1. n \in Nat /\ n # 0 /\ n \div 4 \in 0..m
      BY SMT
    <2>2. IsRoot(Sqrt[n \div 4], n \div 4)
      BY <1>4, <2>1
    <2>3. Sqrt[n] = LET r == 2 * Sqrt[n \div 4] IN IF (r + 1) * (r + 1) <= n THEN r + 1 ELSE r
      BY <1>1, <2>1
    <2> HIDE DEF n
    <2>4. IsRoot(Sqrt[n], n)
      BY <2>1, <2>2, <2>3, RootStep
    <2>5. \A k \in 0..m + 1 : k \in 0..m \/ k = n
      BY DEF n
    <2>6. \A k \in 0..m + 1 : IsRoot(Sqrt[k], k)
      BY <1>4, <2>4, <2>5
    <2> QED
      BY <2>6
  <1> HIDE DEF Right
  <1>5. \A m \in Nat : m \in Right
    BY <1>3, <1>4, SetInduction
  <1> QED
    BY <1>5 DEF Right

\* A part of a length, scaled to a radius.
LEMMA TruncateWithin ==
  ASSUME NEW radius \in Nat, NEW length \in Nat, length > 0,
         NEW v \in Int, -length <= v, v <= length
  PROVE  /\ Truncate(radius * v, length) \in Int
         /\ -radius <= Truncate(radius * v, length) /\ Truncate(radius * v, length) <= radius
  <1> DEFINE n == radius * v
             a == Abs(n)
             t == a \div length
  <1>1. n \in Int /\ -(length * radius) <= n /\ n <= length * radius
    BY SMT
  <1> HIDE DEF n
  <1>2. a \in Nat /\ ((Sign(n) = 1 /\ a = n) \/ (Sign(n) = -1 /\ a = -n))
    BY <1>1, SignFacts
  <1>3. a <= length * radius
    BY <1>1, <1>2
  <1> HIDE DEF a
  <1>4. t \in Nat /\ t <= radius
    <2>1. t <= radius
      BY <1>2, <1>3, DivMono
    <2>2. t \in Nat
      BY <1>2, SMT
    <2> QED
      BY <2>1, <2>2
  <1>5. Truncate(n, length) = Sign(n) * t
    BY DEF Truncate, a
  <1> HIDE DEF t
  <1>6. /\ Truncate(n, length) \in Int /\ -radius <= Truncate(n, length)
        /\ Truncate(n, length) <= radius
    BY <1>2, <1>4, <1>5
  <1> QED
    BY <1>6 DEF n

\* Neither part of a vector is longer than the whole.
LEMMA LengthFacts ==
  ASSUME NEW x \in Int, NEW y \in Int
  PROVE  LET length == Sqrt[x * x + y * y]
         IN /\ length \in Nat /\ -length <= x /\ x <= length
            /\ -length <= y /\ y <= length
  <1> DEFINE n == x * x + y * y
             r == Sqrt[n]
  <1>1. x * x \in Nat /\ y * y \in Nat /\ n \in Nat /\ x * x <= n /\ y * y <= n
    BY SMT
  <1> HIDE DEF n
  <1>2. r \in Nat /\ n < (r + 1) * (r + 1)
    BY <1>1, SqrtFacts DEF IsRoot
  <1> HIDE DEF r
  <1>3. x * x < (r + 1) * (r + 1) /\ y * y < (r + 1) * (r + 1)
    BY <1>1, <1>2, SMT
  <1>4. ASSUME NEW v \in Int, v * v < (r + 1) * (r + 1)
        PROVE  -r <= v /\ v <= r
    BY <1>2, <1>4, SMT
  <1>5. -r <= x /\ x <= r /\ -r <= y /\ y <= r
    BY <1>3, <1>4
  <1> QED
    BY <1>2, <1>5 DEF r, n

\* The angles of the hands are numbers.
LEMMA PhiFacts ==
  ASSUME NEW t \in LocalTime
  PROVE  seconds_phi(t) \in Int /\ minutes_phi(t) \in Int /\ hours_phi(t) \in Int
  <1> DEFINE minute == t.minute
             second == t.second
             milli == t.milli
             h == hour12(t).hour
  <1>1. minute \in Int /\ second \in Int /\ milli \in Int /\ t.hour \in Int
    BY DEF LocalTime
  <1>2. h \in Int
    BY <1>1 DEF hour12
  <1>3. /\ seconds_phi(t) = (second * 1000 + milli) * 3
        /\ minutes_phi(t) = (minute * 60 + second) * 50
        /\ hours_phi(t) = (h * 60 + minute) * 250
    BY DEF seconds_phi, minutes_phi, hours_phi
  <1> HIDE DEF minute, second, milli, h
  <1>4. seconds_phi(t) \in Int
    BY <1>1, <1>3, SMT
  <1>5. minutes_phi(t) \in Int
    BY <1>1, <1>3, SMT
  <1>6. hours_phi(t) \in Int
    BY <1>1, <1>2, <1>3, SMT
  <1> QED
    BY <1>4, <1>5, <1>6

\* How far from the center the label is, at most.
Around(p) ==
  /\ p \in Int \X Int
  /\ Center - 45 * GLOBAL_SCALE <= p[1] /\ p[1] <= Center + 45 * GLOBAL_SCALE
  /\ Center - 45 * GLOBAL_SCALE <= p[2] /\ p[2] <= Center + 45 * GLOBAL_SCALE

\* A vector not longer than its length is around the center.
LEMMA AtFacts ==
  ASSUME NEW x \in Int, NEW y \in Int, NEW length \in Nat, length > 0,
         -length <= x, x <= length, -length <= y, y <= length
  PROVE  Around(At(<<x, y>>, length))
  <1> DEFINE radius == 45 * GLOBAL_SCALE
             p == At(<<x, y>>, length)
  <1>1. radius \in Nat
    BY CenterFacts
  <1>2. p = <<Truncate(radius * x, length) + Center, Truncate(radius * y, length) + Center>>
    BY DEF At
  <1> HIDE DEF radius, p
  <1>3. /\ Truncate(radius * x, length) \in Int /\ Truncate(radius * y, length) \in Int
        /\ -radius <= Truncate(radius * x, length) /\ Truncate(radius * x, length) <= radius
        /\ -radius <= Truncate(radius * y, length) /\ Truncate(radius * y, length) <= radius
    BY <1>1, TruncateWithin
  <1>4. /\ p \in Int \X Int /\ Center - radius <= p[1] /\ p[1] <= Center + radius
        /\ Center - radius <= p[2] /\ p[2] <= Center + radius
    BY <1>1, <1>2, <1>3, CenterFacts
  <1> QED
    BY <1>4 DEF Around, radius, p

\* Every place of the label is around the center: with hands in opposite
\* directions too, whatever f32 makes of the vector that cancels.
LEMMA PlaceFacts ==
  ASSUME NEW t \in LocalTime, NEW p \in LabelPlaces(t)
  PROVE  Around(p)
  <1> DEFINE x == -Sin(hours_phi(t)) - Sin(minutes_phi(t))
             y == -Cos(hours_phi(t)) - Cos(minutes_phi(t))
             length == Sqrt[x * x + y * y]
  <1>1. x \in Int /\ y \in Int
    BY PhiFacts, SinFacts
  <1>2. Away(t) = <<x, y>>
    BY DEF Away
  <1> HIDE DEF x, y
  <1>3. length \in Nat /\ -length <= x /\ x <= length /\ -length <= y /\ y <= length
    BY <1>1, LengthFacts
  <1>4. p \in IF length > 0 THEN {At(<<x, y>>, length)}
              ELSE { <<Center, Center>> }
                   \union { At(<<Sin(phi), Cos(phi)>>, UNIT) : phi \in {(Circle \div 8) * i : i \in 0..7} }
    BY <1>2 DEF LabelPlaces
  <1> HIDE DEF length
  <1>5. CASE length > 0
    <2>1. p = At(<<x, y>>, length)
      BY <1>4, <1>5
    <2> QED
      BY <1>1, <1>3, <1>5, <2>1, AtFacts
  <1>6. CASE ~(length > 0)
    <2>1. CASE p = <<Center, Center>>
      BY <2>1, CenterFacts DEF Around
    <2>2. CASE \E i \in 0..7 : p = At(<<Sin((Circle \div 8) * i), Cos((Circle \div 8) * i)>>, UNIT)
      <3>1. PICK i \in 0..7 : p = At(<<Sin((Circle \div 8) * i), Cos((Circle \div 8) * i)>>, UNIT)
        BY <2>2
      <3> DEFINE phi == (Circle \div 8) * i
      <3>2. phi \in Int
        BY Units, SMT
      <3> HIDE DEF phi
      <3>3. /\ Sin(phi) \in Int /\ -UNIT <= Sin(phi) /\ Sin(phi) <= UNIT
            /\ Cos(phi) \in Int /\ -UNIT <= Cos(phi) /\ Cos(phi) <= UNIT
        BY <3>2, SinFacts
      <3>4. UNIT \in Nat /\ UNIT > 0
        BY Units
      <3>5. Around(At(<<Sin(phi), Cos(phi)>>, UNIT))
        BY <3>3, <3>4, AtFacts
      <3> QED
        BY <3>1, <3>5 DEF phi
    <2> QED
      BY <1>4, <1>6, <2>1, <2>2
  <1> QED
    BY <1>5, <1>6

\* The label at such a place.
LEMMA LabelFacts ==
  ASSUME NEW t \in LocalTime, NEW p, Around(p)
  PROVE  Label(t, p) \in Seq(Parts)
  <1>1. t.day \in 1..31 /\ t.month \in 1..12
    BY DEF LocalTime
  <1>2. /\ Inside(<<p[1] - 40, p[2] + 15>>) /\ Inside(<<p[1] - 10, p[2] + 15>>)
        /\ Inside(<<p[1] + 25, p[2] - 15>>) /\ Inside(<<p[1], p[2]>>)
    <2>1. /\ p[1] \in Int /\ 85 * GLOBAL_SCALE <= p[1] /\ p[1] <= 175 * GLOBAL_SCALE
          /\ p[2] \in Int /\ 85 * GLOBAL_SCALE <= p[2] /\ p[2] <= 175 * GLOBAL_SCALE
      BY CenterFacts DEF Around
    <2> QED
      BY <2>1, ScaleAssumption DEF Inside
  <1>3. /\ t.day \div 10 \in 0..14 /\ t.day % 10 \in 0..14 /\ t.month \in 0..14
        /\ 13 \in 0..14 /\ 14 \in 0..14
    BY <1>1, SMT
  <1> DEFINE tens == DrawPictogram(t.day \div 10, p[1] - 40, p[2] + 15)
             ones == DrawPictogram(t.day % 10, p[1] - 10, p[2] + 15)
             month == DrawPictogram(t.month, p[1] + 25, p[2] - 15)
             half == DrawPictogram(IF hour12(t).pm THEN 14 ELSE 13, p[1], p[2])
  <1>4. /\ tens \in Seq(Parts) /\ ones \in Seq(Parts) /\ month \in Seq(Parts)
        /\ half \in Seq(Parts)
    BY <1>2, <1>3, PictogramFacts
  <1>5. Label(t, p) = IF ShowDate(t) THEN tens \o ones \o month ELSE half
    BY DEF Label
  <1> HIDE DEF tens, ones, month, half
  <1>6. tens \o ones \in Seq(Parts)
    BY <1>4, ConcatFacts
  <1>7. tens \o ones \o month \in Seq(Parts)
    BY <1>4, <1>6, ConcatFacts
  <1> QED
    BY <1>4, <1>5, <1>7

\* The hands.
LEMMA HandFacts ==
  ASSUME NEW phi \in Int, NEW spread \in Int, NEW inner \in 1..50, NEW width \in 1..50,
         NEW outer \in 60..100
  PROVE  Hand(phi, inner, width, spread, outer) \in Parts
  <1> DEFINE a == radial_to_cartesian(phi, inner * GLOBAL_SCALE)
             b == radial_to_cartesian(phi - spread, width * GLOBAL_SCALE)
             c == radial_to_cartesian(phi, outer * GLOBAL_SCALE)
             d == radial_to_cartesian(phi + spread, width * GLOBAL_SCALE)
             ps == <<a, b, c, d>>
  <1>1. phi - spread \in Int /\ phi + spread \in Int
    OBVIOUS
  <1>2. /\ inner * GLOBAL_SCALE \in Nat /\ inner * GLOBAL_SCALE <= 125 * GLOBAL_SCALE
        /\ width * GLOBAL_SCALE \in Nat /\ width * GLOBAL_SCALE <= 125 * GLOBAL_SCALE
        /\ outer * GLOBAL_SCALE \in Nat /\ outer * GLOBAL_SCALE <= 125 * GLOBAL_SCALE
        /\ inner * GLOBAL_SCALE + 2 <= outer * GLOBAL_SCALE
    BY ScaleAssumption
  <1>3. a \in Screen /\ b \in Screen /\ c \in Screen /\ d \in Screen
    BY <1>1, <1>2, RadialOnScreen
  <1>4. a # c
    BY <1>2, RadialApart
  <1>5. Hand(phi, inner, width, spread, outer) = Closed(ps)
    BY DEF Hand
  <1> HIDE DEF a, b, c, d
  <1>6. ps \in Seq(Screen) /\ Len(ps) = 4 /\ ps[1] = a /\ ps[2] = b /\ ps[3] = c
    BY <1>3
  <1> HIDE DEF ps
  <1>7. CASE a # b
    <2>1. 1 \in Nat \ {0} /\ 1 + 1 <= Len(ps) /\ ps[1] # ps[1 + 1]
      BY <1>6, <1>7
    <2> QED
      BY <1>5, <1>6, <2>1, PolygonFacts
  <1>8. CASE b # c
    <2>1. 2 \in Nat \ {0} /\ 2 + 1 <= Len(ps) /\ ps[2] # ps[2 + 1]
      BY <1>6, <1>8
    <2> QED
      BY <1>5, <1>6, <2>1, PolygonFacts
  <1> QED
    BY <1>4, <1>7, <1>8

\* The three hands.
LEMMA HandsFacts ==
  ASSUME NEW t \in LocalTime
  PROVE  Hands(t) \in Seq(Parts)
  <1> DEFINE sphi == seconds_phi(t)
             inner == 16 * GLOBAL_SCALE - 1
             outer == 96 * GLOBAL_SCALE - 1
             second == Line(radial_to_cartesian(sphi, inner), radial_to_cartesian(sphi, outer))
             minute == Hand(minutes_phi(t), 16, 40, Tenth, 80)
             hour == Hand(hours_phi(t), 16, 32, 3 * Tenth, 64)
  <1>1. Hands(t) = <<second, minute, hour>>
    BY DEF Hands
  <1>2. second \in Parts
    <2>1. sphi \in Int
      BY PhiFacts
    <2>2. /\ inner \in Nat /\ inner <= 125 * GLOBAL_SCALE
          /\ outer \in Nat /\ outer <= 125 * GLOBAL_SCALE /\ inner + 2 <= outer
      BY ScaleAssumption
    <2> HIDE DEF sphi, inner, outer
    <2>3. /\ radial_to_cartesian(sphi, inner) \in Screen
          /\ radial_to_cartesian(sphi, outer) \in Screen
          /\ radial_to_cartesian(sphi, inner) # radial_to_cartesian(sphi, outer)
      BY <2>1, <2>2, RadialOnScreen, RadialApart
    <2> QED
      BY <2>3, LineFacts
  <1>3. minute \in Parts /\ hour \in Parts
    <2>1. Tenth \in Int /\ 3 * Tenth \in Int
      BY DEF Tenth
    <2>2. 16 \in 1..50 /\ 40 \in 1..50 /\ 32 \in 1..50 /\ 80 \in 60..100 /\ 64 \in 60..100
      OBVIOUS
    <2> QED
      BY <2>1, <2>2, PhiFacts, HandFacts
  <1> HIDE DEF second, minute, hour
  <1> QED
    BY <1>1, <1>2, <1>3

(***************************************************************************)
(* How long strokes are.                                                   *)
(***************************************************************************)

\* Running sums of n numbers.
Sums(M, n) == M \in [0..n -> Int] /\ M[0] = 0

\* A flattened sequence is as long as its sequences are together.
LEMMA FlattenSums ==
  ASSUME NEW T, NEW seqs \in Seq(Seq(T))
  PROVE  \E S : /\ Sums(S, Len(seqs)) /\ S[Len(seqs)] = Len(FlattenSeq(seqs))
                /\ \A k \in 1..Len(seqs) : S[k] - S[k - 1] = Len(seqs[k])
  <1>1. CASE seqs = <<>>
    <2> DEFINE S == [k \in 0..0 |-> 0]
    <2>1. Len(seqs) = 0 /\ Len(FlattenSeq(seqs)) = 0
      BY <1>1 DEF FlattenSeq
    <2>2. Sums(S, 0) /\ S[0] = 0
      BY DEF Sums
    <2> QED
      BY <2>1, <2>2
  <1>2. CASE seqs # <<>>
    <2> DEFINE N == Len(seqs)
    <2>1. PICK f : /\ f = [n \in 1..Len(seqs) |-> IF n = 1 THEN seqs[n] ELSE f[n - 1] \o seqs[n]]
                   /\ FlattenSeq(seqs) = f[Len(seqs)]
      BY <1>2, FlattenDefined
    <2>2. N \in Nat /\ N > 0 /\ \A k \in 1..N : seqs[k] \in Seq(T)
      BY <1>2
    <2>3. f[1] = seqs[1] /\ \A n \in 2..N : f[n] = f[n - 1] \o seqs[n]
      <3>1. f[1] = seqs[1]
        BY <2>1, <2>2
      <3>2. ASSUME NEW n \in 2..N
            PROVE  f[n] = f[n - 1] \o seqs[n]
        <4>1. n \in 1..Len(seqs) /\ n # 1
          BY <2>2
        <4> QED
          BY <2>1, <4>1
      <3> QED
        BY <3>1, <3>2
    <2> DEFINE Typed == {n \in Nat : n + 1 <= N => f[n + 1] \in Seq(T)}
    <2>4. FlattenSeq(seqs) = f[N]
      BY <2>1
    <2> HIDE DEF N
    <2>5. 0 \in Typed
      BY <2>2, <2>3
    <2>6. ASSUME NEW n \in Nat, n \in Typed
          PROVE  n + 1 \in Typed
      <3> SUFFICES ASSUME (n + 1) + 1 <= N
                   PROVE  f[(n + 1) + 1] \in Seq(T)
        OBVIOUS
      <3>1. /\ (n + 1) + 1 \in 2..N /\ ((n + 1) + 1) - 1 = n + 1 /\ (n + 1) + 1 \in 1..N
            /\ f[n + 1] \in Seq(T)
        BY <2>2, <2>6
      <3>2. f[(n + 1) + 1] = f[n + 1] \o seqs[(n + 1) + 1] /\ seqs[(n + 1) + 1] \in Seq(T)
        BY <2>2, <2>3, <3>1
      <3> QED
        BY <3>1, <3>2
    <2> HIDE DEF Typed
    <2>7. \A n \in Nat : n \in Typed
      BY <2>5, <2>6, SetInduction
    <2>8. ASSUME NEW k \in 1..N
          PROVE  f[k] \in Seq(T) /\ Len(f[k]) \in Nat
      <3>1. k - 1 \in Nat /\ (k - 1) + 1 = k /\ k <= N
        BY <2>2
      <3>2. f[k] \in Seq(T)
        BY <2>7, <3>1 DEF Typed
      <3> QED
        BY <3>2
    <2> DEFINE S == [k \in 0..N |-> IF k = 0 THEN 0 ELSE Len(f[k])]
    <2>9. Sums(S, N) /\ S[N] = Len(FlattenSeq(seqs))
      BY <2>2, <2>4, <2>8 DEF Sums
    <2>10. ASSUME NEW k \in 1..N
           PROVE  S[k] - S[k - 1] = Len(seqs[k])
      <3>1. CASE k = 1
        BY <2>2, <2>3, <3>1
      <3>2. CASE k # 1
        <4>1. k \in 2..N /\ k - 1 \in 1..N /\ k - 1 # 0 /\ k # 0 /\ k \in 0..N /\ k - 1 \in 0..N
          BY <2>2, <3>2
        <4>2. /\ f[k] = f[k - 1] \o seqs[k] /\ f[k - 1] \in Seq(T) /\ seqs[k] \in Seq(T)
          BY <2>2, <2>3, <2>8, <4>1
        <4>3. /\ Len(f[k]) = Len(f[k - 1]) + Len(seqs[k]) /\ Len(f[k - 1]) \in Nat
              /\ Len(seqs[k]) \in Nat
          BY <4>2
        <4>4. S[k] = Len(f[k]) /\ S[k - 1] = Len(f[k - 1])
          BY <4>1
        <4> HIDE DEF S
        <4> QED
          BY <4>3, <4>4
      <3> QED
        BY <3>1, <3>2
    <2> HIDE DEF S
    <2> QED
      BY <2>9, <2>10 DEF N
  <1> QED
    BY <1>1, <1>2

\* Sums whose steps are not smaller than those of others are not smaller.
LEMMA SumsCompare ==
  ASSUME NEW n \in Nat, NEW S, NEW M, Sums(S, n), Sums(M, n), NEW u \in Nat,
         \A k \in 1..n : u * (S[k] - S[k - 1]) <= M[k] - M[k - 1]
  PROVE  u * S[n] <= M[n]
  <1> DEFINE Less == {k \in Nat : k <= n => u * S[k] <= M[k]}
  <1>1. 0 \in Less
    BY DEF Sums
  <1>2. ASSUME NEW k \in Nat, k \in Less
        PROVE  k + 1 \in Less
    <2> SUFFICES ASSUME k + 1 <= n
                 PROVE  u * S[k + 1] <= M[k + 1]
      OBVIOUS
    <2>1. k + 1 \in 1..n /\ (k + 1) - 1 = k /\ k \in 0..n /\ k + 1 \in 0..n
      OBVIOUS
    <2> DEFINE a == S[k]
               b == S[k + 1]
               c == M[k]
               d == M[k + 1]
    <2>2. a \in Int /\ b \in Int /\ c \in Int /\ d \in Int
      BY <2>1 DEF Sums
    <2>3. u * a <= c /\ u * (b - a) <= d - c
      BY <1>2, <2>1
    <2> HIDE DEF a, b, c, d
    <2>4. u * (b - a) = u * b - u * a /\ u * b \in Int /\ u * a \in Int
      BY <2>2, SMT
    <2>5. u * b <= d
      BY <2>2, <2>3, <2>4
    <2> QED
      BY <2>5 DEF b, d
  <1> HIDE DEF Less
  <1>3. \A k \in Nat : k \in Less
    BY <1>1, <1>2, SetInduction
  <1> QED
    BY <1>3 DEF Less

\* So bounds of the sequences add up to one of the flattened one.
LEMMA FlattenWithin ==
  ASSUME NEW T, NEW seqs \in Seq(Seq(T)), NEW M, Sums(M, Len(seqs)), NEW u \in Nat,
         \A k \in 1..Len(seqs) : u * Len(seqs[k]) <= M[k] - M[k - 1]
  PROVE  u * Len(FlattenSeq(seqs)) <= M[Len(seqs)]
  <1>1. PICK S : /\ Sums(S, Len(seqs)) /\ S[Len(seqs)] = Len(FlattenSeq(seqs))
                 /\ \A k \in 1..Len(seqs) : S[k] - S[k - 1] = Len(seqs[k])
    BY FlattenSums
  <1>2. \A k \in 1..Len(seqs) : u * (S[k] - S[k - 1]) <= M[k] - M[k - 1]
    BY <1>1
  <1>3. Len(seqs) \in Nat
    OBVIOUS
  <1>4. u * S[Len(seqs)] <= M[Len(seqs)]
    BY <1>1, <1>2, <1>3, SumsCompare
  <1> QED
    BY <1>1, <1>4

\* Two points with at most w between their coordinates.
Within(p, q, w) ==
  /\ p[1] - q[1] <= w /\ q[1] - p[1] <= w
  /\ p[2] - q[2] <= w /\ q[2] - p[2] <= w

\* A line has as many points as the longer one of its sides.
LEMMA LineLength ==
  ASSUME NEW a \in Screen, NEW b \in Screen
  PROVE  /\ Bresenham(a, b) \in Seq(Screen)
         /\ \A w \in Int : Within(a, b, w) => Len(Bresenham(a, b)) <= w
  <1> DEFINE dx == b[1] - a[1]
             dy == b[2] - a[2]
             m == Longer(Abs(dx), Abs(dy))
             ps == Bresenham(a, b)
  <1>1. ps \in Seq(Screen)
    BY LineWalk DEF Walk
  <1>2. a[1] \in Int /\ a[2] \in Int /\ b[1] \in Int /\ b[2] \in Int
    BY ScreenFacts
  <1>3. m \in Nat /\ \A w \in Int : Within(a, b, w) => m <= w
    <2>1. dx \in Int /\ dy \in Int
      BY <1>2
    <2>2. \A w \in Int : Within(a, b, w) => dx <= w /\ -dx <= w /\ dy <= w /\ -dy <= w
      BY <1>2 DEF Within
    <2> HIDE DEF dx, dy
    <2>3. /\ m \in Nat
          /\ \A w \in Int : dx <= w /\ -dx <= w /\ dy <= w /\ -dy <= w => m <= w
      BY <2>1 DEF Longer, Abs, Sign
    <2> QED
      BY <2>2, <2>3
  <1>4. DOMAIN ps = 1..m
    BY DEF Bresenham
  <1> HIDE DEF ps, m
  <1>5. Len(ps) = m
    BY <1>1, <1>3, <1>4
  <1> QED
    BY <1>1, <1>3, <1>5 DEF ps

\* What all samples of strokes on the screen are.
Sample == {AddPoints(ps)[k] : ps \in Seq(Screen), k \in Nat}

\* The samples of points.
LEMMA SampleFacts ==
  ASSUME NEW ps \in Seq(Screen)
  PROVE  AddPoints(ps) \in Seq(Sample) /\ Len(AddPoints(ps)) <= 2 * Len(ps)
  <1> DEFINE samples == AddPoints(ps)
             n == GLOBAL_SCALE * Len(ps)
  <1>1. n \in Nat /\ n <= 2 * Len(ps)
    BY ScaleAssumption
  <1>2. DOMAIN samples = 1..n /\ samples = [k \in 1..n |-> samples[k]]
    BY DEF AddPoints
  <1>3. \A k \in 1..n : samples[k] \in Sample
    <2>1. \A k \in 1..n : k \in Nat
      BY <1>1
    <2> QED
      BY <2>1 DEF Sample
  <1> HIDE DEF samples, n
  <1>4. samples \in Seq(Sample) /\ Len(samples) = n
    BY <1>1, <1>2, <1>3, SequenceFacts
  <1> QED
    BY <1>1, <1>4 DEF samples

\* The bounds of the lines of a chain add up to one of the samples of it.
LEMMA ChainLength ==
  ASSUME NEW lines \in Seq(Screen \X Screen), NEW M, Sums(M, Len(lines)), NEW u \in Nat,
         \A k \in 1..Len(lines) : \E w \in Int :
           Within(lines[k][1], lines[k][2], w) /\ u * w <= M[k] - M[k - 1]
  PROVE  /\ AddPoints(Trace(lines)) \in Seq(Sample)
         /\ u * Len(AddPoints(Trace(lines))) <= 2 * M[Len(lines)]
  <1> DEFINE seqs == [i \in DOMAIN lines |-> Bresenham(lines[i][1], lines[i][2])]
             N == Len(lines)
             trace == Trace(lines)
  <1>1. N \in Nat /\ DOMAIN lines = 1..N
    OBVIOUS
  <1>2. ASSUME NEW k \in 1..N
        PROVE  seqs[k] \in Seq(Screen) /\ u * Len(seqs[k]) <= M[k] - M[k - 1]
    <2>1. lines[k][1] \in Screen /\ lines[k][2] \in Screen
      BY <1>1
    <2>2. PICK w \in Int : Within(lines[k][1], lines[k][2], w) /\ u * w <= M[k] - M[k - 1]
      BY <1>1
    <2>3. seqs[k] = Bresenham(lines[k][1], lines[k][2])
      BY <1>1
    <2> HIDE DEF seqs
    <2>4. seqs[k] \in Seq(Screen) /\ Len(seqs[k]) <= w
      BY <2>1, <2>2, <2>3, LineLength
    <2> DEFINE l == Len(seqs[k])
               d == M[k] - M[k - 1]
    <2>5. l \in Nat /\ l <= w /\ d \in Int
      <3>1. k \in 0..N /\ k - 1 \in 0..N
        BY <1>1
      <3>2. M[k] \in Int /\ M[k - 1] \in Int
        BY <3>1 DEF Sums
      <3>3. d \in Int
        BY <3>2
      <3>4. l \in Nat /\ l <= w
        BY <2>4
      <3> QED
        BY <3>3, <3>4
    <2>6. u * w <= d
      BY <2>2
    <2> HIDE DEF l, d
    <2>7. u * l <= u * w /\ u * l \in Int /\ u * w \in Int
      BY <2>2, <2>5, SMT
    <2> DEFINE ul == u * l
               uw == u * w
    <2>8. ul <= uw /\ ul \in Int /\ uw \in Int /\ uw <= d
      BY <2>6, <2>7
    <2> HIDE DEF ul, uw
    <2>9. ul <= d
      BY <2>5, <2>8
    <2> QED
      BY <2>4, <2>9 DEF ul, l, d
  <1>3. trace = FlattenSeq(seqs)
    BY DEF Trace
  <1>4. seqs = [i \in 1..N |-> seqs[i]]
    BY <1>1
  <1> HIDE DEF seqs
  <1>5. seqs \in Seq(Seq(Screen)) /\ Len(seqs) = N
    BY <1>1, <1>2, <1>4, SequenceFacts
  <1>6. trace \in Seq(Screen)
    BY <1>3, <1>5, FlattenType
  <1>7. u * Len(trace) <= M[N]
    <2>1. Sums(M, Len(seqs)) /\ \A k \in 1..Len(seqs) : u * Len(seqs[k]) <= M[k] - M[k - 1]
      BY <1>2, <1>5
    <2>2. u * Len(FlattenSeq(seqs)) <= M[Len(seqs)]
      BY <1>5, <2>1, FlattenWithin
    <2> QED
      BY <1>3, <1>5, <2>2
  <1> HIDE DEF trace
  <1>8. AddPoints(trace) \in Seq(Sample) /\ Len(AddPoints(trace)) <= 2 * Len(trace)
    BY <1>6, SampleFacts
  <1> DEFINE l == Len(AddPoints(trace))
             t == Len(trace)
             m == M[N]
  <1>9. l \in Nat /\ t \in Nat /\ m \in Int /\ l <= 2 * t /\ u * t <= m
    <2>1. N \in 0..N
      BY <1>1
    <2>2. m \in Int
      BY <2>1 DEF Sums
    <2>3. t \in Nat /\ l \in Nat
      BY <1>6, <1>8
    <2> QED
      BY <1>7, <1>8, <2>2, <2>3
  <1> HIDE DEF l, t, m
  <1>10. u * l <= 2 * (u * t) /\ u * l \in Int /\ u * t \in Int
    BY <1>9, SMT
  <1> DEFINE ul == u * l
             ut == u * t
  <1>11. ul \in Int /\ ut \in Int /\ ul <= 2 * ut /\ ut <= m
    BY <1>9, <1>10
  <1> HIDE DEF ul, ut
  <1>12. ul <= 2 * m
    BY <1>9, <1>11
  <1> QED
    BY <1>8, <1>12 DEF ul, l, m, trace

\* An open stroke.
LEMMA OpenLength ==
  ASSUME NEW ps \in Seq(Screen), NEW n \in Nat, Len(ps) = n + 1, NEW M, Sums(M, n), NEW u \in Nat,
         \A k \in 1..n : \E w \in Int : Within(ps[k], ps[k + 1], w) /\ u * w <= M[k] - M[k - 1]
  PROVE  SamplesOf(Open(ps)) \in Seq(Sample) /\ u * Len(SamplesOf(Open(ps))) <= 2 * M[n]
  <1> DEFINE lines == OpenPolygonToLines(ps)
  <1>1. SamplesOf(Open(ps)) = AddPoints(Trace(lines))
    BY DEF SamplesOf, Open, AddOpenPolygon
  <1>2. lines = [i \in 1..n |-> <<ps[i], ps[i + 1]>>]
    <2>1. Longer(Len(ps) - 1, 0) = n
      BY DEF Longer
    <2> QED
      BY <2>1 DEF OpenPolygonToLines
  <1> HIDE DEF lines
  <1>3. \A i \in 1..n : /\ lines[i] \in Screen \X Screen
                        /\ lines[i][1] = ps[i] /\ lines[i][2] = ps[i + 1]
    <2> SUFFICES ASSUME NEW i \in 1..n
                 PROVE  /\ lines[i] \in Screen \X Screen
                        /\ lines[i][1] = ps[i] /\ lines[i][2] = ps[i + 1]
      OBVIOUS
    <2>1. ps[i] \in Screen /\ ps[i + 1] \in Screen
      OBVIOUS
    <2>2. lines[i] = <<ps[i], ps[i + 1]>>
      BY <1>2
    <2> QED
      BY <2>1, <2>2
  <1>4. lines = [i \in 1..n |-> lines[i]]
    BY <1>2
  <1>5. lines \in Seq(Screen \X Screen) /\ Len(lines) = n
    BY <1>3, <1>4, SequenceFacts
  <1>6. /\ AddPoints(Trace(lines)) \in Seq(Sample)
        /\ u * Len(AddPoints(Trace(lines))) <= 2 * M[Len(lines)]
    BY <1>3, <1>5, ChainLength
  <1> QED
    BY <1>1, <1>5, <1>6

\* A closed one.
Sides(ps, M) ==
  /\ Sums(M, Len(ps))
  /\ \A k \in 1..Len(ps) :
       Within(ps[k], IF k < Len(ps) THEN ps[k + 1] ELSE ps[1], M[k] - M[k - 1])

\* The bounds of the sides of a closed stroke add up to one of the stroke.
LEMMA ClosedLength ==
  ASSUME NEW ps \in Seq(Screen), NEW M, Sides(ps, M)
  PROVE  Len(SamplesOf(Closed(ps))) <= 2 * M[Len(ps)]
  <1> DEFINE lines == ClosedPolygonToLines(ps)
             n == Len(ps)
             Next_(i) == IF i < n THEN ps[i + 1] ELSE ps[1]
  <1>0. n \in Nat /\ Sums(M, n)
    BY DEF Sides
  <1>1. SamplesOf(Closed(ps)) = AddPoints(Trace(lines))
    BY DEF SamplesOf, Closed, AddClosedPolygon
  <1>2. lines = [i \in 1..n |-> <<ps[i], Next_(i)>>]
    BY DEF ClosedPolygonToLines, Successor
  <1>3. \A i \in 1..n : ps[i] \in Screen /\ Next_(i) \in Screen
    OBVIOUS
  <1>4. \A k \in 1..n : Within(ps[k], Next_(k), M[k] - M[k - 1])
    BY DEF Sides
  <1> HIDE DEF lines, Next_, n
  <1>5. \A i \in 1..n : /\ lines[i] \in Screen \X Screen
                        /\ lines[i][1] = ps[i] /\ lines[i][2] = Next_(i)
    BY <1>2, <1>3
  <1>6. lines = [i \in 1..n |-> lines[i]]
    BY <1>2
  <1>7. lines \in Seq(Screen \X Screen) /\ Len(lines) = n
    BY <1>0, <1>5, <1>6, SequenceFacts
  <1>8. ASSUME NEW k \in 1..n
        PROVE  \E w \in Int : Within(lines[k][1], lines[k][2], w) /\ 1 * w <= M[k] - M[k - 1]
    <2>1. M[k] - M[k - 1] \in Int
      <3>1. k \in 0..n /\ k - 1 \in 0..n
        BY <1>0
      <3> QED
        BY <1>0, <3>1 DEF Sums
    <2>2. Within(lines[k][1], lines[k][2], M[k] - M[k - 1])
      BY <1>4, <1>5
    <2> QED
      BY <2>1, <2>2
  <1>9. /\ 1 * Len(AddPoints(Trace(lines))) <= 2 * M[Len(lines)]
        /\ AddPoints(Trace(lines)) \in Seq(Sample)
    BY <1>0, <1>7, <1>8, ChainLength
  <1>10. Len(AddPoints(Trace(lines))) <= 2 * M[n]
    BY <1>7, <1>9
  <1> QED
    BY <1>1, <1>10 DEF n

(***************************************************************************)
(* How fast a sine changes.                                                *)
(***************************************************************************)

\* The sine at a full degree, and what is added to it between two of them.
Entry(k) == Sines[k + 1]
Part(k, r) == ((Entry(k + 1) - Entry(k)) * r) \div 500

\* From degree to degree the table climbs by not more than 175.
LEMMA SinesStep == \A k \in 1..90 : Sines[k] <= Sines[k + 1] /\ Sines[k + 1] <= Sines[k] + 175
  BY DEF Sines

\* So does it over any number of degrees.
LEMMA SinesClimb ==
  ASSUME NEW i \in 0..90, NEW j \in 0..90, i <= j
  PROVE  Entry(i) <= Entry(j) /\ Entry(j) <= Entry(i) + 175 * (j - i)
  <1> DEFINE Climbs(n) == /\ Sines[i + 1] <= Sines[i + n + 1]
                          /\ Sines[i + n + 1] <= Sines[i + 1] + 175 * n
             Climb == {n \in Nat : i + n <= 90 => Climbs(n)}
  <1>1. \A k \in 1..91 : Sines[k] \in Int
    BY SinesTable
  <1>2. 0 \in Climb
    <2>1. i + 0 + 1 = i + 1 /\ Sines[i + 1] \in Int
      BY <1>1
    <2> QED
      BY <2>1
  <1>3. ASSUME NEW n \in Nat, n \in Climb
        PROVE  n + 1 \in Climb
    <2> SUFFICES ASSUME i + (n + 1) <= 90
                 PROVE  Climbs(n + 1)
      OBVIOUS
    <2> DEFINE k == i + n + 1
    <2>1. k \in 1..90 /\ k + 1 = i + (n + 1) + 1 /\ i + n <= 90
      OBVIOUS
    <2>2. Climbs(n)
      BY <1>3, <2>1
    <2> DEFINE x == Sines[i + 1]
               y == Sines[k]
               z == Sines[k + 1]
    <2>3. x \in Int /\ y \in Int /\ z \in Int
      BY <1>1, <2>1
    <2>4. x <= y /\ y <= x + 175 * n /\ y <= z /\ z <= y + 175
      BY <2>1, <2>2, SinesStep
    <2> HIDE DEF x, y, z
    <2>5. x <= z /\ z <= x + 175 * (n + 1)
      BY <2>3, <2>4
    <2> QED
      BY <2>1, <2>5 DEF x, z
  <1> HIDE DEF Climb
  <1>4. \A n \in Nat : n \in Climb
    BY <1>2, <1>3, SetInduction
  <1>5. j - i \in Nat /\ i + (j - i) <= 90 /\ i + (j - i) + 1 = j + 1
    OBVIOUS
  <1>6. Climbs(j - i)
    BY <1>4, <1>5 DEF Climb
  <1> QED
    BY <1>5, <1>6 DEF Entry

\* The sine between two degrees.
Located(a, i, r) ==
  /\ i <= 90 /\ r <= 499 /\ a = 500 * i + r /\ (i = 90 => r = 0)
  /\ SinUp(a) = Entry(i) + Part(i, r)

\* Every angle of the first quadrant is located like that.
LEMMA SinUpParts ==
  ASSUME NEW a \in Nat, a <= 45000
  PROVE  \E i, r \in Nat : Located(a, i, r)
  <1> DEFINE i == a \div 500
             r == a % 500
  <1>1. /\ i \in Nat /\ i <= 90 /\ r \in Nat /\ r <= 499 /\ a = 500 * i + r /\ (i = 90 => r = 0)
        /\ i + 2 = (i + 1) + 1
    BY SMT
  <1>2. SinUp(a) = Sines[i + 1] + ((Sines[i + 2] - Sines[i + 1]) * r) \div 500
    BY Units DEF SinUp
  <1> HIDE DEF i, r
  <1>3. SinUp(a) = Entry(i) + Part(i, r)
    BY <1>1, <1>2 DEF Entry, Part
  <1>4. Located(a, i, r)
    BY <1>1, <1>3 DEF Located
  <1> QED
    BY <1>1, <1>4

\* A part of a step of the table.
LEMMA StepPart ==
  ASSUME NEW d \in Int, 0 <= d, d <= 175, NEW r \in Nat, r <= 499
  PROVE  LET q == (d * r) \div 500
         IN /\ q \in Int /\ 0 <= q /\ q <= d
            /\ 500 * q <= 175 * r /\ 500 * (d - q) <= 175 * (500 - r) + 499
  <1> DEFINE n == d * r
             m == d * (500 - r)
             q == n \div 500
  <1>1. n \in Int /\ m \in Int /\ 0 <= n /\ n <= 175 * r /\ 0 <= m /\ m <= 175 * (500 - r)
        /\ n + m = 500 * d
    BY SMT
  <1> HIDE DEF n, m
  <1>2. q \in Int /\ 500 * q <= n /\ n <= 500 * q + 499
    BY <1>1, SMT
  <1> HIDE DEF q
  <1>3. 0 <= q /\ q <= d /\ 500 * q <= 175 * r /\ 500 * (d - q) <= 175 * (500 - r) + 499
    BY <1>1, <1>2
  <1> QED
    BY <1>2, <1>3 DEF q, n

\* And the difference of two parts.
LEMMA StepParts ==
  ASSUME NEW d \in Int, 0 <= d, d <= 175, NEW r \in Nat, NEW s \in Nat, r <= s, s <= 499
  PROVE  LET p == (d * r) \div 500
             q == (d * s) \div 500
         IN p \in Int /\ q \in Int /\ p <= q /\ 500 * (q - p) <= 175 * (s - r) + 499
  <1> DEFINE m == d * r
             n == d * s
             p == m \div 500
             q == n \div 500
  <1>1. m \in Int /\ n \in Int /\ m <= n /\ n <= m + 175 * (s - r)
    BY SMT
  <1> HIDE DEF m, n
  <1>2. /\ p \in Int /\ 500 * p <= m /\ m <= 500 * p + 499 /\ q \in Int /\ 500 * q <= n
        /\ n <= 500 * q + 499
    BY <1>1, SMT
  <1> HIDE DEF p, q
  <1>3. p <= q /\ 500 * (q - p) <= 175 * (s - r) + 499
    BY <1>1, <1>2
  <1> QED
    BY <1>2, <1>3 DEF p, q, m, n

\* In the first quadrant the sine climbs, but for its rounding by not more
\* than 7/20 of the angle.
LEMMA SinUpClimbs ==
  ASSUME NEW a \in Nat, NEW b \in Nat, a <= b, b <= 45000
  PROVE  /\ SinUp(a) \in Int /\ SinUp(b) \in Int /\ SinUp(a) <= SinUp(b)
         /\ 20 * (SinUp(b) - SinUp(a)) <= 7 * (b - a) + 20
         /\ 20 * SinUp(a) <= 7 * a
  <1>0. a <= 45000
    OBVIOUS
  <1>1. PICK i, r \in Nat : Located(a, i, r)
    BY <1>0, SinUpParts
  <1>2. PICK j, s \in Nat : Located(b, j, s)
    BY SinUpParts
  <1>a. /\ i \in Nat /\ i <= 90 /\ r \in Nat /\ r <= 499 /\ a = 500 * i + r /\ (i = 90 => r = 0)
        /\ SinUp(a) = Entry(i) + Part(i, r)
    BY <1>1 DEF Located
  <1>b. /\ j \in Nat /\ j <= 90 /\ s \in Nat /\ s <= 499 /\ b = 500 * j + s /\ (j = 90 => s = 0)
        /\ SinUp(b) = Entry(j) + Part(j, s)
    BY <1>2 DEF Located
  <1>3. \A k \in Nat : k <= 91 => Entry(k) \in Int
    BY SinesTable DEF Entry
  <1>4. \A k \in Nat : k <= 89 => Entry(k) <= Entry(k + 1) /\ Entry(k + 1) <= Entry(k) + 175
    <2> SUFFICES ASSUME NEW k \in Nat, k <= 89
                 PROVE  Entry(k) <= Entry(k + 1) /\ Entry(k + 1) <= Entry(k) + 175
      OBVIOUS
    <2>1. k + 1 \in 1..90
      OBVIOUS
    <2> QED
      BY <2>1, SinesStep DEF Entry
  <1>5. ASSUME NEW k \in Nat, NEW l \in Nat, k <= l, l <= 90
        PROVE  Entry(k) <= Entry(l) /\ Entry(l) <= Entry(k) + 175 * (l - k)
    BY <1>5, SinesClimb
  <1>6. Entry(0) = 0
    BY DEF Sines, Entry
  <1>7. ASSUME NEW k \in Nat, k <= 90, NEW t \in Nat, t <= 499, k = 90 => t = 0
        PROVE  /\ Part(k, t) \in Int /\ 0 <= Part(k, t) /\ 500 * Part(k, t) <= 175 * t
               /\ k < 90 => /\ Part(k, t) <= Entry(k + 1) - Entry(k)
                            /\ 500 * (Entry(k + 1) - Entry(k) - Part(k, t)) <= 175 * (500 - t) + 499
    <2>1. CASE k = 90
      <3>1. t = 0 /\ Entry(k) \in Int /\ Entry(k + 1) \in Int
        BY <1>3, <1>7, <2>1
      <3>2. Part(k, t) = 0
        BY <3>1, SMT DEF Part
      <3> QED
        BY <2>1, <3>1, <3>2
    <2>2. CASE k # 90
      <3> DEFINE d == Entry(k + 1) - Entry(k)
      <3>1. k <= 89 /\ Entry(k) \in Int /\ Entry(k + 1) \in Int
        BY <1>3, <1>7, <2>2
      <3>2. d \in Int /\ 0 <= d /\ d <= 175
        BY <1>4, <1>7, <3>1
      <3> HIDE DEF d
      <3>3. LET q == (d * t) \div 500
            IN /\ q \in Int /\ 0 <= q /\ q <= d
               /\ 500 * q <= 175 * t /\ 500 * (d - q) <= 175 * (500 - t) + 499
        BY <1>7, <3>2, StepPart
      <3> QED
        BY <3>3 DEF d, Part
    <2> QED
      BY <2>1, <2>2
  <1> DEFINE x == Part(i, r)
             y == Part(j, s)
  <1>8. CASE i = j
    <2>1. CASE i = 90
      <3>1. r = 0 /\ s = 0 /\ x = y
        BY <1>a, <1>b, <1>8, <2>1
      <3>2. Entry(i) \in Int /\ x \in Int /\ 500 * x <= 175 * r /\ Entry(i) <= 175 * i
        <4>1. i <= 91 /\ i <= 90 /\ 0 \in Nat /\ 0 <= i
          BY <1>a
        <4>2. Entry(i) <= Entry(0) + 175 * (i - 0)
          BY <1>5, <1>a, <4>1
        <4>3. x \in Int /\ 500 * x <= 175 * r
          BY <1>a, <1>7
        <4> QED
          BY <1>3, <1>6, <1>a, <4>1, <4>2, <4>3
      <3> DEFINE u == Entry(i)
      <3>3. SinUp(a) = u + x /\ SinUp(b) = u + x /\ u \in Int
        BY <1>a, <1>b, <1>8, <3>1, <3>2
      <3> HIDE DEF x, u
      <3> QED
        BY <1>a, <1>b, <1>8, <3>1, <3>2, <3>3 DEF u
    <2>2. CASE i # 90
      <3> DEFINE d == Entry(i + 1) - Entry(i)
                 u == Entry(i)
      <3>1. i <= 89 /\ Entry(i) \in Int /\ Entry(i + 1) \in Int
        BY <1>3, <1>a, <2>2
      <3>2. d \in Int /\ 0 <= d /\ d <= 175
        BY <1>4, <1>a, <3>1
      <3>3. r <= s /\ b - a = s - r
        BY <1>a, <1>b, <1>8
      <3>4. x = (d * r) \div 500 /\ y = (d * s) \div 500
        BY <1>8 DEF Part
      <3> HIDE DEF d
      <3>5. LET p == (d * r) \div 500
                q == (d * s) \div 500
            IN p \in Int /\ q \in Int /\ p <= q /\ 500 * (q - p) <= 175 * (s - r) + 499
        BY <1>a, <1>b, <3>2, <3>3, StepParts
      <3> HIDE DEF x, y
      <3>6. x \in Int /\ y \in Int /\ x <= y /\ 500 * (y - x) <= 175 * (s - r) + 499
        BY <3>4, <3>5
      <3>7. 500 * x <= 175 * r /\ u \in Int /\ u <= 175 * i
        <4>1. i <= 91 /\ i <= 90 /\ 0 \in Nat /\ 0 <= i
          BY <1>a
        <4>2. Entry(i) <= Entry(0) + 175 * (i - 0)
          BY <1>5, <1>a, <4>1
        <4> QED
          BY <1>a, <1>3, <1>6, <1>7, <4>1, <4>2 DEF x
      <3>8. SinUp(a) = u + x /\ SinUp(b) = u + y
        BY <1>a, <1>b, <1>8 DEF x, y
      <3> HIDE DEF u
      <3> QED
        BY <1>a, <1>b, <3>3, <3>6, <3>7, <3>8
    <2> QED
      BY <2>1, <2>2
  <1>9. CASE i # j
    <2>1. i < j /\ i <= 89 /\ i + 1 \in Nat /\ i + 1 <= j /\ i <= 91 /\ i + 1 <= 91 /\ j <= 91
      BY <1>a, <1>b, <1>9
    <2> DEFINE u == Entry(i)
               v == Entry(i + 1)
               w == Entry(j)
    <2>2. u \in Int /\ v \in Int /\ w \in Int
      BY <1>3, <1>a, <1>b, <2>1
    <2>3. u <= 175 * i /\ v <= w /\ w <= v + 175 * (j - (i + 1))
      <3>1. 0 \in Nat /\ 0 <= i /\ i <= 90
        BY <1>a, <2>1
      <3>2. Entry(i) <= Entry(0) + 175 * (i - 0)
        BY <1>5, <1>a, <3>1
      <3>3. v <= w /\ w <= v + 175 * (j - (i + 1))
        BY <1>5, <1>a, <1>b, <2>1, <3>1
      <3> QED
        BY <1>6, <3>2, <3>3
    <2>4. /\ x \in Int /\ 500 * x <= 175 * r /\ x <= v - u
          /\ 500 * (v - u - x) <= 175 * (500 - r) + 499
      BY <1>a, <1>7, <2>1
    <2>5. y \in Int /\ 0 <= y /\ 500 * y <= 175 * s
      BY <1>b, <1>7
    <2>6. SinUp(a) = u + x /\ SinUp(b) = w + y
      BY <1>a, <1>b
    <2> HIDE DEF u, v, w, x, y
    <2> QED
      BY <1>a, <1>b, <2>2, <2>3, <2>4, <2>5, <2>6
  <1> QED
    BY <1>8, <1>9

\* Everywhere on the circle the sine changes by not more than that, over an
\* eighth of it at most, and so does the cosine.
Steady(x, y, d) == 20 * (x - y) <= 7 * d + 20 /\ 20 * (y - x) <= 7 * d + 20

\* The sine is steady.
LEMMA SinSteady ==
  ASSUME NEW phi \in Int, NEW d \in Nat, d <= 22500
  PROVE  Steady(Sin(phi), Sin(phi + d), d)
  <1> DEFINE a == phi % Circle
             b == (phi + d) % Circle
             f == Folded(a)
             g == Folded(b)
  <1>1. /\ a \in Nat /\ a < Circle /\ b \in Nat /\ b < Circle /\ Circle = 180000
        /\ b = a + d \/ b = a + d - 180000
    BY Units, SMT
  <1>2. Sin(phi) = Sin(a) /\ Sin(phi + d) = Sin(b)
    <2>1. a % Circle = a /\ b % Circle = b
      BY <1>1, SMT
    <2> QED
      BY <2>1 DEF Sin
  <1> HIDE DEF a, b
  <1>3. /\ f \in Nat /\ f <= 45000 /\ g \in Nat /\ g <= 45000
        /\ Sin(a) = (IF a < 90000 THEN SinUp(f) ELSE -SinUp(f))
        /\ Sin(b) = (IF b < 90000 THEN SinUp(g) ELSE -SinUp(g))
    BY <1>1, FoldedFacts
  <1>4. /\ (a < 90000 <=> b < 90000) => f - g <= d /\ g - f <= d
        /\ ~(a < 90000 <=> b < 90000) => f + g <= d
    BY <1>1 DEF Folded
  <1> HIDE DEF f, g
  <1> DEFINE x == SinUp(f)
             y == SinUp(g)
  <1>6. x \in Int /\ y \in Int /\ 0 <= x /\ 0 <= y /\ 20 * x <= 7 * f /\ 20 * y <= 7 * g
    <2>1. 0 <= x /\ 0 <= y
      BY <1>3, SinUpFacts
    <2>2. x \in Int /\ 20 * x <= 7 * f
      BY <1>3, SinUpClimbs
    <2>3. y \in Int /\ 20 * y <= 7 * g
      BY <1>3, SinUpClimbs
    <2> QED
      BY <2>1, <2>2, <2>3
  <1>5. (f <= g /\ x <= y /\ 20 * (y - x) <= 7 * (g - f) + 20)
        \/ (g <= f /\ y <= x /\ 20 * (x - y) <= 7 * (f - g) + 20)
    <2>1. f <= g \/ g <= f
      BY <1>3
    <2> QED
      BY <1>3, <2>1, SinUpClimbs
  <1> HIDE DEF x, y
  <1>7. CASE a < 90000 <=> b < 90000
    <2>1. 20 * (x - y) <= 7 * d + 20 /\ 20 * (y - x) <= 7 * d + 20
      BY <1>3, <1>4, <1>5, <1>6, <1>7
    <2>2. (Sin(a) = x /\ Sin(b) = y) \/ (Sin(a) = -x /\ Sin(b) = -y)
      BY <1>3, <1>7 DEF x, y
    <2> QED
      BY <1>2, <1>6, <2>1, <2>2 DEF Steady
  <1>8. CASE ~(a < 90000 <=> b < 90000)
    <2>1. 20 * (x + y) <= 7 * d
      BY <1>3, <1>4, <1>6, <1>8
    <2>2. (Sin(a) = x /\ Sin(b) = -y) \/ (Sin(a) = -x /\ Sin(b) = y)
      BY <1>3, <1>8 DEF x, y
    <2> QED
      BY <1>2, <1>6, <2>1, <2>2 DEF Steady
  <1> QED
    BY <1>7, <1>8

\* So is the cosine.
LEMMA CosSteady ==
  ASSUME NEW phi \in Int, NEW d \in Nat, d <= 22500
  PROVE  Steady(Cos(phi), Cos(phi + d), d)
  <1> DEFINE psi == phi + Circle \div 4
  <1>1. psi \in Int /\ (phi + d) + Circle \div 4 = psi + d
    BY Units, SMT
  <1>2. Cos(phi) = Sin(psi) /\ Cos(phi + d) = Sin(psi + d)
    BY <1>1 DEF Cos
  <1> HIDE DEF psi
  <1> QED
    BY <1>1, <1>2, SinSteady

(***************************************************************************)
(* How long circles and hands are.                                         *)
(***************************************************************************)

\* Sines that are not more than e apart, and angles that allow it.
Apiece(s, t, e) == s - t <= e /\ t - s <= e
Allows(e, d) == d <= 22500 /\ 7 * d + 20 <= 20 * e

\* Directions an angle apart.
LEMMA Turned ==
  ASSUME NEW phi \in Int, NEW d \in Nat, NEW e \in Nat, Allows(e, d)
  PROVE  /\ Apiece(Sin(phi), Sin(phi + d), e) /\ Apiece(Cos(phi), Cos(phi + d), e)
         /\ Apiece(Sin(phi + d), Sin(phi), e) /\ Apiece(Cos(phi + d), Cos(phi), e)
  <1>1. Steady(Sin(phi), Sin(phi + d), d) /\ Steady(Cos(phi), Cos(phi + d), d)
    BY SinSteady, CosSteady DEF Allows
  <1>2. phi + d \in Int
    OBVIOUS
  <1>3. /\ Sin(phi) \in Int /\ Sin(phi + d) \in Int
        /\ Cos(phi) \in Int /\ Cos(phi + d) \in Int
    BY <1>2, SinFacts
  <1> QED
    BY <1>1, <1>3 DEF Steady, Apiece, Allows

\* What keeps coordinates at that many halves of a pixel from being more
\* than w apart.
Covers(w, halves, e) == halves * e < 20000 * w

\* One coordinate of two nodes.
LEMMA NodesNear ==
  ASSUME NEW c \in Nat, NEW halves \in Nat, NEW s \in Int, NEW t \in Int,
         NEW e \in Nat, NEW w \in Nat,
         Apiece(s, t, e), Covers(w, halves, e)
  PROVE  Round(2 * UNIT * c + s * halves, 2 * UNIT)
         - Round(2 * UNIT * c + t * halves, 2 * UNIT) <= w
  <1> DEFINE m == s * halves
             n == t * halves
             d == halves * e
             a == 2 * UNIT * c + m
             b == 2 * UNIT * c + n
             x == Round(a, 2 * UNIT)
             y == Round(b, 2 * UNIT)
  <1>1. m \in Int /\ n \in Int /\ d \in Int /\ m - n <= d /\ d < 20000 * w
    BY SMT DEF Apiece, Covers
  <1> HIDE DEF m, n, d
  <1>2. a \in Int /\ b \in Int /\ a - b = m - n
    BY <1>1, Units
  <1> HIDE DEF a, b
  <1>3. x \in Int /\ y \in Int /\ UNIT * (2 * x) <= a + UNIT /\ UNIT * (2 * y) >= b - UNIT
    BY <1>2, RoundFacts
  <1> HIDE DEF x, y
  <1>4. x - y <= w
    BY <1>1, <1>2, <1>3, Units
  <1> QED
    BY <1>4 DEF x, y, a, b, m, n

\* A whole number of rounds leads back to the start.
LEMMA RoundsReturn ==
  ASSUME NEW nodes \in {8, 10, 40}, NEW rounds \in {1, 2}
  PROVE  LET n == nodes * rounds
             step == Circle \div nodes
         IN /\ n \in Nat /\ n >= 8 /\ step \in Nat /\ step <= 22500
            /\ Sin(n * step) = Sin(0) /\ Cos(n * step) = Cos(0)
  <1> DEFINE n == nodes * rounds
             step == Circle \div nodes
  <1>1. /\ n \in Nat /\ n >= 8 /\ step \in Nat /\ step <= 22500
        /\ (n * step) % 180000 = 0 /\ (n * step + 45000) % 180000 = (0 + 45000) % 180000
        /\ 0 % 180000 = 0
    BY Units, SMT
  <1>2. Circle = 180000 /\ Circle \div 4 = 45000
    BY Units, SMT
  <1> HIDE DEF n, step
  <1>3. Sin(n * step) = Sin(0)
    BY <1>1, <1>2 DEF Sin
  <1>4. Cos(n * step) = Cos(0)
    BY <1>1, <1>2 DEF Sin, Cos
  <1> QED
    BY <1>1, <1>3, <1>4 DEF n, step

\* The sides of a circle are not longer than w if its radius times what a
\* sine changes from node to node is not.
LEMMA CircleLength ==
  ASSUME NEW center \in Nat \X Nat, NEW halves \in Nat, NEW nodes \in {8, 10, 40},
         NEW rounds \in {1, 2}, Closed(CircleNodes(center, halves, nodes, rounds)) \in Parts,
         NEW e \in Nat, Allows(e, Circle \div nodes),
         NEW w \in Nat, Covers(w, halves, e)
  PROVE  Len(SamplesOf(Closed(CircleNodes(center, halves, nodes, rounds))))
         <= 2 * (w * (nodes * rounds))
  <1> DEFINE X(phi) == Round(2 * UNIT * center[1] + Sin(phi) * halves, 2 * UNIT)
             Y(phi) == Round(2 * UNIT * center[2] + Cos(phi) * halves, 2 * UNIT)
             Node(phi) == <<X(phi), Y(phi)>>
             step == Circle \div nodes
             n == nodes * rounds
             ps == CircleNodes(center, halves, nodes, rounds)
             M == [k \in 0..n |-> w * k]
  <1>1. ps = [i \in 1..n |-> Node((i - 1) * step)]
    BY DEF CircleNodes
  <1>2. /\ n \in Nat /\ n >= 8 /\ step \in Nat /\ step <= 22500
        /\ Sin(n * step) = Sin(0) /\ Cos(n * step) = Cos(0)
    BY RoundsReturn
  <1>3. Allows(e, step)
    OBVIOUS
  <1>4. ps \in Seq(Screen)
    <2>1. Closed(ps).points = ps /\ Closed(ps).points \in Seq(Screen)
      BY DEF Closed, Parts
    <2> QED
      BY <2>1
  <1>5. ASSUME NEW phi \in Int
        PROVE  Within(Node(phi), Node(phi + step), w)
    <2> HIDE DEF step
    <2>1. phi + step \in Int
      BY <1>2
    <2>2. /\ Sin(phi) \in Int /\ Sin(phi + step) \in Int
          /\ Cos(phi) \in Int /\ Cos(phi + step) \in Int
      BY <2>1, SinFacts
    <2>4. /\ Apiece(Sin(phi), Sin(phi + step), e) /\ Apiece(Sin(phi + step), Sin(phi), e)
          /\ Apiece(Cos(phi), Cos(phi + step), e) /\ Apiece(Cos(phi + step), Cos(phi), e)
      <3>1. step \in Nat
        BY <1>2
      <3> QED
        BY <1>3, <3>1, Turned
    <2>5. center[1] \in Nat /\ center[2] \in Nat
      OBVIOUS
    <2>6. X(phi) - X(phi + step) <= w /\ X(phi + step) - X(phi) <= w
      BY <2>2, <2>4, <2>5, NodesNear
    <2>7. Y(phi) - Y(phi + step) <= w /\ Y(phi + step) - Y(phi) <= w
      BY <2>2, <2>4, <2>5, NodesNear
    <2> HIDE DEF X, Y
    <2> QED
      BY <2>6, <2>7 DEF Within
  <1>6. Node(n * step) = Node(0)
    BY <1>2
  <1> HIDE DEF Node, step, n
  <1>7. \A i \in 1..n : ps[i] = Node((i - 1) * step)
    BY <1>1
  <1>8. Len(ps) = n
    <2>1. DOMAIN ps = 1..n
      BY <1>1
    <2> HIDE DEF ps
    <2> QED
      BY <1>2, <1>4, <2>1
  <1> HIDE DEF ps
  <1>9. ASSUME NEW k \in 1..n
        PROVE  Within(ps[k], IF k < n THEN ps[k + 1] ELSE ps[1], M[k] - M[k - 1])
    <2> DEFINE phi == (k - 1) * step
               next == IF k < n THEN ps[k + 1] ELSE ps[1]
    <2>1. phi \in Int /\ phi + step = k * step /\ (1 - 1) * step = 0
      BY <1>2, SMT
    <2>2. next = Node(phi + step)
      <3>1. CASE k < n
        <4>1. k + 1 \in 1..n /\ (k + 1) - 1 = k
          BY <1>2, <3>1
        <4> QED
          BY <1>7, <2>1, <3>1, <4>1
      <3>2. CASE ~(k < n)
        <4>1. k = n /\ 1 \in 1..n
          BY <1>2, <3>2
        <4>2. ps[1] = Node(0)
          BY <1>7, <2>1, <4>1
        <4> QED
          BY <1>6, <2>1, <3>2, <4>1, <4>2
      <3> QED
        BY <3>1, <3>2
    <2>3. ps[k] = Node(phi)
      BY <1>7
    <2>4. M[k] - M[k - 1] = w
      <3>1. k \in 0..n /\ k - 1 \in 0..n /\ w * k - w * (k - 1) = w
        BY <1>2, SMT
      <3> QED
        BY <3>1
    <2> HIDE DEF phi, M, next
    <2>5. Within(Node(phi), Node(phi + step), w)
      BY <1>5, <2>1
    <2> QED
      BY <2>2, <2>3, <2>4, <2>5 DEF next
  <1>10. Sums(M, n) /\ M[n] = w * n
    <2>1. \A k \in 0..n : w * k \in Int
      BY <1>2, SMT
    <2>2. w * 0 = 0 /\ 0 \in 0..n /\ n \in 0..n
      BY <1>2, SMT
    <2> QED
      BY <2>1, <2>2 DEF Sums
  <1> HIDE DEF M
  <1>11. Sides(ps, M)
    BY <1>8, <1>9, <1>10 DEF Sides
  <1>12. Len(SamplesOf(Closed(ps))) <= 2 * M[n]
    BY <1>4, <1>8, <1>11, ClosedLength
  <1> QED
    BY <1>10, <1>12 DEF ps, n

\* What keeps points at m and at k pixels from the center, in directions
\* whose sines are not more than e apart, from being more than w apart.
Spans(w, m, k, e) == m <= k /\ m * e + 10000 * (k - m) <= 10000 * w

\* One coordinate of such points.
LEMMA RadiiNear ==
  ASSUME NEW s \in Int, NEW t \in Int, -UNIT <= s, s <= UNIT, NEW e \in Nat, Apiece(s, t, e),
         NEW m \in Nat, NEW k \in Nat, NEW w \in Nat, Spans(w, m, k, e)
  PROVE  LET x == Ceil(t * m, UNIT) + Center
             y == Ceil(s * k, UNIT) + Center
         IN x \in Int /\ y \in Int /\ x - y <= w /\ y - x <= w
  <1> DEFINE d == k - m
             a == t * m
             b == s * k
             l == m * e
             x == Ceil(a, UNIT)
             y == Ceil(b, UNIT)
  <1>1. UNIT = 10000 /\ Center \in Int
    BY Units, CenterFacts
  <1>2. d \in Nat /\ l + 10000 * d <= 10000 * w /\ s - t <= e /\ t - s <= e
    BY DEF Spans, Apiece
  <1>3. /\ a \in Int /\ b \in Int /\ l \in Int
        /\ b - a <= l + 10000 * d /\ a - b <= l + 10000 * d
    <2>1. b - a = s * d + (s - t) * m /\ a \in Int /\ b \in Int /\ l \in Int
      BY SMT
    <2>2. (s - t) * m <= l /\ -l <= (s - t) * m
      BY <1>2, SMT
    <2>3. s * d <= 10000 * d /\ -10000 * d <= s * d
      BY <1>1, <1>2, SMT
    <2> DEFINE p == s * d
               q == (s - t) * m
    <2>4. p \in Int /\ q \in Int
      BY <1>2, SMT
    <2> HIDE DEF a, b, l, p, q, d
    <2>5. b - a = p + q /\ q <= l /\ -l <= q /\ p <= 10000 * d /\ -10000 * d <= p
      BY <2>1, <2>2, <2>3 DEF p, q
    <2> QED
      BY <1>2, <2>1, <2>4, <2>5
  <1> HIDE DEF a, b, l, d
  <1>4. /\ x \in Int /\ UNIT * x >= a /\ UNIT * x < a + UNIT
        /\ y \in Int /\ UNIT * y >= b /\ UNIT * y < b + UNIT
    BY <1>3, CeilFacts
  <1> HIDE DEF x, y
  <1>5. x - y <= w /\ y - x <= w
    BY <1>1, <1>2, <1>3, <1>4
  <1>6. /\ (x + Center) - (y + Center) = x - y /\ (y + Center) - (x + Center) = y - x
        /\ x + Center \in Int /\ y + Center \in Int
    BY <1>1, <1>4
  <1> QED
    BY <1>5, <1>6 DEF x, y, a, b

\* Both coordinates.
LEMMA RadialNear ==
  ASSUME NEW phi \in Int, NEW psi \in Int, NEW e \in Nat,
         Apiece(Sin(psi), Sin(phi), e), Apiece(Cos(psi), Cos(phi), e),
         NEW m \in Nat, NEW k \in Nat, NEW w \in Nat, Spans(w, m, k, e)
  PROVE  /\ Within(radial_to_cartesian(phi, m), radial_to_cartesian(psi, k), w)
         /\ Within(radial_to_cartesian(psi, k), radial_to_cartesian(phi, m), w)
  <1> DEFINE X(t, n) == Ceil(t * n, UNIT) + Center
  <1>1. /\ Sin(phi) \in Int /\ Sin(psi) \in Int /\ -UNIT <= Sin(psi) /\ Sin(psi) <= UNIT
        /\ Cos(phi) \in Int /\ Cos(psi) \in Int /\ -UNIT <= Cos(psi) /\ Cos(psi) <= UNIT
    BY SinFacts
  <1>2. X(Sin(phi), m) - X(Sin(psi), k) <= w /\ X(Sin(psi), k) - X(Sin(phi), m) <= w
    BY <1>1, RadiiNear
  <1>3. X(Cos(phi), m) - X(Cos(psi), k) <= w /\ X(Cos(psi), k) - X(Cos(phi), m) <= w
    BY <1>1, RadiiNear
  <1>4. \A theta, n : radial_to_cartesian(theta, n) = <<X(Sin(theta), n), X(Cos(theta), n)>>
    BY DEF radial_to_cartesian
  <1> HIDE DEF X
  <1> QED
    BY <1>2, <1>3, <1>4 DEF Within

\* The four sides of a hand.
LEMMA HandLength ==
  ASSUME NEW phi \in Int, NEW spread \in Nat, NEW e \in Nat, Allows(e, spread),
         NEW inner, NEW width, NEW outer,
         inner * GLOBAL_SCALE \in Nat, width * GLOBAL_SCALE \in Nat, outer * GLOBAL_SCALE \in Nat,
         NEW v \in Nat, Spans(v, inner * GLOBAL_SCALE, width * GLOBAL_SCALE, e),
         NEW w \in Nat, Spans(w, width * GLOBAL_SCALE, outer * GLOBAL_SCALE, e),
         Hand(phi, inner, width, spread, outer) \in Parts
  PROVE  Len(SamplesOf(Hand(phi, inner, width, spread, outer))) <= 4 * (v + w)
  <1> DEFINE a == radial_to_cartesian(phi, inner * GLOBAL_SCALE)
             b == radial_to_cartesian(phi - spread, width * GLOBAL_SCALE)
             c == radial_to_cartesian(phi, outer * GLOBAL_SCALE)
             d == radial_to_cartesian(phi + spread, width * GLOBAL_SCALE)
             ps == <<a, b, c, d>>
             M == [k \in 0..4 |-> IF k = 0 THEN 0 ELSE IF k = 1 THEN v ELSE IF k = 2 THEN v + w
                                  ELSE IF k = 3 THEN v + w + w ELSE v + w + w + v]
  <1>1. phi - spread \in Int /\ phi + spread \in Int /\ (phi - spread) + spread = phi
    OBVIOUS
  <1>2. /\ Apiece(Sin(phi), Sin(phi + spread), e) /\ Apiece(Cos(phi), Cos(phi + spread), e)
        /\ Apiece(Sin(phi + spread), Sin(phi), e) /\ Apiece(Cos(phi + spread), Cos(phi), e)
    BY Turned
  <1>3. /\ Apiece(Sin(phi), Sin(phi - spread), e) /\ Apiece(Cos(phi), Cos(phi - spread), e)
        /\ Apiece(Sin(phi - spread), Sin(phi), e) /\ Apiece(Cos(phi - spread), Cos(phi), e)
    <2> DEFINE psi == phi - spread
    <2>1. psi \in Int /\ psi + spread = phi
      OBVIOUS
    <2> HIDE DEF psi
    <2>2. /\ Apiece(Sin(psi), Sin(psi + spread), e) /\ Apiece(Cos(psi), Cos(psi + spread), e)
          /\ Apiece(Sin(psi + spread), Sin(psi), e) /\ Apiece(Cos(psi + spread), Cos(psi), e)
      BY <2>1, Turned
    <2> QED
      BY <2>1, <2>2 DEF psi
  <1>4. Within(a, b, v)
    BY <1>1, <1>3, RadialNear
  <1>5. Within(b, c, w)
    BY <1>1, <1>3, RadialNear
  <1>6. Within(c, d, w)
    BY <1>1, <1>2, RadialNear
  <1>7. Within(d, a, v)
    BY <1>1, <1>2, RadialNear
  <1>8. Hand(phi, inner, width, spread, outer) = Closed(ps)
    BY DEF Hand
  <1> HIDE DEF a, b, c, d
  <1>9. ps \in Seq(Screen) /\ Len(ps) = 4 /\ ps[1] = a /\ ps[2] = b /\ ps[3] = c /\ ps[4] = d
    <2>1. Closed(ps).points = ps /\ Closed(ps).points \in Seq(Screen)
      BY <1>8 DEF Closed, Parts
    <2>2. Len(ps) = 4 /\ ps[1] = a /\ ps[2] = b /\ ps[3] = c /\ ps[4] = d
      OBVIOUS
    <2> HIDE DEF ps
    <2> QED
      BY <2>1, <2>2
  <1> HIDE DEF ps
  <1>10. /\ Sums(M, 4) /\ M[4] = v + w + w + v
         /\ M[1] - M[1 - 1] = v /\ M[2] - M[2 - 1] = w /\ M[3] - M[3 - 1] = w /\ M[4] - M[4 - 1] = v
    BY DEF Sums
  <1> HIDE DEF M
  <1>11. Sides(ps, M)
    <2>1. ASSUME NEW k \in 1..4
          PROVE  Within(ps[k], IF k < 4 THEN ps[k + 1] ELSE ps[1], M[k] - M[k - 1])
      <3>1. CASE k = 1
        BY <1>4, <1>9, <1>10, <3>1
      <3>2. CASE k = 2
        BY <1>5, <1>9, <1>10, <3>2
      <3>3. CASE k = 3
        BY <1>6, <1>9, <1>10, <3>3
      <3>4. CASE k = 4
        BY <1>7, <1>9, <1>10, <3>4
      <3> QED
        BY <3>1, <3>2, <3>3, <3>4
    <2> QED
      BY <1>9, <1>10, <2>1 DEF Sides
  <1>12. Len(SamplesOf(Closed(ps))) <= 2 * (v + w + w + v)
    <2>1. Len(SamplesOf(Closed(ps))) <= 2 * M[Len(ps)]
      BY <1>9, <1>11, ClosedLength
    <2> QED
      BY <1>9, <1>10, <2>1
  <1>13. 2 * (v + w + w + v) = 4 * (v + w)
    OBVIOUS
  <1> QED
    BY <1>8, <1>12, <1>13

(***************************************************************************)
(* How long the lines of the font are.                                     *)
(***************************************************************************)

\* B adds up the longer sides of a line from point to point, and 556 for what
\* rounding adds to each: at 18 samples to 10000 units that is more than one.
Takes(line, B) ==
  /\ B \in Seq(Nat) /\ Len(B) = Len(line) /\ B[1] = 0
  /\ \A k \in 1..Len(line) - 1 : Within(line[k], line[k + 1], B[k + 1] - B[k] - 556)
Ink(line, w) == \E B : Takes(line, B) /\ B[Len(line)] <= w

\* The lines of a drawing together.
Inked(drawing, w) ==
  \E W : /\ Sums(W, Len(drawing)) /\ W[Len(drawing)] <= w
         /\ \A n \in 1..Len(drawing) : Ink(drawing[n], W[n] - W[n - 1])

\* A drawing of one line.
LEMMA OneLine ==
  ASSUME NEW d, Len(d) = 1, NEW w \in Nat, NEW a \in Nat, Ink(d[1], a), a <= w
  PROVE  Inked(d, w)
  <1> DEFINE W == [k \in 0..1 |-> IF k = 0 THEN 0 ELSE a]
  <1>1. Sums(W, 1) /\ W[1] = a /\ W[1] - W[1 - 1] = a
    BY DEF Sums
  <1> HIDE DEF W
  <1>2. \A n \in 1..1 : Ink(d[n], W[n] - W[n - 1])
    BY <1>1
  <1> QED
    BY <1>1, <1>2 DEF Inked

\* Of two lines.
LEMMA TwoLines ==
  ASSUME NEW d, Len(d) = 2, NEW w \in Nat, NEW a \in Nat, Ink(d[1], a),
         NEW b \in Nat, Ink(d[2], b), a + b <= w
  PROVE  Inked(d, w)
  <1> DEFINE W == [k \in 0..2 |-> IF k = 0 THEN 0 ELSE IF k = 1 THEN a ELSE a + b]
  <1>1. Sums(W, 2) /\ W[2] = a + b /\ W[1] - W[1 - 1] = a /\ W[2] - W[2 - 1] = b
    BY DEF Sums
  <1> HIDE DEF W
  <1>2. \A n \in 1..2 : Ink(d[n], W[n] - W[n - 1])
    BY <1>1
  <1> QED
    BY <1>1, <1>2 DEF Inked

\* Of three lines.
LEMMA ThreeLines ==
  ASSUME NEW d, Len(d) = 3, NEW w \in Nat, NEW a \in Nat, Ink(d[1], a),
         NEW b \in Nat, Ink(d[2], b), NEW c \in Nat, Ink(d[3], c), a + b + c <= w
  PROVE  Inked(d, w)
  <1> DEFINE W == [k \in 0..3 |-> IF k = 0 THEN 0 ELSE IF k = 1 THEN a
                                  ELSE IF k = 2 THEN a + b ELSE a + b + c]
  <1>1. /\ Sums(W, 3) /\ W[3] = a + b + c
        /\ W[1] - W[1 - 1] = a /\ W[2] - W[2 - 1] = b /\ W[3] - W[3 - 1] = c
    BY DEF Sums
  <1> HIDE DEF W
  <1>2. \A n \in 1..3 : Ink(d[n], W[n] - W[n - 1])
    BY <1>1
  <1> QED
    BY <1>1, <1>2 DEF Inked

\* The digits from 0 to 5.
LEMMA Digits0To5Ink == \A n \in 1..6 : Inked(Digits0To5[n], 82000)
  <1>1. Inked(Digits0To5[1], 82000)
    <2>1. Ink(Digits0To5[1][1], 56902)
      <3> DEFINE B == << 0, 3209, 6417, 11433, 14641, 19657, 22880, 26089, 28423, 31660,
                        34883, 39899, 43107, 48123, 51331, 54568, 56902 >>
      <3>1. Takes(Digits0To5[1][1], B)
        BY DEF Digits0To5, Takes, Within
      <3>2. Len(Digits0To5[1][1]) = 17 /\ B[17] = 56902
        BY DEF Digits0To5
      <3> HIDE DEF B
      <3> QED
        BY <3>1, <3>2 DEF Ink
    <2>2. Len(Digits0To5[1]) = 1
      BY DEF Digits0To5
    <2> QED
      BY <2>1, <2>2, OneLine
  <1>2. Inked(Digits0To5[2], 82000)
    <2>1. Ink(Digits0To5[2][1], 24783)
      <3> DEFINE B == << 0, 2305, 5543, 24783 >>
      <3>1. Takes(Digits0To5[2][1], B)
        BY DEF Digits0To5, Takes, Within
      <3>2. Len(Digits0To5[2][1]) = 4 /\ B[4] = 24783
        BY DEF Digits0To5
      <3> HIDE DEF B
      <3> QED
        BY <3>1, <3>2 DEF Ink
    <2>2. Len(Digits0To5[2]) = 1
      BY DEF Digits0To5
    <2> QED
      BY <2>1, <2>2, OneLine
  <1>3. Inked(Digits0To5[3], 82000)
    <2>1. Ink(Digits0To5[3][1], 48121)
      <3> DEFINE B == << 0, 1459, 3764, 5223, 7529, 11641, 14003, 15462, 17767, 20130,
                        22435, 25673, 35119, 48121 >>
      <3>1. Takes(Digits0To5[3][1], B)
        BY DEF Digits0To5, Takes, Within
      <3>2. Len(Digits0To5[3][1]) = 14 /\ B[14] = 48121
        BY DEF Digits0To5
      <3> HIDE DEF B
      <3> QED
        BY <3>1, <3>2 DEF Ink
    <2>2. Len(Digits0To5[3]) = 1
      BY DEF Digits0To5
    <2> QED
      BY <2>1, <2>2, OneLine
  <1>4. Inked(Digits0To5[4], 82000)
    <2>1. Ink(Digits0To5[4][1], 49567)
      <3> DEFINE B == << 0, 10321, 17989, 21198, 23532, 24991, 28200, 30534, 33757, 36091,
                        39328, 42565, 45774, 47233, 49567 >>
      <3>1. Takes(Digits0To5[4][1], B)
        BY DEF Digits0To5, Takes, Within
      <3>2. Len(Digits0To5[4][1]) = 15 /\ B[15] = 49567
        BY DEF Digits0To5
      <3> HIDE DEF B
      <3> QED
        BY <3>1, <3>2 DEF Ink
    <2>2. Len(Digits0To5[4]) = 1
      BY DEF Digits0To5
    <2> QED
      BY <2>1, <2>2, OneLine
  <1>5. Inked(Digits0To5[5], 82000)
    <2>1. Ink(Digits0To5[5][1], 46177)
      <3> DEFINE B == << 0, 13906, 26937, 46177 >>
      <3>1. Takes(Digits0To5[5][1], B)
        BY DEF Digits0To5, Takes, Within
      <3>2. Len(Digits0To5[5][1]) = 4 /\ B[4] = 46177
        BY DEF Digits0To5
      <3> HIDE DEF B
      <3> QED
        BY <3>1, <3>2 DEF Ink
    <2>2. Len(Digits0To5[5]) = 1
      BY DEF Digits0To5
    <2> QED
      BY <2>1, <2>2, OneLine
  <1>6. Inked(Digits0To5[6], 82000)
    <2>1. Ink(Digits0To5[6][1], 56100)
      <3> DEFINE B == << 0, 9446, 18018, 19478, 22687, 25924, 29161, 31524, 34733, 37067,
                        40290, 42624, 45861, 49098, 52307, 53766, 56100 >>
      <3>1. Takes(Digits0To5[6][1], B)
        BY DEF Digits0To5, Takes, Within
      <3>2. Len(Digits0To5[6][1]) = 17 /\ B[17] = 56100
        BY DEF Digits0To5
      <3> HIDE DEF B
      <3> QED
        BY <3>1, <3>2 DEF Ink
    <2>2. Len(Digits0To5[6]) = 1
      BY DEF Digits0To5
    <2> QED
      BY <2>1, <2>2, OneLine
  <1> QED
    BY <1>1, <1>2, <1>3, <1>4, <1>5, <1>6

\* The digits from 6 to 9.
LEMMA Digits6To9Ink == \A n \in 1..4 : Inked(Digits6To9[n], 82000)
  <1>1. Inked(Digits6To9[1], 82000)
    <2>1. Ink(Digits6To9[1][1], 64725)
      <3> DEFINE B == << 0, 2334, 5572, 7877, 11114, 14322, 19338, 24353, 28451, 30785,
                        34022, 35453, 38690, 41024, 44247, 45678, 48915, 51249, 54486,
                        55917, 59154, 61488, 64725 >>
      <3>1. Takes(Digits6To9[1][1], B)
        BY DEF Digits6To9, Takes, Within
      <3>2. Len(Digits6To9[1][1]) = 23 /\ B[23] = 64725
        BY DEF Digits6To9
      <3> HIDE DEF B
      <3> QED
        BY <3>1, <3>2 DEF Ink
    <2>2. Len(Digits6To9[1]) = 1
      BY DEF Digits6To9
    <2> QED
      BY <2>1, <2>2, OneLine
  <1>2. Inked(Digits6To9[2], 82000)
    <2>1. Ink(Digits6To9[2][1], 32242)
      <3> DEFINE B == << 0, 13002, 32242 >>
      <3>1. Takes(Digits6To9[2][1], B)
        BY DEF Digits6To9, Takes, Within
      <3>2. Len(Digits6To9[2][1]) = 3 /\ B[3] = 32242
        BY DEF Digits6To9
      <3> HIDE DEF B
      <3> QED
        BY <3>1, <3>2 DEF Ink
    <2>2. Len(Digits6To9[2]) = 1
      BY DEF Digits6To9
    <2> QED
      BY <2>1, <2>2, OneLine
  <1>3. Inked(Digits6To9[3], 82000)
    <2>1. Ink(Digits6To9[3][1], 77842)
      <3> DEFINE B == << 0, 3209, 5543, 7877, 10211, 12545, 16657, 19894, 22200, 24563,
                        27772, 30106, 31551, 34788, 38900, 42109, 43568, 45902, 49111,
                        51474, 53836, 57045, 61157, 63491, 65825, 68159, 70493, 73730, 77842
                        >>
      <3>1. Takes(Digits6To9[3][1], B)
        BY DEF Digits6To9, Takes, Within
      <3>2. Len(Digits6To9[3][1]) = 29 /\ B[29] = 77842
        BY DEF Digits6To9
      <3> HIDE DEF B
      <3> QED
        BY <3>1, <3>2 DEF Ink
    <2>2. Len(Digits6To9[3]) = 1
      BY DEF Digits6To9
    <2> QED
      BY <2>1, <2>2, OneLine
  <1>4. Inked(Digits6To9[4], 82000)
    <2>1. Ink(Digits6To9[4][1], 64741)
      <3> DEFINE B == << 0, 3237, 5571, 8780, 10239, 13448, 15811, 19048, 20479, 23716,
                        26079, 29288, 30747, 33956, 36290, 40402, 45388, 50404, 53627,
                        56836, 59199, 62407, 64741 >>
      <3>1. Takes(Digits6To9[4][1], B)
        BY DEF Digits6To9, Takes, Within
      <3>2. Len(Digits6To9[4][1]) = 23 /\ B[23] = 64741
        BY DEF Digits6To9
      <3> HIDE DEF B
      <3> QED
        BY <3>1, <3>2 DEF Ink
    <2>2. Len(Digits6To9[4]) = 1
      BY DEF Digits6To9
    <2> QED
      BY <2>1, <2>2, OneLine
  <1> QED
    BY <1>1, <1>2, <1>3, <1>4

\* The numbers from 10 to 12.
LEMMA NumeralsInk == \A n \in 1..3 : Inked(Numerals[n], 82000)
  <1>1. Inked(Numerals[1], 82000)
    <2>1. Ink(Numerals[1][1], 56902)
      <3> DEFINE B == << 0, 3208, 6416, 11432, 14640, 19656, 22879, 26087, 28421, 31659,
                        34882, 39898, 43106, 48122, 51330, 54568, 56902 >>
      <3>1. Takes(Numerals[1][1], B)
        BY DEF Numerals, Takes, Within
      <3>2. Len(Numerals[1][1]) = 17 /\ B[17] = 56902
        BY DEF Numerals
      <3> HIDE DEF B
      <3> QED
        BY <3>1, <3>2 DEF Ink
    <2>2. Ink(Numerals[1][2], 24783)
      <3> DEFINE B == << 0, 2305, 5543, 24783 >>
      <3>1. Takes(Numerals[1][2], B)
        BY DEF Numerals, Takes, Within
      <3>2. Len(Numerals[1][2]) = 4 /\ B[4] = 24783
        BY DEF Numerals
      <3> HIDE DEF B
      <3> QED
        BY <3>1, <3>2 DEF Ink
    <2>3. Len(Numerals[1]) = 2
      BY DEF Numerals
    <2> QED
      BY <2>1, <2>2, <2>3, TwoLines
  <1>2. Inked(Numerals[2], 82000)
    <2>1. Ink(Numerals[2][1], 24784)
      <3> DEFINE B == << 0, 2306, 5544, 24784 >>
      <3>1. Takes(Numerals[2][1], B)
        BY DEF Numerals, Takes, Within
      <3>2. Len(Numerals[2][1]) = 4 /\ B[4] = 24784
        BY DEF Numerals
      <3> HIDE DEF B
      <3> QED
        BY <3>1, <3>2 DEF Ink
    <2>2. Ink(Numerals[2][2], 24783)
      <3> DEFINE B == << 0, 2305, 5543, 24783 >>
      <3>1. Takes(Numerals[2][2], B)
        BY DEF Numerals, Takes, Within
      <3>2. Len(Numerals[2][2]) = 4 /\ B[4] = 24783
        BY DEF Numerals
      <3> HIDE DEF B
      <3> QED
        BY <3>1, <3>2 DEF Ink
    <2>3. Len(Numerals[2]) = 2
      BY DEF Numerals
    <2> QED
      BY <2>1, <2>2, <2>3, TwoLines
  <1>3. Inked(Numerals[3], 82000)
    <2>1. Ink(Numerals[3][1], 46996)
      <3> DEFINE B == << 0, 1985, 4392, 6974, 11152, 13963, 16641, 19136, 22910, 25487,
                        33993, 46996 >>
      <3>1. Takes(Numerals[3][1], B)
        BY DEF Numerals, Takes, Within
      <3>2. Len(Numerals[3][1]) = 12 /\ B[12] = 46996
        BY DEF Numerals
      <3> HIDE DEF B
      <3> QED
        BY <3>1, <3>2 DEF Ink
    <2>2. Ink(Numerals[3][2], 24783)
      <3> DEFINE B == << 0, 2880, 5543, 24783 >>
      <3>1. Takes(Numerals[3][2], B)
        BY DEF Numerals, Takes, Within
      <3>2. Len(Numerals[3][2]) = 4 /\ B[4] = 24783
        BY DEF Numerals
      <3> HIDE DEF B
      <3> QED
        BY <3>1, <3>2 DEF Ink
    <2>3. Len(Numerals[3]) = 2
      BY DEF Numerals
    <2> QED
      BY <2>1, <2>2, <2>3, TwoLines
  <1> QED
    BY <1>1, <1>2, <1>3

\* AM and PM.
LEMMA LettersInk == \A n \in 1..2 : Inked(Letters[n], 131000)
  <1>1. Inked(Letters[1], 131000)
    <2>1. Ink(Letters[1][1], 76960)
      <3> DEFINE B == << 0, 19240, 38480, 57720, 76960 >>
      <3>1. Takes(Letters[1][1], B)
        BY DEF Letters, Takes, Within
      <3>2. Len(Letters[1][1]) = 5 /\ B[5] = 76960
        BY DEF Letters
      <3> HIDE DEF B
      <3> QED
        BY <3>1, <3>2 DEF Ink
    <2>2. Ink(Letters[1][2], 38480)
      <3> DEFINE B == << 0, 19240, 38480 >>
      <3>1. Takes(Letters[1][2], B)
        BY DEF Letters, Takes, Within
      <3>2. Len(Letters[1][2]) = 3 /\ B[3] = 38480
        BY DEF Letters
      <3> HIDE DEF B
      <3> QED
        BY <3>1, <3>2 DEF Ink
    <2>3. Ink(Letters[1][3], 9475)
      <3> DEFINE B == << 0, 9475 >>
      <3>1. Takes(Letters[1][3], B)
        BY DEF Letters, Takes, Within
      <3>2. Len(Letters[1][3]) = 2 /\ B[2] = 9475
        BY DEF Letters
      <3> HIDE DEF B
      <3> QED
        BY <3>1, <3>2 DEF Ink
    <2>4. Len(Letters[1]) = 3
      BY DEF Letters
    <2> QED
      BY <2>1, <2>2, <2>3, <2>4, ThreeLines
  <1>2. Inked(Letters[2], 131000)
    <2>1. Ink(Letters[2][1], 76960)
      <3> DEFINE B == << 0, 19240, 38480, 57720, 76960 >>
      <3>1. Takes(Letters[2][1], B)
        BY DEF Letters, Takes, Within
      <3>2. Len(Letters[2][1]) = 5 /\ B[5] = 76960
        BY DEF Letters
      <3> HIDE DEF B
      <3> QED
        BY <3>1, <3>2 DEF Ink
    <2>2. Ink(Letters[2][2], 53595)
      <3> DEFINE B == << 0, 19240, 27812, 31020, 32479, 34785, 38022, 40356, 41815, 45023,
                        53595 >>
      <3>1. Takes(Letters[2][2], B)
        BY DEF Letters, Takes, Within
      <3>2. Len(Letters[2][2]) = 11 /\ B[11] = 53595
        BY DEF Letters
      <3> HIDE DEF B
      <3> QED
        BY <3>1, <3>2 DEF Ink
    <2>3. Len(Letters[2]) = 2
      BY DEF Letters
    <2> QED
      BY <2>1, <2>2, <2>3, TwoLines
  <1> QED
    BY <1>1, <1>2

\* An element of the first three of four sequences put together.
LEMMA ThreeTables ==
  ASSUME NEW T, NEW U, NEW p \in Seq(T), NEW q \in Seq(T), NEW r \in Seq(T), NEW s \in Seq(U),
         NEW n \in 1..Len(p) + Len(q) + Len(r)
  PROVE  (p \o q \o r \o s)[n] \in T
  <1>1. p \o q \in Seq(T) /\ Len(p \o q) = Len(p) + Len(q)
    OBVIOUS
  <1>2. p \o q \o r \in Seq(T) /\ Len(p \o q \o r) = Len(p) + Len(q) + Len(r)
    BY <1>1
  <1> DEFINE t == p \o q \o r
  <1>3. t \in Seq(T) /\ n \in 1..Len(t)
    BY <1>2
  <1> HIDE DEF t
  <1>4. (t \o s)[n] = t[n]
    BY <1>3
  <1> QED
    BY <1>3, <1>4 DEF t

\* The drawings of one digit or number, and of AM or PM.
Short == {d \in Seq(Seq(Box)) : Inked(d, 82000)}
Long == {d \in Seq(Seq(Box)) : Inked(d, 131000)}

\* A table of digits or numbers, by its elements.
LEMMA AllShort ==
  ASSUME NEW s \in Seq(Seq(Seq(Box))), \A n \in 1..Len(s) : Inked(s[n], 82000)
  PROVE  s \in Seq(Short)
  <1>1. \A n \in 1..Len(s) : s[n] \in Short
    BY DEF Short
  <1> QED
    BY <1>1, Retyped

\* Any table, by its elements.
LEMMA AllLong ==
  ASSUME NEW s \in Seq(Seq(Seq(Box))), \A n \in 1..Len(s) : Inked(s[n], 131000)
  PROVE  s \in Seq(Long)
  <1>1. \A n \in 1..Len(s) : s[n] \in Long
    BY DEF Long
  <1> QED
    BY <1>1, Retyped

\* The tables together: no digit and no number is longer than 82000 units,
\* nor are AM and PM longer than 131000.
LEMMA FontInk ==
  /\ \A index \in 0..12 : Inked(FONT(index), 82000)
  /\ \A index \in 0..14 : Inked(FONT(index), 131000)
  <1>1. /\ Len(Digits0To5) = 6 /\ Len(Digits6To9) = 4 /\ Len(Numerals) = 3 /\ Len(Letters) = 2
        /\ Digits0To5 \in Seq(Seq(Seq(Box))) /\ Digits6To9 \in Seq(Seq(Seq(Box)))
        /\ Numerals \in Seq(Seq(Seq(Box))) /\ Letters \in Seq(Seq(Seq(Box)))
    BY DEF Digits0To5, Digits6To9, Numerals, Letters, Box
  <1>3. \A d : Inked(d, 82000) => Inked(d, 131000)
    <2> SUFFICES ASSUME NEW d, Inked(d, 82000)
                 PROVE  Inked(d, 131000)
      OBVIOUS
    <2>1. PICK W : /\ Sums(W, Len(d)) /\ W[Len(d)] <= 82000
                   /\ \A n \in 1..Len(d) : Ink(d[n], W[n] - W[n - 1])
      BY DEF Inked
    <2> DEFINE n == Len(d)
               x == W[n]
    <2>2. x \in Int /\ x <= 82000
      BY <2>1 DEF Sums
    <2> QED
      BY <2>1, <2>2 DEF Inked
  <1>4. /\ Digits0To5 \in Seq(Short) /\ Digits6To9 \in Seq(Short)
        /\ Numerals \in Seq(Short)
        /\ Digits0To5 \in Seq(Long) /\ Digits6To9 \in Seq(Long)
        /\ Numerals \in Seq(Long) /\ Letters \in Seq(Long)
    <2>1. \A n \in 1..Len(Digits0To5) : Inked(Digits0To5[n], 82000)
      BY <1>1, Digits0To5Ink
    <2>2. \A n \in 1..Len(Digits6To9) : Inked(Digits6To9[n], 82000)
      BY <1>1, Digits6To9Ink
    <2>3. \A n \in 1..Len(Numerals) : Inked(Numerals[n], 82000)
      BY <1>1, NumeralsInk
    <2>4. \A n \in 1..Len(Letters) : Inked(Letters[n], 131000)
      BY <1>1, LettersInk
    <2>5. /\ \A n \in 1..Len(Digits0To5) : Inked(Digits0To5[n], 131000)
          /\ \A n \in 1..Len(Digits6To9) : Inked(Digits6To9[n], 131000)
          /\ \A n \in 1..Len(Numerals) : Inked(Numerals[n], 131000)
      BY <1>3, <2>1, <2>2, <2>3
    <2>6. /\ Digits0To5 \in Seq(Seq(Seq(Box))) /\ Digits6To9 \in Seq(Seq(Seq(Box)))
          /\ Numerals \in Seq(Seq(Seq(Box))) /\ Letters \in Seq(Seq(Seq(Box)))
      BY <1>1
    <2>7. Digits0To5 \in Seq(Short) /\ Digits6To9 \in Seq(Short) /\ Numerals \in Seq(Short)
      BY <2>1, <2>2, <2>3, <2>6, AllShort
    <2>8. Digits0To5 \in Seq(Long) /\ Digits6To9 \in Seq(Long) /\ Numerals \in Seq(Long)
      BY <2>5, <2>6, AllLong
    <2>9. Letters \in Seq(Long)
      BY <2>4, <2>6, AllLong
    <2> QED
      BY <2>7, <2>8, <2>9
  <1>5. ASSUME NEW index \in 0..12
        PROVE  FONT(index) \in Short
    <2>1. index + 1 \in 1..6 + 4 + 3
      OBVIOUS
    <2>2. index + 1 \in 1..Len(Digits0To5) + Len(Digits6To9) + Len(Numerals)
      BY <1>1, <2>1
    <2>3. (Digits0To5 \o Digits6To9 \o Numerals \o Letters)[index + 1] \in Short
      BY <1>1, <1>4, <2>2, ThreeTables
    <2> QED
      BY <2>3 DEF FONT
  <1>6. ASSUME NEW index \in 0..14
        PROVE  FONT(index) \in Long
    <2>1. index + 1 \in 1..6 + 4 + 3 + 2
      OBVIOUS
    <2>2. index + 1 \in 1..Len(Digits0To5) + Len(Digits6To9) + Len(Numerals) + Len(Letters)
      BY <1>1, <2>1
    <2> QED
      BY <1>4, <2>2, FourTables DEF FONT
  <1> QED
    BY <1>5, <1>6 DEF Short, Long

\* Scales that stretch no distance by more than 18 in 10000, but for rounding.
Shrinks(T) ==
  \A c, d \in Int, e \in Nat : c - d <= e => UNIT * (T[c] - T[d]) <= 18 * e + UNIT

\* So are the two scales of the clock.
LEMMA ScalesShrink == Shrinks(FaceScale) /\ Shrinks(LabelScale)
  <1>1. ASSUME NEW c \in Int, NEW d \in Int, NEW e \in Nat, c - d <= e
        PROVE  /\ UNIT * (FaceScale[c] - FaceScale[d]) <= 18 * e + UNIT
               /\ UNIT * (LabelScale[c] - LabelScale[d]) <= 18 * e + UNIT
    <2> DEFINE t == FaceScale[c]
               u == FaceScale[d]
               x == LabelScale[c]
               y == LabelScale[d]
    <2>1. /\ t \in Int /\ u \in Int /\ UNIT * t < 9 * (c * GLOBAL_SCALE) + UNIT
          /\ UNIT * u > 9 * (d * GLOBAL_SCALE) - UNIT
          /\ c >= 0 => UNIT * t <= 9 * (c * GLOBAL_SCALE)
          /\ d <= 0 => UNIT * u >= 9 * (d * GLOBAL_SCALE)
      BY FaceScaleAt
    <2>2. /\ x \in Int /\ UNIT * (10 * x) <= 75 * (c * GLOBAL_SCALE) + 5 * UNIT
          /\ y \in Int /\ UNIT * (10 * y) >= 75 * (d * GLOBAL_SCALE) - 5 * UNIT
      BY LabelScaleAt
    <2> HIDE DEF t, u, x, y
    <2>3. UNIT * (t - u) <= 18 * e + UNIT
      BY <1>1, <2>1, ScaleAssumption, Units
    <2>4. UNIT * (x - y) <= 18 * e + UNIT
      BY <1>1, <2>2, ScaleAssumption, Units
    <2> QED
      BY <2>3, <2>4 DEF t, u, x, y
  <1> QED
    BY <1>1 DEF Shrinks

(***************************************************************************)
(* How many samples parts of the picture have together.                    *)
(***************************************************************************)

\* The samples of a chain of lines.
LEMMA ChainType ==
  ASSUME NEW lines \in Seq(Screen \X Screen)
  PROVE  AddPoints(Trace(lines)) \in Seq(Sample)
  <1> DEFINE seqs == [i \in DOMAIN lines |-> Bresenham(lines[i][1], lines[i][2])]
             N == Len(lines)
             trace == Trace(lines)
  <1>1. N \in Nat /\ DOMAIN lines = 1..N
    OBVIOUS
  <1>2. \A k \in 1..N : seqs[k] \in Seq(Screen)
    <2>1. \A k \in 1..N : lines[k][1] \in Screen /\ lines[k][2] \in Screen
      BY <1>1
    <2> QED
      BY <1>1, <2>1, LineLength
  <1>3. seqs = [i \in 1..N |-> seqs[i]] /\ trace = FlattenSeq(seqs)
    BY <1>1 DEF Trace
  <1> HIDE DEF seqs
  <1>4. seqs \in Seq(Seq(Screen))
    BY <1>1, <1>2, <1>3, SequenceFacts
  <1>5. trace \in Seq(Screen)
    BY <1>3, <1>4, FlattenType
  <1> HIDE DEF trace
  <1>6. AddPoints(trace) \in Seq(Sample)
    BY <1>5, SampleFacts
  <1> QED
    BY <1>6 DEF trace

\* The samples of any part.
LEMMA PartType ==
  ASSUME NEW s \in Parts
  PROVE  SamplesOf(s) \in Seq(Sample)
  <1>1. /\ s.kind \in {"dot", "line", "closed", "open"} /\ s.points \in Seq(Screen)
        /\ s.kind = "dot" => Len(s.points) = 1 /\ s.exposure \in Nat
        /\ s.kind = "line" => Len(s.points) = 2
    BY DEF Parts, Visible, Figure
  <1> DEFINE ps == s.points
             n == Len(ps)
  <1>2. n \in Nat /\ \A i \in 1..n : ps[i] \in Screen
    BY <1>1
  <1>3. CASE s.kind = "dot"
    <2> DEFINE p == ps[1]
               m == s.exposure
               dots == [i \in 1..m |-> p]
    <2>1. p \in Screen /\ m \in Nat
      BY <1>1, <1>2, <1>3
    <2>2. SamplesOf(s) = AddPoints(dots)
      BY <1>3 DEF SamplesOf, AddDot2
    <2> HIDE DEF p, m
    <2>3. dots \in Seq(Screen)
      BY <2>1
    <2> HIDE DEF dots
    <2> QED
      BY <2>2, <2>3, SampleFacts
  <1>4. CASE s.kind = "line"
    <2> DEFINE line == Bresenham(ps[1], ps[2])
    <2>1. ps[1] \in Screen /\ ps[2] \in Screen
      BY <1>1, <1>2, <1>4
    <2>2. line \in Seq(Screen)
      BY <2>1, LineLength
    <2>3. SamplesOf(s) = AddPoints(line)
      BY <1>4 DEF SamplesOf, AddLine
    <2> HIDE DEF line
    <2> QED
      BY <2>2, <2>3, SampleFacts
  <1>5. CASE s.kind = "closed"
    <2> DEFINE lines == ClosedPolygonToLines(ps)
               Next_(i) == IF i < n THEN ps[i + 1] ELSE ps[1]
    <2>1. SamplesOf(s) = AddPoints(Trace(lines))
      BY <1>5 DEF SamplesOf, AddClosedPolygon
    <2>2. lines = [i \in 1..n |-> <<ps[i], Next_(i)>>]
      BY DEF ClosedPolygonToLines, Successor
    <2>3. \A i \in 1..n : <<ps[i], Next_(i)>> \in Screen \X Screen
      BY <1>2
    <2> HIDE DEF lines, Next_, ps, n
    <2>4. lines \in Seq(Screen \X Screen)
      <3>1. \A i \in 1..n : lines[i] \in Screen \X Screen
        BY <2>2, <2>3
      <3>2. lines = [i \in 1..n |-> lines[i]]
        BY <2>2
      <3> QED
        BY <1>2, <3>1, <3>2, SequenceFacts
    <2> QED
      BY <2>1, <2>4, ChainType
  <1>6. CASE s.kind = "open"
    <2> DEFINE lines == OpenPolygonToLines(ps)
               m == Longer(n - 1, 0)
    <2>1. SamplesOf(s) = AddPoints(Trace(lines))
      BY <1>6 DEF SamplesOf, AddOpenPolygon
    <2>2. lines = [i \in 1..m |-> <<ps[i], ps[i + 1]>>]
      BY DEF OpenPolygonToLines
    <2>3. m \in Nat /\ \A i \in 1..m : i \in 1..n /\ i + 1 \in 1..n
      BY <1>2 DEF Longer
    <2>4. \A i \in 1..m : <<ps[i], ps[i + 1]>> \in Screen \X Screen
      BY <1>2, <2>3
    <2> HIDE DEF lines, m, ps, n
    <2>5. lines \in Seq(Screen \X Screen)
      <3>1. \A i \in 1..m : lines[i] \in Screen \X Screen
        BY <2>2, <2>4
      <3>2. lines = [i \in 1..m |-> lines[i]]
        BY <2>2
      <3> QED
        BY <2>3, <3>1, <3>2, SequenceFacts
    <2> QED
      BY <2>1, <2>5, ChainType
  <1> QED
    BY <1>1, <1>3, <1>4, <1>5, <1>6

\* All samples of some parts.
Sampled(parts) == [n \in DOMAIN parts |-> SamplesOf(parts[n])]
Size(parts) == Count(Sampled(parts))

\* They are sequences of samples, one for each part.
LEMMA SampledFacts ==
  ASSUME NEW parts \in Seq(Parts)
  PROVE  /\ Sampled(parts) \in Seq(Seq(Sample)) /\ Len(Sampled(parts)) = Len(parts)
         /\ \A n \in 1..Len(parts) : Sampled(parts)[n] = SamplesOf(parts[n])
         /\ Size(parts) \in Nat
  <1> DEFINE N == Len(parts)
             samples == Sampled(parts)
  <1>1. N \in Nat /\ samples = [n \in 1..N |-> SamplesOf(parts[n])]
    BY DEF Sampled
  <1>2. \A n \in 1..N : SamplesOf(parts[n]) \in Seq(Sample)
    BY PartType
  <1> HIDE DEF samples, N
  <1>3. /\ \A n \in 1..N : samples[n] = SamplesOf(parts[n]) /\ samples[n] \in Seq(Sample)
        /\ samples = [n \in 1..N |-> samples[n]]
    BY <1>1, <1>2
  <1>4. samples \in Seq(Seq(Sample)) /\ Len(samples) = N
    BY <1>1, <1>3, SequenceFacts
  <1>5. FlattenSeq(samples) \in Seq(Sample)
    BY <1>4, FlattenType
  <1>6. Count(samples) \in Nat
    BY <1>5 DEF Count
  <1> QED
    BY <1>3, <1>4, <1>6 DEF samples, N, Size

\* Bounds of each part add up.
LEMMA SizeWithin ==
  ASSUME NEW parts \in Seq(Parts), NEW M, Sums(M, Len(parts)), NEW u \in Nat,
         \A n \in 1..Len(parts) : u * Len(SamplesOf(parts[n])) <= M[n] - M[n - 1]
  PROVE  u * Size(parts) <= M[Len(parts)]
  <1> DEFINE samples == Sampled(parts)
             N == Len(parts)
  <1>1. /\ samples \in Seq(Seq(Sample)) /\ Len(samples) = N
        /\ \A n \in 1..N : samples[n] = SamplesOf(parts[n])
    BY SampledFacts
  <1> HIDE DEF samples, N
  <1>2. Sums(M, Len(samples)) /\ \A n \in 1..Len(samples) : u * Len(samples[n]) <= M[n] - M[n - 1]
    BY <1>1 DEF N
  <1>3. u * Len(FlattenSeq(samples)) <= M[Len(samples)]
    BY <1>1, <1>2, FlattenWithin
  <1> QED
    BY <1>1, <1>3 DEF Size, Count, samples, N

\* One part.
LEMMA SizeOne ==
  ASSUME NEW s \in Parts
  PROVE  <<s>> \in Seq(Parts) /\ Size(<<s>>) <= Len(SamplesOf(s))
  <1> DEFINE l == Len(SamplesOf(s))
             parts == <<s>>
             M == [k \in 0..1 |-> IF k = 0 THEN 0 ELSE l]
  <1>1. parts \in Seq(Parts) /\ Len(parts) = 1 /\ parts[1] = s
    OBVIOUS
  <1>2. l \in Nat
    BY PartType
  <1>3. Sums(M, 1) /\ M[1] - M[1 - 1] = l /\ M[1] = l
    BY <1>2 DEF Sums
  <1>4. 1 * Len(SamplesOf(parts[1])) = l
    BY <1>1, <1>2
  <1> HIDE DEF parts, M, l
  <1>5. /\ Sums(M, Len(parts))
        /\ \A n \in 1..Len(parts) : 1 * Len(SamplesOf(parts[n])) <= M[n] - M[n - 1]
    BY <1>1, <1>2, <1>3, <1>4
  <1>6. 1 * Size(parts) <= M[Len(parts)]
    BY <1>1, <1>5, SizeWithin
  <1>7. Size(parts) \in Nat
    BY <1>1, SampledFacts
  <1>8. Size(parts) <= l
    BY <1>1, <1>3, <1>6, <1>7
  <1> QED
    BY <1>1, <1>8 DEF parts, l

\* Two parts.
LEMMA SizeTwo ==
  ASSUME NEW s \in Parts, NEW t \in Parts, NEW a \in Nat, Len(SamplesOf(s)) <= a,
         NEW b \in Nat, Len(SamplesOf(t)) <= b
  PROVE  <<s, t>> \in Seq(Parts) /\ Size(<<s, t>>) <= a + b
  <1> DEFINE parts == <<s, t>>
             M == [k \in 0..2 |-> IF k = 0 THEN 0 ELSE IF k = 1 THEN a ELSE a + b]
  <1>1. parts \in Seq(Parts) /\ Len(parts) = 2 /\ parts[1] = s /\ parts[2] = t
    OBVIOUS
  <1>2. Sums(M, 2) /\ M[1] - M[1 - 1] = a /\ M[2] - M[2 - 1] = b /\ M[2] = a + b
    BY DEF Sums
  <1>3. Len(SamplesOf(s)) \in Nat /\ Len(SamplesOf(t)) \in Nat
    <2>1. SamplesOf(s) \in Seq(Sample) /\ SamplesOf(t) \in Seq(Sample)
      BY PartType
    <2> QED
      BY <2>1
  <1> HIDE DEF parts, M
  <1>4. \A n \in 1..Len(parts) : 1 * Len(SamplesOf(parts[n])) <= M[n] - M[n - 1]
    BY <1>1, <1>2, <1>3
  <1>5. 1 * Size(parts) <= M[Len(parts)]
    BY <1>1, <1>2, <1>4, SizeWithin
  <1>6. Size(parts) \in Nat
    BY <1>1, SampledFacts
  <1>7. Size(parts) <= a + b
    BY <1>1, <1>2, <1>5, <1>6
  <1> QED
    BY <1>1, <1>7 DEF parts

\* The sums of the parts.
LEMMA SizeSums ==
  ASSUME NEW parts \in Seq(Parts)
  PROVE  \E S : /\ Sums(S, Len(parts)) /\ S[Len(parts)] = Size(parts)
                /\ \A k \in 1..Len(parts) : S[k] - S[k - 1] = Len(SamplesOf(parts[k]))
  <1> DEFINE samples == Sampled(parts)
             N == Len(parts)
  <1>1. /\ samples \in Seq(Seq(Sample)) /\ Len(samples) = N
        /\ \A n \in 1..N : samples[n] = SamplesOf(parts[n])
    BY SampledFacts
  <1>2. Size(parts) = Len(FlattenSeq(samples))
    BY DEF Size, Count
  <1> HIDE DEF samples, N
  <1>3. PICK S : /\ Sums(S, Len(samples)) /\ S[Len(samples)] = Len(FlattenSeq(samples))
                 /\ \A k \in 1..Len(samples) : S[k] - S[k - 1] = Len(samples[k])
    BY <1>1, FlattenSums
  <1>4. \A k \in 1..N : S[k] - S[k - 1] = Len(SamplesOf(parts[k]))
    BY <1>1, <1>3
  <1> QED
    BY <1>1, <1>2, <1>3, <1>4 DEF N

\* The parts of two pieces of the picture.
LEMMA SizeConcat ==
  ASSUME NEW p \in Seq(Parts), NEW q \in Seq(Parts)
  PROVE  p \o q \in Seq(Parts) /\ Size(p \o q) <= Size(p) + Size(q)
  <1> DEFINE m == Len(p)
             n == Len(q)
             r == p \o q
  <1>1. /\ m \in Nat /\ n \in Nat /\ r \in Seq(Parts) /\ Len(r) = m + n
        /\ \A k \in 1..m : r[k] = p[k]
        /\ \A k \in 1..n : r[m + k] = q[k]
    BY ConcatFacts
  <1>2. PICK S : /\ Sums(S, m) /\ S[m] = Size(p)
                 /\ \A k \in 1..m : S[k] - S[k - 1] = Len(SamplesOf(p[k]))
    BY SizeSums
  <1>3. PICK T : /\ Sums(T, n) /\ T[n] = Size(q)
                 /\ \A k \in 1..n : T[k] - T[k - 1] = Len(SamplesOf(q[k]))
    BY SizeSums
  <1> DEFINE M == [k \in 0..m + n |-> IF k <= m THEN S[k] ELSE S[m] + T[k - m]]
  <1>4. ASSUME NEW k \in 1..Len(r)
        PROVE  1 * Len(SamplesOf(r[k])) <= M[k] - M[k - 1]
    <2>1. CASE k <= m
      <3>1. k \in 1..m /\ k \in 0..m + n /\ k - 1 \in 0..m + n /\ k - 1 <= m
        BY <1>1, <2>1
      <3>2. M[k] - M[k - 1] = Len(SamplesOf(p[k])) /\ r[k] = p[k]
        BY <1>1, <1>2, <2>1, <3>1
      <3>3. Len(SamplesOf(p[k])) \in Nat
        BY <3>1, PartType
      <3> HIDE DEF M
      <3> QED
        BY <3>2, <3>3
    <2>2. CASE k > m
      <3> DEFINE j == k - m
      <3>1. /\ j \in 1..n /\ k = m + j /\ k \in 0..m + n /\ k - 1 \in 0..m + n /\ j \in 0..n
            /\ j - 1 \in 0..n
        BY <1>1, <2>2
      <3>2. /\ S[m] \in Int /\ T[j] \in Int /\ T[j - 1] \in Int /\ T[0] = 0
            /\ T[j] - T[j - 1] = Len(SamplesOf(q[j])) /\ r[k] = q[j]
        <4>1. m \in 0..m
          BY <1>1
        <4>2. S[m] \in Int /\ T[j] \in Int /\ T[j - 1] \in Int /\ T[0] = 0
          BY <1>2, <1>3, <3>1, <4>1 DEF Sums
        <4> HIDE DEF j
        <4>3. T[j] - T[j - 1] = Len(SamplesOf(q[j]))
          BY <1>3, <3>1
        <4>4. r[k] = q[j]
          BY <1>1, <3>1
        <4> QED
          BY <4>2, <4>3, <4>4
      <3>3. M[k] = S[m] + T[j]
        BY <2>2, <3>1
      <3>4. M[k - 1] = S[m] + T[j - 1]
        <4>1. CASE k - 1 <= m
          <5>1. k - 1 = m /\ j - 1 = 0
            BY <1>1, <2>2, <4>1
          <5>2. M[k - 1] = S[m]
            BY <3>1, <4>1, <5>1
          <5> HIDE DEF M, j
          <5> QED
            BY <3>2, <5>1, <5>2
        <4>2. CASE ~(k - 1 <= m)
          <5>1. (k - 1) - m = j - 1
            BY <1>1
          <5>2. M[k - 1] = S[m] + T[(k - 1) - m]
            BY <3>1, <4>2
          <5> HIDE DEF M, j
          <5> QED
            BY <5>1, <5>2
        <4> QED
          BY <4>1, <4>2
      <3>5. Len(SamplesOf(q[j])) \in Nat
        BY <3>1, PartType
      <3> HIDE DEF M, j
      <3> DEFINE a == T[j]
                 b == T[j - 1]
                 c == Len(SamplesOf(q[j]))
                 d == S[m]
      <3>6. /\ a \in Int /\ b \in Int /\ c \in Nat /\ d \in Int /\ a - b = c /\ M[k] = d + a
            /\ M[k - 1] = d + b
        BY <3>2, <3>3, <3>4, <3>5
      <3>7. Len(SamplesOf(r[k])) = c
        BY <3>2
      <3> HIDE DEF a, b, c, d
      <3> QED
        BY <3>6, <3>7
    <2> QED
      BY <1>1, <2>1, <2>2
  <1>5. Sums(M, m + n)
    <2>1. \A k \in 0..m + n : M[k] \in Int
      <3> SUFFICES ASSUME NEW k \in 0..m + n
                   PROVE  M[k] \in Int
        OBVIOUS
      <3>1. CASE k <= m
        <4>1. k \in 0..m
          BY <1>1, <3>1
        <4>2. S[k] \in Int
          BY <1>2, <4>1 DEF Sums
        <4> QED
          BY <3>1, <4>2
      <3>2. CASE ~(k <= m)
        <4>1. k - m \in 0..n /\ m \in 0..m
          BY <1>1, <3>2
        <4>2. S[m] \in Int /\ T[k - m] \in Int
          BY <1>2, <1>3, <4>1 DEF Sums
        <4> QED
          BY <3>2, <4>2
      <3> QED
        BY <3>1, <3>2
    <2>2. 0 \in 0..m + n /\ 0 <= m /\ S[0] = 0
      BY <1>1, <1>2 DEF Sums
    <2>3. M[0] = 0
      BY <2>2
    <2>4. M = [k \in 0..m + n |-> M[k]]
      OBVIOUS
    <2> HIDE DEF M
    <2> QED
      BY <2>1, <2>3, <2>4 DEF Sums
  <1>6. M[m + n] = Size(p) + Size(q)
    <2>1. /\ m + n \in 0..m + n /\ S[m] = Size(p) /\ T[n] = Size(q) /\ Size(p) \in Nat
          /\ Size(q) \in Nat
      BY <1>1, <1>2, <1>3, SampledFacts
    <2>2. CASE n = 0
      <3>1. T[n] = 0 /\ m + n = m
        BY <1>1, <1>3, <2>2 DEF Sums
      <3>2. M[m] = S[m]
        BY <1>1
      <3> HIDE DEF M
      <3> QED
        BY <2>1, <3>1, <3>2
    <2>3. CASE n # 0
      <3>1. ~(m + n <= m) /\ (m + n) - m = n
        BY <1>1, <2>3
      <3> QED
        BY <2>1, <3>1
    <2> QED
      BY <2>2, <2>3
  <1> HIDE DEF M, r, m, n
  <1>7. 1 * Size(r) <= M[Len(r)]
    BY <1>1, <1>4, <1>5, SizeWithin
  <1>8. Size(r) \in Nat
    BY <1>1, SampledFacts
  <1>9. Size(r) <= Size(p) + Size(q)
    BY <1>1, <1>6, <1>7, <1>8
  <1> QED
    BY <1>1, <1>9 DEF r

\* And of any number of pieces.
LEMMA SizeGroups ==
  ASSUME NEW groups \in Seq(Seq(Parts)), NEW M, Sums(M, Len(groups)),
         \A n \in 1..Len(groups) : Size(groups[n]) <= M[n] - M[n - 1]
  PROVE  FlattenSeq(groups) \in Seq(Parts) /\ Size(FlattenSeq(groups)) <= M[Len(groups)]
  <1>1. CASE groups = <<>>
    <2>1. FlattenSeq(groups) = <<>> /\ Len(groups) = 0
      BY <1>1 DEF FlattenSeq
    <2> DEFINE none == <<>>
    <2>2. none \in Seq(Parts) /\ Len(none) = 0
      OBVIOUS
    <2> HIDE DEF none
    <2>3. Sums(M, 0) /\ M[0] = 0
      BY <2>1 DEF Sums
    <2>4. /\ Sums(M, Len(none))
          /\ \A n \in 1..Len(none) : 1 * Len(SamplesOf(none[n])) <= M[n] - M[n - 1]
      BY <2>2, <2>3
    <2>5. 1 * Size(none) <= M[Len(none)]
      BY <2>2, <2>4, SizeWithin
    <2>6. Size(none) \in Nat
      BY <2>2, SampledFacts
    <2> QED
      BY <2>1, <2>2, <2>3, <2>5, <2>6 DEF none
  <1>2. CASE groups # <<>>
    <2> DEFINE N == Len(groups)
    <2>1. PICK f : /\ f = [n \in 1..Len(groups) |-> IF n = 1 THEN groups[n] ELSE f[n - 1] \o groups[n]]
                   /\ FlattenSeq(groups) = f[Len(groups)]
      BY <1>2, FlattenDefined
    <2>2. N \in Nat /\ N > 0 /\ \A k \in 1..N : groups[k] \in Seq(Parts) /\ Size(groups[k]) \in Nat
      BY <1>2, SampledFacts
    <2>3. f[1] = groups[1]
      BY <2>1, <2>2
    <2>4. ASSUME NEW n \in 2..N
          PROVE  f[n] = f[n - 1] \o groups[n]
      <3>1. n \in 1..Len(groups) /\ n # 1
        BY <2>2
      <3> QED
        BY <2>1, <3>1
    <2>5. /\ Sums(M, N) /\ FlattenSeq(groups) = f[N]
          /\ \A n \in 1..N : Size(groups[n]) <= M[n] - M[n - 1]
      BY <2>1
    <2> DEFINE Good(n) == f[n] \in Seq(Parts) /\ Size(f[n]) <= M[n]
               Within_ == {n \in Nat : n + 1 <= N => Good(n + 1)}
    <2> HIDE DEF N
    <2>6. \A k \in 0..N : M[k] \in Int
      BY <2>2, <2>5 DEF Sums
    <2>7. 0 \in Within_
      <3>1. 1 \in 1..N /\ 0 \in 0..N /\ 1 \in 0..N
        BY <2>2
      <3>2. Size(groups[1]) <= M[1] - M[1 - 1] /\ M[0] = 0 /\ 1 - 1 = 0
        BY <2>5, <3>1 DEF Sums
      <3>3. Size(groups[1]) <= M[1] /\ groups[1] \in Seq(Parts)
        BY <2>2, <2>6, <3>1, <3>2
      <3> QED
        BY <2>3, <3>3
    <2>8. ASSUME NEW n \in Nat, n \in Within_
          PROVE  n + 1 \in Within_
      <3> SUFFICES ASSUME (n + 1) + 1 <= N
                   PROVE  Good((n + 1) + 1)
        OBVIOUS
      <3> DEFINE k == n + 1
                 g == groups[k + 1]
      <3>1. k + 1 \in 2..N /\ (k + 1) - 1 = k /\ k + 1 \in 1..N /\ k \in 0..N /\ k + 1 \in 0..N
        BY <2>2
      <3>2. Good(k)
        BY <2>2, <2>8
      <3>3. f[k + 1] = f[k] \o g
        BY <2>4, <3>1
      <3>4. g \in Seq(Parts) /\ Size(g) \in Nat /\ Size(g) <= M[k + 1] - M[k]
        BY <2>2, <2>5, <3>1
      <3>5. f[k + 1] \in Seq(Parts) /\ Size(f[k + 1]) <= Size(f[k]) + Size(g)
        BY <3>2, <3>3, <3>4, SizeConcat
      <3>6. Size(f[k]) \in Nat /\ Size(f[k + 1]) \in Nat
        BY <3>2, <3>5, SampledFacts
      <3>7. M[k] \in Int /\ M[k + 1] \in Int /\ Size(f[k]) <= M[k]
        BY <2>6, <3>1, <3>2
      <3> HIDE DEF k, g
      <3>8. Size(f[k + 1]) <= M[k + 1]
        BY <3>4, <3>5, <3>6, <3>7
      <3> QED
        BY <3>5, <3>8 DEF k
    <2> HIDE DEF Within_
    <2>9. \A n \in Nat : n \in Within_
      BY <2>7, <2>8, SetInduction
    <2>10. N - 1 \in Nat /\ (N - 1) + 1 = N /\ N <= N
      BY <2>2
    <2>11. Good(N)
      BY <2>9, <2>10 DEF Within_
    <2> QED
      BY <2>5, <2>11 DEF N
  <1> QED
    BY <1>1, <1>2

(***************************************************************************)
(* How long pictograms are.                                                *)
(***************************************************************************)

\* Scaled points.
LEMMA PlacedNear ==
  ASSUME NEW T, Scaling(T), Shrinks(T), NEW p, Inside(p), NEW q \in Box, NEW r \in Box,
         NEW e \in Int, Within(q, r, e)
  PROVE  \E w \in Int : Within(Placed(T, p, q), Placed(T, p, r), w) /\ UNIT * w <= 18 * (e + 556)
  <1> DEFINE w == (18 * e + UNIT) \div UNIT
  <1>1. /\ q[1] \in Int /\ q[2] \in Int /\ -q[2] \in Int
        /\ r[1] \in Int /\ r[2] \in Int /\ -r[2] \in Int /\ p[1] \in Int /\ p[2] \in Int
    BY BoxFacts DEF Inside
  <1>2. /\ q[1] - r[1] <= e /\ r[1] - q[1] <= e /\ e \in Nat
        /\ (-q[2]) - (-r[2]) <= e /\ (-r[2]) - (-q[2]) <= e
    BY <1>1 DEF Within
  <1>3. w \in Int /\ UNIT * w <= 18 * e + UNIT /\ \A d \in Int : UNIT * d <= 18 * e + UNIT => d <= w
    <2> DEFINE n == 18 * e + 10000
    <2>1. n \in Int /\ UNIT = 10000
      BY Units
    <2>2. w = n \div 10000
      BY <2>1
    <2> HIDE DEF n, w
    <2>3. w \in Int /\ 10000 * w <= n /\ n < 10000 * w + 10000
      BY <2>1, <2>2, SMT
    <2> QED
      BY <2>1, <2>3 DEF n
  <1> HIDE DEF w
  <1> DEFINE a == T[q[1]]
             b == T[r[1]]
             c == T[-q[2]]
             d == T[-r[2]]
  <1>4. a \in Int /\ b \in Int /\ c \in Int /\ d \in Int
    BY <1>1 DEF Scaling
  <1>5. /\ UNIT * (a - b) <= 18 * e + UNIT /\ UNIT * (b - a) <= 18 * e + UNIT
        /\ UNIT * (c - d) <= 18 * e + UNIT /\ UNIT * (d - c) <= 18 * e + UNIT
    BY <1>1, <1>2 DEF Shrinks
  <1>6. Placed(T, p, q) = <<a + p[1], c + p[2]>> /\ Placed(T, p, r) = <<b + p[1], d + p[2]>>
    BY DEF Placed
  <1> HIDE DEF a, b, c, d
  <1>7. a - b <= w /\ b - a <= w /\ c - d <= w /\ d - c <= w
    BY <1>3, <1>4, <1>5
  <1>8. Within(Placed(T, p, q), Placed(T, p, r), w)
    BY <1>1, <1>3, <1>4, <1>6, <1>7 DEF Within
  <1>9. UNIT * w <= 18 * (e + 556)
    BY <1>3, Units
  <1> QED
    BY <1>3, <1>8, <1>9

\* A scaled line.
LEMMA InkLength ==
  ASSUME NEW T, Scaling(T), Shrinks(T), NEW p, Inside(p), NEW line \in Seq(Box), Len(line) > 0,
         NEW w \in Int, Ink(line, w)
  PROVE  UNIT * Len(SamplesOf(Open([k \in DOMAIN line |-> Placed(T, p, line[k])]))) <= 36 * w
  <1> DEFINE N == Len(line)
             n == N - 1
             ps == [k \in DOMAIN line |-> Placed(T, p, line[k])]
  <1>1. N \in Nat /\ n \in Nat /\ N = n + 1 /\ DOMAIN line = 1..N
    OBVIOUS
  <1>2. PICK B : Takes(line, B) /\ B[N] <= w
    BY DEF Ink
  <1> DEFINE M == [k \in 0..n |-> 18 * B[k + 1]]
  <1>3. /\ B \in Seq(Nat) /\ Len(B) = N /\ B[1] = 0
        /\ \A k \in 1..n : Within(line[k], line[k + 1], B[k + 1] - B[k] - 556)
    BY <1>2 DEF Takes
  <1>4. \A k \in 1..N : line[k] \in Box /\ B[k] \in Nat /\ ps[k] = Placed(T, p, line[k])
    BY <1>1, <1>3
  <1>5. ps = [k \in 1..N |-> ps[k]]
    BY <1>1
  <1> HIDE DEF ps, n, N
  <1>6. \A k \in 1..N : ps[k] \in Screen
    BY <1>4, PlacedFacts
  <1>7. ps \in Seq(Screen) /\ Len(ps) = n + 1
    BY <1>1, <1>5, <1>6, SequenceFacts
  <1>8. ASSUME NEW k \in 1..n
        PROVE  \E v \in Int : Within(ps[k], ps[k + 1], v) /\ UNIT * v <= M[k] - M[k - 1]
    <2> DEFINE a == B[k]
               b == B[k + 1]
               e == b - a - 556
    <2>1. k \in 1..N /\ k + 1 \in 1..N /\ k \in 0..n /\ k - 1 \in 0..n /\ (k - 1) + 1 = k
      BY <1>1
    <2>2. a \in Nat /\ b \in Nat /\ e \in Int /\ line[k] \in Box /\ line[k + 1] \in Box
      BY <1>4, <2>1
    <2>3. M[k] = 18 * b /\ M[k - 1] = 18 * a
      BY <2>1
    <2>4. Within(line[k], line[k + 1], e)
      BY <1>3
    <2>5. 18 * (e + 556) = 18 * b - 18 * a
      BY <2>2
    <2> HIDE DEF e, a, b, M
    <2>6. PICK v \in Int : /\ Within(Placed(T, p, line[k]), Placed(T, p, line[k + 1]), v)
                           /\ UNIT * v <= 18 * (e + 556)
      BY <2>2, <2>4, PlacedNear
    <2>7. ps[k] = Placed(T, p, line[k]) /\ ps[k + 1] = Placed(T, p, line[k + 1])
      BY <1>4, <2>1
    <2>8. UNIT * v <= M[k] - M[k - 1]
      BY <2>3, <2>5, <2>6
    <2> QED
      BY <2>6, <2>7, <2>8
  <1>9. Sums(M, n) /\ M[n] = 18 * B[N] /\ B[N] \in Nat
    <2>1. \A k \in 0..n : 18 * B[k + 1] \in Int
      <3>1. \A k \in 0..n : k + 1 \in 1..N
        BY <1>1
      <3> QED
        BY <1>4, <3>1
    <2>2. 0 \in 0..n /\ n \in 0..n /\ 0 + 1 = 1 /\ N \in 1..N
      BY <1>1
    <2> QED
      BY <1>1, <1>3, <1>4, <2>1, <2>2 DEF Sums
  <1> HIDE DEF M
  <1>10. UNIT \in Nat
    BY Units
  <1>11. SamplesOf(Open(ps)) \in Seq(Sample) /\ UNIT * Len(SamplesOf(Open(ps))) <= 2 * M[n]
    BY <1>1, <1>7, <1>8, <1>9, <1>10, OpenLength
  <1> DEFINE l == Len(SamplesOf(Open(ps)))
             z == B[N]
  <1>12. l \in Nat
    BY <1>11
  <1>13. UNIT * l <= 2 * (18 * z) /\ z \in Nat /\ z <= w
    BY <1>2, <1>9, <1>11
  <1> HIDE DEF l, z
  <1>14. UNIT * l <= 36 * w
    BY <1>12, <1>13, Units
  <1> QED
    BY <1>14 DEF l, ps

\* A scaled pictogram.
LEMMA DrawingLength ==
  ASSUME NEW drawing, Pictogram(drawing), NEW T, Scaling(T), Shrinks(T), NEW p, Inside(p),
         NEW w \in Nat, Inked(drawing, w)
  PROVE  UNIT * Size(DrawnAt(drawing, T, p)) <= 36 * w
  <1> DEFINE N == Len(drawing)
             strokes == DrawnAt(drawing, T, p)
             Line_(n) == [k \in DOMAIN drawing[n] |-> Placed(T, p, drawing[n][k])]
  <1>1. N \in Nat /\ DOMAIN drawing = 1..N /\ \A n \in 1..N : drawing[n] \in Seq(Box)
    BY DEF Pictogram
  <1>2. PICK W : /\ Sums(W, N) /\ W[N] <= w
                 /\ \A n \in 1..N : Ink(drawing[n], W[n] - W[n - 1])
    BY DEF Inked
  <1>3. strokes \in Seq(Parts)
    BY DrawingFacts
  <1>4. strokes = [n \in 1..N |-> Open(Line_(n))]
    BY <1>1 DEF DrawnAt
  <1>5. ASSUME NEW n \in 1..N
        PROVE  Len(drawing[n]) > 0
    <2> DEFINE line == drawing[n]
    <2>1. Len(line) \in Nat
      BY <1>1
    <2>2. PICK k \in Nat \ {0} : k + 1 <= Len(line)
      BY DEF Pictogram, Whole, Goes
    <2> QED
      BY <2>1, <2>2
  <1> DEFINE M == [k \in 0..N |-> 36 * W[k]]
  <1> HIDE DEF strokes, N
  <1>6. ASSUME NEW n \in 1..N
        PROVE  UNIT * Len(SamplesOf(strokes[n])) <= M[n] - M[n - 1]
    <2> DEFINE a == W[n - 1]
               b == W[n]
               d == b - a
    <2>1. n \in 0..N /\ n - 1 \in 0..N
      BY <1>1
    <2>2. a \in Int /\ b \in Int /\ d \in Int /\ Ink(drawing[n], d)
      BY <1>2, <2>1 DEF Sums
    <2>3. M[n] = 36 * b /\ M[n - 1] = 36 * a /\ 36 * d = 36 * b - 36 * a
      BY <2>1, <2>2
    <2>4. drawing[n] \in Seq(Box) /\ Len(drawing[n]) > 0
      BY <1>1, <1>5
    <2>5. strokes[n] = Open(Line_(n))
      BY <1>4
    <2> HIDE DEF d, a, b, M
    <2>6. UNIT * Len(SamplesOf(Open(Line_(n)))) <= 36 * d
      BY <2>2, <2>4, InkLength
    <2> QED
      BY <2>3, <2>5, <2>6
  <1>7. Len(strokes) = N
    BY <1>1, <1>3, <1>4
  <1>8. Sums(M, N) /\ M[N] = 36 * W[N] /\ W[N] \in Int
    <2>1. W \in [0..N -> Int] /\ W[0] = 0 /\ 0 \in 0..N /\ N \in 0..N
      BY <1>1, <1>2 DEF Sums
    <2> QED
      BY <2>1 DEF Sums
  <1> HIDE DEF M, Line_
  <1>9. UNIT * Size(strokes) <= M[Len(strokes)]
    <2>1. UNIT \in Nat /\ Sums(M, Len(strokes))
      BY <1>7, <1>8, Units
    <2>2. \A n \in 1..Len(strokes) : UNIT * Len(SamplesOf(strokes[n])) <= M[n] - M[n - 1]
      BY <1>6, <1>7
    <2> QED
      BY <1>3, <2>1, <2>2, SizeWithin
  <1>10. Size(strokes) \in Nat
    BY <1>3, SampledFacts
  <1>11. UNIT * Size(strokes) <= 36 * w
    <2> DEFINE l == UNIT * Size(strokes)
               z == W[N]
    <2>1. l \in Int /\ l <= 36 * z /\ z \in Int /\ z <= w
      BY <1>2, <1>7, <1>8, <1>9, <1>10, Units
    <2> HIDE DEF l, z
    <2>2. l <= 36 * w
      BY <2>1
    <2> QED
      BY <2>2 DEF l
  <1> QED
    BY <1>11 DEF strokes

\* How many samples they have.
LEMMA NumeralLength ==
  ASSUME NEW number \in 0..12, NEW p, Inside(p)
  PROVE  Size(Numeral(number, p)) <= 295
  <1>1. number \in 0..14
    OBVIOUS
  <1>2. Pictogram(FONT(number)) /\ Inked(FONT(number), 82000)
    BY <1>1, FontFacts, FontInk
  <1>3. UNIT * Size(DrawnAt(FONT(number), FaceScale, p)) <= 36 * 82000
    BY <1>2, FaceScaling, ScalesShrink, DrawingLength
  <1>4. Size(Numeral(number, p)) \in Nat
    BY <1>1, NumeralFacts, SampledFacts
  <1>5. UNIT * Size(Numeral(number, p)) <= 36 * 82000
    BY <1>1, <1>3, NumeralDrawn
  <1> QED
    BY <1>4, <1>5, Units

\* Any pictogram of the label, and one of a digit or a number.
LEMMA PictogramLength ==
  ASSUME NEW index \in 0..14, NEW x, NEW y, Inside(<<x, y>>)
  PROVE  /\ Size(DrawPictogram(index, x, y)) <= 471
         /\ index <= 12 => Size(DrawPictogram(index, x, y)) <= 295
  <1> DEFINE p == <<x, y>>
             n == Size(DrawPictogram(index, x, y))
  <1>1. Pictogram(FONT(index)) /\ Inside(p)
    BY FontFacts
  <1>2. n \in Nat /\ n = Size(DrawnAt(FONT(index), LabelScale, p))
    BY PictogramFacts, SampledFacts, PictogramDrawn
  <1> HIDE DEF p, n
  <1>3. UNIT * n <= 36 * 131000
    <2>1. Inked(FONT(index), 131000) /\ 131000 \in Nat
      BY FontInk
    <2>2. UNIT * Size(DrawnAt(FONT(index), LabelScale, p)) <= 36 * 131000
      BY <1>1, <2>1, LabelScaling, ScalesShrink, DrawingLength
    <2> QED
      BY <1>2, <2>2
  <1>4. index <= 12 => UNIT * n <= 36 * 82000
    <2> SUFFICES ASSUME index <= 12
                 PROVE  UNIT * n <= 36 * 82000
      OBVIOUS
    <2>1. index \in 0..12
      OBVIOUS
    <2>2. Inked(FONT(index), 82000) /\ 82000 \in Nat
      BY <2>1, FontInk
    <2>3. UNIT * Size(DrawnAt(FONT(index), LabelScale, p)) <= 36 * 82000
      BY <1>1, <2>2, LabelScaling, ScalesShrink, DrawingLength
    <2> QED
      BY <1>2, <2>3
  <1>5. n <= 471 /\ (index <= 12 => n <= 295)
    BY <1>2, <1>3, <1>4, Units
  <1> QED
    BY <1>5 DEF n

(***************************************************************************)
(* How long the face, the hands and the label are.                         *)
(***************************************************************************)
\* The two circles around the center.
LEMMA CirclesLength ==
  /\ Len(SamplesOf(Closed(CircleNodes(<<Center, Center>>, 250 * GLOBAL_SCALE, 40, 1)))) <= 3200
  /\ Len(SamplesOf(Closed(CircleNodes(<<Center, Center>>, 20 * GLOBAL_SCALE, 10, 1)))) <= 260
  <1> DEFINE center == <<Center, Center>>
             h1 == 250 * GLOBAL_SCALE
             h2 == 20 * GLOBAL_SCALE
  <1>1. center \in Nat \X Nat /\ h1 \in Nat /\ h2 \in Nat
    BY CenterFacts
  <1>2. /\ Closed(CircleNodes(center, h1, 40, 1)) \in Parts
        /\ Closed(CircleNodes(center, h2, 10, 1)) \in Parts
    BY CirclesFacts
  <1>3. Allows(1576, Circle \div 40) /\ Allows(6301, Circle \div 10)
    BY Units, SMT DEF Allows
  <1>4. Covers(40, h1, 1576) /\ Covers(13, h2, 6301)
    BY ScaleAssumption DEF Covers
  <1> HIDE DEF center, h1, h2
  <1>5. Len(SamplesOf(Closed(CircleNodes(center, h1, 40, 1)))) <= 2 * (40 * (40 * 1))
    BY <1>1, <1>2, <1>3, <1>4, CircleLength
  <1>6. Len(SamplesOf(Closed(CircleNodes(center, h2, 10, 1)))) <= 2 * (13 * (10 * 1))
    BY <1>1, <1>2, <1>3, <1>4, CircleLength
  <1> QED
    BY <1>5, <1>6 DEF center, h1, h2

\* The mark of a minute.
LEMMA MarkLength ==
  ASSUME NEW i \in 0..59
  PROVE  Size(Mark(i)) <= IF i % 5 = 0 THEN 423 ELSE 28
  <1> DEFINE phi == i * (Circle \div 60)
             outer == radial_to_cartesian(phi, 88 * GLOBAL_SCALE)
             outer_number == radial_to_cartesian(phi, 108 * GLOBAL_SCALE)
             circle == Closed(CircleNodes(outer, 5 * GLOBAL_SCALE, 8, 2))
             number == Numeral(NumberAt(i), outer_number)
             dot == Dot(outer, 14)
  <1>1. /\ outer \in Nat \X Nat /\ Inside(outer_number) /\ NumberAt(i) \in 0..12
        /\ circle \in Parts /\ dot \in Parts
    BY MarkPieces
  <1>2. Mark(i) = IF i % 5 = 0 THEN <<circle>> \o number ELSE <<dot>>
    BY DEF Mark
  <1> HIDE DEF phi, outer, outer_number
  <1>3. Size(number) <= 295 /\ number \in Seq(Parts)
    <2>1. NumberAt(i) \in 0..14
      BY <1>1
    <2> QED
      BY <1>1, <2>1, NumeralLength, NumeralFacts
  <1>4. Len(SamplesOf(circle)) <= 128
    <2> DEFINE halves == 5 * GLOBAL_SCALE
    <2>1. Allows(7876, Circle \div 8)
      BY Units, SMT DEF Allows
    <2>2. Covers(4, halves, 7876) /\ halves \in Nat
      BY ScaleAssumption DEF Covers
    <2>3. Closed(CircleNodes(outer, halves, 8, 2)) \in Parts
      BY <1>1
    <2> HIDE DEF halves
    <2>4. Len(SamplesOf(Closed(CircleNodes(outer, halves, 8, 2)))) <= 2 * (4 * (8 * 2))
      BY <1>1, <2>1, <2>2, <2>3, CircleLength
    <2> QED
      BY <2>4 DEF halves
  <1>5. Len(SamplesOf(dot)) <= 28
    <2> DEFINE dots == [j \in 1..14 |-> outer]
    <2>1. outer \in Screen
      <3>1. dot.points = <<outer>> /\ dot.points \in Seq(Screen)
        BY <1>1 DEF Dot, Parts
      <3>2. <<outer>>[1] = outer /\ 1 \in 1..Len(<<outer>>)
        OBVIOUS
      <3> HIDE DEF dot
      <3> QED
        BY <3>1, <3>2
    <2>2. SamplesOf(dot) = AddPoints(dots)
      BY DEF SamplesOf, AddDot2, Dot
    <2>3. dots \in Seq(Screen) /\ Len(dots) = 14
      BY <2>1
    <2> HIDE DEF dots, dot
    <2>4. Len(AddPoints(dots)) <= 2 * Len(dots)
      BY <2>3, SampleFacts
    <2> QED
      BY <2>2, <2>3, <2>4
  <1> HIDE DEF circle, number, dot
  <1>6. /\ <<circle>> \in Seq(Parts) /\ Size(<<circle>>) <= Len(SamplesOf(circle))
        /\ <<dot>> \in Seq(Parts) /\ Size(<<dot>>) <= Len(SamplesOf(dot))
    BY <1>1, SizeOne
  <1>7. Size(<<circle>> \o number) <= Size(<<circle>>) + Size(number)
    BY <1>3, <1>6, SizeConcat
  <1>8. /\ Size(<<circle>>) \in Nat /\ Size(<<dot>>) \in Nat /\ Size(number) \in Nat
        /\ Len(SamplesOf(circle)) \in Nat /\ Len(SamplesOf(dot)) \in Nat
    <2>1. Size(<<circle>>) \in Nat /\ Size(<<dot>>) \in Nat /\ Size(number) \in Nat
      BY <1>3, <1>6, SampledFacts
    <2>2. SamplesOf(circle) \in Seq(Sample) /\ SamplesOf(dot) \in Seq(Sample)
      BY <1>1, PartType
    <2> QED
      BY <2>1, <2>2
  <1>9. Size(<<circle>> \o number) \in Nat
    BY <1>3, <1>6, SizeConcat, SampledFacts
  <1>10. Size(<<circle>> \o number) <= 423 /\ Size(<<dot>>) <= 28
    BY <1>3, <1>4, <1>5, <1>6, <1>7, <1>8, <1>9
  <1> QED
    BY <1>2, <1>10

\* The face.
LEMMA FaceLength == Size(draw_static_clock_face) <= 9880
  <1> DEFINE marks == [i \in 1..60 |-> Mark(i - 1)]
             c1 == Closed(CircleNodes(<<Center, Center>>, 250 * GLOBAL_SCALE, 40, 1))
             c2 == Closed(CircleNodes(<<Center, Center>>, 20 * GLOBAL_SCALE, 10, 1))
             M == [k \in 0..60 |-> 28 * k + 395 * ((k + 4) \div 5)]
  <1>1. draw_static_clock_face = <<c1, c2>> \o FlattenSeq(marks)
    BY DEF draw_static_clock_face
  <1>2. /\ c1 \in Parts /\ c2 \in Parts
        /\ Len(SamplesOf(c1)) <= 3200 /\ Len(SamplesOf(c2)) <= 260
    BY CirclesFacts, CirclesLength
  <1> HIDE DEF c1, c2
  <1>3. ASSUME NEW i \in 1..60
        PROVE  marks[i] \in Seq(Parts) /\ Size(marks[i]) <= M[i] - M[i - 1]
    <2>1. i - 1 \in 0..59 /\ marks[i] = Mark(i - 1)
      OBVIOUS
    <2>2. Size(Mark(i - 1)) <= IF (i - 1) % 5 = 0 THEN 423 ELSE 28
      BY <2>1, MarkLength
    <2>3. Mark(i - 1) \in Seq(Parts) /\ Size(Mark(i - 1)) \in Nat
      BY <2>1, MarkFacts, SampledFacts
    <2>4. /\ M[i] = 28 * i + 395 * ((i + 4) \div 5)
          /\ M[i - 1] = 28 * (i - 1) + 395 * ((i + 3) \div 5)
      <3>1. i \in 0..60 /\ i - 1 \in 0..60 /\ (i - 1) + 4 = i + 3
        OBVIOUS
      <3> QED
        BY <3>1
    <2> HIDE DEF M
    <2>5. (i - 1) % 5 = 0 => (i + 4) \div 5 = (i + 3) \div 5 + 1
      BY SMT
    <2>6. (i + 4) \div 5 \in Int /\ (i + 3) \div 5 \in Int /\ (i + 3) \div 5 <= (i + 4) \div 5
      BY SMT
    <2>7. (IF (i - 1) % 5 = 0 THEN 423 ELSE 28) <= M[i] - M[i - 1]
      BY <2>4, <2>5, <2>6
    <2> DEFINE s == Size(Mark(i - 1))
               b == IF (i - 1) % 5 = 0 THEN 423 ELSE 28
               d == M[i] - M[i - 1]
    <2>8. s \in Nat /\ b \in Int /\ d \in Int /\ s <= b /\ b <= d
      BY <2>2, <2>3, <2>4, <2>6, <2>7
    <2> HIDE DEF s, b, d
    <2>9. s <= d
      BY <2>8
    <2> QED
      BY <2>1, <2>3, <2>9 DEF s, d
  <1>4. Sums(M, 60) /\ M[60] = 6420
    <2>1. \A k \in 0..60 : 28 * k + 395 * ((k + 4) \div 5) \in Int
      BY SMT
    <2>2. 28 * 0 + 395 * ((0 + 4) \div 5) = 0 /\ 28 * 60 + 395 * ((60 + 4) \div 5) = 6420
      BY SMT
    <2> QED
      BY <2>1, <2>2 DEF Sums
  <1>5. marks = [i \in 1..60 |-> marks[i]]
    OBVIOUS
  <1> HIDE DEF marks, M
  <1>6. marks \in Seq(Seq(Parts)) /\ Len(marks) = 60
    BY <1>3, <1>5, SequenceFacts
  <1>7. FlattenSeq(marks) \in Seq(Parts) /\ Size(FlattenSeq(marks)) <= 6420
    <2>1. Sums(M, Len(marks)) /\ \A i \in 1..Len(marks) : Size(marks[i]) <= M[i] - M[i - 1]
      BY <1>3, <1>4, <1>6
    <2>2. FlattenSeq(marks) \in Seq(Parts) /\ Size(FlattenSeq(marks)) <= M[Len(marks)]
      BY <1>6, <2>1, SizeGroups
    <2> QED
      BY <1>4, <1>6, <2>2
  <1>8. <<c1, c2>> \in Seq(Parts) /\ Size(<<c1, c2>>) <= 3460
    BY <1>2, SizeTwo
  <1> DEFINE circles == <<c1, c2>>
             rest == FlattenSeq(marks)
  <1>9. draw_static_clock_face = circles \o rest
    BY <1>1
  <1>10. /\ circles \in Seq(Parts) /\ Size(circles) <= 3460 /\ rest \in Seq(Parts)
         /\ Size(rest) <= 6420
    BY <1>7, <1>8
  <1> HIDE DEF circles, rest
  <1>11. Size(circles \o rest) <= Size(circles) + Size(rest) /\ circles \o rest \in Seq(Parts)
    BY <1>10, SizeConcat
  <1>12. Size(circles) \in Nat /\ Size(rest) \in Nat
    BY <1>10, SampledFacts
  <1>13. Size(draw_static_clock_face) \in Nat
    BY FaceFacts, SampledFacts
  <1> QED
    BY <1>9, <1>10, <1>11, <1>12, <1>13

\* The three hands.
LEMMA HandsLength ==
  ASSUME NEW t \in LocalTime
  PROVE  Size(Hands(t)) <= 1388
  <1> DEFINE sphi == seconds_phi(t)
             mphi == minutes_phi(t)
             hphi == hours_phi(t)
             inner == 16 * GLOBAL_SCALE - 1
             outer == 96 * GLOBAL_SCALE - 1
             a == radial_to_cartesian(sphi, inner)
             b == radial_to_cartesian(sphi, outer)
             second == Line(a, b)
             minute == Hand(mphi, 16, 40, Tenth, 80)
             hour == Hand(hphi, 16, 32, 3 * Tenth, 64)
  <1>1. Hands(t) = <<second, minute, hour>>
    BY DEF Hands
  <1>2. sphi \in Int /\ mphi \in Int /\ hphi \in Int
    BY PhiFacts
  <1> HIDE DEF sphi, mphi, hphi
  <1>3. second \in Parts /\ minute \in Parts /\ hour \in Parts
    <2> DEFINE parts == Hands(t)
    <2>1. parts \in Seq(Parts)
      BY HandsFacts
    <2>2. Len(parts) = 3 /\ parts[1] = second /\ parts[2] = minute /\ parts[3] = hour
      BY <1>1
    <2> HIDE DEF parts, second, minute, hour
    <2>3. \A k \in 1..Len(parts) : parts[k] \in Parts
      BY <2>1
    <2>4. parts[1] \in Parts /\ parts[2] \in Parts /\ parts[3] \in Parts
      BY <2>2, <2>3
    <2> QED
      BY <2>2, <2>4
  <1>4. Len(SamplesOf(second)) <= 320
    <2>1. inner \in Nat /\ outer \in Nat /\ Spans(160, inner, outer, 0)
      BY ScaleAssumption DEF Spans
    <2>2. inner <= 125 * GLOBAL_SCALE /\ outer <= 125 * GLOBAL_SCALE
      BY ScaleAssumption
    <2>3. Apiece(Sin(sphi), Sin(sphi), 0) /\ Apiece(Cos(sphi), Cos(sphi), 0)
      BY <1>2, SinFacts DEF Apiece
    <2> HIDE DEF inner, outer
    <2>4. Within(a, b, 160)
      BY <1>2, <2>1, <2>3, RadialNear
    <2>5. a \in Screen /\ b \in Screen
      BY <1>2, <2>1, <2>2, RadialOnScreen
    <2>6. SamplesOf(second) = AddPoints(Bresenham(a, b))
      BY DEF SamplesOf, AddLine, Line
    <2> HIDE DEF a, b, second
    <2> DEFINE line == Bresenham(a, b)
    <2>7. line \in Seq(Screen) /\ Len(line) <= 160
      BY <2>4, <2>5, LineLength
    <2> HIDE DEF line
    <2>8. AddPoints(line) \in Seq(Sample) /\ Len(AddPoints(line)) <= 2 * Len(line)
      BY <2>7, SampleFacts
    <2>9. Len(AddPoints(line)) <= 320
      BY <2>7, <2>8
    <2> QED
      BY <2>6, <2>9 DEF line
  <1> HIDE DEF second
  <1>5. Len(SamplesOf(minute)) <= 4 * (52 + 89)
    <2>1. Allows(1004, Tenth) /\ Tenth \in Nat
      BY DEF Allows, Tenth
    <2>2. /\ 16 * GLOBAL_SCALE \in Nat /\ 40 * GLOBAL_SCALE \in Nat /\ 80 * GLOBAL_SCALE \in Nat
          /\ Spans(52, 16 * GLOBAL_SCALE, 40 * GLOBAL_SCALE, 1004)
          /\ Spans(89, 40 * GLOBAL_SCALE, 80 * GLOBAL_SCALE, 1004)
      BY ScaleAssumption DEF Spans
    <2> QED
      BY <1>2, <1>3, <2>1, <2>2, HandLength
  <1>6. Len(SamplesOf(hour)) <= 4 * (42 + 84)
    <2>1. Allows(3010, 3 * Tenth) /\ 3 * Tenth \in Nat
      BY DEF Allows, Tenth
    <2>2. /\ 16 * GLOBAL_SCALE \in Nat /\ 32 * GLOBAL_SCALE \in Nat /\ 64 * GLOBAL_SCALE \in Nat
          /\ Spans(42, 16 * GLOBAL_SCALE, 32 * GLOBAL_SCALE, 3010)
          /\ Spans(84, 32 * GLOBAL_SCALE, 64 * GLOBAL_SCALE, 3010)
      BY ScaleAssumption DEF Spans
    <2> QED
      BY <1>2, <1>3, <2>1, <2>2, HandLength
  <1> HIDE DEF minute, hour
  <1> DEFINE sm == <<second, minute>>
             h == <<hour>>
  <1>7. sm \in Seq(Parts) /\ Size(sm) <= 320 + 564
    <2>1. Len(SamplesOf(minute)) <= 564
      BY <1>5
    <2> QED
      BY <1>3, <1>4, <2>1, SizeTwo
  <1>8. h \in Seq(Parts) /\ Size(h) <= 504
    <2>1. h \in Seq(Parts) /\ Size(h) <= Len(SamplesOf(hour))
      BY <1>3, SizeOne
    <2>2. SamplesOf(hour) \in Seq(Sample) /\ Size(h) \in Nat
      BY <1>3, <2>1, PartType, SampledFacts
    <2> DEFINE l == Len(SamplesOf(hour))
    <2>3. l \in Nat /\ Size(h) <= l /\ l <= 504
      BY <1>6, <2>1, <2>2
    <2> HIDE DEF l, h
    <2> QED
      BY <2>1, <2>2, <2>3
  <1>9. Hands(t) = sm \o h
    BY <1>1
  <1> HIDE DEF sm, h
  <1>10. Size(sm \o h) <= Size(sm) + Size(h)
    BY <1>7, <1>8, SizeConcat
  <1>11. Size(sm) \in Nat /\ Size(h) \in Nat
    BY <1>7, <1>8, SampledFacts
  <1>12. Size(Hands(t)) \in Nat
    BY HandsFacts, SampledFacts
  <1> QED
    BY <1>7, <1>8, <1>9, <1>10, <1>11, <1>12

\* The label.
LEMMA LabelLength ==
  ASSUME NEW t \in LocalTime, NEW p, Around(p)
  PROVE  Size(Label(t, p)) <= 885
  <1>1. t.day \in 1..31 /\ t.month \in 1..12
    BY DEF LocalTime
  <1>2. /\ Inside(<<p[1] - 40, p[2] + 15>>) /\ Inside(<<p[1] - 10, p[2] + 15>>)
        /\ Inside(<<p[1] + 25, p[2] - 15>>) /\ Inside(<<p[1], p[2]>>)
    <2>1. /\ p[1] \in Int /\ 85 * GLOBAL_SCALE <= p[1] /\ p[1] <= 175 * GLOBAL_SCALE
          /\ p[2] \in Int /\ 85 * GLOBAL_SCALE <= p[2] /\ p[2] <= 175 * GLOBAL_SCALE
      BY CenterFacts DEF Around
    <2> QED
      BY <2>1, ScaleAssumption DEF Inside
  <1> DEFINE d10 == t.day \div 10
             d1 == t.day % 10
             m == t.month
             ap == IF hour12(t).pm THEN 14 ELSE 13
             tens == DrawPictogram(d10, p[1] - 40, p[2] + 15)
             ones == DrawPictogram(d1, p[1] - 10, p[2] + 15)
             month == DrawPictogram(m, p[1] + 25, p[2] - 15)
             half == DrawPictogram(ap, p[1], p[2])
  <1>3. /\ d10 \in 0..14 /\ d1 \in 0..14 /\ m \in 0..14 /\ ap \in 0..14
        /\ d10 <= 12 /\ d1 <= 12 /\ m <= 12
    BY <1>1, SMT
  <1>4. Label(t, p) = IF ShowDate(t) THEN tens \o ones \o month ELSE half
    BY DEF Label
  <1> HIDE DEF d10, d1, m, ap
  <1>5. /\ tens \in Seq(Parts) /\ ones \in Seq(Parts) /\ month \in Seq(Parts)
        /\ half \in Seq(Parts)
    BY <1>2, <1>3, PictogramFacts
  <1>6. Size(tens) <= 295 /\ Size(ones) <= 295 /\ Size(month) <= 295 /\ Size(half) <= 471
    BY <1>2, <1>3, PictogramLength
  <1> HIDE DEF tens, ones, month, half
  <1>7. Size(tens) \in Nat /\ Size(ones) \in Nat /\ Size(month) \in Nat /\ Size(half) \in Nat
    BY <1>5, SampledFacts
  <1> DEFINE day == tens \o ones
  <1>8. day \in Seq(Parts) /\ Size(day) <= Size(tens) + Size(ones)
    BY <1>5, SizeConcat
  <1> HIDE DEF day
  <1>9. day \o month \in Seq(Parts) /\ Size(day \o month) <= Size(day) + Size(month)
    BY <1>5, <1>8, SizeConcat
  <1> DEFINE date == day \o month
  <1>10. Label(t, p) = IF ShowDate(t) THEN date ELSE half
    BY <1>4 DEF day
  <1>11. date \in Seq(Parts) /\ Size(date) <= Size(day) + Size(month)
    BY <1>9
  <1> HIDE DEF date
  <1>12. Size(day) \in Nat /\ Size(date) \in Nat
    BY <1>8, <1>11, SampledFacts
  <1>13. Size(date) <= 885 /\ Size(half) <= 885
    BY <1>6, <1>7, <1>8, <1>11, <1>12
  <1> QED
    BY <1>10, <1>13

(***************************************************************************)
(* The whole picture.                                                      *)
(***************************************************************************)
\* A picture is drawn at a local time, with its label at one of its places.
InvFace == local_time \in LocalTime /\ place \in LabelPlaces(local_time)

\* InvFace is an invariant of the clock face.
LEMMA InvFaceHolds == Spec => []InvFace
  <1>1. Init => place \in LabelPlaces(local_time)
    BY DEF Init
  <1>2. place \in LabelPlaces(local_time) /\ [Next]_vars => (place \in LabelPlaces(local_time))'
    <2> SUFFICES ASSUME place \in LabelPlaces(local_time), [Next]_vars
                 PROVE  place' \in LabelPlaces(local_time')
      BY Zenon
    <2>1. CASE Next
      BY <2>1, Zenon DEF Next, DrawDynamicParts
    <2>2. CASE UNCHANGED vars
      BY <2>2, Zenon DEF vars
    <2> QED
      BY <2>1, <2>2
  <1>3. Init => TimeInit
    BY DEF Init
  <1>4. [Next]_vars => [TimeNext]_local_time
    BY DEF Next, DrawDynamicParts, TimeNext, vars
  <1>5. Spec => TimeSpec
    BY <1>3, <1>4, PTL DEF Spec, TimeSpec
  <1>6. TimeSpec => [](local_time \in LocalTime)
    BY LocalTimeHolds DEF InDay
  <1>7. Spec => [](place \in LabelPlaces(local_time))
    BY <1>1, <1>2, PTL DEF Spec
  <1> QED
    BY <1>5, <1>6, <1>7, PTL DEF InvFace

\* What is drawn then consists of strokes that can be seen.
LEMMA PictureFacts ==
  ASSUME InvFace
  PROVE  DynamicParts \in Seq(Parts)
  <1>1. Hands(local_time) \in Seq(Parts)
    BY HandsFacts DEF InvFace
  <1>2. Label(local_time, place) \in Seq(Parts)
    BY PlaceFacts, LabelFacts DEF InvFace
  <1> QED
    BY <1>1, <1>2, ConcatFacts DEF DynamicParts

\* And each of them has what all such strokes have.
LEMMA PartsFacts ==
  ASSUME NEW parts \in Seq(Parts), NEW n \in DOMAIN parts
  PROVE  /\ Drawable(parts[n], SamplesOf(parts[n])) /\ Smooth(parts[n], SamplesOf(parts[n]))
         /\ Complete(parts[n], SamplesOf(parts[n]))
  <1>1. parts[n] \in Parts
    OBVIOUS
  <1>2. Visible(parts[n])
    BY <1>1 DEF Parts
  <1> QED
    BY <1>2, VisibleFacts

\* Every stroke of every picture, of its face, of the hands at that time and
\* of the label, has samples, and every corner of it is on the screen: what
\* update_frame sends is never empty, and no cast of a coordinate truncates
\* it.
THEOREM AllIsOnScreen == Spec => []PartsDrawable
  <1>1. StaticDrawable
    BY FaceFacts, PartsFacts, Zenon DEF StaticDrawable, EachStroke, StaticSamples
  <1>2. InvFace => PartsDrawable
    <2> SUFFICES ASSUME InvFace
                 PROVE  EachDynamic(Drawable)
      BY <1>1 DEF PartsDrawable
    <2> QED
      BY PictureFacts, PartsFacts, Zenon DEF EachDynamic, EachStroke, DynamicSamples
  <1> QED
    BY <1>2, InvFaceHolds, PTL

\* And in none of them the beam jumps where it is lit: from sample to sample
\* each DAC moves by at most one step.
THEOREM BeamNeverJumps == Spec => []LitBeamNeverJumps
  <1>1. StaticSmooth
    BY FaceFacts, PartsFacts, Zenon DEF StaticSmooth, EachStroke, StaticSamples
  <1>2. InvFace => LitBeamNeverJumps
    <2> SUFFICES ASSUME InvFace
                 PROVE  EachDynamic(Smooth)
      BY <1>1 DEF LitBeamNeverJumps
    <2> QED
      BY PictureFacts, PartsFacts, Zenon DEF EachDynamic, EachStroke, DynamicSamples
  <1> QED
    BY <1>2, InvFaceHolds, PTL

\* And the beam visits every corner of each of them, also of those whose
\* rounded points coincide; only an open stroke stops short of its last one.
THEOREM EveryCornerVisited == Spec => []VerticesVisited
  <1>1. StaticComplete
    BY FaceFacts, PartsFacts, Zenon DEF StaticComplete, EachStroke, StaticSamples
  <1>2. InvFace => VerticesVisited
    <2> SUFFICES ASSUME InvFace
                 PROVE  EachDynamic(Complete)
      BY <1>1 DEF VerticesVisited
    <2> QED
      BY PictureFacts, PartsFacts, Zenon DEF EachDynamic, EachStroke, DynamicSamples
  <1> QED
    BY <1>2, InvFaceHolds, PTL

\* No picture, with its rest point, is longer than the buffer that main.rs
\* gives it, at whatever time it is drawn: add_raw_point never panics.
THEOREM PictureAlwaysFits ==
  ASSUME TxBytes \in Nat, TxBytes >= 50000
  PROVE  Spec => []PictureFits
  <1>1. StaticCount = Size(draw_static_clock_face)
    BY DEF StaticCount, StaticSamples, Size, Sampled
  <1>2. StaticCount \in Nat /\ StaticCount <= 9880
    BY <1>1, FaceFacts, FaceLength, SampledFacts
  <1>3. InvFace => PictureFits
    <2> SUFFICES ASSUME InvFace
                 PROVE  PictureFits
      OBVIOUS
    <2> DEFINE hands == Hands(local_time)
               label == Label(local_time, place)
    <2>1. hands \in Seq(Parts) /\ Size(hands) <= 1388
      BY HandsFacts, HandsLength DEF InvFace
    <2>2. label \in Seq(Parts) /\ Size(label) <= 885
      BY PlaceFacts, LabelFacts, LabelLength DEF InvFace
    <2>3. DynamicParts = hands \o label
      BY DEF DynamicParts
    <2> HIDE DEF hands, label
    <2>4. Size(DynamicParts) <= Size(hands) + Size(label)
      BY <2>1, <2>2, <2>3, SizeConcat
    <2>5. Size(hands) \in Nat /\ Size(label) \in Nat
      BY <2>1, <2>2, SampledFacts
    <2>6. Size(DynamicParts) \in Nat
      BY PictureFacts, SampledFacts
    <2>7. Count(DynamicSamples) = Size(DynamicParts)
      BY DEF DynamicSamples, Size, Sampled
    <2>8. 4 * (StaticCount + Count(DynamicSamples) + 1) <= 50000
      BY <1>2, <2>1, <2>2, <2>4, <2>5, <2>6, <2>7
    <2>9. 4 * (StaticCount + Count(DynamicSamples) + 1) \in Int
      BY <1>2, <2>6, <2>7
    <2> QED
      BY <2>8, <2>9 DEF PictureFits
  <1> QED
    BY <1>3, InvFaceHolds, PTL
=============================================================================
