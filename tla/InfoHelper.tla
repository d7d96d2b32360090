------------------------------ MODULE InfoHelper ------------------------------
(***************************************************************************)
(* client/source/InfoHelper.cpp: the remaining time and the percentage of  *)
(* a download as the window shows them.  Pure functions of a status, which *)
(* TorrentAPI::getInfo calls.  Numbers are those that libtorrent reports:  *)
(* their products stay far below 2^63.  A part of a time that is 0 is not  *)
(* printed, except the seconds.                                            *)
(***************************************************************************)
EXTENDS Arithmetic

DAY    == 24 * 60 * 60
HOUR   == 60 * 60
MINUTE == 60

CONVERT_LT_PPM == 10000

\* How many times the time for unit bytes is printed, and the bytes that remain.
Part(remain, unit) ==
  [count |-> IF remain >= unit THEN remain \div unit ELSE 0,
   rest  |-> IF remain >= unit THEN remain % unit ELSE remain]

\* remain bytes at speed bytes per second.
endTime(remain, speed) ==
  LET d == Part(remain, speed * DAY)
      h == Part(d.rest, speed * HOUR)
      m == Part(h.rest, speed * MINUTE)
  IN  IF speed = 0 THEN [d |-> 999, h |-> 0, m |-> 0, sec |-> 0]
      ELSE [d |-> d.count, h |-> h.count, m |-> m.count, sec |-> m.rest \div speed]

getPercentDownloadedSize(progress_ppm) == progress_ppm \div CONVERT_LT_PPM

------------------------------------------------------------------------------
(* Theorems. *)

\* Nothing is lost by taking a part, though a part that is 0 is not divided for.
LEMMA PartIsDivision ==
  ASSUME NEW remain \in Nat, NEW unit \in Nat \ {0}
  PROVE  LET part == Part(remain, unit)
         IN  /\ part.count \in Nat /\ part.rest \in Nat
             /\ part.rest < unit
             /\ remain = unit * part.count + part.rest
<1>1. CASE remain >= unit
  BY <1>1, Division DEF Part
<1>2. CASE remain < unit
  BY <1>2 DEF Part
<1> QED BY <1>1, <1>2

\* The time that is shown is the number of whole seconds that the rest takes:
\* days, hours, minutes and seconds add up to it, each below its limit, at
\* every boundary (InfoHelper.cpp:31-43).
THEOREM EndTimeAddsUp ==
  ASSUME NEW remain \in Nat, NEW speed \in Nat \ {0}
  PROVE  LET t == endTime(remain, speed)
         IN  /\ t.d * DAY + t.h * HOUR + t.m * MINUTE + t.sec = remain \div speed
             /\ t.h < 24 /\ t.m < 60 /\ t.sec < 60
<1> DEFINE d == Part(remain, speed * DAY)
           h == Part(d.rest, speed * HOUR)
           m == Part(h.rest, speed * MINUTE)
           sec == m.rest \div speed
           total == d.count * DAY + h.count * HOUR + m.count * MINUTE + sec
<1>1. speed * DAY \in Nat \ {0} /\ speed * HOUR \in Nat \ {0} /\ speed * MINUTE \in Nat \ {0}
  BY DEF DAY, HOUR, MINUTE
<1>2. /\ d.count \in Nat /\ d.rest \in Nat /\ d.rest < speed * DAY
      /\ remain = speed * DAY * d.count + d.rest
  BY <1>1, PartIsDivision
<1>3. /\ h.count \in Nat /\ h.rest \in Nat /\ h.rest < speed * HOUR
      /\ d.rest = speed * HOUR * h.count + h.rest
  BY <1>1, <1>2, PartIsDivision
<1>4. /\ m.count \in Nat /\ m.rest \in Nat /\ m.rest < speed * MINUTE
      /\ h.rest = speed * MINUTE * m.count + m.rest
  BY <1>1, <1>3, PartIsDivision
<1>5. /\ sec \in Nat /\ m.rest % speed \in 0..speed-1
      /\ m.rest = speed * sec + (m.rest % speed)
  BY <1>4, Division
<1>6. endTime(remain, speed) = [d |-> d.count, h |-> h.count, m |-> m.count, sec |-> sec]
  BY DEF endTime
<1> HIDE DEF d, h, m, sec
<1>7. h.count < 24
  <2>1. (speed * HOUR) * h.count < (speed * HOUR) * 24
    BY <1>1, <1>2, <1>3 DEF DAY, HOUR
  <2> QED BY <2>1, <1>1, <1>3, QuotientIsLess
<1>8. m.count < 60
  <2>1. (speed * MINUTE) * m.count < (speed * MINUTE) * 60
    BY <1>1, <1>3, <1>4 DEF HOUR, MINUTE
  <2> QED BY <2>1, <1>1, <1>4, QuotientIsLess
<1>9. sec < 60
  <2>1. speed * sec < speed * 60
    BY <1>4, <1>5 DEF MINUTE
  <2> QED BY <2>1, <1>5, QuotientIsLess
<1>10. total \in Nat /\ remain = speed * total + (m.rest % speed)
  <2> DEFINE a == d.count * DAY
             b == h.count * HOUR
             c == m.count * MINUTE
             r == m.rest % speed
  <2>1. a \in Nat /\ b \in Nat /\ c \in Nat /\ r \in Nat
    BY <1>2, <1>3, <1>4, <1>5 DEF DAY, HOUR, MINUTE
  <2>2. /\ (speed * DAY) * d.count = speed * a
        /\ (speed * HOUR) * h.count = speed * b
        /\ (speed * MINUTE) * m.count = speed * c
    BY <1>2, <1>3, <1>4 DEF DAY, HOUR, MINUTE
  <2>3. remain = speed * a + (speed * b + (speed * c + (speed * sec + r)))
    BY <1>2, <1>3, <1>4, <1>5, <2>2
  <2> HIDE DEF a, b, c, r
  <2>4. speed * (a + b + c + sec) = speed * a + speed * b + speed * c + speed * sec
    BY <1>5, <2>1
  <2>5. speed * a \in Nat /\ speed * b \in Nat /\ speed * c \in Nat /\ speed * sec \in Nat
    BY <1>5, <2>1
  <2>6. remain = speed * (a + b + c + sec) + r /\ a + b + c + sec \in Nat
    BY <1>5, <2>1, <2>3, <2>4, <2>5
  <2> QED BY <2>6 DEF a, b, c, r
<1>11. remain \div speed = total
  BY <1>10, <1>5, QuotientIsUnique
<1> QED BY <1>6, <1>7, <1>8, <1>9, <1>11

\* A percent is some parts per million.
LEMMA PercentHasParts == CONVERT_LT_PPM \in Nat \ {0}
BY SMT DEF CONVERT_LT_PPM

\* A row says 100, by which it becomes finished (mainwindow.cpp:399), exactly
\* when all parts per million are there: the percentage is never rounded up.
THEOREM FullOnlyAtTheEnd ==
  ASSUME NEW progress_ppm \in 0..100 * CONVERT_LT_PPM
  PROVE  /\ getPercentDownloadedSize(progress_ppm) \in 0..100
         /\ getPercentDownloadedSize(progress_ppm) = 100 <=> progress_ppm = 100 * CONVERT_LT_PPM
<1> DEFINE percent == progress_ppm \div CONVERT_LT_PPM
           rest    == progress_ppm % CONVERT_LT_PPM
<1>1. CONVERT_LT_PPM \in Nat \ {0}
  BY PercentHasParts
<1>2. progress_ppm \in Nat
  BY <1>1
<1>3. percent \in Nat /\ rest \in 0..CONVERT_LT_PPM-1 /\ progress_ppm = CONVERT_LT_PPM * percent + rest
  BY <1>1, <1>2, Division
<1> HIDE DEF percent, rest
<1>4. percent < 101
  <2>1. CONVERT_LT_PPM * percent < CONVERT_LT_PPM * 101
    BY <1>1, <1>3
  <2> QED BY <2>1, <1>1, <1>3, QuotientIsLess
<1>5. ASSUME percent = 100 PROVE progress_ppm = 100 * CONVERT_LT_PPM
  BY <1>1, <1>3, <1>5
<1>6. ASSUME progress_ppm = 100 * CONVERT_LT_PPM PROVE percent = 100
  BY <1>1, <1>6, QuotientIsUnique DEF percent
<1>7. getPercentDownloadedSize(progress_ppm) = percent
  BY DEF getPercentDownloadedSize, percent
<1> QED BY <1>3, <1>4, <1>5, <1>6, <1>7
==============================================================================
