---------------------------- MODULE MCCouponDates ----------------------------
(* Instances of CouponDates for TLC: days around a new year, a leap day and  *)
(* the end of a month.                                                       *)
EXTENDS CouponDates

At(y, m, d, hour) == 24 * DateUTC(y, m, d) + hour

\* 15:00 UTC is midnight in Korea, 00:00 UTC the hour of reminders.
Hours == {0, 12, 15, 21}
Days  == {<<2026, 9, 29>>, <<2026, 12, 30>>, <<2026, 12, 31>>, <<2027, 1, 1>>,
          <<2027, 2, 27>>, <<2027, 2, 28>>, <<2027, 3, 1>>, <<2028, 2, 27>>, <<2028, 2, 28>>}
AllStarts == {At(d[1], d[2], d[3], hour) : d \in Days, hour \in Hours}

Dated(y, m, d) == [year |-> y, month |-> m, day |-> d, until |-> FALSE]
Until(y, m, d) == [Dated(y, m, d) EXCEPT !.until = TRUE]
MonthDay(m, d) == Dated(NoYear, m, d)

MonthDays == {<<9, 30>>, <<10, 1>>, <<12, 30>>, <<12, 31>>, <<1, 1>>, <<1, 2>>,
              <<2, 27>>, <<2, 28>>, <<2, 29>>, <<2, 30>>, <<3, 1>>, <<3, 2>>, <<13, 1>>, <<0, 5>>}
Single == {<<MonthDay(d[1], d[2])>> : d \in MonthDays}
       \cup {<<Dated(y, d[1], d[2])>> : y \in {2027, 2028}, d \in MonthDays}
       \cup {<<Until(y, d[1], d[2])>> : y \in {2026, 2030}, d \in {<<12, 31>>, <<2, 29>>, <<3, 1>>}}
\* An order number read as a date, then the date itself; and no date at all.
Double == {<<Dated(1234, 5, 6), MonthDay(d[1], d[2])>> : d \in {<<1, 1>>, <<2, 29>>, <<3, 1>>}}
       \cup {<<MonthDay(12, 31), Dated(2027, 1, 2)>>}
AllTexts == Single \cup Double \cup {<<>>}

=============================================================================
