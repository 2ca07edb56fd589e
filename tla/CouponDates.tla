---------------------------- MODULE CouponDates ----------------------------
(***************************************************************************)
(* The dates of one coupon, from the mail that prints them to the screens: *)
(* the parser of expiry dates, the verdict, the time of the reminder and   *)
(* its wording, the filters of the coupon list, and the app's badge.       *)
(* Instants are hours of UTC, days are counted as Date.UTC counts them,    *)
(* and four places turn one into the other, each in a zone of its own.     *)
(***************************************************************************)
EXTENDS Integers, Sequences, FiniteSetsExt

CONSTANTS
    Texts,          \* what the mail may print
    Starts,         \* hours at which it may be received
    ServerOffset,   \* hours the server's zone is ahead of UTC (containers: 0)
    DeviceOffset,   \* hours the phone's zone is ahead of UTC
    ClockStep,      \* hours the clock advances at a time
    Horizon         \* bound: hours followed after the mail was received

NoYear == 0
NoDay  == 0
NoHour == 0
KST_OFFSET == 9
REMINDER_HOUR_KST == 9
MAX_EXPIRY_DAYS_AHEAD  == 365
MAX_EXPIRY_DAYS_BEHIND == 1
EXPIRING_WITHIN_DAYS   == 3

(* A date as printed.  `until`: a yearless pattern matches its month and     *)
(* day, as in 2026.12.25 or a Korean date, followed by the word for "until". *)
PrintedDate == [year: Nat, month: Nat, day: Nat, until: BOOLEAN]

ASSUME DatesAssumption ==
    /\ Texts \subseteq Seq(PrintedDate)
    /\ Starts \subseteq Nat \ (0 .. 23)    \* a day of the calendar in every zone
    /\ ServerOffset \in -12..14 /\ DeviceOffset \in -12..14
    /\ ClockStep \in Nat \ {0} /\ Horizon \in Nat

-----------------------------------------------------------------------------
(* The Gregorian calendar, and Date.UTC in days.                             *)
IsLeap(y) == y % 4 = 0 /\ (y % 100 # 0 \/ y % 400 = 0)
MonthLength(y, m) == IF m = 2 THEN IF IsLeap(y) THEN 29 ELSE 28
                     ELSE IF m \in {4, 6, 9, 11} THEN 30 ELSE 31
DaysBeforeMonth == <<0, 31, 59, 90, 120, 151, 181, 212, 243, 273, 304, 334>>
DaysBeforeYear(y) == 365 * y + (y - 1) \div 4 - (y - 1) \div 100 + (y - 1) \div 400

\* A day outside the month counts on into its neighbours.
DateUTC(y, m, d) == DaysBeforeYear(y) + DaysBeforeMonth[m]
                    + (IF m > 2 /\ IsLeap(y) THEN 1 ELSE 0) + d
YearOf(day) == CHOOSE y \in day \div 367 .. day \div 364 :
                  DateUTC(y, 1, 1) <= day /\ day < DateUTC(y + 1, 1, 1)

DayIn(offset, hour) == (hour + offset) \div 24
KstDay(hour) == DayIn(KST_OFFSET, hour)

-----------------------------------------------------------------------------
(* date-parser.ts                                                            *)
\* Mutant: a month has 31 days.
IsMonthAndDay(y, m, d) == m \in 1..12 /\ d \in 1..31

IsValidYmd(y, m, d) == m \in 1..12 /\ d \in 1..MonthLength(y, m)

IsPlausibleExpiry(day, base) ==
    day - base \in - MAX_EXPIRY_DAYS_BEHIND .. MAX_EXPIRY_DAYS_AHEAD

ReadDated(p) ==
    IF p.year # NoYear /\ IsValidYmd(p.year, p.month, p.day)
    THEN DateUTC(p.year, p.month, p.day) ELSE NoDay

InferYear(p, base) ==
    LET fits(y) == /\ IsValidYmd(y, p.month, p.day)
                   /\ DateUTC(y, p.month, p.day) - base >= - MAX_EXPIRY_DAYS_BEHIND
        year == YearOf(base)
    IN  IF fits(year) THEN DateUTC(year, p.month, p.day)
        ELSE IF fits(year + 1) THEN DateUTC(year + 1, p.month, p.day)
        ELSE NoDay

ReadYearless(p, base) ==
    IF p.year = NoYear \/ p.until THEN InferYear(p, base) ELSE NoDay

\* A text lists its dates in the order the patterns find them; those with a
\* year are tried before those without.
ParseExpiryDate(text, base) ==
    LET read(i) == IF i <= Len(text) THEN ReadDated(text[i])
                   ELSE ReadYearless(text[i - Len(text)], base)
        found   == {i \in 1 .. 2 * Len(text) :
                       read(i) # NoDay /\ IsPlausibleExpiry(read(i), base)}
    IN  IF found = {} THEN NoDay ELSE read(Min(found))

-----------------------------------------------------------------------------
(* validity-checker, expiry-reminder, notification-message                   *)
\* Mutant: the server's day, not Korea's.
VerdictByServerDay(expiry, hour) ==
    IF expiry = NoDay THEN "extraction_failed"
    ELSE IF expiry < DayIn(ServerOffset, hour) THEN "expired"
    ELSE "usable"

VerdictOn(expiry, hour) ==
    IF expiry = NoDay THEN "extraction_failed"
    ELSE IF expiry < KstDay(hour) THEN "expired"
    ELSE "usable"

ReminderHour(expiry) == 24 * (expiry - 1) + REMINDER_HOUR_KST - KST_OFFSET

\* Mutant: nine o'clock of UTC.
ReminderTimeUTC(expiry, hour) ==
    LET at == 24 * (expiry - 1) + REMINDER_HOUR_KST IN IF at > hour THEN at ELSE NoHour

ExpiryReminderTime(expiry, hour) ==
    IF ReminderHour(expiry) > hour THEN ReminderHour(expiry) ELSE NoHour

DaysUntilExpiry(expiry, hour) == expiry - KstDay(hour)

Phrase(days) == IF days <= 0 THEN "today" ELSE IF days = 1 THEN "tomorrow" ELSE "later"

-----------------------------------------------------------------------------
VARIABLES
    now,        \* the hour
    received, text,
    outcome,    \* the mail: "received", "held", "discarded" or "coupon"
    expiry,     \* the coupon's last day
    judged,     \* history: hour of the verdict
    reminder,   \* hour the reminder task is scheduled for
    said        \* the reminder's phrase ("today", "tomorrow", "later"), and the hour it was sent

datesVars == <<now, received, text, outcome, expiry, judged, reminder, said>>

Unsaid  == [phrase |-> "none", at |-> NoHour]

DatesInit ==
    /\ now \in Starts /\ received = now
    /\ text \in Texts
    /\ outcome = "received" /\ expiry = NoDay /\ judged = NoHour
    /\ reminder = NoHour /\ said = Unsaid

PassHours ==
    /\ now + ClockStep <= received + Horizon
    /\ now' = now + ClockStep
    /\ UNCHANGED <<received, text, outcome, expiry, judged, reminder, said>>

\* CouponClassifyService.handle, its dates: extraction, verdict, coupon and
\* reminder, all of the hour the handler starts.
Classify ==
    /\ outcome = "received"
    /\ LET parsed  == ParseExpiryDate(text, DayIn(ServerOffset, received))
           verdict == VerdictOn(parsed, now)
       IN  \/ /\ verdict = "extraction_failed"
              /\ outcome' = "held" /\ UNCHANGED <<expiry, reminder>>
           \/ /\ verdict = "expired"
              /\ outcome' = "discarded" /\ UNCHANGED <<expiry, reminder>>
           \/ /\ verdict = "usable"
              /\ outcome' = "coupon" /\ expiry' = parsed
              /\ reminder' = ExpiryReminderTime(parsed, now)
    /\ judged' = now
    /\ UNCHANGED <<now, received, text, said>>

\* The reminder task, on time or late: a full queue and retries delay it.
Remind ==
    /\ reminder # NoHour /\ now >= reminder /\ said = Unsaid
    /\ said' = [phrase |-> Phrase(DaysUntilExpiry(expiry, now)), at |-> now]
    /\ UNCHANGED <<now, received, text, outcome, expiry, judged, reminder>>

DatesNext == PassHours \/ Classify \/ Remind

DatesSpec == DatesInit /\ [][DatesNext]_datesVars

-----------------------------------------------------------------------------
\* Mutant: the list's today is the server's.
ListedByServerDay(filter) ==
    LET today == DayIn(ServerOffset, now)
    IN  /\ outcome = "coupon"
        /\ \/ filter = "active"   /\ expiry >= today
           \/ filter = "expiring" /\ expiry >= today /\ expiry <= today + EXPIRING_WITHIN_DAYS
           \/ filter = "expired"  /\ expiry < today

(* The screens: GET /coupons with a filter, and the badge on a card.  The    *)
(* status of a coupon is "active" from its creation on.                      *)
Listed(filter) ==
    LET today == KstDay(now)
    IN  /\ outcome = "coupon"
        /\ \/ filter = "active"   /\ expiry >= today
           \/ filter = "expiring" /\ expiry >= today /\ expiry <= today + EXPIRING_WITHIN_DAYS
           \/ filter = "expired"  /\ expiry < today

DaysLeft == expiry - DayIn(DeviceOffset, now)

-----------------------------------------------------------------------------
(* The expiry of a coupon is a day the calendar has, whose month and day the *)
(* mail prints, from the day before the mail was received to 365 days after  *)
(* it: no 30th of February rolls over into March, and no 29th is looked for  *)
(* two years ahead.                                                          *)
ExpiryIsPrinted ==
    outcome = "coupon" =>
        /\ expiry - DayIn(ServerOffset, received) \in -1..365
        /\ LET y == YearOf(expiry)
           IN  \E i \in DOMAIN text :
                  /\ text[i].month \in 1..12 /\ text[i].day <= MonthLength(y, text[i].month)
                  /\ expiry = DateUTC(y, text[i].month, text[i].day)

(* The verdict and the coupon list agree on what day it is: a new coupon is  *)
(* listed as usable, and none is thrown away that the list would still show. *)
JudgedLikeListed ==
    /\ outcome = "coupon" /\ now = judged => Listed("active")
    /\ outcome = "discarded" =>
          KstDay(judged) > ParseExpiryDate(text, DayIn(ServerOffset, received))

(* A reminder sent within its day (15 hours are left of it) says "tomorrow", *)
(* when the list shows the coupon as about to expire.  The first of a month  *)
(* has its reminder in the month before.                                     *)
ReminderSaysTomorrow ==
    said # Unsaid /\ said.at < reminder + 15 =>
        /\ said.phrase = "tomorrow"
        /\ now = said.at => Listed("expiring") /\ expiry = KstDay(now) + 1

(* On a phone in Korea the badge of every card fits the tab it is listed in. *)
BadgeFitsTab ==
    DeviceOffset = KST_OFFSET /\ outcome = "coupon" =>
        /\ Listed("expired") <=> DaysLeft < 0
        /\ Listed("active") <=> DaysLeft >= 0
        /\ Listed("expiring") <=> DaysLeft \in 0..EXPIRING_WITHIN_DAYS

=============================================================================
