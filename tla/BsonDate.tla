------------------------------- MODULE BsonDate -------------------------------
(***************************************************************************)
(* Dates in JSON: _bson_iso8601_date_parse (bson-iso8601.c) reads the text  *)
(* of a date, and _bson_timegm (bson-timegm.c, of the tz database) looks    *)
(* for the second that bears it, by halving the range of time_t.  Only UTC  *)
(* is loaded, without leap seconds, so all that concerns other zones is     *)
(* idle.  Text is the sequence of its bytes.  A broken-down time has the    *)
(* members of struct tm, with month counted from 0 and year from 1900.      *)
(***************************************************************************)
EXTENDS Integers, Sequences, FiniteSetsExt

CONSTANTS
  TimeMin, TimeMax,  \* time_t_min and time_t_max
  Texts              \* what is read as a date

\* time_t has 32 bits or more, in two's complement.
ASSUME DateAssumption ==
  /\ TimeMax \in Nat /\ TimeMax >= 2147483647 /\ TimeMin = - TimeMax - 1
  /\ Texts \subseteq Seq(0 .. 255)

VARIABLES
  date   \* the date that is being read, see Begin

SECSPERMIN == 60
SECSPERHOUR == 3600
SECSPERDAY == 86400
TM_YEAR_BASE == 1900
EPOCH_YEAR == 1970
EPOCH_WDAY == 4
WRONG == -1

-----------------------------------------------------------------------------
(* The text.                                                               *)

\* A token: where it begins, its length, what follows it, and whether it ended at
\* one of the terminals.
Piece(at, len, next, found) == [at |-> at, len |-> len, next |-> next, found |-> found]

get_tok(text, terminals, from) ==
  LET ends == {i \in from .. Len(text) : text[i] \in terminals}
  IN  IF ends = {} THEN Piece(from, Len(text) + 1 - from, Len(text) + 1, FALSE)
      ELSE Piece(from, Min(ends) - from, Min(ends) + 1, TRUE)

NoToken(from) == Piece(from, 0, from, FALSE)

digits_only(s) == \A i \in DOMAIN s : s[i] \in 48 .. 57

NumberOf(s) ==
  LET value[i \in 0 .. Len(s)] == IF i = 0 THEN 0 ELSE 10 * value[i - 1] + s[i] - 48
  IN  value[Len(s)]

\* digits is negative for any number of them.
parse_num(s, digits, min, max) ==
  /\ digits >= 0 => Len(s) = digits
  /\ digits_only(s)
  /\ NumberOf(s) \in min .. max

Minus == 45
Plus == 43
Colon == 58
Dot == 46
LetterT == 84
LetterZ == 90

\* The byte that ended a token; a token at the end of the text is followed by a quote.
EndOf(text, tok) == IF tok.at + tok.len <= Len(text) THEN text[tok.at + tok.len] ELSE 34

\* The tokens of a date; without a time zone, its last character is taken for one.
YearToken(text) == get_tok(text, {Minus}, 1)
MonthToken(text) == get_tok(text, {Minus}, YearToken(text).next)
DayToken(text) == get_tok(text, {LetterT}, MonthToken(text).next)
HourToken(text) == get_tok(text, {Colon}, DayToken(text).next)
MinToken(text) == get_tok(text, {Colon, Plus, Minus, LetterZ}, HourToken(text).next)
SecToken(text) ==
  IF EndOf(text, MinToken(text)) = Colon THEN get_tok(text, {Dot, Plus, Minus, LetterZ}, MinToken(text).next)
  ELSE NoToken(MinToken(text).next)
MillisToken(text) ==
  IF SecToken(text).len # 0 /\ EndOf(text, SecToken(text)) = Dot
  THEN get_tok(text, {Plus, Minus, LetterZ}, SecToken(text).next) ELSE NoToken(SecToken(text).next)
ZoneToken(text) == get_tok(text, {}, MillisToken(text).next - 1)

Tokens(text) ==
  [year |-> YearToken(text), month |-> MonthToken(text), day |-> DayToken(text), hour |-> HourToken(text),
   min |-> MinToken(text), sec |-> SecToken(text), millis |-> MillisToken(text), tz |-> ZoneToken(text)]

\* The text is split as a date is: every part but seconds and milliseconds is
\* there, and these are not empty when they are announced.
Splits(text, t) ==
  /\ t.year.found /\ t.month.found /\ t.day.found /\ t.hour.found /\ t.min.found
  /\ EndOf(text, t.min) = Colon => (Len(text) + 1 - t.min.next >= 2 /\ t.sec.len # 0)
  /\ (t.sec.len # 0 /\ EndOf(text, t.sec) = Dot)
       => (Len(text) + 1 - t.sec.next >= 2 /\ t.millis.len # 0)

Of(text, tok) == SubSeq(text, tok.at, tok.at + tok.len - 1)

\* Z, or a sign, two digits of hours and two of minutes.
IsZone(tz) ==
  \/ tz = <<>>
  \/ tz = <<LetterZ>>
  \/ /\ tz[1] \in {Plus, Minus} /\ Len(tz) = 5 /\ digits_only(Tail(tz))
     /\ parse_num(SubSeq(tz, 2, 3), -1, -23, 23) /\ parse_num(SubSeq(tz, 4, 5), -1, 0, 59)

\* Slip: the sign of the zone is the sign of what is added.
tz_adjustment_reversed(tz) ==
  IF Len(tz) # 5 THEN 0
  ELSE (IF tz[1] = Minus THEN -1 ELSE 1)
         * (NumberOf(SubSeq(tz, 4, 5)) * 60 + NumberOf(SubSeq(tz, 2, 3)) * 3600)

tz_adjustment(tz) ==
  IF Len(tz) # 5 THEN 0
  ELSE (IF tz[1] = Minus THEN 1 ELSE -1)
         * (NumberOf(SubSeq(tz, 4, 5)) * 60 + NumberOf(SubSeq(tz, 2, 3)) * 3600)

\* A fraction of one, two or three digits.
Millis(s) ==
  CASE Len(s) = 1 -> 100 * NumberOf(s)
    [] Len(s) = 2 -> 10 * NumberOf(s)
    [] OTHER -> NumberOf(s)

\* The fields are numbers, each in its range; the days of the month are not counted.
FieldsAccepted(text, t) ==
  /\ parse_num(Of(text, t.year), 4, 1969, 9999)
  /\ parse_num(Of(text, t.month), 2, 1, 12)
  /\ parse_num(Of(text, t.day), 2, 1, 31)
  /\ parse_num(Of(text, t.hour), 2, 0, 23)
  /\ parse_num(Of(text, t.min), 2, 0, 59)
  /\ t.sec.len # 0 => parse_num(Of(text, t.sec), 2, 0, 60)
  /\ IsZone(Of(text, t.tz))
  /\ t.millis.len > 0 => (t.millis.len <= 3 /\ digits_only(Of(text, t.millis)))

\* The broken-down time of the text.
posix_date(text, t) ==
  [year |-> NumberOf(Of(text, t.year)) - TM_YEAR_BASE, mon |-> NumberOf(Of(text, t.month)) - 1,
   mday |-> NumberOf(Of(text, t.day)), hour |-> NumberOf(Of(text, t.hour)),
   min |-> NumberOf(Of(text, t.min)), sec |-> NumberOf(Of(text, t.sec))]

-----------------------------------------------------------------------------
(* Calendar arithmetic.                                                    *)

\* Division of C, which rounds to zero; b is positive.
Quotient(a, b) == IF a >= 0 THEN a \div b ELSE (a + (b - 1)) \div b

isleap(y) == (y % 4) = 0 /\ ((y % 100) # 0 \/ (y % 400) = 0)

year_length(y) == IF isleap(y) THEN 366 ELSE 365

mon_lengths(y) == <<31, IF isleap(y) THEN 29 ELSE 28, 31, 30, 31, 30, 31, 31, 30, 31, 30, 31>>

\* The leap years from year 1 to y.
leaps_thru_end_of(y) == y \div 4 - y \div 100 + y \div 400

\* The year in which the day at[2], counted from the first of January of year at[1],
\* lies, and what day of it that is: y jumps by years of 366 days until the day is in it.
YearOf[at \in Int \X Int] ==
  LET y == at[1]
      tdays == at[2]
      tdelta == Quotient(tdays, 366)
      newy == y + (IF tdelta # 0 THEN tdelta ELSE IF tdays < 0 THEN -1 ELSE 1)
      leapdays == leaps_thru_end_of(newy - 1) - leaps_thru_end_of(y - 1)
  IN  IF tdays >= 0 /\ tdays < year_length(y) THEN [year |-> y, yday |-> tdays]
      ELSE YearOf[<<newy, tdays - (newy - y) * 365 - leapdays>>]

\* The days of the months of y before month mon, which is counted from 0.
DaysBefore(y) ==
  LET days[mon \in 0 .. 11] == IF mon = 0 THEN 0 ELSE days[mon - 1] + mon_lengths(y)[mon]
  IN  days

\* The second rem of the day yday of a year, which may be the day before its first.
BrokenDown ==
  [at \in [year : Int, yday : Int, rem : Int] |->
     LET year == IF at.yday < 0 THEN at.year - 1 ELSE at.year
         idays == IF at.yday < 0 THEN at.yday + year_length(year) ELSE at.yday
         before == DaysBefore(year)
         mon == Max({m \in 0 .. 11 : before[m] <= idays})
     IN  [year |-> year - TM_YEAR_BASE, mon |-> mon, mday |-> idays - before[mon] + 1,
          hour |-> at.rem \div SECSPERHOUR, min |-> (at.rem % SECSPERHOUR) \div SECSPERMIN,
          sec |-> at.rem % SECSPERMIN]]

\* The broken-down time of the second t.
timesub[t \in Int] ==
  LET tdays == Quotient(t, SECSPERDAY)
      rem == t - tdays * SECSPERDAY
      at == YearOf[<<EPOCH_YEAR, tdays>>]
  IN  IF rem < 0 THEN BrokenDown[[year |-> at.year, yday |-> at.yday - 1, rem |-> rem + SECSPERDAY]]
      ELSE BrokenDown[[year |-> at.year, yday |-> at.yday, rem |-> rem]]

\* The larger unit and the smaller one, less than base; nothing overflows an int here.
Normalized(tens, units, base) == <<tens + units \div base, units % base>>

\* Slip: the months are compared before the years.
tmcomp_months(a, b) ==
  IF a.mon # b.mon THEN a.mon - b.mon
  ELSE IF a.year # b.year THEN a.year - b.year
  ELSE (a.mday - b.mday) * SECSPERDAY + (a.hour - b.hour) * SECSPERHOUR
         + (a.min - b.min) * SECSPERMIN + (a.sec - b.sec)

\* Below zero, zero or above it as a is before, at or after b.
tmcomp(a, b) ==
  CASE a.year # b.year -> a.year - b.year
    [] a.year = b.year /\ a.mon # b.mon -> a.mon - b.mon
    [] OTHER -> (a.mday - b.mday) * SECSPERDAY + (a.hour - b.hour) * SECSPERHOUR
                  + (a.min - b.min) * SECSPERMIN + (a.sec - b.sec)

\* A day past the end of its month is one of the next month; no day is past 32, so
\* one month is passed at most.
InItsMonth(tm) ==
  LET i == mon_lengths(tm.year + TM_YEAR_BASE)[tm.mon + 1]
  IN  IF tm.mday <= i THEN tm
      ELSE IF tm.mon = 11 THEN [tm EXCEPT !.mday = @ - i, !.mon = 0, !.year = @ + 1]
      ELSE [tm EXCEPT !.mday = @ - i, !.mon = @ + 1]

\* tm with its minutes, hours and days, and if norm also its seconds, brought into
\* their ranges; months and years are in theirs.
InRange(tm, norm) ==
  LET s == IF norm THEN Normalized(tm.min, tm.sec, 60) ELSE <<tm.min, tm.sec>>
      m == Normalized(tm.hour, s[1], 60)
      h == Normalized(tm.mday, m[1], 24)
  IN  InItsMonth([tm EXCEPT !.sec = s[2], !.min = m[2], !.hour = h[2], !.mday = h[1]])

\* A second no clock shows is added when the search is over; before 1970 one that is
\* larger than 59 counts from 59 on.
Saved(tm) ==
  CASE tm.sec \in 0 .. 59 -> 0
    [] tm.sec \notin 0 .. 59 /\ tm.year + TM_YEAR_BASE < EPOCH_YEAR -> tm.sec - 59
    [] OTHER -> tm.sec

ShownSecond(tm) ==
  IF tm.sec \in 0 .. 59 THEN tm.sec
  ELSE IF tm.year + TM_YEAR_BASE < EPOCH_YEAR THEN 59 ELSE 0

-----------------------------------------------------------------------------
(* Reading a date.                                                         *)

\* pc is "read", "search" or "done"; given is the time in the text, tm the one that is searched between lo and
\* hi, saved the seconds it lacks.  ok tells whether a date was read, and the date is
\* t + tz seconds and millis thousandths.
NoTime == [year |-> 0, mon |-> 0, mday |-> 0, hour |-> 0, min |-> 0, sec |-> 0]
Idle == [pc |-> "read", text |-> <<>>, given |-> NoTime, tm |-> NoTime, saved |-> 0, lo |-> 0, hi |-> 0,
         norm |-> FALSE, ok |-> FALSE, t |-> 0, tz |-> 0, millis |-> 0]

DateInit == date = Idle

\* time2sub begins: the time that is searched, and all of time_t.
Search(d, tm, norm) ==
  LET your == InRange(tm, norm)
  IN  [d EXCEPT !.pc = "search", !.given = tm, !.tm = [your EXCEPT !.sec = ShownSecond(your)],
                !.saved = Saved(your), !.norm = norm, !.lo = TimeMin, !.hi = TimeMax]

\* _bson_iso8601_date_parse up to the call of _bson_timegm.
Begin(text) ==
  LET t == Tokens(text)
      tz == Of(text, t.tz)
      read == [Idle EXCEPT !.text = text]
  IN  /\ date.pc = "read"
      /\ date' = IF ~Splits(text, t) THEN [read EXCEPT !.pc = "done"]
                 ELSE IF ~FieldsAccepted(text, t) THEN [read EXCEPT !.pc = "done"]
                 ELSE Search([read EXCEPT !.tz = tz_adjustment(tz),
                                          !.millis = Millis(Of(text, t.millis))],
                             posix_date(text, t), FALSE)

\* Slip: rounding may take the middle below the lower bound.
HalfwayRounded(lo, hi) == Quotient(lo, 2) + Quotient(hi, 2)

Halfway(lo, hi) ==
  LET t == Quotient(lo, 2) + Quotient(hi, 2)
  IN  IF t < lo THEN lo ELSE IF t > hi THEN hi ELSE t

\* The search goes on below or above t; a bound it has reached is moved first.
Narrowed(d, t, dir) ==
  LET step == IF t = d.lo THEN 1 ELSE IF t = d.hi THEN -1 ELSE 0
      lo == IF step = 1 THEN d.lo + 1 ELSE d.lo
      hi == IF step = -1 THEN d.hi - 1 ELSE d.hi
  IN  IF dir > 0 THEN [d EXCEPT !.lo = lo, !.hi = t + step]
      ELSE [d EXCEPT !.hi = hi, !.lo = t + step]

\* Nothing is left between the bounds once the one at t is moved.
Exhausted(d, t) == t \in {d.lo, d.hi} /\ d.lo >= d.hi

\* What _bson_iso8601_date_parse answers once _bson_timegm has returned t.
Answered(d, t) == [d EXCEPT !.pc = "done", !.ok = (t >= - d.tz), !.t = t]

\* One round of the loop of time2sub that does not end it.
Narrow ==
  /\ date.pc = "search"
  /\ \E t \in {Halfway(date.lo, date.hi)} : \E dir \in {tmcomp(timesub[t], date.tm)} :
       /\ dir # 0 /\ ~Exhausted(date, t)
       /\ date' = Narrowed(date, t, dir)

\* No second bears that time: once more, with the seconds normalized, and then WRONG
\* stands for it.
GiveUp ==
  /\ date.pc = "search"
  /\ \E t \in {Halfway(date.lo, date.hi)} :
       tmcomp(timesub[t], date.tm) # 0 /\ Exhausted(date, t)
  /\ date' = IF date.norm THEN Answered(date, WRONG)
             ELSE Search(date, date.given, TRUE)

\* Slip: a leap second is not added.
NotSaved(t, saved) == t

WithSaved(t, saved) == IF t > TimeMax - saved THEN WRONG ELSE t + saved

Find ==
  /\ date.pc = "search"
  /\ \E t \in {Halfway(date.lo, date.hi)} :
       /\ tmcomp(timesub[t], date.tm) = 0
       /\ date' = Answered(date, WithSaved(t, date.saved))

Round == Narrow \/ GiveUp \/ Find

DateNext == (\E text \in Texts : Begin(text)) \/ Round

\* A loop that can go on does: time2sub is not left before it ends.
DateSpec == DateInit /\ [][DateNext]_date /\ WF_date(Round)

-----------------------------------------------------------------------------
(* The calendar, counted from its first year on.                           *)

\* The days from the epoch to the first of January of year y.
DaysToYear(y) ==
  LET days[n \in 1969 .. y] ==
        IF n = 1969 THEN -365 ELSE days[n - 1] + (IF isleap(n - 1) THEN 366 ELSE 365)
  IN  days[y]

\* The day, counted from the epoch, that a broken-down time names, and the second of it.
DayOf(tm) == DaysToYear(tm.year + TM_YEAR_BASE) + DaysBefore(tm.year + TM_YEAR_BASE)[tm.mon] + tm.mday - 1
SecondOfDay(tm) == tm.hour * SECSPERHOUR + tm.min * SECSPERMIN + tm.sec
SecondsOf(tm) == DayOf(tm) * SECSPERDAY + SecondOfDay(tm)

\* time_t does not end before it.
InReach(tm) ==
  \/ DayOf(tm) < TimeMax \div SECSPERDAY
  \/ DayOf(tm) = TimeMax \div SECSPERDAY /\ SecondOfDay(tm) <= TimeMax % SECSPERDAY

IsGiven == date.given # NoTime

-----------------------------------------------------------------------------
(* What is promised of the search.                                         *)

DateTypeOK ==
  /\ date.pc \in {"read", "search", "done"}
  /\ date.lo \in TimeMin .. TimeMax /\ date.hi \in TimeMin .. TimeMax
  /\ date.pc = "search" =>
       /\ date.tm.mon \in 0 .. 11 /\ date.tm.hour \in 0 .. 23
       /\ date.tm.min \in 0 .. 59 /\ date.tm.sec \in 0 .. 59
       /\ date.tm.mday \in 1 .. mon_lengths(date.tm.year + TM_YEAR_BASE)[date.tm.mon + 1]
  /\ date.millis \in 0 .. 999

\* The bounds of the binary search of time2sub always enclose the second that bears
\* the date, which is why it may leave the other half out (bson-timegm.c:639).
BoundsEnclose ==
  (date.pc = "search" /\ InReach(date.given)) =>
    LET sought == SecondsOf(date.given) - date.saved IN date.lo <= sought /\ sought <= date.hi

\* The search ends at the second that the date names by the calendar, for every date
\* that time_t reaches: days its month does not have run over into the next one, as
\* the second 60 does, and it never gives up (bson-timegm.c:665).
FindsTheSecond ==
  (date.pc = "done" /\ IsGiven /\ InReach(date.given)) => date.t = SecondsOf(date.given)

\* The search keeps its variables in their ranges and the second between its bounds,
\* and finds it.
SearchInOrder == DateTypeOK /\ BoundsEnclose /\ FindsTheSecond

=============================================================================
