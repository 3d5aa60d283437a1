------------------------------ MODULE MCBsonDate ------------------------------
(***************************************************************************)
(* The dates that are read in the runs, with a time_t of 32 bits, and what  *)
(* they mean by the calendar, which is counted from scratch here.           *)
(***************************************************************************)
EXTENDS BsonDate

MCTimeMax == 2147483647
MCTimeMin == -2147483647 - 1

Digits(n, w) == [i \in 1 .. w |-> 48 + ((n \div (10 ^ (w - i))) % 10)]

\* A date as year, month, day, hour, minute, the text after the minute.
Written(d, rest) ==
  Digits(d[1], 4) \o <<Minus>> \o Digits(d[2], 2) \o <<Minus>> \o Digits(d[3], 2) \o <<LetterT>>
    \o Digits(d[4], 2) \o <<Colon>> \o Digits(d[5], 2) \o rest

\* Leap days and the days around them, the ends of years, the epoch and the end of
\* time_t, days no month has, and numbers out of their range.
Dates ==
  {<<1970, 1, 1, 0, 0>>, <<1969, 12, 31, 23, 59>>, <<1969, 1, 1, 0, 0>>, <<1972, 2, 29, 12, 30>>,
   <<1999, 12, 31, 23, 59>>, <<2000, 2, 28, 23, 59>>, <<2000, 2, 29, 0, 0>>, <<2000, 12, 31, 23, 59>>,
   <<2001, 2, 29, 1, 1>>, <<2015, 4, 31, 23, 59>>, <<2016, 2, 31, 7, 5>>, <<2016, 7, 6, 10, 11>>,
   <<2037, 12, 31, 23, 59>>, <<2038, 1, 1, 0, 0>>, <<2100, 3, 1, 0, 0>>,
   <<1968, 1, 1, 0, 0>>, <<2016, 0, 10, 0, 0>>, <<2016, 13, 10, 0, 0>>, <<2016, 5, 0, 0, 0>>,
   <<2016, 5, 32, 0, 0>>, <<2016, 5, 1, 24, 0>>, <<2016, 5, 1, 0, 60>>}

East == <<Plus>> \o Digits(130, 4)
West == <<Minus>> \o Digits(845, 4)
Seconds(s) == <<Colon>> \o Digits(s, 2)
Fraction(n, w) == <<Dot>> \o Digits(n, w)

\* What may follow the minute; the second line is damaged.
Rests ==
  {<<LetterZ>>, East, Seconds(7) \o <<LetterZ>>, Seconds(59) \o West, Seconds(60) \o <<LetterZ>>,
   Seconds(7) \o Fraction(5, 1) \o <<LetterZ>>, Seconds(0) \o Fraction(25, 2) \o East,
   Seconds(60) \o Fraction(999, 3) \o West}

Damaged ==
  {<<>>, <<LetterZ, LetterZ>>, Seconds(7), <<Colon, LetterZ>>, <<Colon, Dot, LetterZ>>,
   Seconds(61) \o <<LetterZ>>, Seconds(7) \o <<Dot, LetterZ>>, Seconds(7) \o <<Dot>>,
   Seconds(7) \o Fraction(1000, 4) \o <<LetterZ>>, <<Plus>> \o Digits(13, 3),
   <<Plus>> \o Digits(2400, 4), <<Minus>> \o Digits(60, 4), <<Colon, 48, LetterT, LetterZ>>}

Some == <<2016, 7, 6, 10, 11>>

MCTexts ==
  {Written(d, r) : d \in Dates, r \in Rests} \cup {Written(Some, r) : r \in Damaged}
    \cup {[Written(Some, <<LetterZ>>) EXCEPT ![i] = c] : i \in {3, 5, 8, 11, 12, 14}, c \in {Minus, LetterT}}

-----------------------------------------------------------------------------
(* The date format and the calendar.                                       *)

IsNumber(s, min, max) == digits_only(s) /\ NumberOf(s) \in min .. max

\* "", "Z" or a zone, by position.
ZoneAt(s) ==
  \/ s = <<LetterZ>>
  \/ /\ Len(s) = 5 /\ s[1] \in {Plus, Minus}
     /\ IsNumber(SubSeq(s, 2, 3), 0, 23) /\ IsNumber(SubSeq(s, 4, 5), 0, 59)

\* The position at which the zone of a date begins: after the minute, the second, or
\* one to three digits of a fraction.
ZoneBegins(text) ==
  {17} \cup (IF Len(text) >= 19 /\ text[17] = Colon /\ IsNumber(SubSeq(text, 18, 19), 0, 60)
             THEN {20} \cup {i \in 22 .. 24 : /\ i <= Len(text) + 1 /\ text[20 % (Len(text) + 1)] = Dot
                                              /\ digits_only(SubSeq(text, 21, i - 1))}
             ELSE {})

\* yyyy-mm-ddThh:mm, a second and a fraction if any, and the zone.
IsDate(text) ==
  /\ Len(text) >= 17
  /\ text[5] = Minus /\ text[8] = Minus /\ text[11] = LetterT /\ text[14] = Colon
  /\ IsNumber(SubSeq(text, 1, 4), 1969, 9999)
  /\ IsNumber(SubSeq(text, 6, 7), 1, 12)
  /\ IsNumber(SubSeq(text, 9, 10), 1, 31)
  /\ IsNumber(SubSeq(text, 12, 13), 0, 23)
  /\ IsNumber(SubSeq(text, 15, 16), 0, 59)
  /\ \E z \in ZoneBegins(text) : z <= Len(text) /\ ZoneAt(SubSeq(text, z, Len(text)))

Num(text, a, b) == NumberOf(SubSeq(text, a, b))

SecondOf(text) == IF text[17] = Colon THEN Num(text, 18, 19) ELSE 0

\* The second, in UTC, that the date names if its zone is left aside.
UtcOf(text) ==
  LET y == Num(text, 1, 4)
      days == DaysToYear(y) + DaysBefore(y)[Num(text, 6, 7) - 1] + Num(text, 9, 10) - 1
  IN  days * 86400 + Num(text, 12, 13) * 3600 + Num(text, 15, 16) * 60 + SecondOf(text)

\* A time_t of 32 bits ends in January 2038.
Reached(text) == IsDate(text) /\ Num(text, 1, 4) <= 2038

\* The seconds by which the zone is ahead of UTC.
ZoneOf(text) ==
  LET n == Len(text)
  IN  IF text[n] = LetterZ THEN 0
      ELSE (IF text[n - 4] = Plus THEN 1 ELSE -1) * (Num(text, n - 3, n - 2) * 3600 + Num(text, n - 1, n) * 60)

\* The thousandths that its fraction stands for: the zone begins behind one to three digits.
MillisOf(text) ==
  LET ends == {z \in ZoneBegins(text) \ {17, 20} : z <= Len(text) /\ ZoneAt(SubSeq(text, z, Len(text)))}
  IN  IF ends = {} THEN 0 ELSE LET z == Max(ends) IN Num(text, 21, z - 1) * 10 ^ (24 - z)

-----------------------------------------------------------------------------

\* A date is accepted exactly when it has the form of one and does not lie before
\* the epoch, and it is read as the calendar counts it, to the thousandth: days a month has not
\* and the second 60 run over into the next one (bson-iso8601.c:107).
DatesAreReadRight ==
  date.pc = "done" =>
    /\ date.ok => IsDate(date.text)
    /\ Reached(date.text) =>
         LET utc == UtcOf(date.text)
         IN  /\ date.ok = (utc - ZoneOf(date.text) >= 0)
             /\ date.ok => /\ date.t + date.tz = utc - ZoneOf(date.text)
                           /\ date.millis = MillisOf(date.text)

\* Every date is answered: the search ends, also where no second bears the date.
Answers == [](date.pc = "search" => <>(date.pc = "done"))

=============================================================================
