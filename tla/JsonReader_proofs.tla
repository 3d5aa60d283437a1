--------------------------- MODULE JsonReader_proofs ---------------------------
(***************************************************************************)
(* Theorems about the reader of JSON text (JsonReader) and about the dates  *)
(* in it (BsonDate).                                                        *)
(*                                                                          *)
(* The dates: for every width of time_t of 32 bits or more and every text,  *)
(* the search of time2sub keeps the second that is sought between its       *)
(* bounds and ends at it.  That timesub, which the search asks for the      *)
(* broken-down time of a second, undoes the calendar's count of days is     *)
(* proved first (its loop over years is a recursive function: it is         *)
(* unfolded by a measure that every jump decreases), then that tmcomp       *)
(* orders broken-down times as it does their seconds, then that what is     *)
(* read from a text is a time InRange can put in order, and at last that    *)
(* every round of the search keeps the invariant InOrder.                   *)
(*                                                                          *)
(* The reader: for every text, every buffer and every program that reads,   *)
(* the callbacks are never deeper than the containers that yajl has open,   *)
(* and no piece of text is parsed beyond its end.  Its first part           *)
(* bounds, callback by callback, how much deeper each can leave the stack   *)
(* of frames; the second says what a lexeme of yajl's can be; the third     *)
(* takes the two through yajl_do_parse; the last one carries the invariant  *)
(* JsonInv through every step of the reader and of the programs.            *)
(***************************************************************************)
EXTENDS JsonReader, BsonDate, Induction

-----------------------------------------------------------------------------
(* The calendar.                                                           *)

\* A leap year adds a day, and only a leap year does.
LEMMA LeapStep ==
  ASSUME NEW y \in Int
  PROVE  leaps_thru_end_of(y) - leaps_thru_end_of(y - 1) = IF isleap(y) THEN 1 ELSE 0
  <1>1. PICK a \in Int, r \in 0 .. 399 : y = 400 * a + r
    <2>1. y \div 400 \in Int /\ y % 400 \in 0 .. 399 /\ y = 400 * (y \div 400) + (y % 400)
      OBVIOUS
    <2> QED  BY <2>1
  <1>2. y \div 400 = a /\ y \div 100 = 4 * a + r \div 100 /\ y \div 4 = 100 * a + r \div 4
    BY <1>1
  <1>3. y % 400 = r /\ y % 100 = r % 100 /\ y % 4 = r % 4
    BY <1>1
  <1>4. (y - 1) \div 400 = IF r = 0 THEN a - 1 ELSE a
    BY <1>1
  <1>5. (y - 1) \div 100 = IF r % 100 = 0 THEN 4 * a + r \div 100 - 1 ELSE 4 * a + r \div 100
    BY <1>1
  <1>6. (y - 1) \div 4 = IF r % 4 = 0 THEN 100 * a + r \div 4 - 1 ELSE 100 * a + r \div 4
    BY <1>1
  <1>7. r % 100 = 0 => r % 4 = 0
    OBVIOUS
  <1> QED  BY <1>2, <1>3, <1>4, <1>5, <1>6, <1>7 DEF leaps_thru_end_of, isleap

\* Between two years there are no more leap years than years.
LEMMA LeapsBetween ==
  ASSUME NEW a \in Int, NEW b \in Int, a <= b
  PROVE  /\ leaps_thru_end_of(a) \in Int /\ leaps_thru_end_of(b) \in Int
         /\ leaps_thru_end_of(a) <= leaps_thru_end_of(b)
         /\ leaps_thru_end_of(b) - leaps_thru_end_of(a) <= b - a
  <1>1. \A y \in Int : /\ y \div 4 \in Int /\ y \div 100 \in Int /\ y \div 400 \in Int
                       /\ y - 4 * (y \div 4) \in 0 .. 3
                       /\ y \div 4 - 25 * (y \div 100) \in 0 .. 24
                       /\ y \div 100 - 4 * (y \div 400) \in 0 .. 3
    OBVIOUS
  <1>2. PICK p \in Int, q \in Int, s \in Int : p = a \div 4 /\ q = a \div 100 /\ s = a \div 400
    BY <1>1
  <1>3. PICK t \in Int, u \in Int, v \in Int : t = b \div 4 /\ u = b \div 100 /\ v = b \div 400
    BY <1>1
  <1>4. a - 4 * p \in 0 .. 3 /\ p - 25 * q \in 0 .. 24 /\ q - 4 * s \in 0 .. 3
    BY <1>1, <1>2
  <1>5. b - 4 * t \in 0 .. 3 /\ t - 25 * u \in 0 .. 24 /\ u - 4 * v \in 0 .. 3
    BY <1>1, <1>3
  <1>6. p <= t /\ q <= u /\ s <= v
    BY <1>4, <1>5
  <1>7. p - q <= t - u
    BY <1>4, <1>5, <1>6
  <1>8. (t - p) <= b - a /\ v - s <= u - q
    BY <1>4, <1>5, <1>6
  <1>9. leaps_thru_end_of(a) = p - q + s /\ leaps_thru_end_of(b) = t - u + v
    BY <1>2, <1>3 DEF leaps_thru_end_of
  <1>10. p - q + s <= t - u + v /\ (t - u + v) - (p - q + s) <= b - a
    BY <1>6, <1>7, <1>8
  <1>11. p - q + s \in Int /\ t - u + v \in Int
    OBVIOUS
  <1> QED  BY <1>9, <1>10, <1>11

\* The days from the epoch to the first of January of year y, without counting.
YearStart(y) == 365 * (y - 1970) + leaps_thru_end_of(y - 1) - 477

LEMMA YearLength ==
  ASSUME NEW y \in Int
  PROVE  year_length(y) \in {365, 366}
  BY DEF year_length

LEMMA NextYear ==
  ASSUME NEW y \in Int
  PROVE  /\ YearStart(y) \in Int
         /\ YearStart(y + 1) = YearStart(y) + year_length(y)
  <1>1. leaps_thru_end_of(y) \in Int /\ leaps_thru_end_of(y - 1) \in Int
    BY LeapsBetween
  <1>2. leaps_thru_end_of(y) - leaps_thru_end_of(y - 1) = IF isleap(y) THEN 1 ELSE 0
    BY LeapStep
  <1>3. (y + 1) - 1 = y
    OBVIOUS
  <1>4. YearStart(y + 1) = 365 * ((y + 1) - 1970) + leaps_thru_end_of(y) - 477
    BY <1>3 DEF YearStart
  <1> QED  BY <1>1, <1>2, <1>4 DEF YearStart, year_length

\* A year ends before a later one begins.
LEMMA YearsInOrder ==
  ASSUME NEW a \in Int, NEW b \in Int, a < b
  PROVE  YearStart(a) + year_length(a) <= YearStart(b)
  <1>1. YearStart(a) + year_length(a) = YearStart(a + 1)
    BY NextYear
  <1>2. leaps_thru_end_of((a + 1) - 1) <= leaps_thru_end_of(b - 1)
        /\ leaps_thru_end_of((a + 1) - 1) \in Int /\ leaps_thru_end_of(b - 1) \in Int
    <2>1. (a + 1) - 1 \in Int /\ b - 1 \in Int /\ (a + 1) - 1 <= b - 1
      OBVIOUS
    <2> QED  BY <2>1, LeapsBetween
  <1>3. YearStart(a + 1) <= YearStart(b)
    BY <1>2 DEF YearStart
  <1> QED  BY <1>1, <1>3

LEMMA LeapsWhole ==
  ASSUME NEW y \in Int
  PROVE  leaps_thru_end_of(y) \in Int
  <1>1. y <= y
    OBVIOUS
  <1> QED  BY <1>1, LeapsBetween

\* y jumps to another year: the same day is counted from there.
LEMMA SameDay ==
  ASSUME NEW y \in Int, NEW z \in Int
  PROVE  YearStart(z) - YearStart(y) = (z - y) * 365 + (leaps_thru_end_of(z - 1) - leaps_thru_end_of(y - 1))
  <1>1. leaps_thru_end_of(z - 1) \in Int /\ leaps_thru_end_of(y - 1) \in Int
    BY LeapsBetween
  <1> QED  BY <1>1 DEF YearStart

-----------------------------------------------------------------------------
(* The year of a day.                                                      *)

YearBody(f, y, tdays) ==
  LET tdelta == Quotient(tdays, 366)
      newy == y + (IF tdelta # 0 THEN tdelta ELSE IF tdays < 0 THEN -1 ELSE 1)
      leapdays == leaps_thru_end_of(newy - 1) - leaps_thru_end_of(y - 1)
  IN  IF tdays >= 0 /\ tdays < year_length(y) THEN [year |-> y, yday |-> tdays]
      ELSE f[<<newy, tdays - (newy - y) * 365 - leapdays>>]

\* The year that the day d, counted from the epoch, lies in.
YearWith(d) == CHOOSE y \in Int : YearStart(y) <= d /\ d < YearStart(y) + year_length(y)

LEMMA YearIsUnique ==
  ASSUME NEW y \in Int, NEW d \in Int, YearStart(y) <= d, d < YearStart(y) + year_length(y)
  PROVE  YearWith(d) = y
  <1>1. PICK z : z = YearWith(d)
    OBVIOUS
  <1>2. z \in Int /\ YearStart(z) <= d /\ d < YearStart(z) + year_length(z)
    BY <1>1 DEF YearWith
  <1>3. YearStart(z) \in Int /\ YearStart(y) \in Int /\ year_length(z) \in Int /\ year_length(y) \in Int
    BY <1>2, NextYear, YearLength
  <1>4. ~ (z < y)
    <2> SUFFICES ASSUME z < y PROVE FALSE
      OBVIOUS
    <2>1. YearStart(z) + year_length(z) <= YearStart(y)
      BY <1>2, YearsInOrder
    <2> QED  BY <1>2, <1>3, <2>1
  <1>5. ~ (y < z)
    <2> SUFFICES ASSUME y < z PROVE FALSE
      OBVIOUS
    <2>1. YearStart(y) + year_length(y) <= YearStart(z)
      BY <1>2, YearsInOrder
    <2> QED  BY <1>2, <1>3, <2>1
  <1> QED  BY <1>1, <1>2, <1>4, <1>5

\* The jump: where it goes, and that the day is nearer.
LEMMA YearJumps ==
  ASSUME NEW y \in Int, NEW tdays \in Int, ~ (tdays >= 0 /\ tdays < year_length(y))
  PROVE  \E newy \in Int, left \in Int :
           /\ newy = y + (IF Quotient(tdays, 366) # 0 THEN Quotient(tdays, 366) ELSE IF tdays < 0 THEN -1 ELSE 1)
           /\ left = tdays - (newy - y) * 365 - (leaps_thru_end_of(newy - 1) - leaps_thru_end_of(y - 1))
           /\ YearStart(newy) + left = YearStart(y) + tdays
           /\ tdays >= 0 => left >= 0 /\ left < tdays
           /\ tdays < 0 => left > tdays /\ left < 366
  <1>1. PICK k \in Int : k = Quotient(tdays, 366)
    BY DEF Quotient
  <1>2. PICK n \in Int : n = y + (IF k # 0 THEN k ELSE IF tdays < 0 THEN -1 ELSE 1)
    OBVIOUS
  <1>3. PICK l \in Int : l = leaps_thru_end_of(n - 1) - leaps_thru_end_of(y - 1)
    <2>1. n - 1 \in Int /\ y - 1 \in Int
      OBVIOUS
    <2>2. leaps_thru_end_of(n - 1) \in Int /\ leaps_thru_end_of(y - 1) \in Int
      BY <2>1, LeapsWhole, Zenon
    <2> QED  BY <2>2
  <1>4. PICK left \in Int : left = tdays - (n - y) * 365 - l
    OBVIOUS
  <1>5. YearStart(n) + left = YearStart(y) + tdays
    <2>1. YearStart(n) - YearStart(y) = (n - y) * 365 + l
      BY <1>3, SameDay
    <2>2. YearStart(n) \in Int /\ YearStart(y) \in Int
      BY NextYear
    <2> QED  BY <1>4, <2>1, <2>2
  <1>6. n >= y => l >= 0 /\ l <= n - y
    <2> SUFFICES ASSUME n >= y PROVE l >= 0 /\ l <= n - y
      OBVIOUS
    <2>1. n - 1 \in Int /\ y - 1 \in Int /\ y - 1 <= n - 1 /\ (n - 1) - (y - 1) = n - y
      OBVIOUS
    <2>2. /\ leaps_thru_end_of(y - 1) \in Int /\ leaps_thru_end_of(n - 1) \in Int
          /\ leaps_thru_end_of(y - 1) <= leaps_thru_end_of(n - 1)
          /\ leaps_thru_end_of(n - 1) - leaps_thru_end_of(y - 1) <= (n - 1) - (y - 1)
      BY <2>1, LeapsBetween
    <2> QED  BY <1>3, <2>1, <2>2
  <1>7. n <= y => l <= 0 /\ - l <= y - n
    <2> SUFFICES ASSUME n <= y PROVE l <= 0 /\ - l <= y - n
      OBVIOUS
    <2>1. n - 1 \in Int /\ y - 1 \in Int /\ n - 1 <= y - 1 /\ (y - 1) - (n - 1) = y - n
      OBVIOUS
    <2>2. /\ leaps_thru_end_of(y - 1) \in Int /\ leaps_thru_end_of(n - 1) \in Int
          /\ leaps_thru_end_of(n - 1) <= leaps_thru_end_of(y - 1)
          /\ leaps_thru_end_of(y - 1) - leaps_thru_end_of(n - 1) <= (y - 1) - (n - 1)
      BY <2>1, LeapsBetween
    <2> QED  BY <1>3, <2>1, <2>2
  <1>8. CASE tdays >= 366
    <2>1. k >= 1 /\ 366 * k <= tdays
      BY <1>1, <1>8 DEF Quotient
    <2>2. n - y = k
      BY <1>2, <2>1
    <2>3. left >= 0 /\ left < tdays
      BY <1>4, <1>6, <2>1, <2>2
    <2> QED  BY <1>1, <1>2, <1>3, <1>4, <1>5, <1>8, <2>3
  <1>9. CASE tdays >= 0 /\ tdays < 366
    <2>1. tdays = 365 /\ year_length(y) = 365
      BY <1>9, YearLength
    <2>2. k = 0
      BY <1>1, <1>9 DEF Quotient
    <2>3. n = y + 1
      BY <1>2, <1>9, <2>2
    <2>4. l = 0
      <3>1. n - 1 = y
        BY <2>3
      <3>2. leaps_thru_end_of(y) - leaps_thru_end_of(y - 1) = IF isleap(y) THEN 1 ELSE 0
        BY LeapStep
      <3>3. ~ isleap(y)
        BY <2>1 DEF year_length
      <3> QED  BY <1>3, <3>1, <3>2, <3>3
    <2>5. left = 0
      BY <1>4, <2>1, <2>3, <2>4
    <2> QED  BY <1>1, <1>2, <1>3, <1>4, <1>5, <1>9, <2>1, <2>5
  <1>10. CASE tdays < 0 /\ tdays > -366
    <2>1. k = 0
      BY <1>1, <1>10 DEF Quotient
    <2>2. n = y - 1
      BY <1>2, <1>10, <2>1
    <2>3. l \in {0, -1}
      BY <1>7, <2>2
    <2>4. left > tdays /\ left < 366
      BY <1>4, <1>10, <2>2, <2>3
    <2> QED  BY <1>1, <1>2, <1>3, <1>4, <1>5, <1>10, <2>4
  <1>11. CASE tdays <= -366
    <2>1. k <= -1 /\ 366 * k >= tdays
      BY <1>1, <1>11 DEF Quotient
    <2>2. n - y = k
      BY <1>2, <2>1
    <2>3. left > tdays /\ left < 366
      BY <1>4, <1>7, <2>1, <2>2
    <2> QED  BY <1>1, <1>2, <1>3, <1>4, <1>5, <1>11, <2>3
  <1> QED  BY <1>8, <1>9, <1>10, <1>11

\* The recursion of YearOf has a solution: the year that the day lies in.
DayInYear(d) == [year |-> YearWith(d), yday |-> d - YearStart(YearWith(d))]

LEMMA YearOfIs ==
  YearOf = [at \in Int \X Int |-> YearBody(YearOf, at[1], at[2])]
  <1> DEFINE G == [at \in Int \X Int |-> DayInYear(YearStart(at[1]) + at[2])]
  <1>1. ASSUME NEW at \in Int \X Int
        PROVE  G[at] = YearBody(G, at[1], at[2])
    <2>1. PICK y \in Int, tdays \in Int : at = <<y, tdays>> /\ at[1] = y /\ at[2] = tdays
      OBVIOUS
    <2>2. G[at] = DayInYear(YearStart(y) + tdays)
      BY <2>1
    <2>3. YearStart(y) \in Int /\ year_length(y) \in Int
      BY NextYear, YearLength
    <2>4. CASE tdays >= 0 /\ tdays < year_length(y)
      <3>1. YearWith(YearStart(y) + tdays) = y
        <4>1. YearStart(y) + tdays \in Int /\ YearStart(y) <= YearStart(y) + tdays
              /\ YearStart(y) + tdays < YearStart(y) + year_length(y)
          BY <2>3, <2>4
        <4> QED  BY <4>1, YearIsUnique
      <3>2. (YearStart(y) + tdays) - YearStart(y) = tdays
        BY <2>3
      <3>3. DayInYear(YearStart(y) + tdays) = [year |-> y, yday |-> tdays]
        BY <3>1, <3>2 DEF DayInYear
      <3>4. YearBody(G, y, tdays) = [year |-> y, yday |-> tdays]
        BY <2>4 DEF YearBody
      <3> QED  BY <2>1, <2>2, <3>3, <3>4
    <2>5. CASE ~ (tdays >= 0 /\ tdays < year_length(y))
      <3>1. PICK newy \in Int, left \in Int :
              /\ newy = y + (IF Quotient(tdays, 366) # 0 THEN Quotient(tdays, 366) ELSE IF tdays < 0 THEN -1 ELSE 1)
              /\ left = tdays - (newy - y) * 365 - (leaps_thru_end_of(newy - 1) - leaps_thru_end_of(y - 1))
              /\ YearStart(newy) + left = YearStart(y) + tdays
        BY <2>5, YearJumps
      <3>2. YearBody(G, y, tdays) = G[<<newy, left>>]
        BY <2>5, <3>1 DEF YearBody
      <3>3. G[<<newy, left>>] = DayInYear(YearStart(newy) + left)
        OBVIOUS
      <3> QED  BY <2>1, <2>2, <3>1, <3>2, <3>3
    <2> QED  BY <2>4, <2>5
  <1>2. G = [at \in Int \X Int |-> YearBody(G, at[1], at[2])]
    BY <1>1
  <1> HIDE DEF G
  <1>3. \E f : f = [at \in Int \X Int |-> YearBody(f, at[1], at[2])]
    BY <1>2
  <1>4. YearOf = CHOOSE f : f = [at \in Int \X Int |-> YearBody(f, at[1], at[2])]
    BY DEF YearOf, YearBody
  <1> QED  BY <1>3, <1>4

LEMMA YearOfStep ==
  ASSUME NEW y \in Int, NEW tdays \in Int
  PROVE  YearOf[<<y, tdays>>] = YearBody(YearOf, y, tdays)
  <1>1. <<y, tdays>> \in Int \X Int /\ <<y, tdays>>[1] = y /\ <<y, tdays>>[2] = tdays
    OBVIOUS
  <1> QED  BY <1>1, YearOfIs

\* What YearOf finds: the day that was meant, as a day of the year it lies in.
IsDayOf(r, d) ==
  /\ r.year \in Int /\ r.yday \in Int
  /\ 0 <= r.yday /\ r.yday < year_length(r.year)
  /\ YearStart(r.year) + r.yday = d

LEMMA YearOfLater ==
  ASSUME NEW y \in Int, NEW tdays \in Nat
  PROVE  IsDayOf(YearOf[<<y, tdays>>], YearStart(y) + tdays)
  <1> DEFINE Bad == {n \in Nat : \E z \in Int : ~ IsDayOf(YearOf[<<z, n>>], YearStart(z) + n)}
  <1> SUFFICES ASSUME Bad # {}
               PROVE  FALSE
    OBVIOUS
  <1>1. PICK n \in Bad : \A m \in Bad : n <= m
    <2>1. Bad \in SUBSET Nat
      OBVIOUS
    <2> HIDE DEF Bad
    <2> QED  BY <2>1, LeastOf
  <1>2. PICK z \in Int : ~ IsDayOf(YearOf[<<z, n>>], YearStart(z) + n)
    BY <1>1
  <1>3. n \in Nat /\ YearStart(z) \in Int /\ year_length(z) \in Int
    BY <1>1, NextYear, YearLength
  <1>4. YearOf[<<z, n>>] = YearBody(YearOf, z, n)
    BY <1>3, YearOfStep
  <1>5. CASE n < year_length(z)
    <2>1. YearOf[<<z, n>>] = [year |-> z, yday |-> n]
      BY <1>3, <1>4, <1>5 DEF YearBody
    <2> QED  BY <1>2, <1>3, <1>5, <2>1 DEF IsDayOf
  <1>6. CASE ~ (n < year_length(z))
    <2>1. PICK newy \in Int, left \in Int :
            /\ newy = z + (IF Quotient(n, 366) # 0 THEN Quotient(n, 366) ELSE IF n < 0 THEN -1 ELSE 1)
            /\ left = n - (newy - z) * 365 - (leaps_thru_end_of(newy - 1) - leaps_thru_end_of(z - 1))
            /\ YearStart(newy) + left = YearStart(z) + n
            /\ n >= 0 => left >= 0 /\ left < n
      <3>1. n \in Int /\ ~ (n >= 0 /\ n < year_length(z))
        BY <1>3, <1>6
      <3> QED  BY <3>1, YearJumps
    <2>2. YearOf[<<z, n>>] = YearOf[<<newy, left>>]
      BY <1>4, <1>6, <2>1 DEF YearBody
    <2>3. left \in Nat /\ left < n
      BY <1>3, <2>1
    <2>4. left \notin Bad
      BY <1>1, <1>3, <2>3
    <2>5. IsDayOf(YearOf[<<newy, left>>], YearStart(newy) + left)
      BY <2>3, <2>4
    <2> QED  BY <1>2, <2>1, <2>2, <2>5
  <1> QED  BY <1>5, <1>6

LEMMA YearOfRight ==
  ASSUME NEW y \in Int, NEW tdays \in Int
  PROVE  IsDayOf(YearOf[<<y, tdays>>], YearStart(y) + tdays)
  <1> DEFINE Bad == {n \in Nat : \E z \in Int : ~ IsDayOf(YearOf[<<z, - n>>], YearStart(z) + (- n))}
  <1>1. CASE tdays >= 0
    BY <1>1, YearOfLater
  <1>2. CASE tdays < 0
    <2> SUFFICES ASSUME ~ IsDayOf(YearOf[<<y, tdays>>], YearStart(y) + tdays)
                 PROVE  FALSE
      OBVIOUS
    <2>0. - tdays \in Bad
      <3>1. - tdays \in Nat /\ - (- tdays) = tdays
        BY <1>2
      <3> QED  BY <3>1
    <2>1. PICK n \in Bad : \A m \in Bad : n <= m
      <3>1. Bad \in SUBSET Nat
        OBVIOUS
      <3> HIDE DEF Bad
      <3> QED  BY <2>0, <3>1, LeastOf
    <2>2. PICK k \in Int : k = - n /\ n \in Nat /\ n = - k
      BY <2>1
    <2>3. PICK z \in Int : ~ IsDayOf(YearOf[<<z, k>>], YearStart(z) + k)
      BY <2>1, <2>2
    <2>4. YearStart(z) \in Int /\ year_length(z) \in Int
      BY NextYear, YearLength
    <2>5. k < 0
      <3> SUFFICES ASSUME k = 0 PROVE FALSE
        BY <2>2
      <3> QED  BY <2>3, YearOfLater
    <2>6. PICK newy \in Int, left \in Int :
            /\ newy = z + (IF Quotient(k, 366) # 0 THEN Quotient(k, 366) ELSE IF k < 0 THEN -1 ELSE 1)
            /\ left = k - (newy - z) * 365 - (leaps_thru_end_of(newy - 1) - leaps_thru_end_of(z - 1))
            /\ YearStart(newy) + left = YearStart(z) + k
            /\ k < 0 => left > k /\ left < 366
      <3>1. ~ (k >= 0 /\ k < year_length(z))
        BY <2>5
      <3> HIDE DEF Bad
      <3> QED  BY <3>1, YearJumps
    <2>7. YearOf[<<z, k>>] = YearOf[<<newy, left>>]
      <3>1. YearOf[<<z, k>>] = YearBody(YearOf, z, k)
        BY YearOfStep
      <3> QED  BY <2>5, <2>6, <3>1 DEF YearBody
    <2>8. IsDayOf(YearOf[<<newy, left>>], YearStart(newy) + left)
      <3>1. CASE left >= 0
        BY <3>1, YearOfLater
      <3>2. CASE left < 0
        <4>1. PICK m \in Nat : m = - left /\ left = - m /\ m < n
          BY <2>2, <2>5, <2>6, <3>2
        <4>2. m \notin Bad
          <5> HIDE DEF Bad
          <5> QED  BY <2>1, <2>2, <4>1
        <4> QED  BY <4>1, <4>2
      <3> QED  BY <3>1, <3>2
    <2> QED  BY <2>3, <2>6, <2>7, <2>8
  <1> QED  BY <1>1, <1>2

-----------------------------------------------------------------------------
(* Months.                                                                 *)

\* The days before each month, as a table.
Table(l) == <<0, 31, 59 + l, 90 + l, 120 + l, 151 + l, 181 + l, 212 + l, 243 + l, 273 + l, 304 + l, 334 + l>>
LeapDay(y) == IF isleap(y) THEN 1 ELSE 0

LEMMA MonthLengths ==
  ASSUME NEW y \in Int, NEW m \in 1 .. 12
  PROVE  mon_lengths(y)[m] \in Int /\ mon_lengths(y)[m] \in 28 .. 31
  BY DEF mon_lengths

LEMMA TableStep ==
  ASSUME NEW y \in Int, NEW m \in 1 .. 11
  PROVE  Table(LeapDay(y))[m + 1] = Table(LeapDay(y))[m] + mon_lengths(y)[m]
  <1>1. CASE isleap(y)
    BY <1>1 DEF Table, LeapDay, mon_lengths
  <1>2. CASE ~ isleap(y)
    BY <1>2 DEF Table, LeapDay, mon_lengths
  <1> QED  BY <1>1, <1>2

LEMMA DaysBeforeStep ==
  ASSUME NEW y \in Int
  PROVE  /\ DaysBefore(y)[0] = 0
         /\ \A mon \in 1 .. 11 : DaysBefore(y)[mon] = DaysBefore(y)[mon - 1] + mon_lengths(y)[mon]
  <1> DEFINE Body(f, mon) == IF mon = 0 THEN 0 ELSE f[mon - 1] + mon_lengths(y)[mon]
             G == [mon \in 0 .. 11 |-> Table(LeapDay(y))[mon + 1]]
             Days == CHOOSE f : f = [mon \in 0 .. 11 |-> Body(f, mon)]
  <1>1. ASSUME NEW mon \in 0 .. 11
        PROVE  G[mon] = Body(G, mon)
    <2>1. CASE mon = 0
      BY <2>1 DEF Table
    <2>2. CASE mon # 0
      <3>1. mon \in 1 .. 11 /\ mon - 1 \in 0 .. 11 /\ (mon - 1) + 1 = mon
        BY <2>2
      <3>2. G[mon] = Table(LeapDay(y))[mon + 1] /\ G[mon - 1] = Table(LeapDay(y))[mon]
        BY <3>1
      <3> HIDE DEF G
      <3> QED  BY <2>2, <3>1, <3>2, TableStep
    <2> QED  BY <2>1, <2>2
  <1>2. G = [mon \in 0 .. 11 |-> Body(G, mon)]
    <2> HIDE DEF Body
    <2> QED  BY <1>1
  <1> HIDE DEF G
  <1>3. Days = [mon \in 0 .. 11 |-> Body(Days, mon)]
    <2>1. \E f : f = [mon \in 0 .. 11 |-> Body(f, mon)]
      BY <1>2
    <2> HIDE DEF Body
    <2> QED  BY <2>1
  <1>4. DaysBefore(y) = Days
    BY DEF DaysBefore
  <1> HIDE DEF Days
  <1>5. \A mon \in 0 .. 11 : Days[mon] = Body(Days, mon)
    <2> HIDE DEF Body
    <2> QED  BY <1>3
  <1>6. Days[0] = 0
    <2>1. 0 \in 0 .. 11
      OBVIOUS
    <2> QED  BY <1>5, <2>1
  <1>7. ASSUME NEW mon \in 1 .. 11
        PROVE  Days[mon] = Days[mon - 1] + mon_lengths(y)[mon]
    <2>1. mon \in 0 .. 11 /\ mon # 0
      OBVIOUS
    <2> QED  BY <1>5, <2>1
  <1> QED  BY <1>4, <1>6, <1>7

LEMMA DaysBeforeIs ==
  ASSUME NEW y \in Int, NEW mon \in 0 .. 11
  PROVE  DaysBefore(y)[mon] = Table(LeapDay(y))[mon + 1]
  <1> DEFINE T == {k \in 0 .. 11 : DaysBefore(y)[k] = Table(LeapDay(y))[k + 1]}
  <1>1. 0 \in T
    BY DaysBeforeStep DEF Table
  <1>2. \A k \in 0 .. 11 - 1 : k \in T => k + 1 \in T
    <2> SUFFICES ASSUME NEW k \in 0 .. 10, k \in T
                 PROVE  k + 1 \in T
      OBVIOUS
    <2>1. k + 1 \in 1 .. 11 /\ k + 1 \in 0 .. 11 /\ (k + 1) - 1 = k
      OBVIOUS
    <2>2. DaysBefore(y)[k + 1] = DaysBefore(y)[k] + mon_lengths(y)[k + 1]
      BY <2>1, DaysBeforeStep
    <2>3. Table(LeapDay(y))[(k + 1) + 1] = Table(LeapDay(y))[k + 1] + mon_lengths(y)[k + 1]
      BY <2>1, TableStep
    <2> QED  BY <2>1, <2>2, <2>3
  <1>3. 0 .. 11 \subseteq T
    <2> HIDE DEF T
    <2> QED  BY <1>1, <1>2, UpTo
  <1> QED  BY <1>3

\* Months follow each other, and the last one ends with the year.
LEMMA MonthsInOrder ==
  ASSUME NEW y \in Int
  PROVE  /\ \A mon \in 0 .. 11 : /\ DaysBefore(y)[mon] \in 0 .. 335
                                 /\ DaysBefore(y)[mon] + mon_lengths(y)[mon + 1] <= year_length(y)
         /\ \A mon \in 0 .. 10 : DaysBefore(y)[mon + 1] = DaysBefore(y)[mon] + mon_lengths(y)[mon + 1]
         /\ \A a, b \in 0 .. 11 : a < b => DaysBefore(y)[a] + mon_lengths(y)[a + 1] <= DaysBefore(y)[b]
         /\ DaysBefore(y)[11] + 31 = year_length(y)
  <1>1. ASSUME NEW mon \in 0 .. 11
        PROVE  /\ DaysBefore(y)[mon] \in 0 .. 335
               /\ DaysBefore(y)[mon] + mon_lengths(y)[mon + 1] <= year_length(y)
    <2>1. CASE isleap(y)
      BY <2>1, DaysBeforeIs DEF Table, LeapDay, mon_lengths, year_length
    <2>2. CASE ~ isleap(y)
      BY <2>2, DaysBeforeIs DEF Table, LeapDay, mon_lengths, year_length
    <2> QED  BY <2>1, <2>2
  <1>2. ASSUME NEW mon \in 0 .. 10
        PROVE  DaysBefore(y)[mon + 1] = DaysBefore(y)[mon] + mon_lengths(y)[mon + 1]
    <2>1. mon + 1 \in 1 .. 11 /\ (mon + 1) - 1 = mon
      OBVIOUS
    <2> QED  BY <2>1, DaysBeforeStep
  <1>3. ASSUME NEW a \in 0 .. 11, NEW b \in 0 .. 11, a < b
        PROVE  DaysBefore(y)[a] + mon_lengths(y)[a + 1] <= DaysBefore(y)[b]
    <2>1. CASE isleap(y)
      BY <1>3, <2>1, DaysBeforeIs DEF Table, LeapDay, mon_lengths
    <2>2. CASE ~ isleap(y)
      BY <1>3, <2>2, DaysBeforeIs DEF Table, LeapDay, mon_lengths
    <2> QED  BY <2>1, <2>2
  <1>4. DaysBefore(y)[11] + 31 = year_length(y)
    BY DaysBeforeIs DEF Table, LeapDay, year_length
  <1> QED  BY <1>1, <1>2, <1>3, <1>4

LEMMA MonthStart ==
  ASSUME NEW y \in Int, NEW mon \in 0 .. 11
  PROVE  DaysBefore(y)[mon] \in 0 .. 335
  BY MonthsInOrder, Zenon

\* The last month that does not begin after a day has the day in it.
LEMMA LastMonth ==
  ASSUME NEW y \in Int, NEW idays \in Int, idays < year_length(y),
         NEW mon \in 0 .. 11, DaysBefore(y)[mon] <= idays,
         \A m \in 0 .. 11 : DaysBefore(y)[m] <= idays => mon >= m
  PROVE  idays < DaysBefore(y)[mon] + mon_lengths(y)[mon + 1]
  <1>1. CASE mon = 11
    <2>1. DaysBefore(y)[11] + 31 = year_length(y) /\ mon_lengths(y)[11 + 1] = 31
      BY MonthsInOrder DEF mon_lengths
    <2> QED  BY <1>1, <2>1
  <1>2. CASE mon # 11
    <2>1. mon \in 0 .. 10 /\ mon + 1 \in 0 .. 11
      BY <1>2
    <2>2. DaysBefore(y)[mon + 1] \in 0 .. 335 /\ DaysBefore(y)[mon + 1] = DaysBefore(y)[mon] + mon_lengths(y)[mon + 1]
      BY <2>1, MonthsInOrder
    <2>3. ~ (DaysBefore(y)[mon + 1] <= idays)
      BY <2>1
    <2> QED  BY <2>2, <2>3
  <1> QED  BY <1>1, <1>2

LEMMA MonthOfDay ==
  ASSUME NEW y \in Int, NEW idays \in Int, 0 <= idays, idays < year_length(y)
  PROVE  \E mon \in 0 .. 11 :
           /\ mon = Max({m \in 0 .. 11 : DaysBefore(y)[m] <= idays})
           /\ DaysBefore(y)[mon] \in Int
           /\ DaysBefore(y)[mon] <= idays /\ idays < DaysBefore(y)[mon] + mon_lengths(y)[mon + 1]
  <1> DEFINE S == {m \in 0 .. 11 : DaysBefore(y)[m] <= idays}
             T == {k \in 0 .. 11 : 11 - k \in S}
  <1>1. 0 \in S
    BY DaysBeforeStep
  <1>2. \E x \in S : \A z \in S : x >= z
    <2>1. 11 \in T /\ T \in SUBSET Nat
      BY <1>1
    <2>2. PICK k \in T : \A l \in T : k <= l
      <3> HIDE DEF T
      <3> QED  BY <2>1, LeastOf
    <2>3. k \in 0 .. 11 /\ 11 - k \in S
      OBVIOUS
    <2>4. ASSUME NEW z \in S PROVE 11 - k >= z
      <3>1. z \in 0 .. 11 /\ 11 - (11 - z) = z
        OBVIOUS
      <3>2. 11 - z \in T
        BY <3>1
      <3> HIDE DEF T
      <3> QED  BY <2>2, <2>3, <3>1, <3>2
    <2> QED  BY <2>3, <2>4
  <1>3. PICK mon \in S : mon = Max(S) /\ \A z \in S : mon >= z
    <2> HIDE DEF S
    <2> QED  BY <1>2 DEF Max
  <1>4. mon \in 0 .. 11 /\ DaysBefore(y)[mon] <= idays
    OBVIOUS
  <1>5. DaysBefore(y)[mon] \in Int
    <2>1. DaysBefore(y)[mon] \in 0 .. 335
      BY <1>4, MonthsInOrder
    <2> QED  BY <2>1
  <1>6. idays < DaysBefore(y)[mon] + mon_lengths(y)[mon + 1]
    BY <1>3, <1>4, LastMonth
  <1> QED  BY <1>3, <1>4, <1>5, <1>6

-----------------------------------------------------------------------------
(* Broken-down times.                                                      *)

\* Counting from 1969 on comes to the same.
LEMMA DaysToYearIs ==
  ASSUME NEW y \in Int, y >= 1969
  PROVE  DaysToYear(y) = YearStart(y)
  <1> DEFINE Body(f, n) == IF n = 1969 THEN -365 ELSE f[n - 1] + (IF isleap(n - 1) THEN 366 ELSE 365)
             G == [n \in 1969 .. y |-> YearStart(n)]
             Days == CHOOSE f : f = [n \in 1969 .. y |-> Body(f, n)]
             T == {k \in 0 .. y - 1969 : Days[1969 + k] = YearStart(1969 + k)}
  <1>1. YearStart(1969) = -365
    BY DEF YearStart, leaps_thru_end_of
  <1>2. ASSUME NEW n \in Int
        PROVE  YearStart(n) = YearStart(n - 1) + (IF isleap(n - 1) THEN 366 ELSE 365)
    <2>1. n - 1 \in Int /\ (n - 1) + 1 = n
      OBVIOUS
    <2>2. YearStart((n - 1) + 1) = YearStart(n - 1) + year_length(n - 1)
      BY <2>1, NextYear
    <2> QED  BY <2>1, <2>2 DEF year_length
  <1>3. ASSUME NEW n \in 1969 .. y
        PROVE  G[n] = Body(G, n)
    <2>1. CASE n = 1969
      BY <1>1, <2>1
    <2>2. CASE n # 1969
      <3>1. n \in Int /\ n - 1 \in 1969 .. y
        BY <2>2
      <3>2. G[n] = YearStart(n) /\ G[n - 1] = YearStart(n - 1)
        BY <3>1
      <3>3. YearStart(n) = YearStart(n - 1) + (IF isleap(n - 1) THEN 366 ELSE 365)
        BY <3>1, <1>2
      <3> HIDE DEF G
      <3> QED  BY <2>2, <3>2, <3>3
    <2> QED  BY <2>1, <2>2
  <1>4. G = [n \in 1969 .. y |-> Body(G, n)]
    <2> HIDE DEF Body
    <2> QED  BY <1>3
  <1> HIDE DEF G
  <1>5. Days = [n \in 1969 .. y |-> Body(Days, n)]
    <2>1. \E f : f = [n \in 1969 .. y |-> Body(f, n)]
      BY <1>4
    <2> HIDE DEF Body
    <2> QED  BY <2>1
  <1>6. DaysToYear(y) = Days[y]
    BY DEF DaysToYear
  <1> HIDE DEF Days
  <1>7. \A n \in 1969 .. y : Days[n] = Body(Days, n)
    <2> HIDE DEF Body
    <2> QED  BY <1>5
  <1>8. 0 \in T
    <2>1. 1969 \in 1969 .. y /\ 0 \in 0 .. y - 1969 /\ 1969 + 0 = 1969
      OBVIOUS
    <2> QED  BY <1>1, <1>7, <2>1
  <1>9. \A k \in 0 .. (y - 1969) - 1 : k \in T => k + 1 \in T
    <2> SUFFICES ASSUME NEW k \in 0 .. (y - 1969) - 1, k \in T
                 PROVE  k + 1 \in T
      OBVIOUS
    <2>1. PICK n \in 1969 .. y : n = 1969 + (k + 1) /\ n - 1 = 1969 + k /\ n # 1969
      OBVIOUS
    <2>2. Days[n] = Days[n - 1] + (IF isleap(n - 1) THEN 366 ELSE 365)
      BY <1>7, <2>1
    <2>3. Days[n - 1] = YearStart(n - 1)
      BY <2>1
    <2>4. YearStart(n) = YearStart(n - 1) + (IF isleap(n - 1) THEN 366 ELSE 365)
      BY <1>2
    <2>5. Days[n] = YearStart(n) /\ k + 1 \in 0 .. y - 1969
      BY <2>2, <2>3, <2>4
    <2> QED  BY <2>1, <2>5
  <1>10. 0 .. y - 1969 \subseteq T
    <2>1. y - 1969 \in Nat
      OBVIOUS
    <2> HIDE DEF T
    <2> QED  BY <1>8, <1>9, <2>1, UpTo
  <1>11. y - 1969 \in T /\ 1969 + (y - 1969) = y
    BY <1>10
  <1> QED  BY <1>6, <1>11

\* A broken-down time with all members in their ranges.
IsTime(tm) ==
  /\ tm.year \in Int /\ tm.mon \in 0 .. 11
  /\ tm.mday \in 1 .. mon_lengths(tm.year + TM_YEAR_BASE)[tm.mon + 1]
  /\ tm.hour \in 0 .. 23 /\ tm.min \in 0 .. 59 /\ tm.sec \in 0 .. 59

LEMMA SecondIs ==
  ASSUME NEW v \in Int, NEW d \in Int, NEW s \in Int
  PROVE  (v + d) * SECSPERDAY + s \in Int
  BY DEF SECSPERDAY

\* The day and the second it stands for, in any year.
DayOfYear(tm) == DaysBefore(tm.year + TM_YEAR_BASE)[tm.mon] + tm.mday - 1
Instant(tm) == (YearStart(tm.year + TM_YEAR_BASE) + DayOfYear(tm)) * SECSPERDAY + SecondOfDay(tm)

LEMMA InstantIs ==
  ASSUME NEW tm, tm.year \in Int, tm.mon \in 0 .. 11, tm.mday \in Int, tm.year >= 69
  PROVE  /\ DayOf(tm) = YearStart(tm.year + TM_YEAR_BASE) + DayOfYear(tm)
         /\ SecondsOf(tm) = Instant(tm)
  <1>1. PICK y \in Int : y = tm.year + TM_YEAR_BASE /\ y >= 1969
    BY DEF TM_YEAR_BASE
  <1>2. DaysToYear(y) = YearStart(y) /\ YearStart(y) \in Int /\ DaysBefore(y)[tm.mon] \in 0 .. 335
    <2>1. DaysToYear(y) = YearStart(y)
      BY <1>1, DaysToYearIs
    <2>2. YearStart(y) \in Int
      BY NextYear
    <2>3. y \in Int /\ tm.mon \in 0 .. 11
      OBVIOUS
    <2>4. DaysBefore(y)[tm.mon] \in 0 .. 335
      BY <2>3, MonthStart, Zenon
    <2> QED  BY <2>1, <2>2, <2>4
  <1>3. DayOf(tm) = YearStart(tm.year + TM_YEAR_BASE) + DayOfYear(tm)
    BY <1>1, <1>2 DEF DayOf, DayOfYear
  <1> QED  BY <1>3 DEF SecondsOf, Instant

LEMMA ClockIs ==
  ASSUME NEW h \in Int, NEW m \in Int, NEW s \in Int,
         0 <= h, h <= 23, 0 <= m, m <= 59, 0 <= s, s <= 59
  PROVE  /\ h * SECSPERHOUR + m * SECSPERMIN + s \in Int
         /\ 0 <= h * SECSPERHOUR + m * SECSPERMIN + s /\ h * SECSPERHOUR + m * SECSPERMIN + s < SECSPERDAY
  BY DEF SECSPERHOUR, SECSPERMIN, SECSPERDAY

LEMMA SecondOfDayIs ==
  ASSUME NEW tm, IsTime(tm)
  PROVE  SecondOfDay(tm) \in Int /\ 0 <= SecondOfDay(tm) /\ SecondOfDay(tm) < SECSPERDAY
  <1>1. /\ tm.hour \in Int /\ 0 <= tm.hour /\ tm.hour <= 23
        /\ tm.min \in Int /\ 0 <= tm.min /\ tm.min <= 59
        /\ tm.sec \in Int /\ 0 <= tm.sec /\ tm.sec <= 59
    BY DEF IsTime
  <1> HIDE DEF IsTime
  <1> QED  BY <1>1, ClockIs, Zenon DEF SecondOfDay

\* A month has place in its year.
LEMMA InItsMonthAndYear ==
  ASSUME NEW y \in Int, NEW m \in 0 .. 11, NEW d \in 1 .. mon_lengths(y)[m + 1]
  PROVE  /\ d \in Int /\ DaysBefore(y)[m] \in Int
         /\ DaysBefore(y)[m] + d - 1 \in Int
         /\ 0 <= DaysBefore(y)[m] + d - 1
         /\ DaysBefore(y)[m] + d - 1 < year_length(y)
  <1>1. m + 1 \in 1 .. 12
    OBVIOUS
  <1>2. PICK l \in Int : l = mon_lengths(y)[m + 1]
    BY <1>1, MonthLengths
  <1>3. d \in Int /\ 1 <= d /\ d <= l
    BY <1>2
  <1>4. DaysBefore(y)[m] \in 0 .. 335 /\ DaysBefore(y)[m] + l <= year_length(y)
    BY <1>2, MonthsInOrder
  <1>5. PICK b \in Int : b = DaysBefore(y)[m] /\ 0 <= b
    BY <1>4
  <1>6. PICK n \in Int : n = year_length(y)
    BY YearLength
  <1>7. b + l <= n
    BY <1>4, <1>5, <1>6
  <1>8. b + d - 1 \in Int /\ 0 <= b + d - 1 /\ b + d - 1 < n
    BY <1>3, <1>5, <1>7
  <1> QED  BY <1>3, <1>5, <1>6, <1>8

LEMMA InItsYear ==
  ASSUME NEW tm, IsTime(tm)
  PROVE  /\ tm.year + TM_YEAR_BASE \in Int
         /\ DayOfYear(tm) \in Int /\ 0 <= DayOfYear(tm) /\ DayOfYear(tm) < year_length(tm.year + TM_YEAR_BASE)
         /\ YearStart(tm.year + TM_YEAR_BASE) \in Int
         /\ Instant(tm) \in Int
  <1>1. tm.year + TM_YEAR_BASE \in Int
    BY DEF IsTime, TM_YEAR_BASE
  <1>2. tm.mon \in 0 .. 11 /\ tm.mday \in 1 .. mon_lengths(tm.year + TM_YEAR_BASE)[tm.mon + 1]
    BY DEF IsTime
  <1>3. DayOfYear(tm) \in Int /\ 0 <= DayOfYear(tm) /\ DayOfYear(tm) < year_length(tm.year + TM_YEAR_BASE)
    BY <1>1, <1>2, InItsMonthAndYear, Zenon DEF DayOfYear
  <1>4. YearStart(tm.year + TM_YEAR_BASE) \in Int
    BY <1>1, NextYear, Zenon
  <1>5. SecondOfDay(tm) \in Int
    BY SecondOfDayIs
  <1>7. Instant(tm) \in Int
    BY <1>3, <1>4, <1>5, SecondIs, Zenon DEF Instant
  <1> QED  BY <1>1, <1>3, <1>4, <1>7, Zenon

\* The members for the time of day, and the second they make.
LEMMA RemainderIs ==
  ASSUME NEW rem \in Int, 0 <= rem, rem < SECSPERDAY
  PROVE  /\ rem \div SECSPERHOUR \in 0 .. 23
         /\ (rem % SECSPERHOUR) \div SECSPERMIN \in 0 .. 59
         /\ rem % SECSPERMIN \in 0 .. 59
         /\ (rem \div SECSPERHOUR) * SECSPERHOUR + ((rem % SECSPERHOUR) \div SECSPERMIN) * SECSPERMIN
              + (rem % SECSPERMIN) = rem
  <1>1. PICK h \in Int, r \in Int : h = rem \div 3600 /\ r = rem % 3600 /\ rem = 3600 * h + r /\ 0 <= r /\ r < 3600
    OBVIOUS
  <1>2. PICK m \in Int, s \in Int : m = r \div 60 /\ s = r % 60 /\ r = 60 * m + s /\ 0 <= s /\ s < 60
    OBVIOUS
  <1>3. 0 <= h /\ h <= 23
    BY <1>1 DEF SECSPERDAY
  <1>4. 0 <= m /\ m <= 59
    BY <1>1, <1>2
  <1>5. rem % 60 = s
    BY <1>1, <1>2
  <1> QED  BY <1>1, <1>2, <1>3, <1>4, <1>5 DEF SECSPERHOUR, SECSPERMIN

\* The day before the first of a year is the last of the year before it.
LEMMA DayAndYear ==
  ASSUME NEW y \in Int, NEW d \in Int, - 1 <= d, d < year_length(y),
         NEW year, year = (IF d < 0 THEN y - 1 ELSE y),
         NEW idays, idays = (IF d < 0 THEN d + year_length(year) ELSE d)
  PROVE  /\ year \in Int /\ idays \in Int /\ 0 <= idays /\ idays < year_length(year)
         /\ YearStart(year) + idays = YearStart(y) + d
  <1>1. CASE d < 0
    <2>1. d = -1 /\ year = y - 1 /\ year \in Int /\ year + 1 = y
      BY <1>1
    <2>2. year_length(year) \in {365, 366}
      BY <2>1, YearLength
    <2>3. YearStart(year) \in Int /\ YearStart(y) = YearStart(year) + year_length(year)
      BY <2>1, NextYear
    <2>4. PICK n \in Int, v \in Int : n = year_length(year) /\ n >= 365 /\ v = YearStart(year)
      BY <2>2, <2>3
    <2>5. idays = n - 1 /\ YearStart(y) = v + n
      BY <1>1, <2>1, <2>3, <2>4
    <2> QED  BY <2>1, <2>4, <2>5
  <1>2. CASE ~ (d < 0)
    BY <1>2
  <1> QED  BY <1>1, <1>2

LEMMA BrokenDownIs ==
  ASSUME NEW at \in [year : Int, yday : Int, rem : Int],
         - 1 <= at.yday, at.yday < year_length(at.year), 0 <= at.rem, at.rem < SECSPERDAY
  PROVE  /\ IsTime(BrokenDown[at])
         /\ Instant(BrokenDown[at]) = (YearStart(at.year) + at.yday) * SECSPERDAY + at.rem
  <1>1. PICK y \in Int, d \in Int, rem \in Int : y = at.year /\ d = at.yday /\ rem = at.rem
    OBVIOUS
  <1>2. PICK year : year = IF d < 0 THEN y - 1 ELSE y
    OBVIOUS
  <1>3. PICK idays : idays = IF d < 0 THEN d + year_length(year) ELSE d
    OBVIOUS
  <1>4. /\ year \in Int /\ idays \in Int /\ 0 <= idays /\ idays < year_length(year)
        /\ YearStart(year) + idays = YearStart(y) + d
    BY <1>1, <1>2, <1>3, DayAndYear
  <1>5. PICK mon \in 0 .. 11 :
          /\ mon = Max({m \in 0 .. 11 : DaysBefore(year)[m] <= idays})
          /\ DaysBefore(year)[mon] \in Int
          /\ DaysBefore(year)[mon] <= idays /\ idays < DaysBefore(year)[mon] + mon_lengths(year)[mon + 1]
    BY <1>4, MonthOfDay
  <1> DEFINE tm == [year |-> year - TM_YEAR_BASE, mon |-> mon, mday |-> idays - DaysBefore(year)[mon] + 1,
                    hour |-> rem \div SECSPERHOUR, min |-> (rem % SECSPERHOUR) \div SECSPERMIN,
                    sec |-> rem % SECSPERMIN]
  <1>6. BrokenDown[at] = tm
    BY <1>1, <1>2, <1>3, <1>5 DEF BrokenDown
  <1>7. tm.year + TM_YEAR_BASE = year /\ tm.year \in Int
    BY <1>4 DEF TM_YEAR_BASE
  <1>8. tm.mday \in 1 .. mon_lengths(year)[mon + 1] /\ DaysBefore(year)[mon] + tm.mday - 1 = idays
    <2>1. mon + 1 \in 1 .. 12
      OBVIOUS
    <2>2. PICK l \in Int, b \in Int : l = mon_lengths(year)[mon + 1] /\ b = DaysBefore(year)[mon]
      <3>1. mon_lengths(year)[mon + 1] \in Int
        BY <1>4, <2>1, MonthLengths, Zenon
      <3>2. DaysBefore(year)[mon] \in Int
        BY <1>5
      <3> HIDE DEF tm
      <3> QED  BY <3>1, <3>2, Zenon
    <2>3. b <= idays /\ idays < b + l
      BY <1>5, <2>2
    <2>4. idays - b + 1 \in 1 .. l /\ b + (idays - b + 1) - 1 = idays
      BY <1>4, <2>3
    <2> QED  BY <2>2, <2>4
  <1>9. /\ tm.hour \in 0 .. 23 /\ tm.min \in 0 .. 59 /\ tm.sec \in 0 .. 59
        /\ tm.hour * SECSPERHOUR + tm.min * SECSPERMIN + tm.sec = rem
    BY <1>1, RemainderIs
  <1>10. tm.mon = mon
    OBVIOUS
  <1> HIDE DEF tm
  <1>11. IsTime(tm)
    BY <1>7, <1>8, <1>9, <1>10 DEF IsTime
  <1>12. DayOfYear(tm) = idays /\ SecondOfDay(tm) = rem
    BY <1>7, <1>8, <1>9, <1>10 DEF DayOfYear, SecondOfDay
  <1>13. Instant(tm) = (YearStart(y) + d) * SECSPERDAY + rem
    BY <1>4, <1>7, <1>12, Zenon DEF Instant
  <1> QED  BY <1>1, <1>6, <1>11, <1>13, Zenon

\* timesub gives the second t as the calendar shows it.
LEMMA TimesubIs ==
  ASSUME NEW t \in Int
  PROVE  IsTime(timesub[t]) /\ Instant(timesub[t]) = t
  <1>1. PICK q \in Int : q = Quotient(t, SECSPERDAY)
    BY DEF Quotient, SECSPERDAY
  <1>2. PICK rem \in Int : rem = t - q * SECSPERDAY
    BY DEF SECSPERDAY
  <1>3. - SECSPERDAY < rem /\ rem < SECSPERDAY
    <2>1. CASE t >= 0
      BY <1>1, <1>2, <2>1 DEF Quotient, SECSPERDAY
    <2>2. CASE t < 0
      BY <1>1, <1>2, <2>2 DEF Quotient, SECSPERDAY
    <2> QED  BY <2>1, <2>2
  <1>4. PICK at : at = YearOf[<<EPOCH_YEAR, q>>]
    OBVIOUS
  <1>5. IsDayOf(at, q)
    <2>1. EPOCH_YEAR \in Int /\ YearStart(EPOCH_YEAR) = 0
      BY DEF EPOCH_YEAR, YearStart, leaps_thru_end_of
    <2>2. IsDayOf(at, YearStart(EPOCH_YEAR) + q)
      BY <1>4, <2>1, YearOfRight
    <2> QED  BY <2>1, <2>2
  <1>6. PICK y \in Int, d \in Int : y = at.year /\ d = at.yday
    BY <1>5 DEF IsDayOf
  <1>7. YearStart(y) \in Int /\ YearStart(y) + d = q /\ 0 <= d /\ d < year_length(y) /\ year_length(y) \in Int
    BY <1>5, <1>6, NextYear, YearLength DEF IsDayOf
  <1>8. CASE rem < 0
    <2>1. PICK b \in [year : Int, yday : Int, rem : Int] :
            /\ b = [year |-> at.year, yday |-> at.yday - 1, rem |-> rem + SECSPERDAY]
            /\ b.year = y /\ b.yday = d - 1 /\ b.rem = rem + SECSPERDAY
      <3>1. d - 1 \in Int /\ rem + SECSPERDAY \in Int
        BY DEF SECSPERDAY
      <3> DEFINE c == [year |-> y, yday |-> d - 1, rem |-> rem + SECSPERDAY]
      <3>2. c \in [year : Int, yday : Int, rem : Int]
        BY <3>1
      <3>3. c = [year |-> at.year, yday |-> at.yday - 1, rem |-> rem + SECSPERDAY]
        BY <1>6
      <3> QED  BY <3>2, <3>3
    <2>2. timesub[t] = BrokenDown[b]
      BY <1>1, <1>2, <1>4, <1>8, <2>1 DEF timesub
    <2>3. /\ - 1 <= b.yday /\ b.yday < year_length(b.year)
          /\ 0 <= b.rem /\ b.rem < SECSPERDAY
      BY <1>3, <1>7, <1>8, <2>1 DEF SECSPERDAY
    <2>4. IsTime(BrokenDown[b]) /\ Instant(BrokenDown[b]) = (YearStart(b.year) + b.yday) * SECSPERDAY + b.rem
      BY <2>3, BrokenDownIs
    <2>5. (YearStart(y) + (d - 1)) * SECSPERDAY + (rem + SECSPERDAY) = t
      <3>1. YearStart(y) + (d - 1) = q - 1
        BY <1>7
      <3>2. (q - 1) * SECSPERDAY + (rem + SECSPERDAY) = t
        BY <1>2 DEF SECSPERDAY
      <3> QED  BY <3>1, <3>2
    <2> QED  BY <2>1, <2>2, <2>4, <2>5
  <1>9. CASE ~ (rem < 0)
    <2>1. PICK b \in [year : Int, yday : Int, rem : Int] :
            /\ b = [year |-> at.year, yday |-> at.yday, rem |-> rem]
            /\ b.year = y /\ b.yday = d /\ b.rem = rem
      <3> DEFINE c == [year |-> y, yday |-> d, rem |-> rem]
      <3>2. c \in [year : Int, yday : Int, rem : Int]
        OBVIOUS
      <3>3. c = [year |-> at.year, yday |-> at.yday, rem |-> rem]
        BY <1>6
      <3> QED  BY <3>2, <3>3
    <2>2. timesub[t] = BrokenDown[b]
      BY <1>1, <1>2, <1>4, <1>9, <2>1 DEF timesub
    <2>3. /\ - 1 <= b.yday /\ b.yday < year_length(b.year)
          /\ 0 <= b.rem /\ b.rem < SECSPERDAY
      BY <1>3, <1>7, <1>9, <2>1
    <2>4. IsTime(BrokenDown[b]) /\ Instant(BrokenDown[b]) = (YearStart(b.year) + b.yday) * SECSPERDAY + b.rem
      BY <2>3, BrokenDownIs
    <2>5. (YearStart(y) + d) * SECSPERDAY + rem = t
      <3>1. q * SECSPERDAY + rem = t
        BY <1>2 DEF SECSPERDAY
      <3> QED  BY <1>7, <3>1
    <2> QED  BY <2>1, <2>2, <2>4, <2>5
  <1> QED  BY <1>8, <1>9

\* An earlier day is earlier at any second of it.
LEMMA DayFirst ==
  ASSUME NEW d \in Int, NEW e \in Int, NEW r \in Int, NEW s \in Int,
         d < e, r < SECSPERDAY, 0 <= s
  PROVE  d * SECSPERDAY + r < e * SECSPERDAY + s
  BY DEF SECSPERDAY

\* The time of an earlier day is earlier.
LEMMA EarlierDay ==
  ASSUME NEW a, NEW b, IsTime(a), IsTime(b),
         YearStart(a.year + TM_YEAR_BASE) + DayOfYear(a) < YearStart(b.year + TM_YEAR_BASE) + DayOfYear(b)
  PROVE  Instant(a) < Instant(b)
  <1>1. PICK d \in Int : d = YearStart(a.year + TM_YEAR_BASE) + DayOfYear(a)
    BY InItsYear
  <1>2. PICK e \in Int : e = YearStart(b.year + TM_YEAR_BASE) + DayOfYear(b)
    BY InItsYear
  <1>3. SecondOfDay(a) \in Int /\ SecondOfDay(a) < SECSPERDAY /\ SecondOfDay(b) \in Int /\ 0 <= SecondOfDay(b)
    BY SecondOfDayIs
  <1>4. d < e
    BY <1>1, <1>2
  <1>5. d * SECSPERDAY + SecondOfDay(a) < e * SECSPERDAY + SecondOfDay(b)
    BY <1>3, <1>4, DayFirst
  <1> QED  BY <1>1, <1>2, <1>5 DEF Instant

LEMMA EarlierYear ==
  ASSUME NEW a, NEW b, IsTime(a), IsTime(b), a.year < b.year
  PROVE  Instant(a) < Instant(b)
  <1>1. PICK y \in Int, z \in Int : y = a.year + TM_YEAR_BASE /\ z = b.year + TM_YEAR_BASE /\ y < z
    BY DEF IsTime, TM_YEAR_BASE
  <1>2. PICK n \in Int, v \in Int, w \in Int : n = year_length(y) /\ v = YearStart(y) /\ w = YearStart(z)
    <2>1. year_length(y) \in Int
      BY YearLength
    <2>2. YearStart(y) \in Int /\ YearStart(z) \in Int
      BY NextYear
    <2> QED  BY <2>1, <2>2
  <1>3. v + n <= w
    BY <1>1, <1>2, YearsInOrder
  <1>4. PICK d \in Int, e \in Int : d = DayOfYear(a) /\ e = DayOfYear(b) /\ d < n /\ 0 <= e
    BY <1>1, <1>2, InItsYear
  <1>5. v + d < w + e
    BY <1>3, <1>4
  <1> QED  BY <1>1, <1>2, <1>4, <1>5, EarlierDay

LEMMA EarlierMonth ==
  ASSUME NEW a, NEW b, IsTime(a), IsTime(b), a.year = b.year, a.mon < b.mon
  PROVE  Instant(a) < Instant(b)
  <1>1. PICK y \in Int : y = a.year + TM_YEAR_BASE /\ y = b.year + TM_YEAR_BASE
    BY DEF IsTime, TM_YEAR_BASE
  <1>2. PICK m \in 0 .. 11, n \in 0 .. 11 : m = a.mon /\ n = b.mon /\ m < n
    BY DEF IsTime
  <1>3. DaysBefore(y)[m] + mon_lengths(y)[m + 1] <= DaysBefore(y)[n]
    BY <1>2, MonthsInOrder
  <1>4. a.mday \in 1 .. mon_lengths(y)[m + 1] /\ b.mday \in 1 .. mon_lengths(y)[n + 1]
    BY <1>1, <1>2 DEF IsTime
  <1>5. PICK l \in Int, p \in Int, q \in Int : l = mon_lengths(y)[m + 1] /\ p = DaysBefore(y)[m] /\ q = DaysBefore(y)[n]
    <2>1. m + 1 \in 1 .. 12
      OBVIOUS
    <2>2. mon_lengths(y)[m + 1] \in Int
      BY <2>1, MonthLengths
    <2>3. DaysBefore(y)[m] \in 0 .. 335 /\ DaysBefore(y)[n] \in 0 .. 335
      BY MonthsInOrder
    <2>4. DaysBefore(y)[m] \in Int /\ DaysBefore(y)[n] \in Int
      BY <2>3
    <2> QED  BY <2>2, <2>4, Zenon
  <1>6. PICK c \in Int, d \in Int : c = a.mday /\ d = b.mday /\ c <= l /\ 1 <= d
    <2>1. n + 1 \in 1 .. 12
      OBVIOUS
    <2>2. PICK k \in Int : k = mon_lengths(y)[n + 1]
      BY <2>1, MonthLengths
    <2> QED  BY <1>4, <1>5, <2>2
  <1>7. PICK v \in Int : v = YearStart(y)
    BY NextYear
  <1>8. v + (p + c - 1) < v + (q + d - 1)
    BY <1>3, <1>5, <1>6
  <1>9. YearStart(a.year + TM_YEAR_BASE) + DayOfYear(a) = v + (p + c - 1)
    BY <1>1, <1>2, <1>5, <1>6, <1>7 DEF DayOfYear
  <1>10. YearStart(b.year + TM_YEAR_BASE) + DayOfYear(b) = v + (q + d - 1)
    BY <1>1, <1>2, <1>5, <1>6, <1>7 DEF DayOfYear
  <1> QED  BY <1>8, <1>9, <1>10, EarlierDay

\* tmcomp tells which of two times is earlier.
LEMMA TmcompIs ==
  ASSUME NEW a, NEW b, IsTime(a), IsTime(b)
  PROVE  /\ tmcomp(a, b) \in Int
         /\ tmcomp(a, b) > 0 => Instant(a) > Instant(b)
         /\ tmcomp(a, b) = 0 => Instant(a) = Instant(b)
         /\ tmcomp(a, b) < 0 => Instant(a) < Instant(b)
  <1>1. Instant(a) \in Int /\ Instant(b) \in Int
    BY InItsYear
  <1>2. a.year \in Int /\ b.year \in Int /\ a.mon \in Int /\ b.mon \in Int
    BY DEF IsTime
  <1>3. CASE a.year # b.year
    <2>1. tmcomp(a, b) = a.year - b.year
      BY <1>3 DEF tmcomp
    <2>2. a.year < b.year => Instant(a) < Instant(b)
      BY EarlierYear
    <2>3. b.year < a.year => Instant(b) < Instant(a)
      BY EarlierYear
    <2> QED  BY <1>1, <1>2, <1>3, <2>1, <2>2, <2>3
  <1>4. CASE a.year = b.year /\ a.mon # b.mon
    <2>1. tmcomp(a, b) = a.mon - b.mon
      BY <1>4 DEF tmcomp
    <2>2. a.mon < b.mon => Instant(a) < Instant(b)
      BY <1>4, EarlierMonth
    <2>3. b.mon < a.mon => Instant(b) < Instant(a)
      BY <1>4, EarlierMonth
    <2> QED  BY <1>1, <1>2, <1>4, <2>1, <2>2, <2>3
  <1>5. CASE a.year = b.year /\ a.mon = b.mon
    <2>1. PICK y \in Int : y = a.year + TM_YEAR_BASE /\ y = b.year + TM_YEAR_BASE
      BY <1>5 DEF IsTime, TM_YEAR_BASE
    <2>2. PICK v \in Int, m \in 0 .. 11 : v = YearStart(y) /\ m = a.mon /\ m = b.mon
      BY <1>5, NextYear DEF IsTime
    <2>3. PICK p \in Int : p = DaysBefore(y)[m]
      <3>1. DaysBefore(y)[m] \in 0 .. 335
        BY MonthsInOrder
      <3> QED  BY <3>1
    <2>4. a.mday \in Int /\ b.mday \in Int
      <3>1. m + 1 \in 1 .. 12
        OBVIOUS
      <3>2. PICK l \in Int : l = mon_lengths(y)[m + 1]
        BY <3>1, MonthLengths
      <3>3. a.mday \in 1 .. l /\ b.mday \in 1 .. l
        BY <2>1, <2>2, <3>2 DEF IsTime
      <3> QED  BY <3>3
    <2>5. /\ a.hour \in Int /\ a.min \in Int /\ a.sec \in Int
          /\ b.hour \in Int /\ b.min \in Int /\ b.sec \in Int
      BY DEF IsTime
    <2>6. PICK x \in Int : x = (a.mday - b.mday) * SECSPERDAY + (a.hour - b.hour) * SECSPERHOUR
                                 + (a.min - b.min) * SECSPERMIN + (a.sec - b.sec)
      BY <2>4, <2>5 DEF SECSPERDAY, SECSPERHOUR, SECSPERMIN
    <2>7. tmcomp(a, b) = x
      BY <1>5, <2>6 DEF tmcomp
    <2>8. /\ Instant(a) = (v + (p + a.mday - 1)) * SECSPERDAY + (a.hour * SECSPERHOUR + a.min * SECSPERMIN + a.sec)
          /\ Instant(b) = (v + (p + b.mday - 1)) * SECSPERDAY + (b.hour * SECSPERHOUR + b.min * SECSPERMIN + b.sec)
      BY <2>1, <2>2, <2>3 DEF Instant, DayOfYear, SecondOfDay
    <2>9. Instant(a) - Instant(b) = x
      <3>1. ((v + (p + a.mday - 1)) * SECSPERDAY + (a.hour * SECSPERHOUR + a.min * SECSPERMIN + a.sec))
              - ((v + (p + b.mday - 1)) * SECSPERDAY + (b.hour * SECSPERHOUR + b.min * SECSPERMIN + b.sec))
              = (a.mday - b.mday) * SECSPERDAY + (a.hour - b.hour) * SECSPERHOUR
                  + (a.min - b.min) * SECSPERMIN + (a.sec - b.sec)
        <4>1. PICK d \in Int, e \in Int : d = a.mday /\ e = b.mday
          BY <2>4
        <4>2. PICK h \in Int, i \in Int, k \in Int, n \in Int, s \in Int, t \in Int :
                h = a.hour /\ i = b.hour /\ k = a.min /\ n = b.min /\ s = a.sec /\ t = b.sec
          BY <2>5
        <4>3. ((v + (p + d - 1)) * SECSPERDAY + (h * SECSPERHOUR + k * SECSPERMIN + s))
                - ((v + (p + e - 1)) * SECSPERDAY + (i * SECSPERHOUR + n * SECSPERMIN + t))
                = (d - e) * SECSPERDAY + (h - i) * SECSPERHOUR + (k - n) * SECSPERMIN + (s - t)
          BY DEF SECSPERDAY, SECSPERHOUR, SECSPERMIN
        <4> QED  BY <4>1, <4>2, <4>3
      <3> QED  BY <2>6, <2>8, <3>1
    <2> QED  BY <1>1, <2>7, <2>9
  <1> QED  BY <1>3, <1>4, <1>5

\* What a date gives, and what is left of it once minutes, hours and days are in range.
Given == [year : Int, mon : 0 .. 11, mday : 1 .. 32, hour : 0 .. 23, min : 0 .. 59, sec : 0 .. 60]

LEMMA Members ==
  ASSUME NEW tm \in Given
  PROVE  /\ tm.year \in Int /\ tm.mon \in 0 .. 11 /\ tm.mday \in 1 .. 32
         /\ tm.hour \in 0 .. 23 /\ tm.min \in 0 .. 59 /\ tm.sec \in 0 .. 60
  BY DEF Given

LEMMA SameMembers ==
  ASSUME NEW a \in Given, NEW b \in Given, a.year = b.year, a.mon = b.mon, a.mday = b.mday,
         a.hour = b.hour, a.min = b.min, a.sec = b.sec
  PROVE  a = b
  BY DEF Given

LEMMA WithClock ==
  ASSUME NEW tm \in Given, NEW s \in 0 .. 60, NEW m \in 0 .. 59, NEW h \in 0 .. 23, NEW d \in 1 .. 32
  PROVE  [tm EXCEPT !.sec = s, !.min = m, !.hour = h, !.mday = d] \in Given
  BY DEF Given

LEMMA YearAfter ==
  ASSUME NEW y \in Int
  PROVE  (y + 1) + TM_YEAR_BASE = (y + TM_YEAR_BASE) + 1
  BY DEF TM_YEAR_BASE

\* A day past the end of its month is the same day of the next one.
LEMMA InItsMonthIs ==
  ASSUME NEW tm \in Given
  PROVE  \E your \in Given :
           /\ your = InItsMonth(tm)
           /\ your.mday \in 1 .. mon_lengths(your.year + TM_YEAR_BASE)[your.mon + 1]
           /\ your.hour = tm.hour /\ your.min = tm.min /\ your.sec = tm.sec
           /\ YearStart(your.year + TM_YEAR_BASE) + DayOfYear(your)
                = YearStart(tm.year + TM_YEAR_BASE) + DayOfYear(tm)
  <1>1. PICK y \in Int, m \in 0 .. 11, d \in 1 .. 32 :
          y = tm.year + TM_YEAR_BASE /\ m = tm.mon /\ d = tm.mday
    BY Members DEF TM_YEAR_BASE
  <1>2. PICK i \in 28 .. 31 : i = mon_lengths(y)[m + 1]
    <2>1. m + 1 \in 1 .. 12
      OBVIOUS
    <2> QED  BY <2>1, MonthLengths
  <1>3. PICK v \in Int, b \in Int : v = YearStart(y) /\ b = DaysBefore(y)[m]
    <2>1. YearStart(y) \in Int
      BY NextYear
    <2>2. DaysBefore(y)[m] \in 0 .. 335
      BY MonthsInOrder
    <2> QED  BY <2>1, <2>2
  <1>4. YearStart(tm.year + TM_YEAR_BASE) + DayOfYear(tm) = v + (b + d - 1)
    BY <1>1, <1>3 DEF DayOfYear
  <1>5. CASE d <= i
    <2>1. InItsMonth(tm) = tm
      BY <1>1, <1>2, <1>5 DEF InItsMonth
    <2>2. tm.mday \in 1 .. i
      BY <1>1, <1>5
    <2> QED  BY <1>1, <1>2, <2>1, <2>2
  <1>6. CASE d > i /\ m = 11
    <2>0. PICK e \in 1 .. 32, n \in 0 .. 11, z \in Int : e = d - i /\ e = tm.mday - i /\ n = 0 /\ z = tm.year + 1
      BY <1>1, <1>6, Members
    <2>1. PICK your : your = [tm EXCEPT !.mday = e, !.mon = n, !.year = z]
      OBVIOUS
    <2>2. your = InItsMonth(tm)
      <3>1. tm.mday = d /\ ~ (d <= i) /\ tm.mon = 11 /\ i = mon_lengths(tm.year + TM_YEAR_BASE)[tm.mon + 1]
        BY <1>1, <1>2, <1>6
      <3> QED  BY <2>0, <2>1, <3>1, Zenon DEF InItsMonth
    <2>3. /\ your \in Given /\ your.mon = 0 /\ your.mday = d - i /\ your.year = tm.year + 1
          /\ your.hour = tm.hour /\ your.min = tm.min /\ your.sec = tm.sec
      BY <2>0, <2>1, ZenonT(30) DEF Given
    <2>4. your.year + TM_YEAR_BASE = y + 1
      BY <1>1, <2>3, YearAfter DEF Given
    <2>5. i = 31
      BY <1>2, <1>6 DEF mon_lengths
    <2>6. your.mday \in 1 .. mon_lengths(y + 1)[your.mon + 1]
      <3>1. mon_lengths(y + 1)[0 + 1] = 31
        BY DEF mon_lengths
      <3> QED  BY <1>6, <2>3, <3>1
    <2>7. DaysBefore(y + 1)[0] = 0
      BY DaysBeforeStep
    <2>8. YearStart(y + 1) = v + (b + 31)
      <3>1. DaysBefore(y)[11] + 31 = year_length(y)
        BY MonthsInOrder
      <3>2. YearStart(y + 1) = YearStart(y) + year_length(y)
        BY NextYear
      <3> QED  BY <1>3, <1>6, <3>1, <3>2
    <2>9. DayOfYear(your) = d - i - 1
      BY <2>3, <2>4, <2>7 DEF DayOfYear
    <2>10. YearStart(your.year + TM_YEAR_BASE) + DayOfYear(your) = v + (b + d - 1)
      BY <2>4, <2>5, <2>8, <2>9
    <2> QED  BY <1>4, <2>2, <2>3, <2>4, <2>6, <2>10
  <1>7. CASE d > i /\ m # 11
    <2>0. PICK e \in 1 .. 32, n \in 0 .. 11 : e = d - i /\ e = tm.mday - i /\ n = m + 1 /\ n = tm.mon + 1
      BY <1>1, <1>7
    <2>1. PICK your : your = [tm EXCEPT !.mday = e, !.mon = n]
      OBVIOUS
    <2>2. your = InItsMonth(tm)
      BY <1>1, <1>2, <1>7, <2>0, <2>1 DEF InItsMonth
    <2>3. /\ your \in Given /\ your.mon = m + 1 /\ your.mday = d - i /\ your.year = tm.year
          /\ your.hour = tm.hour /\ your.min = tm.min /\ your.sec = tm.sec
      BY <2>0, <2>1 DEF Given
    <2>4. your.year + TM_YEAR_BASE = y
      BY <1>1, <2>3
    <2>5. PICK l \in 28 .. 31 : l = mon_lengths(y)[(m + 1) + 1]
      <3>1. (m + 1) + 1 \in 1 .. 12
        BY <1>7
      <3> QED  BY <3>1, MonthLengths
    <2>6. your.mday \in 1 .. mon_lengths(y)[your.mon + 1]
      BY <1>7, <2>3, <2>5
    <2>7. DaysBefore(y)[m + 1] = b + i
      <3>1. m \in 0 .. 10
        BY <1>7
      <3> QED  BY <1>2, <1>3, <3>1, MonthsInOrder
    <2>8. DayOfYear(your) = b + d - 1
      BY <2>3, <2>4, <2>7 DEF DayOfYear
    <2>9. YearStart(your.year + TM_YEAR_BASE) + DayOfYear(your) = v + (b + d - 1)
      BY <1>3, <2>4, <2>8
    <2> QED  BY <1>4, <2>2, <2>3, <2>4, <2>6, <2>9
  <1> QED  BY <1>5, <1>6, <1>7

\* Minutes, hours and days are brought into their ranges; unless the seconds are too,
\* they were in them.
LEMMA InRangeIs ==
  ASSUME NEW tm \in Given, tm.mday # 32, NEW norm \in BOOLEAN
  PROVE  \E near \in Given :
           InRange(tm, norm) = InItsMonth(near) /\ (~ norm => near = tm)
  <1>1. PICK h \in 0 .. 23, m \in 0 .. 59, s \in 0 .. 60, d \in 1 .. 31 :
          h = tm.hour /\ m = tm.min /\ s = tm.sec /\ d = tm.mday
    <2>1. tm.hour \in 0 .. 23 /\ tm.min \in 0 .. 59 /\ tm.sec \in 0 .. 60 /\ tm.mday \in 1 .. 31
      BY Members
    <2> QED  BY <2>1
  <1>2. CASE ~ norm
    <2>1. h \div 24 = 0 /\ h % 24 = h /\ m \div 60 = 0 /\ m % 60 = m
      OBVIOUS
    <2>2. PICK near : near = [tm EXCEPT !.sec = s, !.min = m % 60, !.hour = (h + m \div 60) % 24,
                                        !.mday = d + (h + m \div 60) \div 24]
      OBVIOUS
    <2>3. InRange(tm, norm) = InItsMonth(near)
      BY <1>1, <1>2, <2>2 DEF InRange, Normalized
    <2>4. near = [tm EXCEPT !.sec = s, !.min = m, !.hour = h, !.mday = d]
      <3>1. h + m \div 60 = h /\ (h + m \div 60) % 24 = h /\ d + (h + m \div 60) \div 24 = d
        BY <2>1
      <3> QED  BY <2>1, <2>2, <3>1, Zenon
    <2>5. near = tm
      <3>1. d \in 1 .. 32
        OBVIOUS
      <3>2. /\ near \in Given /\ near.year = tm.year /\ near.mon = tm.mon /\ near.mday = d
            /\ near.hour = h /\ near.min = m /\ near.sec = s
        BY <2>4, <3>1 DEF Given
      <3> QED  BY <1>1, <3>2, SameMembers
    <2> QED  BY <1>2, <2>3, <2>5
  <1>3. CASE norm
    <2>1. PICK e \in 0 .. 60, t \in 0 .. 59 : e = m + s \div 60 /\ t = s % 60
      OBVIOUS
    <2>2. PICK f \in 0 .. 24, n \in 0 .. 59 : f = h + e \div 60 /\ n = e % 60
      OBVIOUS
    <2>3. PICK g \in 1 .. 32, i \in 0 .. 23 : g = d + f \div 24 /\ i = f % 24
      OBVIOUS
    <2>4. PICK near : near = [tm EXCEPT !.sec = t, !.min = n, !.hour = i, !.mday = g]
      OBVIOUS
    <2>5. InRange(tm, norm) = InItsMonth(near)
      BY <1>1, <1>3, <2>1, <2>2, <2>3, <2>4 DEF InRange, Normalized
    <2>6. near \in Given
      <3>1. t \in 0 .. 60
        OBVIOUS
      <3>2. [tm EXCEPT !.sec = t, !.min = n, !.hour = i, !.mday = g] \in Given
        BY <3>1, WithClock, Zenon
      <3> QED  BY <2>4, <3>2
    <2> QED  BY <1>3, <2>5, <2>6
  <1> QED  BY <1>2, <1>3

\* The second that is searched and the one that is added later make the one given.
LEMMA Shown ==
  ASSUME NEW your \in Given,
         your.mday \in 1 .. mon_lengths(your.year + TM_YEAR_BASE)[your.mon + 1]
  PROVE  \E tm \in Given, saved \in 0 .. 60 :
           /\ tm = [your EXCEPT !.sec = ShownSecond(your)] /\ saved = Saved(your)
           /\ IsTime(tm)
           /\ Instant(tm) + saved
                = (YearStart(your.year + TM_YEAR_BASE) + DayOfYear(your)) * SECSPERDAY + SecondOfDay(your)
  <1>1. /\ your.year \in Int /\ your.mon \in 0 .. 11 /\ your.mday \in 1 .. 32
        /\ your.hour \in 0 .. 23 /\ your.min \in 0 .. 59 /\ your.sec \in 0 .. 60
    BY Members
  <1>2. PICK s \in 0 .. 59, saved \in 0 .. 60 : s = ShownSecond(your) /\ saved = Saved(your) /\ s + saved = your.sec
    <2>0. PICK c \in 0 .. 60 : c = your.sec
      BY <1>1
    <2>1. CASE c \in 0 .. 59
      <3>1. ShownSecond(your) = c /\ Saved(your) = 0
        BY <2>0, <2>1 DEF ShownSecond, Saved
      <3> QED  BY <2>0, <2>1, <3>1
    <2>2. CASE c = 60 /\ your.year + TM_YEAR_BASE < EPOCH_YEAR
      <3>1. ShownSecond(your) = 59 /\ Saved(your) = 1
        BY <2>0, <2>2 DEF ShownSecond, Saved
      <3> QED  BY <2>0, <2>2, <3>1
    <2>3. CASE c = 60 /\ ~ (your.year + TM_YEAR_BASE < EPOCH_YEAR)
      <3>1. ShownSecond(your) = 0 /\ Saved(your) = 60
        BY <2>0, <2>3 DEF ShownSecond, Saved
      <3> QED  BY <2>0, <2>3, <3>1
    <2>4. c \in 0 .. 59 \/ c = 60
      OBVIOUS
    <2> QED  BY <2>1, <2>2, <2>3, <2>4
  <1>3. PICK tm : tm = [your EXCEPT !.sec = s]
    OBVIOUS
  <1>4. /\ tm \in Given /\ tm.year = your.year /\ tm.mon = your.mon /\ tm.mday = your.mday
        /\ tm.hour = your.hour /\ tm.min = your.min /\ tm.sec = s
    BY <1>3 DEF Given
  <1>5. IsTime(tm)
    BY <1>1, <1>4 DEF IsTime
  <1>6. DayOfYear(tm) = DayOfYear(your)
    BY <1>4 DEF DayOfYear
  <1>7. PICK x \in Int : x = (YearStart(tm.year + TM_YEAR_BASE) + DayOfYear(tm)) * SECSPERDAY
    <2>1. YearStart(tm.year + TM_YEAR_BASE) \in Int /\ DayOfYear(tm) \in Int
      BY <1>5, InItsYear
    <2> QED  BY <2>1 DEF SECSPERDAY
  <1>8. PICK h \in Int, m \in Int : h = your.hour * SECSPERHOUR /\ m = your.min * SECSPERMIN
    BY <1>1 DEF SECSPERHOUR, SECSPERMIN
  <1>9. Instant(tm) = x + (h + m + s)
    BY <1>4, <1>7, <1>8 DEF Instant, SecondOfDay
  <1>10. (YearStart(your.year + TM_YEAR_BASE) + DayOfYear(your)) * SECSPERDAY + SecondOfDay(your) = x + (h + m + your.sec)
    BY <1>4, <1>6, <1>7, <1>8 DEF SecondOfDay
  <1>11. (x + (h + m + s)) + saved = x + (h + m + your.sec)
    BY <1>2
  <1> QED  BY <1>2, <1>3, <1>4, <1>5, <1>9, <1>10, <1>11

\* What the fields of a date may give.
Accepted(tm) == tm \in Given /\ tm.mday # 32 /\ tm.year >= 69

\* The search starts from a time with its members in range; it is the given one,
\* except for the seconds that are saved.
LEMMA SearchedIs ==
  ASSUME NEW given, Accepted(given), NEW norm \in BOOLEAN
  PROVE  \E your \in Given, tm \in Given, saved \in 0 .. 60 :
           /\ your = InRange(given, norm)
           /\ tm = [your EXCEPT !.sec = ShownSecond(your)] /\ saved = Saved(your)
           /\ IsTime(tm)
           /\ ~ norm => Instant(tm) + saved = SecondsOf(given)
  <1>1. given \in Given /\ given.mday # 32 /\ given.year \in Int /\ given.year >= 69
    BY Members DEF Accepted
  <1>2. PICK near \in Given : InRange(given, norm) = InItsMonth(near) /\ (~ norm => near = given)
    BY <1>1, InRangeIs
  <1>3. PICK your \in Given :
           /\ your = InItsMonth(near)
           /\ your.mday \in 1 .. mon_lengths(your.year + TM_YEAR_BASE)[your.mon + 1]
           /\ your.hour = near.hour /\ your.min = near.min /\ your.sec = near.sec
           /\ YearStart(your.year + TM_YEAR_BASE) + DayOfYear(your)
                = YearStart(near.year + TM_YEAR_BASE) + DayOfYear(near)
    BY InItsMonthIs
  <1>4. PICK tm \in Given, saved \in 0 .. 60 :
           /\ tm = [your EXCEPT !.sec = ShownSecond(your)] /\ saved = Saved(your)
           /\ IsTime(tm)
           /\ Instant(tm) + saved
                = (YearStart(your.year + TM_YEAR_BASE) + DayOfYear(your)) * SECSPERDAY + SecondOfDay(your)
    BY <1>3, Shown
  <1>5. ASSUME ~ norm PROVE Instant(tm) + saved = SecondsOf(given)
    <2>1. SecondOfDay(your) = SecondOfDay(given)
      BY <1>2, <1>3, <1>5, Zenon DEF SecondOfDay
    <2>2. Instant(tm) + saved = Instant(given)
      BY <1>2, <1>3, <1>4, <1>5, <2>1, Zenon DEF Instant
    <2>3. given.mon \in 0 .. 11 /\ given.mday \in Int
      <3>1. given.mday \in 1 .. 32 /\ given.mon \in 0 .. 11
        BY <1>1, Members
      <3> QED  BY <3>1
    <2>4. SecondsOf(given) = Instant(given)
      BY <1>1, <2>3, InstantIs
    <2> QED  BY <2>2, <2>4
  <1> QED  BY <1>2, <1>3, <1>4, <1>5

\* time_t reaches from before 1969 to the dates that are in its reach.
LEMMA ReachIs ==
  ASSUME NEW given, Accepted(given), InReach(given)
  PROVE  SecondsOf(given) \in Int /\ TimeMin + 60 <= SecondsOf(given) /\ SecondsOf(given) <= TimeMax
  <1>0. /\ given.year \in Int /\ given.year >= 69 /\ given.mon \in 0 .. 11 /\ given.mday \in 1 .. 32
        /\ given.hour \in 0 .. 23 /\ given.min \in 0 .. 59 /\ given.sec \in 0 .. 60
    BY Members DEF Accepted
  <1>1. PICK y \in Int, d \in Int : y = given.year + TM_YEAR_BASE /\ y >= 1969 /\ d = given.mday /\ 1 <= d
    BY <1>0 DEF TM_YEAR_BASE
  <1>2. given.mday \in Int
    BY <1>0
  <1>3. PICK b \in Int : b = DaysBefore(y)[given.mon] /\ 0 <= b
    <2>1. DaysBefore(y)[given.mon] \in 0 .. 335
      <3>1. given.mon \in 0 .. 11
        BY <1>0
      <3>2. y \in Int
        OBVIOUS
      <3> QED  BY <3>1, <3>2, MonthStart, Zenon
    <2> QED  BY <2>1
  <1>4. PICK v \in Int : v = YearStart(y) /\ v >= -365
    <2>1. YearStart(1969) = -365
      BY DEF YearStart, leaps_thru_end_of
    <2>2. YearStart(y) \in Int
      BY NextYear
    <2>3. 1969 < y => YearStart(1969) + year_length(1969) <= YearStart(y)
      BY <1>1, YearsInOrder
    <2>4. year_length(1969) = 365
      BY DEF year_length, isleap
    <2>5. 1969 = y => YearStart(y) = -365
      BY <2>1
    <2> QED  BY <1>1, <2>1, <2>2, <2>3, <2>4, <2>5
  <1>5. DayOf(given) = v + (b + d - 1)
    <2>1. DayOf(given) = YearStart(given.year + TM_YEAR_BASE) + DayOfYear(given)
      BY <1>0, <1>2, InstantIs
    <2> QED  BY <1>1, <1>3, <1>4, <2>1 DEF DayOfYear
  <1>6. PICK e \in Int : e = DayOf(given) /\ e >= -365
    BY <1>1, <1>3, <1>4, <1>5
  <1>7. PICK s \in Int : s = SecondOfDay(given) /\ 0 <= s /\ s <= SECSPERDAY
    <2>1. PICK h \in 0 .. 23 : h = given.hour
      BY <1>0
    <2>2. PICK m \in 0 .. 59 : m = given.min
      BY <1>0
    <2>3. PICK c \in 0 .. 60 : c = given.sec
      BY <1>0
    <2>4. h \in Int /\ 0 <= h /\ h <= 23 /\ m \in Int /\ 0 <= m /\ m <= 59 /\ c \in Int /\ 0 <= c /\ c <= 60
      OBVIOUS
    <2>5. PICK s \in Int : s = h * 3600 + m * 60 + c /\ 0 <= s /\ s <= 86400
      BY <2>4
    <2> QED  BY <2>1, <2>2, <2>3, <2>5 DEF SecondOfDay, SECSPERHOUR, SECSPERMIN, SECSPERDAY
  <1>8. SecondsOf(given) = e * SECSPERDAY + s
    BY <1>6, <1>7 DEF SecondsOf
  <1>9. e < TimeMax \div SECSPERDAY \/ (e = TimeMax \div SECSPERDAY /\ s <= TimeMax % SECSPERDAY)
    BY <1>6, <1>7 DEF InReach
  <1>10. PICK max \in Int : max = TimeMax /\ TimeMin = - max - 1 /\ max >= 2147483647
    BY DateAssumption
  <1>11. e * SECSPERDAY + s <= max
    BY <1>7, <1>9, <1>10 DEF SECSPERDAY
  <1>12. e * SECSPERDAY + s \in Int /\ - max - 1 + 60 <= e * SECSPERDAY + s
    BY <1>6, <1>7, <1>10 DEF SECSPERDAY
  <1> QED  BY <1>8, <1>10, <1>11, <1>12

-----------------------------------------------------------------------------
(* The fields of a date.                                                   *)

\* The number that a text of digits stands for, digit by digit.
LEMMA NumberSteps ==
  ASSUME NEW s \in Seq(Int)
  PROVE  \E v : /\ NumberOf(s) = v[Len(s)] /\ v[0] = 0
                /\ \A i \in 1 .. Len(s) : v[i] = 10 * v[i - 1] + s[i] - 48
  <1> DEFINE n == Len(s)
             Steps(f) == [i \in 0 .. n |-> IF i = 0 THEN 0 ELSE 10 * f[i - 1] + s[i] - 48]
             value == CHOOSE f : f = Steps(f)
             step == [i \in 1 .. n |-> [x \in Int |-> 10 * x + s[i] - 48]]
  <1>1. n \in Nat /\ 0 \in Int
    OBVIOUS
  <1>2. step \in StepsOn(Int, n)
    <2>1. \A i \in 1 .. n : s[i] \in Int
      OBVIOUS
    <2> QED  BY <2>1 DEF StepsOn
  <1>3. PICK r \in [0 .. n -> Int] : r[0] = 0 /\ \A i \in 1 .. n : r[i] = step[i][r[i - 1]]
    <2> HIDE DEF step, n
    <2>1. Walks(Int, n, 0, step) # {}
      BY <1>1, <1>2, StepByStep
    <2> QED  BY <2>1 DEF Walks
  <1>4. r = Steps(r)
    <2>1. ASSUME NEW i \in 1 .. n
          PROVE  r[i] = 10 * r[i - 1] + s[i] - 48
      <3>1. i - 1 \in 0 .. n
        OBVIOUS
      <3>2. r[i - 1] \in Int
        BY <3>1
      <3>3. r[i] = step[i][r[i - 1]]
        BY <1>3
      <3>4. step[i] = [x \in Int |-> 10 * x + s[i] - 48]
        OBVIOUS
      <3> HIDE DEF step
      <3> QED  BY <3>2, <3>3, <3>4
    <2>2. \A i \in 0 .. n : r[i] = Steps(r)[i]
      <3> HIDE DEF step, n
      <3> QED  BY <1>1, <1>3, <2>1
    <2> QED  BY <2>2
  <1>5. value = Steps(value)
    <2> HIDE DEF Steps
    <2> QED  BY <1>4
  <1>6. NumberOf(s) = value[n]
    BY DEF NumberOf
  <1> HIDE DEF value
  <1>7. value[0] = 0 /\ \A i \in 1 .. n : value[i] = 10 * value[i - 1] + s[i] - 48
    <2> HIDE DEF n
    <2> QED  BY <1>1, <1>5
  <1> QED  BY <1>6, <1>7

LEMMA NoDigits ==
  ASSUME NEW s \in Seq(Int), Len(s) = 0
  PROVE  NumberOf(s) = 0
  BY NumberSteps

LEMMA DigitOf ==
  ASSUME NEW s \in Seq(Int), digits_only(s), NEW i \in 1 .. Len(s)
  PROVE  s[i] \in Int /\ 48 <= s[i] /\ s[i] <= 57
  <1>1. s[i] \in 48 .. 57
    BY DEF digits_only
  <1> QED  BY <1>1

LEMMA FewDigits ==
  ASSUME NEW s \in Seq(Int), NEW n \in Int, Len(s) = n, 1 <= n, n <= 3, digits_only(s)
  PROVE  Millis(s) \in Int /\ 0 <= Millis(s) /\ Millis(s) <= 999
  <1>0. n = 1 \/ n = 2 \/ n = 3
    OBVIOUS
  <1>1. PICK v : /\ NumberOf(s) = v[n] /\ v[0] = 0
                 /\ \A i \in 1 .. n : v[i] = 10 * v[i - 1] + s[i] - 48
    BY NumberSteps
  <1>d. \A i \in 1 .. n : s[i] \in Int /\ 48 <= s[i] /\ s[i] <= 57
    BY DigitOf
  <1>2. v[1] \in Int /\ 0 <= v[1] /\ v[1] <= 9
    <2>1. 1 \in 1 .. n
      OBVIOUS
    <2>2. s[1] \in Int /\ 48 <= s[1] /\ s[1] <= 57
      BY <2>1, <1>d
    <2>3. v[1] = 10 * v[1 - 1] + s[1] - 48
      BY <1>1, <2>1
    <2>4. v[1 - 1] = 0
      BY <1>1
    <2> QED  BY <2>2, <2>3, <2>4
  <1>3. ASSUME n # 1 PROVE v[2] \in Int /\ 0 <= v[2] /\ v[2] <= 99
    <2>1. 2 \in 1 .. n
      BY <1>3
    <2>2. s[2] \in Int /\ 48 <= s[2] /\ s[2] <= 57
      BY <2>1, <1>d
    <2>3. v[2] = 10 * v[2 - 1] + s[2] - 48
      BY <1>1, <2>1, Zenon
    <2>4. v[2 - 1] = v[1]
      OBVIOUS
    <2> QED  BY <1>2, <2>2, <2>3, <2>4, SMTT(20)
  <1>4. ASSUME n = 3 PROVE v[3] \in Int /\ 0 <= v[3] /\ v[3] <= 999
    <2>1. 3 \in 1 .. n /\ n # 1
      BY <1>4
    <2>2. s[3] \in Int /\ 48 <= s[3] /\ s[3] <= 57
      BY <2>1, <1>d
    <2>3. v[3] = 10 * v[3 - 1] + s[3] - 48
      BY <1>1, <2>1, Zenon
    <2>4. v[3 - 1] = v[2]
      OBVIOUS
    <2> QED  BY <1>3, <2>1, <2>2, <2>3, <2>4, SMTT(20)
  <1>5. CASE n = 1
    <2>1. Millis(s) = 100 * NumberOf(s)
      BY <1>5 DEF Millis
    <2>2. NumberOf(s) = v[1]
      BY <1>1, <1>5
    <2> QED  BY <1>2, <2>1, <2>2
  <1>6. CASE n = 2
    <2>1. Millis(s) = 10 * NumberOf(s)
      BY <1>6 DEF Millis
    <2>2. NumberOf(s) = v[2] /\ n # 1
      BY <1>1, <1>6
    <2> QED  BY <1>3, <2>1, <2>2
  <1>7. CASE n = 3
    <2>1. Millis(s) = NumberOf(s)
      BY <1>7 DEF Millis
    <2>2. NumberOf(s) = v[3]
      BY <1>1, <1>7
    <2> QED  BY <1>4, <1>7, <2>1, <2>2
  <1> QED  BY <1>0, <1>5, <1>6, <1>7

Thousandth == 0 .. 999

LEMMA Thousandths ==
  ASSUME NEW s \in Seq(Int), NEW n \in Int, Len(s) = n, 1 <= n, n <= 3, digits_only(s)
  PROVE  Millis(s) \in Thousandth
  <1>1. PICK x : x = Millis(s)
    OBVIOUS
  <1>2. x \in Int /\ 0 <= x /\ x <= 999
    BY <1>1, FewDigits
  <1>3. x \in Thousandth
    BY <1>2 DEF Thousandth
  <1> QED  BY <1>1, <1>3

\* A token has a length, and what follows it a place.
LEMMA TokenIs ==
  ASSUME NEW s \in Seq(Int), NEW T, NEW f \in 1 .. Len(s) + 1
  PROVE  LET tok == get_tok(s, T, f)
         IN  /\ tok.at = f /\ tok.len \in Nat /\ tok.next \in 1 .. Len(s) + 1
             /\ tok.at + tok.len <= Len(s) + 1
  <1> DEFINE stops == {i \in f .. Len(s) : s[i] \in T}
  <1>1. CASE stops = {}
    <2>1. get_tok(s, T, f) = Piece(f, Len(s) + 1 - f, Len(s) + 1, FALSE)
      BY <1>1, Zenon DEF get_tok
    <2> HIDE DEF stops
    <2> QED  BY <2>1 DEF Piece
  <1>2. CASE stops # {}
    <2>1. stops \in SUBSET Nat
      OBVIOUS
    <2>2. PICK x \in stops : \A y \in stops : x <= y
      <3> HIDE DEF stops
      <3> QED  BY <1>2, <2>1, LeastOf
    <2>3. PICK m \in stops : m = Min(stops)
      <3> HIDE DEF stops
      <3> QED  BY <2>2 DEF Min
    <2>4. get_tok(s, T, f) = Piece(f, m - f, m + 1, TRUE)
      BY <1>2, <2>3, Zenon DEF get_tok
    <2>5. m \in f .. Len(s)
      OBVIOUS
    <2> HIDE DEF stops
    <2> QED  BY <2>4, <2>5 DEF Piece
  <1> QED  BY <1>1, <1>2

\* The tokens of a date follow each other.
LEMMA TokensAre ==
  ASSUME NEW s \in Seq(Int)
  PROVE  /\ SecToken(s).at \in Int /\ SecToken(s).len \in Nat
         /\ MillisToken(s).at \in 1 .. Len(s) + 1 /\ MillisToken(s).len \in Nat
         /\ MillisToken(s).at + MillisToken(s).len <= Len(s) + 1
  <1>1. 1 \in 1 .. Len(s) + 1
    OBVIOUS
  <1>2. YearToken(s).next \in 1 .. Len(s) + 1
    BY <1>1, TokenIs DEF YearToken
  <1>3. MonthToken(s).next \in 1 .. Len(s) + 1
    BY <1>2, TokenIs DEF MonthToken
  <1>4. DayToken(s).next \in 1 .. Len(s) + 1
    BY <1>3, TokenIs DEF DayToken
  <1>5. HourToken(s).next \in 1 .. Len(s) + 1
    BY <1>4, TokenIs DEF HourToken
  <1>6. MinToken(s).next \in 1 .. Len(s) + 1
    BY <1>5, TokenIs DEF MinToken
  <1>7. SecToken(s).at \in Int /\ SecToken(s).len \in Nat /\ SecToken(s).next \in 1 .. Len(s) + 1
    <2>1. CASE EndOf(s, MinToken(s)) = Colon
      <3>1. SecToken(s) = get_tok(s, {Dot, Plus, Minus, LetterZ}, MinToken(s).next)
        BY <2>1, Zenon DEF SecToken
      <3> QED  BY <1>6, <3>1, TokenIs
    <2>2. CASE EndOf(s, MinToken(s)) # Colon
      <3>1. SecToken(s) = Piece(MinToken(s).next, 0, MinToken(s).next, FALSE)
        BY <2>2, Zenon DEF SecToken, NoToken
      <3> QED  BY <1>6, <3>1 DEF Piece
    <2> QED  BY <2>1, <2>2
  <1>8. /\ MillisToken(s).at \in 1 .. Len(s) + 1 /\ MillisToken(s).len \in Nat
        /\ MillisToken(s).at + MillisToken(s).len <= Len(s) + 1
    <2>1. CASE SecToken(s).len # 0 /\ EndOf(s, SecToken(s)) = Dot
      <3>1. MillisToken(s) = get_tok(s, {Plus, Minus, LetterZ}, SecToken(s).next)
        BY <2>1, Zenon DEF MillisToken
      <3> QED  BY <1>7, <3>1, TokenIs
    <2>2. CASE ~ (SecToken(s).len # 0 /\ EndOf(s, SecToken(s)) = Dot)
      <3>1. MillisToken(s) = Piece(SecToken(s).next, 0, SecToken(s).next, FALSE)
        BY <2>2, Zenon DEF MillisToken, NoToken
      <3> QED  BY <1>7, <3>1 DEF Piece
    <2> QED  BY <2>1, <2>2
  <1> QED  BY <1>7, <1>8

\* The text of a token: nothing, or as long as the token.
LEMMA EmptyToken ==
  ASSUME NEW s \in Seq(Int), NEW tok, tok.at \in Int, tok.len = 0
  PROVE  Of(s, tok) \in Seq(Int) /\ Len(Of(s, tok)) = 0
  <1>1. PICK a \in Int : a = tok.at
    OBVIOUS
  <1>2. Of(s, tok) = SubSeq(s, a, a + 0 - 1)
    BY <1>1 DEF Of
  <1>3. SubSeq(s, a, a + 0 - 1) = <<>>
    OBVIOUS
  <1> QED  BY <1>2, <1>3

LEMMA Between ==
  ASSUME NEW a \in Int, NEW n \in Int, NEW l \in Int, n > 0, 1 <= a, a + n <= l + 1
  PROVE  \E b \in Int : b = a + n - 1 /\ a <= b /\ 1 <= a /\ b <= l /\ (b - a) + 1 = n
  OBVIOUS

LEMMA TokenText ==
  ASSUME NEW s \in Seq(Int), NEW l \in Int, Len(s) = l, NEW tok, NEW a \in Int, NEW n \in Int,
         tok.at = a, tok.len = n, 1 <= a, n > 0, a + n <= l + 1
  PROVE  Of(s, tok) \in Seq(Int) /\ Len(Of(s, tok)) = n
  <1>1. PICK b \in Int : b = a + n - 1 /\ a <= b /\ 1 <= a /\ b <= l /\ (b - a) + 1 = n
    BY Between
  <1>2. Of(s, tok) = SubSeq(s, a, b)
    BY <1>1 DEF Of
  <1>3. SubSeq(s, a, b) \in Seq(Int) /\ Len(SubSeq(s, a, b)) = (b - a) + 1
    BY <1>1
  <1> QED  BY <1>1, <1>2, <1>3

\* The years that a date may have, and the thousandths.
Years == 1969 .. 9999

LEMMA Parsed ==
  ASSUME NEW s, NEW digits, NEW min, NEW max, parse_num(s, digits, min, max)
  PROVE  NumberOf(s) \in min .. max
  BY Zenon DEF parse_num

LEMMA IsAYear ==
  ASSUME NEW s, parse_num(s, 4, 1969, 9999)
  PROVE  NumberOf(s) \in Years
  BY SMT DEF parse_num, Years

LEMMA YearParsed ==
  ASSUME NEW text, NEW t, FieldsAccepted(text, t)
  PROVE  NumberOf(Of(text, t.year)) \in Years
  <1>1. parse_num(Of(text, t.year), 4, 1969, 9999)
    BY DEF FieldsAccepted
  <1> QED  BY <1>1, IsAYear

LEMMA FractionParsed ==
  ASSUME NEW text, NEW t, FieldsAccepted(text, t)
  PROVE  t.millis.len > 0 => (t.millis.len <= 3 /\ digits_only(Of(text, t.millis)))
  BY SMT DEF FieldsAccepted

LEMMA NumbersOf ==
  ASSUME NEW text, NEW t, FieldsAccepted(text, t)
  PROVE  /\ NumberOf(Of(text, t.month)) \in 1 .. 12
         /\ NumberOf(Of(text, t.day)) \in 1 .. 31
         /\ NumberOf(Of(text, t.hour)) \in 0 .. 23
         /\ NumberOf(Of(text, t.min)) \in 0 .. 59
         /\ t.sec.len # 0 => NumberOf(Of(text, t.sec)) \in 0 .. 60
  <1>1. /\ parse_num(Of(text, t.month), 2, 1, 12) /\ parse_num(Of(text, t.day), 2, 1, 31)
        /\ parse_num(Of(text, t.hour), 2, 0, 23) /\ parse_num(Of(text, t.min), 2, 0, 59)
        /\ t.sec.len # 0 => parse_num(Of(text, t.sec), 2, 0, 60)
    BY DEF FieldsAccepted
  <1> QED  BY <1>1, Parsed, Zenon

LEMMA PosixIs ==
  ASSUME NEW y \in Years, NEW o \in 1 .. 12, NEW d \in 1 .. 31, NEW h \in 0 .. 23, NEW m \in 0 .. 59,
         NEW c \in 0 .. 60
  PROVE  Accepted([year |-> y - TM_YEAR_BASE, mon |-> o - 1, mday |-> d, hour |-> h, min |-> m, sec |-> c])
  <1>1. PICK a \in Int, b \in 0 .. 11 : a = y - TM_YEAR_BASE /\ b = o - 1 /\ 69 <= a
    BY DEF TM_YEAR_BASE, Years
  <1>2. PICK tm : tm = [year |-> a, mon |-> b, mday |-> d, hour |-> h, min |-> m, sec |-> c]
    OBVIOUS
  <1>3. d \in 1 .. 32 /\ d # 32
    OBVIOUS
  <1>4. tm \in Given
    BY <1>2, <1>3 DEF Given
  <1>5. tm.mday # 32 /\ tm.year >= 69
    BY <1>1, <1>2, <1>3
  <1> QED  BY <1>1, <1>2, <1>4, <1>5 DEF Accepted

LEMMA SecondsGive ==
  ASSUME NEW s \in Seq(Int), NEW t, t = Tokens(s), FieldsAccepted(s, t)
  PROVE  NumberOf(Of(s, t.sec)) \in 0 .. 60
  <1>1. t.sec = SecToken(s)
    BY DEF Tokens
  <1>2. CASE t.sec.len = 0
    <2>1. Of(s, t.sec) \in Seq(Int) /\ Len(Of(s, t.sec)) = 0
      BY <1>1, <1>2, TokensAre, EmptyToken
    <2>2. NumberOf(Of(s, t.sec)) = 0
      BY <2>1, NoDigits
    <2>3. 0 \in 0 .. 60
      OBVIOUS
    <2> QED  BY <2>2, <2>3, Zenon
  <1>3. CASE t.sec.len # 0
    BY <1>3, NumbersOf, Zenon
  <1> QED  BY <1>2, <1>3, Zenon

LEMMA TimeGiven ==
  ASSUME NEW s \in Seq(Int), NEW t, t = Tokens(s), FieldsAccepted(s, t)
  PROVE  Accepted(posix_date(s, t))
  <1>1. PICK y, o, d, h, m, c :
          /\ y = NumberOf(Of(s, t.year)) /\ o = NumberOf(Of(s, t.month)) /\ d = NumberOf(Of(s, t.day))
          /\ h = NumberOf(Of(s, t.hour)) /\ m = NumberOf(Of(s, t.min)) /\ c = NumberOf(Of(s, t.sec))
    OBVIOUS
  <1>2. y \in Years /\ o \in 1 .. 12 /\ d \in 1 .. 31 /\ h \in 0 .. 23 /\ m \in 0 .. 59 /\ c \in 0 .. 60
    BY <1>1, YearParsed, NumbersOf, SecondsGive, Zenon
  <1>3. Accepted([year |-> y - TM_YEAR_BASE, mon |-> o - 1, mday |-> d, hour |-> h, min |-> m, sec |-> c])
    BY <1>2, PosixIs, Zenon
  <1>4. posix_date(s, t) = [year |-> y - TM_YEAR_BASE, mon |-> o - 1, mday |-> d, hour |-> h, min |-> m, sec |-> c]
    BY <1>1, Zenon DEF posix_date
  <1> QED  BY <1>3, <1>4, Zenon

LEMMA FractionGiven ==
  ASSUME NEW s \in Seq(Int), NEW t, t = Tokens(s), FieldsAccepted(s, t)
  PROVE  Millis(Of(s, t.millis)) \in Thousandth
  <1>1. t.millis = MillisToken(s)
    BY DEF Tokens
  <1>2. PICK a \in Int, n \in Int, l \in Int :
          a = t.millis.at /\ n = t.millis.len /\ l = Len(s) /\ 1 <= a /\ n >= 0 /\ a + n <= l + 1
    <2>1. /\ t.millis.at \in 1 .. Len(s) + 1 /\ t.millis.len \in Nat
          /\ t.millis.at + t.millis.len <= Len(s) + 1
      BY <1>1, TokensAre, Zenon
    <2> QED  BY <2>1, SMTT(20)
  <1>3. CASE n = 0
    <2>1. PICK w \in Seq(Int) : w = Of(s, t.millis) /\ Len(w) = 0
      BY <1>2, <1>3, EmptyToken
    <2>2. NumberOf(w) = 0
      BY <2>1, NoDigits
    <2>3. Len(w) # 1 /\ Len(w) # 2
      BY <2>1
    <2>4. Millis(w) = 0
      BY <2>2, <2>3 DEF Millis
    <2>5. 0 \in Thousandth
      BY DEF Thousandth
    <2> QED  BY <2>1, <2>4, <2>5, Zenon
  <1>4. CASE n > 0
    <2>1. PICK w \in Seq(Int) : w = Of(s, t.millis) /\ Len(w) = n
      BY <1>2, <1>4, TokenText
    <2>2. n <= 3 /\ digits_only(w)
      <3>1. t.millis.len > 0 => (t.millis.len <= 3 /\ digits_only(Of(s, t.millis)))
        BY FractionParsed, Zenon
      <3> QED  BY <1>2, <1>4, <2>1, <3>1
    <2>3. 1 <= n
      BY <1>4
    <2>4. Millis(w) \in Thousandth
      BY <2>1, <2>2, <2>3, Thousandths, Zenon
    <2> QED  BY <2>1, <2>4, Zenon
  <1>5. n = 0 \/ n > 0
    BY <1>2
  <1> QED  BY <1>3, <1>4, <1>5

LEMMA LongerThan ==
  ASSUME NEW tz, Len(tz) = 5
  PROVE  tz # <<>> /\ tz # <<LetterZ>>
  <1>1. Len(<<>>) # 5 /\ Len(<<LetterZ>>) # 5
    OBVIOUS
  <1> QED  BY <1>1

LEMMA ZoneGiven ==
  ASSUME NEW text, NEW t, FieldsAccepted(text, t)
  PROVE  tz_adjustment(Of(text, t.tz)) \in Int
  <1>1. PICK tz : tz = Of(text, t.tz)
    OBVIOUS
  <1>2. CASE Len(tz) # 5
    BY <1>1, <1>2 DEF tz_adjustment
  <1>3. CASE Len(tz) = 5
    <2>1. IsZone(tz)
      BY <1>1 DEF FieldsAccepted
    <2>2. parse_num(SubSeq(tz, 2, 3), -1, -23, 23) /\ parse_num(SubSeq(tz, 4, 5), -1, 0, 59)
      BY <1>3, <2>1, LongerThan DEF IsZone
    <2>3. PICK h, m : h = NumberOf(SubSeq(tz, 2, 3)) /\ m = NumberOf(SubSeq(tz, 4, 5))
      OBVIOUS
    <2>4. h \in -23 .. 23 /\ m \in 0 .. 59
      BY <2>2, <2>3, Parsed, Zenon
    <2>5. h \in Int /\ m \in Int
      BY <2>4
    <2>6. tz_adjustment(tz) = (IF tz[1] = Minus THEN 1 ELSE -1) * (m * 60 + h * 3600)
      BY <1>3, <2>3 DEF tz_adjustment
    <2>7. PICK k \in {1, -1} : k = IF tz[1] = Minus THEN 1 ELSE -1
      OBVIOUS
    <2>8. k * (m * 60 + h * 3600) \in Int
      BY <2>5
    <2> QED  BY <1>1, <2>6, <2>7, <2>8
  <1> QED  BY <1>2, <1>3
-----------------------------------------------------------------------------
(* The search.                                                             *)

Times == [year : Int, mon : 0 .. 11, mday : 0 .. 32, hour : 0 .. 23, min : 0 .. 59, sec : 0 .. 60]

Places == {"read", "search", "done"}
Strings == Seq(0 .. 255)
Spare == 0 .. 60
time_t == TimeMin .. TimeMax

DateRecords ==
  [pc : Places, text : Strings, given : Times, tm : Times, saved : Spare, lo : time_t, hi : time_t,
   norm : BOOLEAN, ok : BOOLEAN, t : Int, tz : Int, millis : Thousandth]

\* While a time in time_t's reach is searched for, its seconds are not normalized, the
\* second that the search is to find lies between the bounds, and what it lacks is
\* saved; of the others it is only known that the bounds do not cross.
Searching(d) ==
  /\ Accepted(d.given) /\ IsTime(d.tm) /\ d.lo <= d.hi
  /\ InReach(d.given) =>
       /\ d.norm = FALSE /\ Instant(d.tm) + d.saved = SecondsOf(d.given)
       /\ d.lo <= Instant(d.tm) /\ Instant(d.tm) <= d.hi

Found(d) == (d.given # NoTime /\ InReach(d.given)) => d.t = SecondsOf(d.given)

InOrder(d) ==
  /\ d \in DateRecords
  /\ d.pc = "search" => Searching(d)
  /\ d.pc = "done" => Found(d)

DateInv == InOrder(date)

LEMMA TimeLimits ==
  \E max \in Int : TimeMax = max /\ max >= 2147483647 /\ TimeMin = - max - 1
  BY DateAssumption

\* The middle lies between the bounds.
LEMMA HalfwayIs ==
  ASSUME NEW lo \in Int, NEW hi \in Int, lo <= hi
  PROVE  Halfway(lo, hi) \in Int /\ lo <= Halfway(lo, hi) /\ Halfway(lo, hi) <= hi
  <1>1. PICK t \in Int : t = Quotient(lo, 2) + Quotient(hi, 2)
    BY DEF Quotient
  <1>2. Halfway(lo, hi) = IF t < lo THEN lo ELSE IF t > hi THEN hi ELSE t
    BY <1>1 DEF Halfway
  <1> QED  BY <1>2

\* The bounds when the middle is moved to one side, and what they then enclose.
LEMMA BoundsMove ==
  ASSUME NEW lo \in Int, NEW hi \in Int, NEW t \in Int, NEW dir \in Int, NEW x \in Int,
         lo <= t, t <= hi, dir # 0, ~ (t \in {lo, hi} /\ lo >= hi),
         NEW step, step = IF t = lo THEN 1 ELSE IF t = hi THEN -1 ELSE 0,
         NEW lo2, NEW hi2,
         dir > 0 => lo2 = (IF step = 1 THEN lo + 1 ELSE lo) /\ hi2 = t + step,
         dir < 0 => hi2 = (IF step = -1 THEN hi - 1 ELSE hi) /\ lo2 = t + step
  PROVE  /\ lo2 \in Int /\ hi2 \in Int /\ lo <= lo2 /\ lo2 <= hi2 /\ hi2 <= hi
         /\ (lo <= x /\ x <= hi /\ (dir > 0 => t > x) /\ (dir < 0 => t < x)) => (lo2 <= x /\ x <= hi2)
  <1>1. CASE dir > 0
    BY <1>1
  <1>2. CASE dir < 0
    BY <1>2
  <1> QED  BY <1>1, <1>2

LEMMA RecordMembers ==
  ASSUME NEW d \in DateRecords
  PROVE  /\ d.pc \in Places /\ d.given \in Times /\ d.tm \in Times /\ d.saved \in Spare
         /\ d.lo \in time_t /\ d.hi \in time_t /\ d.norm \in BOOLEAN
         /\ d.ok \in BOOLEAN /\ d.t \in Int /\ d.tz \in Int /\ d.millis \in Thousandth
  BY SMT DEF DateRecords

LEMMA BoundsAre ==
  ASSUME NEW d \in DateRecords
  PROVE  /\ d.lo \in Int /\ d.hi \in Int /\ d.saved \in Int
         /\ TimeMin <= d.lo /\ d.lo <= TimeMax /\ TimeMin <= d.hi /\ d.hi <= TimeMax
  <1>1. PICK max \in Int : TimeMax = max /\ max >= 2147483647 /\ TimeMin = - max - 1
    BY TimeLimits
  <1>2. d.lo \in time_t /\ d.hi \in time_t /\ d.saved \in Spare
    BY RecordMembers
  <1> QED  BY <1>1, <1>2 DEF time_t, Spare

\* The records with some of their members set.
Bounded(d, lo, hi) == [d EXCEPT !.lo = lo, !.hi = hi]
Sought(d, given, tm) == [d EXCEPT !.pc = "search", !.given = given, !.tm = tm]
Spared(d, saved, norm) == [d EXCEPT !.saved = saved, !.norm = norm]

LEMMA BoundedIs ==
  ASSUME NEW d \in DateRecords, NEW lo \in time_t, NEW hi \in time_t
  PROVE  /\ Bounded(d, lo, hi) \in DateRecords
         /\ Bounded(d, lo, hi).pc = d.pc /\ Bounded(d, lo, hi).given = d.given
         /\ Bounded(d, lo, hi).tm = d.tm /\ Bounded(d, lo, hi).saved = d.saved
         /\ Bounded(d, lo, hi).norm = d.norm /\ Bounded(d, lo, hi).lo = lo /\ Bounded(d, lo, hi).hi = hi
  <1>1. Bounded(d, lo, hi) \in DateRecords
    BY DEF Bounded, DateRecords
  <1> QED  BY <1>1 DEF Bounded, DateRecords

LEMMA SoughtIs ==
  ASSUME NEW d \in DateRecords, NEW given \in Times, NEW tm \in Times
  PROVE  /\ Sought(d, given, tm) \in DateRecords
         /\ Sought(d, given, tm).pc = "search" /\ Sought(d, given, tm).given = given
         /\ Sought(d, given, tm).tm = tm
  <1>1. "search" \in Places
    BY DEF Places
  <1>2. Sought(d, given, tm) \in DateRecords
    BY <1>1 DEF Sought, DateRecords
  <1> QED  BY <1>2 DEF Sought, DateRecords

LEMMA SparedIs ==
  ASSUME NEW d \in DateRecords, NEW saved \in Spare, NEW norm \in BOOLEAN
  PROVE  /\ Spared(d, saved, norm) \in DateRecords
         /\ Spared(d, saved, norm).pc = d.pc /\ Spared(d, saved, norm).given = d.given
         /\ Spared(d, saved, norm).tm = d.tm
         /\ Spared(d, saved, norm).saved = saved /\ Spared(d, saved, norm).norm = norm
  <1>1. Spared(d, saved, norm) \in DateRecords
    BY DEF Spared, DateRecords
  <1> QED  BY <1>1 DEF Spared, DateRecords

\* A round that goes on leaves the bounds as BoundsMove has it.
LEMMA NarrowedIs ==
  ASSUME NEW d \in DateRecords, NEW t \in Int, NEW dir \in Int, dir # 0,
         NEW lo, NEW hi, NEW step, step = IF t = d.lo THEN 1 ELSE IF t = d.hi THEN -1 ELSE 0,
         dir > 0 => lo = (IF step = 1 THEN d.lo + 1 ELSE d.lo) /\ hi = t + step,
         dir < 0 => hi = (IF step = -1 THEN d.hi - 1 ELSE d.hi) /\ lo = t + step
  PROVE  Narrowed(d, t, dir) = Bounded(d, lo, hi)
  <1>1. CASE dir > 0
    BY <1>1 DEF Narrowed, Bounded
  <1>2. CASE dir < 0
    <2>1. ~ (dir > 0)
      BY <1>2
    <2>2. Narrowed(d, t, dir) = [d EXCEPT !.hi = hi, !.lo = lo]
      BY <1>2, <2>1 DEF Narrowed
    <2>3. [d EXCEPT !.hi = hi, !.lo = lo] = Bounded(d, lo, hi)
      BY DEF DateRecords, Bounded
    <2> QED  BY <2>2, <2>3
  <1> QED  BY <1>1, <1>2

LEMMA AnsweredIs ==
  ASSUME NEW d \in DateRecords, NEW t \in Int
  PROVE  /\ Answered(d, t) \in DateRecords
         /\ Answered(d, t).pc = "done" /\ Answered(d, t).given = d.given /\ Answered(d, t).t = t
  <1>1. PICK ok \in BOOLEAN : ok = (t >= - d.tz)
    <2>1. CASE t >= - d.tz
      <3>1. TRUE = (t >= - d.tz)
        BY <2>1
      <3> QED  BY <3>1, Zenon
    <2>2. CASE ~ (t >= - d.tz)
      <3>1. FALSE = (t >= - d.tz)
        BY <2>2
      <3> QED  BY <3>1, Zenon
    <2> QED  BY <2>1, <2>2, Zenon
  <1>2. Answered(d, t) = [d EXCEPT !.pc = "done", !.ok = ok, !.t = t]
    BY <1>1, Zenon DEF Answered
  <1>3. [d EXCEPT !.pc = "done", !.ok = ok, !.t = t] \in DateRecords
    <2>1. "done" \in Places
      BY DEF Places
    <2> QED  BY <2>1 DEF DateRecords
  <1>4. [d EXCEPT !.pc = "done", !.ok = ok, !.t = t].pc = "done" 
    BY DEF DateRecords
  <1>5. [d EXCEPT !.pc = "done", !.ok = ok, !.t = t].given = d.given
    BY DEF DateRecords
  <1>6. [d EXCEPT !.pc = "done", !.ok = ok, !.t = t].t = t
    BY DEF DateRecords
  <1> QED  BY <1>2, <1>3, <1>4, <1>5, <1>6

LEMMA GivenAreTimes == Given \subseteq Times
  <1>1. 1 .. 32 \subseteq 0 .. 32
    OBVIOUS
  <1> QED  BY <1>1 DEF Given, Times

\* A search begins in order, if its seconds are normalized only for a time out of reach.
LEMMA SearchBegins ==
  ASSUME NEW d \in DateRecords, NEW given, Accepted(given), NEW norm \in BOOLEAN, InReach(given) => ~ norm
  PROVE  InOrder(Search(d, given, norm))
  <1>1. PICK your \in Given, tm \in Given, saved \in 0 .. 60 :
           /\ your = InRange(given, norm)
           /\ tm = [your EXCEPT !.sec = ShownSecond(your)] /\ saved = Saved(your)
           /\ IsTime(tm)
           /\ ~ norm => Instant(tm) + saved = SecondsOf(given)
    BY SearchedIs
  <1>2. given \in Times /\ tm \in Times
    BY <1>1, GivenAreTimes DEF Accepted
  <1>3. PICK max \in Int : TimeMax = max /\ max >= 2147483647 /\ TimeMin = - max - 1
    BY TimeLimits
  <1>4. TimeMin \in TimeMin .. TimeMax /\ TimeMax \in TimeMin .. TimeMax /\ TimeMin <= TimeMax
    BY <1>3
  <1>5. PICK r : r = Sought(d, given, tm)
    OBVIOUS
  <1>6. PICK q : q = Spared(r, saved, norm)
    OBVIOUS
  <1>9. PICK e : e = Bounded(q, TimeMin, TimeMax)
    OBVIOUS
  <1>10. /\ e \in DateRecords
         /\ e.pc = "search" /\ e.given = given /\ e.tm = tm /\ e.saved = saved /\ e.norm = norm
         /\ e.lo = TimeMin /\ e.hi = TimeMax
    <2>1. r \in DateRecords /\ r.pc = "search" /\ r.given = given /\ r.tm = tm
      BY <1>2, <1>5, SoughtIs
    <2>2. saved \in Spare
      BY DEF Spare
    <2>3. /\ q \in DateRecords /\ q.pc = "search" /\ q.given = given /\ q.tm = tm
          /\ q.saved = saved /\ q.norm = norm
      BY <1>6, <2>1, <2>2, SparedIs
    <2>4. TimeMin \in time_t /\ TimeMax \in time_t
      BY <1>4 DEF time_t
    <2> QED  BY <1>9, <2>3, <2>4, BoundedIs
  <1>11. Search(d, given, norm) = e
    <2>1. Search(d, given, norm)
            = [d EXCEPT !.pc = "search", !.given = given, !.tm = tm, !.saved = saved, !.norm = norm,
                        !.lo = TimeMin, !.hi = TimeMax]
      BY <1>1, Zenon DEF Search
    <2> QED  BY <1>5, <1>6, <1>9, <2>1, Zenon DEF Sought, Spared, Bounded
  <1>7. ASSUME InReach(given)
        PROVE  /\ norm = FALSE /\ Instant(tm) + saved = SecondsOf(given)
               /\ TimeMin <= Instant(tm) /\ Instant(tm) <= TimeMax
    <2>1. ~ norm /\ Instant(tm) + saved = SecondsOf(given)
      BY <1>1, <1>7
    <2>2. SecondsOf(given) \in Int /\ TimeMin + 60 <= SecondsOf(given) /\ SecondsOf(given) <= TimeMax
      BY <1>7, ReachIs
    <2>3. Instant(tm) \in Int
      BY <1>1, InItsYear
    <2>4. saved \in Int /\ 0 <= saved /\ saved <= 60
      OBVIOUS
    <2>5. TimeMin <= Instant(tm) /\ Instant(tm) <= TimeMax
      BY <1>3, <2>1, <2>2, <2>3, <2>4
    <2>6. norm = FALSE
      BY <2>1
    <2> QED  BY <2>1, <2>5, <2>6
  <1>8. Searching(e)
    BY <1>1, <1>4, <1>7, <1>10, Zenon DEF Searching
  <1>12. e.pc # "done"
    BY <1>10
  <1> QED  BY <1>8, <1>10, <1>11, <1>12, Zenon DEF InOrder

\* What a round looks at: the middle of the bounds, its time and on which side of
\* the sought one it is.
OnItsSide(d, t, dir) ==
  /\ t \in Int /\ d.lo <= t /\ t <= d.hi
  /\ dir \in Int /\ Instant(d.tm) \in Int
  /\ dir > 0 => t > Instant(d.tm)
  /\ dir < 0 => t < Instant(d.tm)
  /\ dir = 0 => t = Instant(d.tm)

LEMMA RoundIs ==
  ASSUME NEW d \in DateRecords, Searching(d)
  PROVE  OnItsSide(d, Halfway(d.lo, d.hi), tmcomp(timesub[Halfway(d.lo, d.hi)], d.tm))
  <1>1. d.lo \in Int /\ d.hi \in Int /\ d.lo <= d.hi
    BY BoundsAre DEF Searching
  <1>2. PICK t \in Int : t = Halfway(d.lo, d.hi) /\ d.lo <= t /\ t <= d.hi
    BY <1>1, HalfwayIs
  <1>3. IsTime(timesub[t]) /\ Instant(timesub[t]) = t
    BY TimesubIs
  <1>4. IsTime(d.tm)
    BY DEF Searching
  <1>5. PICK dir : dir = tmcomp(timesub[t], d.tm)
    OBVIOUS
  <1>6. /\ dir \in Int
        /\ dir > 0 => Instant(timesub[t]) > Instant(d.tm)
        /\ dir = 0 => Instant(timesub[t]) = Instant(d.tm)
        /\ dir < 0 => Instant(timesub[t]) < Instant(d.tm)
    BY <1>3, <1>4, <1>5, TmcompIs, Zenon
  <1>7. Instant(d.tm) \in Int
    BY <1>4, InItsYear
  <1>8. OnItsSide(d, t, dir)
    BY <1>2, <1>3, <1>6, <1>7 DEF OnItsSide
  <1> QED  BY <1>2, <1>5, <1>8, Zenon

LEMMA NarrowKeeps ==
  ASSUME NEW d \in DateRecords, d.pc = "search", Searching(d), NEW t, t = Halfway(d.lo, d.hi),
         NEW dir, dir = tmcomp(timesub[t], d.tm), dir # 0, ~ Exhausted(d, t)
  PROVE  InOrder(Narrowed(d, t, dir))
  <1>1. PICK x : x = Instant(d.tm)
    OBVIOUS
  <1>2. /\ t \in Int /\ d.lo <= t /\ t <= d.hi /\ dir \in Int /\ x \in Int
        /\ (dir > 0 => t > x) /\ (dir < 0 => t < x)
    <2>1. OnItsSide(d, t, dir)
      BY <1>1, RoundIs, Zenon
    <2> QED  BY <1>1, <2>1 DEF OnItsSide
  <1>3. /\ d.lo \in Int /\ d.hi \in Int
        /\ TimeMin <= d.lo /\ d.lo <= TimeMax /\ TimeMin <= d.hi /\ d.hi <= TimeMax
    BY BoundsAre
  <1>4. ~ (t \in {d.lo, d.hi} /\ d.lo >= d.hi)
    BY DEF Exhausted
  <1>5. PICK step : step = IF t = d.lo THEN 1 ELSE IF t = d.hi THEN -1 ELSE 0
    OBVIOUS
  <1>6. PICK lo : lo = IF dir > 0 THEN (IF step = 1 THEN d.lo + 1 ELSE d.lo) ELSE t + step
    OBVIOUS
  <1>7. PICK hi : hi = IF dir > 0 THEN t + step ELSE (IF step = -1 THEN d.hi - 1 ELSE d.hi)
    OBVIOUS
  <1>8. /\ dir > 0 => lo = (IF step = 1 THEN d.lo + 1 ELSE d.lo) /\ hi = t + step
        /\ dir < 0 => hi = (IF step = -1 THEN d.hi - 1 ELSE d.hi) /\ lo = t + step
    BY <1>2, <1>6, <1>7
  <1>9. Narrowed(d, t, dir) = Bounded(d, lo, hi)
    BY <1>2, <1>5, <1>8, NarrowedIs
  <1>10. /\ lo \in Int /\ hi \in Int /\ d.lo <= lo /\ lo <= hi /\ hi <= d.hi
         /\ (d.lo <= x /\ x <= d.hi) => (lo <= x /\ x <= hi)
    BY <1>2, <1>3, <1>4, <1>5, <1>8, BoundsMove
  <1>11. lo \in time_t /\ hi \in time_t
    <2>1. PICK max \in Int : TimeMax = max /\ max >= 2147483647 /\ TimeMin = - max - 1
      BY TimeLimits
    <2> QED  BY <1>3, <1>10, <2>1 DEF time_t
  <1>12. PICK e : e = Bounded(d, lo, hi)
    OBVIOUS
  <1>13. /\ e \in DateRecords /\ e.pc = "search" /\ e.given = d.given /\ e.tm = d.tm
         /\ e.saved = d.saved /\ e.norm = d.norm /\ e.lo = lo /\ e.hi = hi
    BY <1>11, <1>12, BoundedIs
  <1>14. Searching(e)
    BY <1>1, <1>10, <1>13, Zenon DEF Searching
  <1>15. e.pc # "done"
    BY <1>13
  <1> QED  BY <1>9, <1>12, <1>13, <1>14, <1>15, Zenon DEF InOrder

\* A search only gives up on a time out of time_t's reach.
LEMMA GiveUpKeeps ==
  ASSUME NEW d \in DateRecords, d.pc = "search", Searching(d), NEW t, t = Halfway(d.lo, d.hi),
         tmcomp(timesub[t], d.tm) # 0, Exhausted(d, t)
  PROVE  InOrder(IF d.norm THEN Answered(d, WRONG) ELSE Search(d, d.given, TRUE))
  <1>1. PICK x, dir : x = Instant(d.tm) /\ dir = tmcomp(timesub[t], d.tm)
    OBVIOUS
  <1>2. /\ t \in Int /\ d.lo <= t /\ t <= d.hi /\ dir \in Int /\ x \in Int
        /\ (dir > 0 => t > x) /\ (dir < 0 => t < x)
    <2>1. OnItsSide(d, t, dir)
      BY <1>1, RoundIs, Zenon
    <2> QED  BY <1>1, <2>1 DEF OnItsSide
  <1>3. d.lo \in Int /\ d.hi \in Int /\ d.lo >= d.hi
    BY BoundsAre DEF Exhausted
  <1>4. dir # 0
    BY <1>1
  <1>5. ~ (d.lo <= x /\ x <= d.hi)
    BY <1>2, <1>3, <1>4
  <1>6. Accepted(d.given) /\ ~ InReach(d.given)
    BY <1>1, <1>5, Zenon DEF Searching
  <1>7. CASE d.norm
    <2>1. WRONG \in Int
      BY DEF WRONG
    <2>2. PICK e : e = Answered(d, WRONG)
      OBVIOUS
    <2>3. e \in DateRecords /\ e.pc = "done" /\ e.given = d.given
      BY <2>1, <2>2, AnsweredIs, Zenon
    <2>4. e.pc # "search"
      BY <2>3
    <2>5. Found(e)
      BY <1>6, <2>3, Zenon DEF Found
    <2> QED  BY <1>7, <2>2, <2>3, <2>4, <2>5, Zenon DEF InOrder
  <1>8. CASE ~ d.norm
    <2>1. InOrder(Search(d, d.given, TRUE))
      BY <1>6, SearchBegins, Zenon
    <2> QED  BY <1>8, <2>1, Zenon
  <1> QED  BY <1>7, <1>8, Zenon

LEMMA FindKeeps ==
  ASSUME NEW d \in DateRecords, d.pc = "search", Searching(d), NEW t, t = Halfway(d.lo, d.hi),
         tmcomp(timesub[t], d.tm) = 0
  PROVE  InOrder(Answered(d, WithSaved(t, d.saved)))
  <1>1. PICK saved \in Int : saved = d.saved
    BY BoundsAre
  <1>2. t \in Int /\ t = Instant(d.tm)
    <2>1. OnItsSide(d, t, tmcomp(timesub[t], d.tm))
      BY RoundIs, Zenon
    <2> QED  BY <2>1 DEF OnItsSide
  <1>3. PICK max \in Int : TimeMax = max /\ max >= 2147483647 /\ TimeMin = - max - 1
    BY TimeLimits
  <1>4. PICK r : r = WithSaved(t, saved)
    OBVIOUS
  <1>5. r = IF t > max - saved THEN -1 ELSE t + saved
    BY <1>3, <1>4 DEF WithSaved, WRONG
  <1>6. r \in Int
    BY <1>2, <1>5
  <1>7. ASSUME InReach(d.given) PROVE r = SecondsOf(d.given)
    <2>1. SecondsOf(d.given) \in Int /\ SecondsOf(d.given) <= max
      BY <1>3, <1>7, ReachIs DEF Searching
    <2>2. t + saved = SecondsOf(d.given)
      BY <1>1, <1>2, <1>7, Zenon DEF Searching
    <2> QED  BY <1>2, <1>5, <2>1, <2>2
  <1>8. PICK e : e = Answered(d, r)
    OBVIOUS
  <1>9. e \in DateRecords /\ e.pc = "done" /\ e.given = d.given /\ e.t = r
    BY <1>6, <1>8, AnsweredIs, Zenon
  <1>10. e.pc # "search"
    BY <1>9
  <1>11. Found(e)
    BY <1>7, <1>9, Zenon DEF Found
  <1> QED  BY <1>1, <1>4, <1>8, <1>9, <1>10, <1>11, Zenon DEF InOrder

-----------------------------------------------------------------------------
(* The specification.                                                      *)

\* The records in which a date is read, before and after its text is refused.
OfText(text) == [Idle EXCEPT !.text = text]
Scaled(d, tz, millis) == [d EXCEPT !.tz = tz, !.millis = millis]

LEMMA IdleIs == Idle \in DateRecords /\ Idle.given = NoTime /\ Idle.pc = "read"
  <1>1. NoTime \in Times
    BY DEF NoTime, Times
  <1>2. <<>> \in Strings /\ 0 \in Spare /\ 0 \in Thousandth
    BY DEF Strings, Spare, Thousandth
  <1>3. 0 \in time_t
    <2>1. PICK max \in Int : TimeMax = max /\ max >= 2147483647 /\ TimeMin = - max - 1
      BY TimeLimits
    <2> QED  BY <2>1 DEF time_t
  <1>4. "read" \in Places
    BY DEF Places
  <1> QED  BY <1>1, <1>2, <1>3, <1>4 DEF Idle, DateRecords

LEMMA OfTextIs ==
  ASSUME NEW text \in Strings
  PROVE  /\ OfText(text) \in DateRecords /\ OfText(text).given = NoTime
         /\ InOrder([OfText(text) EXCEPT !.pc = "done"])
  <1>1. PICK i \in DateRecords : i = Idle /\ i.given = NoTime
    BY IdleIs
  <1>2. PICK d \in DateRecords : d = [i EXCEPT !.text = text]
    <2>1. [i EXCEPT !.text = text] \in DateRecords
      BY DEF DateRecords
    <2> QED  BY <2>1
  <1>3. d.given = NoTime
    BY <1>1, <1>2 DEF DateRecords
  <1>4. PICK e : e = [d EXCEPT !.pc = "done"]
    OBVIOUS
  <1>5. e \in DateRecords
    <2>1. "done" \in Places
      BY DEF Places
    <2> QED  BY <1>4, <2>1 DEF DateRecords
  <1>6. e.given = d.given /\ e.pc = "done"
    BY <1>4 DEF DateRecords
  <1>7. e.pc # "search" /\ e.given = NoTime
    BY <1>3, <1>6
  <1>8. InOrder(e)
    BY <1>5, <1>7, Zenon DEF InOrder, Found
  <1> QED  BY <1>1, <1>2, <1>3, <1>4, <1>8, Zenon DEF OfText

LEMMA ScaledIs ==
  ASSUME NEW d \in DateRecords, NEW tz \in Int, NEW millis \in Thousandth
  PROVE  Scaled(d, tz, millis) \in DateRecords
  BY DEF Scaled, DateRecords

LEMMA SeqOfMore ==
  ASSUME NEW S, NEW T, S \subseteq T, NEW s \in Seq(S)
  PROVE  s \in Seq(T)
  <1>1. \A i \in 1 .. Len(s) : s[i] \in T
    OBVIOUS
  <1> QED  BY <1>1

LEMMA TextIsNumbers ==
  ASSUME NEW s \in Seq(0 .. 255)
  PROVE  s \in Seq(Int)
  <1>1. 0 .. 255 \subseteq Int
    OBVIOUS
  <1> QED  BY <1>1, SeqOfMore, Zenon

LEMMA BeginKeeps ==
  ASSUME NEW text \in Texts, Begin(text)
  PROVE  InOrder(date')
  <1>1. text \in Strings /\ text \in Seq(Int)
    <2>1. text \in Seq(0 .. 255)
      BY DateAssumption
    <2>2. text \in Seq(Int)
      BY <2>1, TextIsNumbers
    <2> QED  BY <2>1, <2>2, Zenon DEF Strings
  <1>2. PICK t : t = Tokens(text)
    OBVIOUS
  <1>3. PICK d : d = OfText(text)
    OBVIOUS
  <1>4. d \in DateRecords /\ InOrder([d EXCEPT !.pc = "done"])
    BY <1>1, <1>3, OfTextIs, Zenon
  <1>5. date' = IF ~ Splits(text, t) THEN [d EXCEPT !.pc = "done"]
                ELSE IF ~ FieldsAccepted(text, t) THEN [d EXCEPT !.pc = "done"]
                ELSE Search(Scaled(d, tz_adjustment(Of(text, t.tz)), Millis(Of(text, t.millis))),
                            posix_date(text, t), FALSE)
    BY <1>2, <1>3, Zenon DEF Begin, OfText, Scaled
  <1>6. CASE ~ Splits(text, t) \/ ~ FieldsAccepted(text, t)
    BY <1>4, <1>5, <1>6, Zenon
  <1>7. CASE Splits(text, t) /\ FieldsAccepted(text, t)
    <2>1. FieldsAccepted(text, t)
      BY <1>7
    <2>2. Accepted(posix_date(text, t))
      BY <1>1, <1>2, <2>1, TimeGiven
    <2>3. Millis(Of(text, t.millis)) \in Thousandth
      BY <1>1, <1>2, <2>1, FractionGiven
    <2>4. tz_adjustment(Of(text, t.tz)) \in Int
      BY <2>1, ZoneGiven
    <2>5. Scaled(d, tz_adjustment(Of(text, t.tz)), Millis(Of(text, t.millis))) \in DateRecords
      BY <1>4, <2>3, <2>4, ScaledIs
    <2>6. FALSE \in BOOLEAN /\ ~ FALSE
      BY Zenon
    <2>7. InOrder(Search(Scaled(d, tz_adjustment(Of(text, t.tz)), Millis(Of(text, t.millis))),
                         posix_date(text, t), FALSE))
      BY <2>2, <2>5, <2>6, SearchBegins, Zenon
    <2> QED  BY <1>5, <1>7, <2>7, Zenon
  <1> QED  BY <1>6, <1>7, Zenon

\* DateInv holds at first and is kept by every step.
LEMMA DateInvIsKept ==
  /\ DateInit => DateInv
  /\ DateInv /\ [DateNext]_date => DateInv'
  <1>1. ASSUME DateInit PROVE DateInv
    <2>1. date = Idle
      BY <1>1 DEF DateInit
    <2>2. Idle \in DateRecords /\ Idle.pc = "read"
      BY IdleIs
    <2>3. Idle.pc # "search" /\ Idle.pc # "done"
      BY <2>2
    <2> QED  BY <2>1, <2>2, <2>3, Zenon DEF DateInv, InOrder
  <1>2. ASSUME DateInv, [DateNext]_date PROVE InOrder(date')
    <2>1. date \in DateRecords /\ (date.pc = "search" => Searching(date))
      BY <1>2 DEF DateInv, InOrder
    <2>2. CASE \E text \in Texts : Begin(text)
      BY <2>2, BeginKeeps
    <2>3. CASE Narrow
      <3>1. PICK t \in {Halfway(date.lo, date.hi)} : \E dir \in {tmcomp(timesub[t], date.tm)} :
              dir # 0 /\ ~ Exhausted(date, t) /\ date' = Narrowed(date, t, dir)
        BY <2>3, Zenon DEF Narrow
      <3>2. PICK dir \in {tmcomp(timesub[t], date.tm)} :
              dir # 0 /\ ~ Exhausted(date, t) /\ date' = Narrowed(date, t, dir)
        BY <3>1
      <3>3. date.pc = "search" /\ t = Halfway(date.lo, date.hi) /\ dir = tmcomp(timesub[t], date.tm)
        BY <2>3, Zenon DEF Narrow
      <3> QED  BY <2>1, <3>2, <3>3, NarrowKeeps, Zenon
    <2>4. CASE GiveUp
      <3>1. PICK t : t = Halfway(date.lo, date.hi) /\ tmcomp(timesub[t], date.tm) # 0 /\ Exhausted(date, t)
        BY <2>4, Zenon DEF GiveUp
      <3>2. date.pc = "search" /\ date' = IF date.norm THEN Answered(date, WRONG)
                                          ELSE Search(date, date.given, TRUE)
        BY <2>4, Zenon DEF GiveUp
      <3> QED  BY <2>1, <3>1, <3>2, GiveUpKeeps, Zenon
    <2>5. CASE Find
      <3>1. PICK t : t = Halfway(date.lo, date.hi) /\ tmcomp(timesub[t], date.tm) = 0
                       /\ date' = Answered(date, WithSaved(t, date.saved))
        BY <2>5, Zenon DEF Find
      <3>2. date.pc = "search"
        BY <2>5, Zenon DEF Find
      <3> QED  BY <2>1, <3>1, <3>2, FindKeeps, Zenon
    <2>6. CASE UNCHANGED date
      BY <1>2, <2>6, Zenon DEF DateInv
    <2> QED  BY <1>2, <2>2, <2>3, <2>4, <2>5, <2>6, Zenon DEF DateNext, Round
  <1> QED  BY <1>1, <1>2, Zenon DEF DateInv

LEMMA DateInvGives == DateInv => SearchInOrder
  <1> SUFFICES ASSUME DateInv
               PROVE  SearchInOrder
    OBVIOUS
  <1>1. date \in DateRecords /\ (date.pc = "search" => Searching(date)) /\ (date.pc = "done" => Found(date))
    BY DEF DateInv, InOrder
  <1>2. DateTypeOK
    <2>1. date.pc \in {"read", "search", "done"} /\ date.lo \in TimeMin .. TimeMax /\ date.hi \in TimeMin .. TimeMax
      BY <1>1, RecordMembers DEF Places, time_t
    <2>2. date.millis \in 0 .. 999
      BY <1>1, RecordMembers DEF Thousandth
    <2>3. date.pc = "search" => IsTime(date.tm)
      BY <1>1, Zenon DEF Searching
    <2> QED  BY <2>1, <2>2, <2>3 DEF DateTypeOK, IsTime
  <1>3. BoundsEnclose
    <2> SUFFICES ASSUME date.pc = "search", InReach(date.given)
                 PROVE  /\ date.lo <= SecondsOf(date.given) - date.saved
                        /\ SecondsOf(date.given) - date.saved <= date.hi
      BY Zenon DEF BoundsEnclose
    <2>1. /\ IsTime(date.tm) /\ Instant(date.tm) + date.saved = SecondsOf(date.given)
          /\ date.lo <= Instant(date.tm) /\ Instant(date.tm) <= date.hi
      BY <1>1, Zenon DEF Searching
    <2>2. Instant(date.tm) \in Int
      BY <2>1, InItsYear
    <2>3. date.saved \in Int
      BY <1>1, BoundsAre
    <2>4. SecondsOf(date.given) - date.saved = Instant(date.tm)
      BY <2>1, <2>2, <2>3
    <2> QED  BY <2>1, <2>4
  <1>4. FindsTheSecond
    BY <1>1, Zenon DEF FindsTheSecond, Found, IsGiven
  <1> QED  BY <1>2, <1>3, <1>4, Zenon DEF SearchInOrder

\* For every text and every time_t of 32 bits or more in two's complement, the binary
\* search of time2sub (bson-timegm.c) keeps its variables in their ranges and the
\* second it looks for between its bounds, and ends at the second that the date names
\* by the calendar, if time_t reaches it.
THEOREM SearchIsInOrder == DateSpec => []SearchInOrder
  <1>1. DateInit => DateInv
    BY DateInvIsKept, Zenon
  <1>2. DateInv /\ [DateNext]_date => DateInv'
    BY DateInvIsKept, Zenon
  <1>3. DateInv => SearchInOrder
    BY DateInvGives
  <1> QED  BY <1>1, <1>2, <1>3, PTL DEF DateSpec

-----------------------------------------------------------------------------
(* What the callbacks work on.                                             *)

HasMembers(r, D) == r = [f \in D |-> r[f]]
IsStack(s) == \E S : s \in Seq(S)

BsonMembers == {"doc", "frames", "key", "read_state", "bson_state", "type", "data", "buf0", "buf1",
                "ret", "aborted", "error"}
DataMembers == {"b0", "b1", "subtype", "date", "t", "i", "value", "oid", "id"}

Unsigned == 0 .. 2 * INT32_MAX + 1

DataInOrder(data) == HasMembers(data, DataMembers) /\ data.t \in Unsigned /\ data.i \in Unsigned

BsonInOrder(b) ==
  /\ HasMembers(b, BsonMembers) /\ DataInOrder(b.data)
  /\ IsStack(b.frames) /\ Len(b.frames) <= STACK_MAX
  /\ b.ret \in BOOLEAN

\* How deep the callbacks believe to be.
Level(b) == Len(b.frames) + SpecialLevels(b)

\* c is in order, and unless the parser is canceled by it, it is at most d deeper than b.
Deeper(b, c, d) == BsonInOrder(c) /\ (c.ret => Level(c) <= Level(b) + d)

\* The same stack in the same state.
Alike(b, c) == BsonInOrder(c) /\ Len(c.frames) = Len(b.frames) /\ c.read_state = b.read_state /\ c.ret = b.ret

LEMMA Limits ==
  STACK_MAX \in Nat /\ STACK_MAX >= 1 /\ INT32_MAX \in Nat /\ INT64_MAX \in Nat
  BY JsonAssumption

LEMMA LevelIs ==
  ASSUME NEW b, BsonInOrder(b)
  PROVE  /\ Len(b.frames) \in Nat /\ Len(b.frames) <= STACK_MAX
         /\ SpecialLevels(b) \in 0 .. 2 /\ Level(b) \in Nat
  <1>1. Len(b.frames) \in Nat
    BY DEF BsonInOrder, IsStack
  <1>2. SpecialLevels(b) \in 0 .. 2
    BY DEF SpecialLevels
  <1> QED  BY <1>1, <1>2 DEF Level, BsonInOrder

LEMMA AlikeDeep ==
  ASSUME NEW b, BsonInOrder(b), NEW c, Alike(b, c)
  PROVE  Deeper(b, c, 0)
  <1>1. Level(c) = Level(b) /\ Level(b) \in Nat
    BY LevelIs DEF Level, SpecialLevels, Alike
  <1> QED  BY <1>1 DEF Deeper, Alike

LEMMA DeeperFrom ==
  ASSUME NEW b, BsonInOrder(b), NEW c, Alike(b, c), NEW e, NEW d \in Int, Deeper(c, e, d)
  PROVE  Deeper(b, e, d)
  <1>1. Level(c) = Level(b)
    BY LevelIs DEF Level, SpecialLevels, Alike
  <1> QED  BY <1>1 DEF Deeper

\* A callback that cancels may leave any stack.
LEMMA Canceled ==
  ASSUME NEW b, NEW c, BsonInOrder(c), ~ c.ret, NEW d
  PROVE  Deeper(b, c, d)
  BY DEF Deeper

LEMMA ErrorIs ==
  ASSUME NEW b, BsonInOrder(b)
  PROVE  BsonInOrder(set_error(b)) /\ ~ set_error(b).ret
  BY DEF BsonInOrder, HasMembers, BsonMembers, set_error

LEMMA RefuseIs ==
  ASSUME NEW b, BsonInOrder(b)
  PROVE  BsonInOrder(Refuse(b)) /\ ~ Refuse(b).ret
  BY DEF BsonInOrder, HasMembers, BsonMembers, Refuse

LEMMA ErrorDeep ==
  ASSUME NEW b, NEW c, BsonInOrder(c), NEW d
  PROVE  Deeper(b, set_error(c), d)
  BY ErrorIs, Canceled

LEMMA StateIs ==
  ASSUME NEW b, BsonInOrder(b), NEW state
  PROVE  /\ BsonInOrder(State(b, state)) /\ State(b, state).read_state = state
         /\ State(b, state).frames = b.frames /\ State(b, state).ret = b.ret
         /\ State(b, state).data = b.data
  BY DEF BsonInOrder, HasMembers, BsonMembers, State

-----------------------------------------------------------------------------
(* The stack.                                                              *)

LEMMA WiderSeq ==
  ASSUME NEW S, NEW T, S \subseteq T, NEW s \in Seq(S)
  PROVE  s \in Seq(T)
  OBVIOUS

LEMMA Replaced ==
  ASSUME NEW s, IsStack(s), s # <<>>, NEW b
  PROVE  LET t == [s EXCEPT ![Len(s)] = b]
         IN  IsStack(t) /\ Len(t) = Len(s)
  <1>1. PICK S : s \in Seq(S)
    BY DEF IsStack
  <1>2. PICK T : T = S \cup {b}
    OBVIOUS
  <1>3. s \in Seq(T)
    BY <1>1, <1>2, WiderSeq
  <1>4. PICK n \in Nat : n = Len(s) /\ n > 0
    BY <1>3
  <1>5. PICK t : t = [s EXCEPT ![n] = b]
    OBVIOUS
  <1>6. t \in Seq(T) /\ Len(t) = n
    BY <1>2, <1>3, <1>4, <1>5
  <1> QED  BY <1>4, <1>5, <1>6 DEF IsStack

LEMMA Stacked ==
  ASSUME NEW s, IsStack(s), NEW b
  PROVE  /\ IsStack(Append(s, b)) /\ Len(Append(s, b)) = Len(s) + 1
         /\ Append(s, b) # <<>> /\ Append(s, b)[Len(Append(s, b))] = b
  <1>1. PICK S : s \in Seq(S)
    BY DEF IsStack
  <1>2. PICK T : T = S \cup {b}
    OBVIOUS
  <1>3. s \in Seq(T)
    BY <1>1, <1>2, WiderSeq
  <1>4. PICK n \in Nat : n = Len(s)
    BY <1>3
  <1>5. PICK t : t = Append(s, b)
    OBVIOUS
  <1>6. t \in Seq(T) /\ Len(t) = n + 1 /\ t # <<>> /\ t[n + 1] = b
    BY <1>2, <1>3, <1>4, <1>5
  <1> QED  BY <1>4, <1>5, <1>6 DEF IsStack

LEMMA Lowered ==
  ASSUME NEW s, IsStack(s), NEW k \in Nat, k <= Len(s)
  PROVE  IsStack(SubSeq(s, 1, k)) /\ Len(SubSeq(s, 1, k)) = k
  <1>1. PICK S : s \in Seq(S)
    BY DEF IsStack
  <1>2. SubSeq(s, 1, k) \in Seq(S) /\ Len(SubSeq(s, 1, k)) = k
    BY <1>1
  <1> QED  BY <1>2 DEF IsStack

LEMMA FramesSet ==
  ASSUME NEW b, BsonInOrder(b), NEW frames, IsStack(frames), Len(frames) <= STACK_MAX
  PROVE  LET c == [b EXCEPT !.frames = frames]
         IN  BsonInOrder(c) /\ c.frames = frames /\ c.read_state = b.read_state /\ c.ret = b.ret
  BY DEF BsonInOrder, HasMembers, BsonMembers

LEMMA PushIs ==
  ASSUME NEW b, BsonInOrder(b), NEW is_array \in BOOLEAN
  PROVE  /\ BsonInOrder(Push(b, is_array))
         /\ Push(b, is_array).ret =>
              /\ Push(b, is_array).read_state = b.read_state
              /\ Len(Push(b, is_array).frames) = Len(b.frames) + 1
              /\ InArray(Push(b, is_array)) = is_array
  <1>1. CASE Len(b.frames) >= STACK_MAX
    BY <1>1, RefuseIs DEF Push
  <1>2. CASE ~ (Len(b.frames) >= STACK_MAX)
    <2>1. PICK f : f = Frame(is_array, b.key, IF b.frames = <<>> THEN b.doc ELSE <<>>)
      OBVIOUS
    <2>2. PICK s : s = Append(b.frames, f)
      OBVIOUS
    <2>3. Push(b, is_array) = [b EXCEPT !.frames = s]
      BY <1>2, <2>1, <2>2 DEF Push, BsonInOrder, HasMembers, BsonMembers
    <2>4. IsStack(s) /\ Len(s) = Len(b.frames) + 1 /\ s # <<>> /\ s[Len(s)] = f
      BY <2>2, Stacked DEF BsonInOrder
    <2>5. Len(s) <= STACK_MAX
      BY <1>2, <2>4, LevelIs, Limits
    <2>6. PICK c : c = Push(b, is_array)
      OBVIOUS
    <2>7. BsonInOrder(c) /\ c.frames = s /\ c.read_state = b.read_state
      BY <2>3, <2>4, <2>5, <2>6, FramesSet
    <2>8. InArray(c) = is_array
      <3>1. f.is_array = is_array
        BY <2>1 DEF Frame
      <3>2. c.frames # <<>> /\ c.frames[Len(c.frames)].is_array = is_array
        BY <2>4, <2>7, <3>1, Zenon
      <3> QED  BY <3>2, Zenon DEF InArray
    <2> QED  BY <2>4, <2>6, <2>7, <2>8
  <1> QED  BY <1>1, <1>2

\* The end of an array or of an object.
LEMMA PopIs ==
  ASSUME NEW b, BsonInOrder(b), NEW is_array
  PROVE  /\ BsonInOrder(Pop(b, is_array))
         /\ Pop(b, is_array).ret =>
              /\ Pop(b, is_array).read_state = b.read_state
              /\ Len(Pop(b, is_array).frames) = Len(b.frames) - 1
  <1>1. PICK n \in Nat : n = Len(b.frames) /\ n <= STACK_MAX
    BY LevelIs
  <1>2. CASE n = 0 \/ InArray(b) # is_array
    <2>1. Pop(b, is_array) = Refuse(b)
      BY <1>1, <1>2 DEF Pop
    <2> QED  BY <2>1, RefuseIs
  <1>3. CASE ~ (n = 0 \/ InArray(b) # is_array) /\ n = 1
    <2>1. Pop(b, is_array) = [b EXCEPT !.doc = b.frames[n].pairs, !.frames = <<>>, !.read_state = "DONE", !.ret = FALSE]
      BY <1>1, <1>3, Zenon DEF Pop
    <2>2. IsStack(<<>>) /\ Len(<<>>) = 0
      BY DEF IsStack
    <2>3. PICK c : c = Pop(b, is_array)
      OBVIOUS
    <2>4. HasMembers(c, BsonMembers) /\ c.frames = <<>> /\ c.data = b.data /\ c.ret = FALSE
      BY <2>1, <2>3 DEF BsonInOrder, HasMembers, BsonMembers
    <2>5. BsonInOrder(c)
      <3>1. IsStack(c.frames)
        BY <2>2, <2>4, Zenon
      <3>2. Len(c.frames) = 0 /\ 0 <= STACK_MAX
        BY <2>4, Limits
      <3>3. DataInOrder(c.data)
        BY <2>4, Zenon DEF BsonInOrder
      <3> QED  BY <2>4, <3>1, <3>2, <3>3 DEF BsonInOrder
    <2> QED  BY <2>3, <2>4, <2>5
  <1>4. CASE ~ (n = 0 \/ InArray(b) # is_array) /\ n # 1
    <2>1. PICK p : p = [b.frames[n - 1] EXCEPT !.pairs =
                          Append(@, <<IF is_array THEN "array" ELSE "document", b.frames[n].key, b.frames[n].pairs>>)]
      OBVIOUS
    <2>2. PICK s : s = Append(SubSeq(b.frames, 1, n - 2), p)
      OBVIOUS
    <2>3. Pop(b, is_array) = [b EXCEPT !.frames = s]
      BY <1>1, <1>4, <2>1, <2>2, Zenon DEF Pop
    <2>4. IsStack(s) /\ Len(s) = n - 1
      <3>0. n # 0 /\ n # 1
        BY <1>4, Zenon
      <3>1. n - 2 \in Nat /\ n - 2 <= n
        BY <3>0
      <3>e. n = Len(b.frames)
        BY <1>1
      <3>2. IsStack(SubSeq(b.frames, 1, n - 2)) /\ Len(SubSeq(b.frames, 1, n - 2)) = n - 2
        BY <3>1, <3>e, Lowered DEF BsonInOrder
      <3>3. IsStack(s) /\ Len(s) = (n - 2) + 1
        BY <2>2, <3>2, Stacked
      <3> QED  BY <1>1, <3>3
    <2>5. Len(s) <= STACK_MAX
      BY <1>1, <2>4, Limits
    <2> QED  BY <1>1, <2>3, <2>4, <2>5, FramesSet
  <1> QED  BY <1>2, <1>3, <1>4

\* The document that was begun last is changed.
LEMMA LastSet ==
  ASSUME NEW b, BsonInOrder(b), b.frames # <<>>, NEW f
  PROVE  Alike(b, [b EXCEPT !.frames = [b.frames EXCEPT ![Len(b.frames)] = f]])
  <1>1. PICK s : s = [b.frames EXCEPT ![Len(b.frames)] = f]
    OBVIOUS
  <1>2. PICK c : c = [b EXCEPT !.frames = s]
    OBVIOUS
  <1>3. IsStack(s) /\ Len(s) = Len(b.frames) /\ Len(s) <= STACK_MAX
    BY <1>1, Replaced DEF BsonInOrder
  <1>4. BsonInOrder(c) /\ Len(c.frames) = Len(b.frames) /\ c.read_state = b.read_state /\ c.ret = b.ret
    BY <1>2, <1>3, FramesSet
  <1> QED  BY <1>1, <1>2, <1>4 DEF Alike

LEMMA LastPair ==
  ASSUME NEW b, BsonInOrder(b), b.frames # <<>>, NEW n, n = Len(b.frames), NEW pair
  PROVE  Alike(b, [b EXCEPT !.frames[n].pairs = Append(@, pair)])
  <1>1. PICK f : f = [b.frames[n] EXCEPT !.pairs = Append(@, pair)]
    OBVIOUS
  <1>2. [b EXCEPT !.frames[n].pairs = Append(@, pair)] = [b EXCEPT !.frames = [b.frames EXCEPT ![n] = f]]
    BY <1>1 DEF BsonInOrder, HasMembers, BsonMembers, IsStack
  <1> QED  BY <1>2, LastSet

LEMMA AppendedIs ==
  ASSUME NEW b, BsonInOrder(b), NEW type, NEW value
  PROVE  Deeper(b, Appended(b, type, value), 0)
  <1>1. CASE b.frames = <<>>
    <2>1. Appended(b, type, value) = [b EXCEPT !.ret = FALSE, !.aborted = TRUE]
      BY <1>1 DEF Appended
    <2>2. BsonInOrder(Appended(b, type, value)) /\ ~ Appended(b, type, value).ret
      BY <2>1 DEF BsonInOrder, HasMembers, BsonMembers
    <2> QED  BY <2>2, Canceled
  <1>2. CASE b.frames # <<>>
    <2>1. PICK n \in Nat : n = Len(b.frames) /\ n # 0
      BY <1>2 DEF BsonInOrder, IsStack
    <2>2. Appended(b, type, value) = [b EXCEPT !.frames[n].pairs = Append(@, <<type, b.key, value>>)]
      BY <2>1, Zenon DEF Appended
    <2>3. Alike(b, [b EXCEPT !.frames[n].pairs = Append(@, <<type, b.key, value>>)])
      BY <1>2, <2>1, LastPair, Zenon
    <2>4. Deeper(b, [b EXCEPT !.frames[n].pairs = Append(@, <<type, b.key, value>>)], 0)
      BY <2>3, AlikeDeep, Zenon
    <2> QED  BY <2>2, <2>4, Zenon
  <1> QED  BY <1>1, <1>2

LEMMA FixupIs ==
  ASSUME NEW b, BsonInOrder(b)
  PROVE  Alike(b, fixup_key(b)) /\ fixup_key(b).data = b.data /\ fixup_key(b).bson_state = b.bson_state
  <1>1. CASE ~ InArray(b)
    BY <1>1 DEF fixup_key, Alike
  <1>2. CASE InArray(b)
    <2>1. PICK n \in Nat : n = Len(b.frames) /\ b.frames # <<>>
      BY <1>2 DEF BsonInOrder, IsStack, InArray
    <2>2. PICK f, key : f = [b.frames[n] EXCEPT !.i = @ + 1] /\ key = bson_uint32_to_string(b.frames[n].i)
      OBVIOUS
    <2>3. fixup_key(b) = [b EXCEPT !.key = key, !.frames[n].i = @ + 1]
      BY <1>2, <2>1, <2>2, Zenon DEF fixup_key
    <2>4. PICK c : c = [b EXCEPT !.key = key]
      OBVIOUS
    <2>5. /\ BsonInOrder(c) /\ c.frames = b.frames /\ c.read_state = b.read_state /\ c.ret = b.ret
          /\ c.data = b.data /\ c.bson_state = b.bson_state
      BY <2>4 DEF BsonInOrder, HasMembers, BsonMembers
    <2>6. fixup_key(b) = [c EXCEPT !.frames = [c.frames EXCEPT ![n] = f]]
      BY <2>1, <2>2, <2>3, <2>4 DEF BsonInOrder, HasMembers, BsonMembers, IsStack
    <2>7. Alike(c, [c EXCEPT !.frames = [c.frames EXCEPT ![Len(c.frames)] = f]])
      BY <2>1, <2>5, LastSet
    <2>8. fixup_key(b).data = c.data /\ fixup_key(b).bson_state = c.bson_state
      BY <2>5, <2>6 DEF BsonInOrder, HasMembers, BsonMembers
    <2> QED  BY <2>1, <2>5, <2>6, <2>7, <2>8 DEF Alike
  <1> QED  BY <1>1, <1>2

LEMMA NormalIs ==
  ASSUME NEW b, BsonInOrder(b), NEW type, NEW value
  PROVE  Deeper(b, AppendNormal(b, type, value), 0)
  BY AppendedIs, ErrorDeep DEF AppendNormal

LEMMA ValueIs ==
  ASSUME NEW b, BsonInOrder(b), NEW type, NEW value
  PROVE  Deeper(b, AppendNormal(fixup_key(b), type, value), 0)
  <1>1. PICK c : c = fixup_key(b)
    OBVIOUS
  <1>2. Alike(b, c) /\ BsonInOrder(c)
    BY <1>1, FixupIs DEF Alike
  <1>3. Deeper(c, AppendNormal(c, type, value), 0)
    BY <1>2, NormalIs
  <1> QED  BY <1>1, <1>2, <1>3, DeeperFrom

LEMMA NullIs ==
  ASSUME NEW b, BsonInOrder(b)
  PROVE  Deeper(b, _bson_json_read_null(b), 0)
  BY ValueIs DEF _bson_json_read_null

LEMMA DoubleIs ==
  ASSUME NEW b, BsonInOrder(b), NEW val
  PROVE  Deeper(b, _bson_json_read_double(b, val), 0)
  BY ValueIs DEF _bson_json_read_double

LEMMA BooleanIs ==
  ASSUME NEW b, BsonInOrder(b), NEW val
  PROVE  Deeper(b, _bson_json_read_boolean(b, val), 0)
  <1>1. PICK c : c = fixup_key(b)
    OBVIOUS
  <1>2. Alike(b, c) /\ BsonInOrder(c)
    BY <1>1, FixupIs DEF Alike
  <1>3. Alike(c, [c EXCEPT !.data.b0 = TRUE])
    BY <1>2 DEF Alike, BsonInOrder, HasMembers, BsonMembers, DataInOrder, DataMembers
  <1>4. Deeper(c, [c EXCEPT !.data.b0 = TRUE], 0)
    BY <1>2, <1>3, AlikeDeep
  <1>5. Deeper(c, AppendNormal(c, "bool", val), 0)
    BY <1>2, NormalIs
  <1>6. Deeper(c, _bson_json_read_boolean(b, val), 0)
    BY <1>1, <1>4, <1>5, Zenon DEF _bson_json_read_boolean
  <1> QED  BY <1>2, <1>6, DeeperFrom

\* Data is set, the stack is not.
LEMMA DataSet ==
  ASSUME NEW b, BsonInOrder(b), NEW data, DataInOrder(data)
  PROVE  Deeper(b, [b EXCEPT !.data = data], 0)
  <1>1. Alike(b, [b EXCEPT !.data = data])
    BY DEF Alike, BsonInOrder, HasMembers, BsonMembers
  <1> QED  BY <1>1, AlikeDeep

LEMMA IntegerIs ==
  ASSUME NEW b0, BsonInOrder(b0), NEW val \in Int
  PROVE  Deeper(b0, _bson_json_read_integer(b0, val), 0)
  <1>1. PICK b : b = fixup_key(b0)
    OBVIOUS
  <1>2. Alike(b0, b) /\ BsonInOrder(b) /\ DataInOrder(b.data) /\ HasMembers(b, BsonMembers)
    BY <1>1, FixupIs DEF Alike, BsonInOrder
  <1>3. PICK u \in Unsigned : u = val % (2 * (INT32_MAX + 1))
    <2>1. PICK m \in Nat : m = 2 * (INT32_MAX + 1) /\ m - 1 = 2 * INT32_MAX + 1 /\ m > 0
      BY Limits
    <2>2. val % m \in 0 .. m - 1
      BY <2>1
    <2> QED  BY <2>1, <2>2 DEF Unsigned
  <1>4. PICK d1 : d1 = [b.data EXCEPT !.b0 = TRUE]
    OBVIOUS
  <1>5. PICK d2 : d2 = [b.data EXCEPT !.b0 = TRUE, !.date = val]
    OBVIOUS
  <1>6. PICK d3 : d3 = [b.data EXCEPT !.b0 = TRUE, !.t = u]
    OBVIOUS
  <1>7. PICK d4 : d4 = [b.data EXCEPT !.b1 = TRUE, !.i = u]
    OBVIOUS
  <1>8. DataInOrder(d1) /\ DataInOrder(d2) /\ DataInOrder(d3) /\ DataInOrder(d4)
    BY <1>2, <1>4, <1>5, <1>6, <1>7 DEF DataInOrder, HasMembers, DataMembers
  <1>9. PICK r : r = _bson_json_read_integer(b0, val)
    OBVIOUS
  <1>10. \/ r = AppendNormal(b, "int32", Wrapped(val, INT32_MAX))
         \/ r = AppendNormal(b, "int64", val)
         \/ r = set_error(b)
         \/ r = [b EXCEPT !.data = d1]
         \/ r = [b EXCEPT !.data = d2]
         \/ r = [b EXCEPT !.data = d3]
         \/ r = [b EXCEPT !.data = d4]
    <2>1. PICK special : special = [b EXCEPT !.data.b0 = TRUE]
      OBVIOUS
    <2>2. special = [b EXCEPT !.data = d1]
      BY <1>2, <1>4, <2>1 DEF HasMembers, BsonMembers
    <2>3. [special EXCEPT !.data.date = val] = [b EXCEPT !.data = d2]
      BY <1>2, <1>5, <2>1 DEF HasMembers, BsonMembers, DataInOrder, DataMembers
    <2>4. [special EXCEPT !.data.t = u] = [b EXCEPT !.data = d3]
      BY <1>2, <1>6, <2>1 DEF HasMembers, BsonMembers, DataInOrder, DataMembers
    <2>5. [b EXCEPT !.data.b1 = TRUE, !.data.i = u] = [b EXCEPT !.data = d4]
      BY <1>2, <1>7 DEF HasMembers, BsonMembers, DataInOrder, DataMembers
    <2>6. r = IF b.read_state = "REGULAR"
              THEN IF val <= INT32_MAX THEN AppendNormal(b, "int32", Wrapped(val, INT32_MAX))
                   ELSE AppendNormal(b, "int64", val)
              ELSE IF b.read_state \notin {"IN_BSON_TYPE", "TIMESTAMP_VALUES"} THEN set_error(b)
              ELSE CASE b.bson_state = "DATE" -> [special EXCEPT !.data.date = val]
                     [] b.bson_state = "TIMESTAMP_T" -> [special EXCEPT !.data.t = u]
                     [] b.bson_state = "TIMESTAMP_I" -> [b EXCEPT !.data.b1 = TRUE, !.data.i = u]
                     [] b.bson_state \in {"MINKEY", "MAXKEY"} -> special
                     [] OTHER -> set_error(b)
      BY <1>1, <1>3, <1>9, <2>1, Zenon DEF _bson_json_read_integer
    <2> QED  BY <2>2, <2>3, <2>4, <2>5, <2>6
  <1>11. Deeper(b, r, 0)
    BY <1>2, <1>8, <1>10, NormalIs, ErrorDeep, DataSet
  <1> QED  BY <1>2, <1>9, <1>11, DeeperFrom

LEMMA ReadInt64Is ==
  ASSUME NEW b, BsonInOrder(b), NEW val, NEW behind
  PROVE  Deeper(b, ReadInt64(b, val, behind), 0)
  <1>1. PICK number : number = bson_ascii_strtoll(val \o <<behind>>)
    OBVIOUS
  <1>2. PICK d1 : d1 = [b.data EXCEPT !.value = number.value]
    OBVIOUS
  <1>3. PICK d2 : d2 = [b.data EXCEPT !.b0 = TRUE, !.date = number.value]
    OBVIOUS
  <1>4. DataInOrder(b.data) /\ HasMembers(b, BsonMembers)
    BY DEF BsonInOrder
  <1>5. DataInOrder(d1) /\ DataInOrder(d2)
    BY <1>2, <1>3, <1>4 DEF DataInOrder, HasMembers, DataMembers
  <1>6. PICK r : r = ReadInt64(b, val, behind)
    OBVIOUS
  <1>7. r = set_error(b) \/ r = [b EXCEPT !.data = d1] \/ r = [b EXCEPT !.data = d2]
    <2>1. \/ r = set_error(b)
          \/ r = [b EXCEPT !.data.value = number.value]
          \/ r = [b EXCEPT !.data.b0 = TRUE, !.data.date = number.value]
      BY <1>1, <1>6, Zenon DEF ReadInt64
    <2>2. [b EXCEPT !.data.value = number.value] = [b EXCEPT !.data = d1]
      BY <1>2, <1>4 DEF HasMembers, BsonMembers
    <2>3. [b EXCEPT !.data.b0 = TRUE, !.data.date = number.value] = [b EXCEPT !.data = d2]
      BY <1>3, <1>4 DEF HasMembers, BsonMembers, DataInOrder, DataMembers
    <2> QED  BY <2>1, <2>2, <2>3
  <1> QED  BY <1>5, <1>6, <1>7, ErrorDeep, DataSet

\* What a string leaves in the data of the first part of a special type, or of the second.
LEMMA PartSet ==
  ASSUME NEW b, BsonInOrder(b), NEW v
  PROVE  /\ Deeper(b, [[b EXCEPT !.data.b0 = TRUE] EXCEPT !.buf0 = v], 0)
         /\ Deeper(b, [[b EXCEPT !.data.b1 = TRUE] EXCEPT !.buf1 = v], 0)
         /\ Deeper(b, [[b EXCEPT !.data.b1 = TRUE] EXCEPT !.data.subtype = v], 0)
         /\ Deeper(b, [[b EXCEPT !.data.b0 = TRUE] EXCEPT !.data.oid = v], 0)
         /\ Deeper(b, [[b EXCEPT !.data.b1 = TRUE] EXCEPT !.data.id = v], 0)
         /\ Deeper(b, [[b EXCEPT !.data.b0 = TRUE] EXCEPT !.data.date = v], 0)
  <1> USE DEF Alike, BsonInOrder, HasMembers, BsonMembers, DataInOrder, DataMembers
  <1>1. Alike(b, [[b EXCEPT !.data.b0 = TRUE] EXCEPT !.buf0 = v])
    OBVIOUS
  <1>2. Alike(b, [[b EXCEPT !.data.b1 = TRUE] EXCEPT !.buf1 = v])
    OBVIOUS
  <1>3. Alike(b, [[b EXCEPT !.data.b1 = TRUE] EXCEPT !.data.subtype = v])
    OBVIOUS
  <1>4. Alike(b, [[b EXCEPT !.data.b0 = TRUE] EXCEPT !.data.oid = v])
    OBVIOUS
  <1>5. Alike(b, [[b EXCEPT !.data.b1 = TRUE] EXCEPT !.data.id = v])
    OBVIOUS
  <1>6. Alike(b, [[b EXCEPT !.data.b0 = TRUE] EXCEPT !.data.date = v])
    OBVIOUS
  <1> HIDE DEF Alike, BsonInOrder, HasMembers, BsonMembers, DataInOrder, DataMembers
  <1> QED  BY <1>1, <1>2, <1>3, <1>4, <1>5, <1>6, AlikeDeep

LEMMA StringIs ==
  ASSUME NEW b0, BsonInOrder(b0), NEW val, NEW behind
  PROVE  Deeper(b0, _bson_json_read_string(b0, val, behind), 0)
  <1>1. PICK b : b = fixup_key(b0)
    OBVIOUS
  <1>2. Alike(b0, b) /\ BsonInOrder(b)
    BY <1>1, FixupIs DEF Alike
  <1>3. PICK first : first = [b EXCEPT !.data.b0 = TRUE]
    OBVIOUS
  <1>4. PICK second : second = [b EXCEPT !.data.b1 = TRUE]
    OBVIOUS
  <1>5. PICK r : r = _bson_json_read_string(b0, val, behind)
    OBVIOUS
  <1>6. r = IF b.read_state = "REGULAR" THEN AppendNormal(b, "utf8", val)
            ELSE IF b.read_state \notin {"IN_BSON_TYPE", "TIMESTAMP_VALUES", "DATE_NUMBERLONG"} THEN set_error(b)
            ELSE CASE b.bson_state \in {"REGEX", "REF"} -> [first EXCEPT !.buf0 = val]
                   [] b.bson_state = "OPTIONS" -> [second EXCEPT !.buf1 = val]
                   [] b.bson_state = "BINARY" -> [first EXCEPT !.buf0 = b64_pton(val)]
                   [] b.bson_state = "TYPE" /\ Subtype(val) >= 0 -> [second EXCEPT !.data.subtype = Subtype(val)]
                   [] b.bson_state = "OID" /\ Len(val) = 24 -> [first EXCEPT !.data.oid = bson_oid_init_from_string(val)]
                   [] b.bson_state = "ID" /\ Len(val) = 24 -> [second EXCEPT !.data.id = bson_oid_init_from_string(val)]
                   [] b.bson_state = "INT64" -> ReadInt64(b, val, behind)
                   [] b.bson_state = "DATE" /\ val \in DOMAIN DateOf -> [first EXCEPT !.data.date = DateOf[val]]
                   [] OTHER -> set_error(b)
    BY <1>1, <1>3, <1>4, <1>5, Zenon DEF _bson_json_read_string
  <1>7. /\ Deeper(b, AppendNormal(b, "utf8", val), 0)
        /\ Deeper(b, set_error(b), 0)
        /\ Deeper(b, ReadInt64(b, val, behind), 0)
    BY <1>2, NormalIs, ErrorDeep, ReadInt64Is
  <1>8. /\ Deeper(b, [first EXCEPT !.buf0 = val], 0)
        /\ Deeper(b, [second EXCEPT !.buf1 = val], 0)
        /\ Deeper(b, [first EXCEPT !.buf0 = b64_pton(val)], 0)
        /\ Deeper(b, [second EXCEPT !.data.subtype = Subtype(val)], 0)
        /\ Deeper(b, [first EXCEPT !.data.oid = bson_oid_init_from_string(val)], 0)
        /\ Deeper(b, [second EXCEPT !.data.id = bson_oid_init_from_string(val)], 0)
        /\ Deeper(b, [first EXCEPT !.data.date = DateOf[val]], 0)
    BY <1>2, <1>3, <1>4, PartSet, Zenon
  <1>9. Deeper(b, r, 0)
    BY <1>6, <1>7, <1>8
  <1> QED  BY <1>2, <1>5, <1>9, DeeperFrom

-----------------------------------------------------------------------------
(* Objects and arrays.                                                     *)

LEMMA StartMapIs ==
  ASSUME NEW b0, BsonInOrder(b0)
  PROVE  Deeper(b0, _bson_json_read_start_map(b0), 1)
  <1>1. PICK b : b = fixup_key(b0)
    OBVIOUS
  <1>2. Alike(b0, b) /\ BsonInOrder(b)
    BY <1>1, FixupIs DEF Alike
  <1>3. PICK state : /\ _bson_json_read_start_map(b0) = State(b, state)
                     /\ \/ state = "DATE_NUMBERLONG" /\ b.read_state = "IN_BSON_TYPE"
                        \/ state = "TIMESTAMP_VALUES" /\ b.read_state = "TIMESTAMP_STARTMAP"
                        \/ state = "IN_START_MAP"
    BY <1>1, Zenon DEF _bson_json_read_start_map
  <1>4. PICK c : c = State(b, state)
    OBVIOUS
  <1>5. BsonInOrder(c) /\ c.read_state = state /\ Len(c.frames) = Len(b.frames)
    BY <1>2, <1>4, StateIs
  <1>6. SpecialLevels(c) <= SpecialLevels(b) + 1
    BY <1>3, <1>5 DEF SpecialLevels
  <1>7. Level(c) <= Level(b) + 1
    BY <1>2, <1>5, <1>6, LevelIs DEF Level
  <1>8. Deeper(b, c, 1)
    BY <1>5, <1>7 DEF Deeper
  <1> QED  BY <1>2, <1>3, <1>4, <1>8, DeeperFrom

\* An object that is begun as a document takes the place of its braces.
Begun(b) == Push(State(b, "REGULAR"), FALSE)

LEMMA BegunIs ==
  ASSUME NEW b, BsonInOrder(b)
  PROVE  /\ BsonInOrder(Begun(b))
         /\ Begun(b).ret => /\ Begun(b).read_state = "REGULAR" /\ Len(Begun(b).frames) = Len(b.frames) + 1
                            /\ Level(Begun(b)) = Len(b.frames) + 1
  <1>0. PICK c : c = Begun(b)
    OBVIOUS
  <1>1. PICK e : e = State(b, "REGULAR")
    OBVIOUS
  <1>2. BsonInOrder(e) /\ e.read_state = "REGULAR" /\ Len(e.frames) = Len(b.frames)
    BY <1>1, StateIs
  <1>3. /\ BsonInOrder(c)
        /\ c.ret => c.read_state = "REGULAR" /\ Len(c.frames) = Len(b.frames) + 1
    BY <1>0, <1>1, <1>2, PushIs DEF Begun
  <1>4. Len(b.frames) \in Nat
    BY LevelIs
  <1>5. ASSUME c.ret PROVE Level(c) = Len(b.frames) + 1
    <2>1. SpecialLevels(c) = 0
      BY <1>3, <1>5 DEF SpecialLevels
    <2> QED  BY <1>3, <1>4, <1>5, <2>1 DEF Level
  <1> QED  BY <1>0, <1>3, <1>5, Zenon

LEMMA FirstKeyIs ==
  ASSUME NEW b, BsonInOrder(b), NEW key, b.read_state = "IN_START_MAP"
  PROVE  Deeper(b, FirstKey(b, key), 0)
  <1>1. SpecialLevels(b) = 1 /\ Len(b.frames) \in Nat /\ Level(b) = Len(b.frames) + 1
    BY LevelIs DEF SpecialLevels, Level
  <1>2. CASE _is_known_key(key)
    <2>1. PICK c : c = [b EXCEPT !.read_state = "IN_BSON_TYPE", !.type = "none", !.data = NoData]
      OBVIOUS
    <2>2. DataInOrder(NoData)
      <3>1. 0 \in Unsigned
        BY Limits DEF Unsigned
      <3> QED  BY <3>1 DEF NoData, DataInOrder, HasMembers, DataMembers
    <2>3. BsonInOrder(c) /\ Len(c.frames) = Len(b.frames) /\ c.read_state = "IN_BSON_TYPE"
      BY <2>1, <2>2 DEF BsonInOrder, HasMembers, BsonMembers
    <2>4. SpecialLevels(c) = 1
      BY <2>3 DEF SpecialLevels
    <2>5. Deeper(b, c, 0)
      BY <1>1, <2>3, <2>4 DEF Deeper, Level
    <2> QED  BY <1>2, <2>1, <2>5, Zenon DEF FirstKey
  <1>3. CASE ~ _is_known_key(key)
    <2>1. BsonInOrder(Begun(b)) /\ (Begun(b).ret => Level(Begun(b)) = Level(b) + 0)
      BY <1>1, BegunIs
    <2>2. Deeper(b, Begun(b), 0)
      BY <1>1, <2>1 DEF Deeper
    <2> QED  BY <1>3, <2>2, Zenon DEF FirstKey, Begun
  <1> QED  BY <1>2, <1>3

LEMMA HandleIs ==
  ASSUME NEW b, BsonInOrder(b), NEW type, NEW state
  PROVE  Deeper(b, Handle(b, type, state), 0)
  <1>1. Alike(b, Handle(b, type, state))
    BY DEF Handle, Alike, BsonInOrder, HasMembers, BsonMembers
  <1> QED  BY <1>1, AlikeDeep

LEMMA NextKeyIs ==
  ASSUME NEW b, BsonInOrder(b), NEW key
  PROVE  Deeper(b, NextKey(b, key), 0)
  <1>1. PICK o : o = CHOOSE p \in Options : p.key = key
    OBVIOUS
  <1>2. \/ /\ b.read_state = "IN_BSON_TYPE"
           /\ NextKey(b, key) = [State(b, "TIMESTAMP_STARTMAP") EXCEPT !.type = "timestamp"]
        \/ \E type, state : NextKey(b, key) = Handle(b, type, state)
        \/ NextKey(b, key) = set_error(b)
        \/ NextKey(b, key) = [b EXCEPT !.key = key]
    <2>1. NextKey(b, key) =
            CASE b.read_state = "IN_BSON_TYPE" -> TypeKey(b, key)
              [] b.read_state = "DATE_NUMBERLONG" -> IF key = NumberLong THEN Handle(b, "date", "INT64") ELSE set_error(b)
              [] b.read_state = "TIMESTAMP_VALUES" ->
                   IF key = <<116>> THEN Handle(b, "timestamp", "TIMESTAMP_T")
                   ELSE IF key = <<105>> THEN Handle(b, "timestamp", "TIMESTAMP_I") ELSE set_error(b)
              [] OTHER -> [b EXCEPT !.key = key]
      BY Zenon DEF NextKey
    <2>2. TypeKey(b, key) =
            IF key = Timestamp THEN [State(b, "TIMESTAMP_STARTMAP") EXCEPT !.type = "timestamp"]
            ELSE IF _is_known_key(key) THEN Handle(b, o.type, o.state) ELSE set_error(b)
      BY <1>1 DEF TypeKey
    <2> QED  BY <2>1, <2>2
  <1>3. ASSUME b.read_state = "IN_BSON_TYPE"
        PROVE  Deeper(b, [State(b, "TIMESTAMP_STARTMAP") EXCEPT !.type = "timestamp"], 0)
    <2>1. PICK c : c = State(b, "TIMESTAMP_STARTMAP")
      OBVIOUS
    <2>2. BsonInOrder(c) /\ c.read_state = "TIMESTAMP_STARTMAP" /\ Len(c.frames) = Len(b.frames)
      BY <2>1, StateIs
    <2>3. Alike(c, [c EXCEPT !.type = "timestamp"])
      BY <2>2 DEF Alike, BsonInOrder, HasMembers, BsonMembers
    <2>4. SpecialLevels(c) = SpecialLevels(b)
      BY <1>3, <2>2 DEF SpecialLevels
    <2>5. Alike(c, [c EXCEPT !.type = "timestamp"]) => Deeper(c, [c EXCEPT !.type = "timestamp"], 0)
      BY <2>2, AlikeDeep
    <2>6. Level(c) = Level(b)
      BY <2>2, <2>4 DEF Level
    <2> QED  BY <2>1, <2>3, <2>5, <2>6 DEF Deeper
  <1>4. Deeper(b, [b EXCEPT !.key = key], 0)
    <2>1. Alike(b, [b EXCEPT !.key = key])
      BY DEF Alike, BsonInOrder, HasMembers, BsonMembers
    <2> QED  BY <2>1, AlikeDeep
  <1> QED  BY <1>2, <1>3, <1>4, HandleIs, ErrorDeep

LEMMA MapKeyIs ==
  ASSUME NEW b0, BsonInOrder(b0), NEW key
  PROVE  Deeper(b0, _bson_json_read_map_key(b0, key), 0)
  <1>1. PICK b : b = IF b0.read_state = "IN_START_MAP" THEN FirstKey(b0, key) ELSE b0
    OBVIOUS
  <1>2. Deeper(b0, b, 0)
    <2>1. Alike(b0, b0)
      BY DEF Alike
    <2> QED  BY <1>1, <2>1, FirstKeyIs, AlikeDeep
  <1>3. CASE b.ret
    <2>1. Deeper(b, NextKey(b, key), 0) /\ BsonInOrder(b)
      BY <1>2, NextKeyIs DEF Deeper
    <2>2. Level(b) <= Level(b0) /\ Level(b) \in Nat /\ Level(b0) \in Nat
      BY <1>2, <1>3, <2>1, LevelIs DEF Deeper
    <2>3. BsonInOrder(NextKey(b, key)) => Level(NextKey(b, key)) \in Nat
      BY LevelIs
    <2>4. Deeper(b0, NextKey(b, key), 0)
      BY <2>1, <2>2, <2>3 DEF Deeper
    <2>5. _bson_json_read_map_key(b0, key) = NextKey(b, key)
      BY <1>1, <1>3, Zenon DEF _bson_json_read_map_key
    <2> QED  BY <2>4, <2>5
  <1>4. CASE ~ b.ret
    <2>1. _bson_json_read_map_key(b0, key) = b
      BY <1>1, <1>4, Zenon DEF _bson_json_read_map_key
    <2> QED  BY <1>2, <2>1
  <1> QED  BY <1>3, <1>4

\* The value of a special type goes to the document around it.
LEMMA SpecialIs ==
  ASSUME NEW b, BsonInOrder(b)
  PROVE  /\ Deeper(b, AppendSpecial(b), 0)
         /\ Deeper(b, _bson_json_read_append_timestamp(b), 0)
         /\ Deeper(b, _bson_json_read_append_date_time(b), 0)
  <1>1. \A type, value : Deeper(b, Appended(b, type, value), 0)
    BY AppendedIs
  <1>2. Deeper(b, set_error(b), 0)
    BY ErrorDeep
  <1>3. Deeper(b, _bson_json_read_append_timestamp(b), 0)
    BY <1>1, <1>2, Zenon DEF _bson_json_read_append_timestamp
  <1>4. Deeper(b, _bson_json_read_append_date_time(b), 0)
    BY <1>1, Zenon DEF _bson_json_read_append_date_time
  <1>5. /\ Deeper(b, _bson_json_read_append_binary(b), 0) /\ Deeper(b, _bson_json_read_append_regex(b), 0)
        /\ Deeper(b, _bson_json_read_append_oid(b), 0) /\ Deeper(b, _bson_json_read_append_dbpointer(b), 0)
    BY <1>1, <1>2, Zenon
       DEF _bson_json_read_append_binary, _bson_json_read_append_regex, _bson_json_read_append_oid,
           _bson_json_read_append_dbpointer
  <1>6. Deeper(b, AppendSpecial(b), 0)
    BY <1>1, <1>2, <1>4, <1>5 DEF AppendSpecial
  <1> QED  BY <1>3, <1>4, <1>6

\* What holds after the state was set.
LEMMA DeeperState ==
  ASSUME NEW b, BsonInOrder(b), NEW state, NEW c, Deeper(State(b, state), c, 0),
         SpecialLevels(State(b, state)) = SpecialLevels(b) - 1
  PROVE  Deeper(b, c, -1)
  <1>1. PICK e : e = State(b, state)
    OBVIOUS
  <1>2. BsonInOrder(e) /\ Len(e.frames) = Len(b.frames) /\ Len(b.frames) \in Nat /\ SpecialLevels(b) \in 0 .. 2
    BY <1>1, StateIs, LevelIs
  <1>3. Level(e) = Level(b) - 1
    BY <1>1, <1>2 DEF Level
  <1>4. Level(b) \in Nat /\ (BsonInOrder(c) => Level(c) \in Nat)
    BY LevelIs
  <1> QED  BY <1>1, <1>3, <1>4 DEF Deeper

\* An object is ended that is a document.
LEMMA PopDeep ==
  ASSUME NEW b, BsonInOrder(b), b.read_state = "REGULAR", NEW is_array
  PROVE  Deeper(b, Pop(b, is_array), -1)
  <1>1. PICK c : c = Pop(b, is_array)
    OBVIOUS
  <1>2. BsonInOrder(c) /\ (c.ret => c.read_state = "REGULAR" /\ Len(c.frames) = Len(b.frames) - 1)
    BY <1>1, PopIs
  <1>3. Len(b.frames) \in Nat /\ SpecialLevels(b) = 0
    BY LevelIs DEF SpecialLevels
  <1>4. ASSUME c.ret PROVE Level(c) <= Level(b) + (-1)
    <2>1. SpecialLevels(c) = 0
      BY <1>2, <1>4 DEF SpecialLevels
    <2> QED  BY <1>2, <1>3, <1>4, <2>1 DEF Level
  <1> QED  BY <1>1, <1>2, <1>4 DEF Deeper

LEMMA EndMapIs ==
  ASSUME NEW b0, BsonInOrder(b0)
  PROVE  Deeper(b0, _bson_json_read_end_map(b0), -1)
  <1>1. PICK b : b = IF b0.read_state = "IN_START_MAP" THEN Begun(b0) ELSE b0
    OBVIOUS
  <1>2. BsonInOrder(b)
    BY <1>1, BegunIs
  <1>3. PICK r : r = _bson_json_read_end_map(b0)
    OBVIOUS
  <1>4. r = IF ~ b.ret THEN b
            ELSE CASE b.read_state = "IN_BSON_TYPE" -> AppendSpecial(State(b, "REGULAR"))
                   [] b.read_state = "TIMESTAMP_VALUES" -> _bson_json_read_append_timestamp(State(b, "TIMESTAMP_ENDMAP"))
                   [] b.read_state = "DATE_NUMBERLONG" -> _bson_json_read_append_date_time(State(b, "DATE_ENDMAP"))
                   [] b.read_state \in {"TIMESTAMP_ENDMAP", "DATE_ENDMAP"} -> State(b, "REGULAR")
                   [] b.read_state = "REGULAR" -> Pop(b, FALSE)
                   [] OTHER -> set_error(b)
    BY <1>1, <1>3, Zenon DEF _bson_json_read_end_map, Begun
  <1>5. CASE ~ b.ret
    <2>1. r = b
      BY <1>4, <1>5
    <2> QED  BY <1>2, <1>3, <1>5, <2>1, Canceled
  <1>6. CASE b.ret
    <2>1. Deeper(b, set_error(b), -1)
      BY <1>2, ErrorDeep
    <2>2. ASSUME b.read_state = "IN_BSON_TYPE" PROVE Deeper(b, AppendSpecial(State(b, "REGULAR")), -1)
      <3>1. BsonInOrder(State(b, "REGULAR")) /\ State(b, "REGULAR").read_state = "REGULAR"
        BY <1>2, StateIs
      <3>2. SpecialLevels(State(b, "REGULAR")) = SpecialLevels(b) - 1
        BY <2>2, <3>1 DEF SpecialLevels
      <3> QED  BY <1>2, <3>1, <3>2, SpecialIs, DeeperState
    <2>3. ASSUME b.read_state = "TIMESTAMP_VALUES"
          PROVE  Deeper(b, _bson_json_read_append_timestamp(State(b, "TIMESTAMP_ENDMAP")), -1)
      <3>1. BsonInOrder(State(b, "TIMESTAMP_ENDMAP")) /\ State(b, "TIMESTAMP_ENDMAP").read_state = "TIMESTAMP_ENDMAP"
        BY <1>2, StateIs
      <3>2. SpecialLevels(State(b, "TIMESTAMP_ENDMAP")) = SpecialLevels(b) - 1
        BY <2>3, <3>1 DEF SpecialLevels
      <3> QED  BY <1>2, <3>1, <3>2, SpecialIs, DeeperState
    <2>4. ASSUME b.read_state = "DATE_NUMBERLONG"
          PROVE  Deeper(b, _bson_json_read_append_date_time(State(b, "DATE_ENDMAP")), -1)
      <3>1. BsonInOrder(State(b, "DATE_ENDMAP")) /\ State(b, "DATE_ENDMAP").read_state = "DATE_ENDMAP"
        BY <1>2, StateIs
      <3>2. SpecialLevels(State(b, "DATE_ENDMAP")) = SpecialLevels(b) - 1
        BY <2>4, <3>1 DEF SpecialLevels
      <3> QED  BY <1>2, <3>1, <3>2, SpecialIs, DeeperState
    <2>5. ASSUME b.read_state \in {"TIMESTAMP_ENDMAP", "DATE_ENDMAP"} PROVE Deeper(b, State(b, "REGULAR"), -1)
      <3>1. BsonInOrder(State(b, "REGULAR")) /\ State(b, "REGULAR").read_state = "REGULAR"
        BY <1>2, StateIs
      <3>2. SpecialLevels(State(b, "REGULAR")) = SpecialLevels(b) - 1
        BY <2>5, <3>1 DEF SpecialLevels
      <3>3. Alike(State(b, "REGULAR"), State(b, "REGULAR"))
        BY <3>1 DEF Alike
      <3> QED  BY <1>2, <3>1, <3>2, <3>3, AlikeDeep, DeeperState
    <2>6. ASSUME b.read_state = "REGULAR" PROVE Deeper(b, Pop(b, FALSE), -1)
      BY <1>2, <2>6, PopDeep
    <2>7. Deeper(b, r, -1)
      BY <1>4, <1>6, <2>1, <2>2, <2>3, <2>4, <2>5, <2>6
    <2>8. CASE b0.read_state = "IN_START_MAP"
      <3>1. Level(b) = Len(b0.frames) + 1
        BY <1>1, <1>6, <2>8, BegunIs
      <3>2. Level(b0) = Len(b0.frames) + 1
        BY <2>8, LevelIs DEF Level, SpecialLevels
      <3> QED  BY <1>3, <2>7, <3>1, <3>2 DEF Deeper
    <2>9. CASE b0.read_state # "IN_START_MAP"
      BY <1>1, <1>3, <2>7, <2>9
    <2> QED  BY <2>8, <2>9
  <1> QED  BY <1>2, <1>5, <1>6 DEF BsonInOrder

LEMMA StartArrayIs ==
  ASSUME NEW b0, BsonInOrder(b0)
  PROVE  Deeper(b0, _bson_json_read_start_array(b0), 1)
  <1>1. PICK b : b = fixup_key(b0)
    OBVIOUS
  <1>2. Alike(b0, b) /\ BsonInOrder(b)
    BY <1>1, FixupIs DEF Alike
  <1>3. Deeper(b, Push(b, TRUE), 1)
    <2>1. PICK c : c = Push(b, TRUE)
      OBVIOUS
    <2>2. BsonInOrder(c) /\ (c.ret => c.read_state = b.read_state /\ Len(c.frames) = Len(b.frames) + 1)
      BY <1>2, <2>1, PushIs
    <2>3. Len(b.frames) \in Nat /\ SpecialLevels(b) \in 0 .. 2
      BY <1>2, LevelIs
    <2>4. ASSUME c.ret PROVE Level(c) <= Level(b) + 1
      <3>1. SpecialLevels(c) = SpecialLevels(b)
        BY <2>2, <2>4 DEF SpecialLevels
      <3> QED  BY <2>2, <2>3, <2>4, <3>1 DEF Level
    <2> QED  BY <2>1, <2>2, <2>4 DEF Deeper
  <1>4. Deeper(b, set_error(b), 1)
    BY <1>2, ErrorDeep
  <1>5. \/ _bson_json_read_start_array(b0) = Push(b, TRUE)
        \/ _bson_json_read_start_array(b0) = set_error(b)
    BY <1>1, Zenon DEF _bson_json_read_start_array
  <1>6. Deeper(b, _bson_json_read_start_array(b0), 1)
    BY <1>3, <1>4, <1>5, Zenon
  <1>7. 1 \in Int
    OBVIOUS
  <1> QED  BY <1>2, <1>6, <1>7, DeeperFrom, Zenon

LEMMA EndArrayIs ==
  ASSUME NEW b, BsonInOrder(b)
  PROVE  Deeper(b, _bson_json_read_end_array(b), -1)
  BY PopDeep, ErrorDeep DEF _bson_json_read_end_array

-----------------------------------------------------------------------------
(* The lexer.                                                              *)

ByteTexts == Seq(0 .. 255)

\* The tokens that begin a text of n bytes.
Kinds == {"string", "integer", "double", "bool", "null", "{", "}", "[", "]", ",", ":", "eof", "error"}
Begins(n) == {t \in [kind : Kinds, used : 0 .. n] :
                (t.kind = "string" => t.used >= 2) /\ (t.kind = "integer" => t.used >= 1)}

LEMMA LexedIs ==
  ASSUME NEW n \in Nat, NEW kind \in Kinds, NEW used \in 0 .. n,
         kind = "string" => used >= 2, kind = "integer" => used >= 1
  PROVE  Lexed(kind, used) \in Begins(n)
  BY DEF Lexed, Begins

LEMMA ErrorAt ==
  ASSUME NEW n \in Nat, NEW used \in 0 .. n
  PROVE  Lexed("error", used) \in Begins(n)
  <1>1. "error" \in Kinds /\ "error" # "string" /\ "error" # "integer"
    BY DEF Kinds
  <1> QED  BY <1>1, LexedIs

LEMMA DoubleAt ==
  ASSUME NEW n \in Nat, NEW used \in 0 .. n
  PROVE  Lexed("double", used) \in Begins(n)
  <1>1. "double" \in Kinds /\ "double" # "string" /\ "double" # "integer"
    BY DEF Kinds
  <1> QED  BY <1>1, LexedIs

LEMMA UnfinishedIs ==
  ASSUME NEW s \in ByteTexts
  PROVE  Unfinished(s) \in Begins(Len(s))
  <1>1. Len(s) \in Nat /\ Len(s) \in 0 .. Len(s)
    BY DEF ByteTexts
  <1>2. "eof" \in Kinds /\ "eof" # "string" /\ "eof" # "integer"
    BY DEF Kinds
  <1> QED  BY <1>1, <1>2, LexedIs DEF Unfinished

LEMMA MinIs ==
  ASSUME NEW T \in SUBSET Nat, T # {}
  PROVE  Min(T) \in T
  <1>1. \E x \in T : \A y \in T : x <= y
    BY LeastOf
  <1> QED  BY <1>1 DEF Min

LEMMA WordIs ==
  ASSUME NEW s \in ByteTexts, NEW want \in ByteTexts, NEW kind \in Kinds, kind \notin {"string", "integer"}
  PROVE  Word(s, want, kind) \in Begins(Len(s))
  <1>0. PICK n \in Nat, m \in Nat : n = Len(s) /\ m = Len(want)
    BY DEF ByteTexts
  <1>1. PICK k \in Nat : k = Min({n, m}) /\ k <= n
    <2>1. Min({n, m}) \in {n, m} /\ \A y \in {n, m} : Min({n, m}) <= y
      <3>1. \E x \in {n, m} : \A y \in {n, m} : x <= y
        BY LeastOf
      <3> QED  BY <3>1 DEF Min
    <2> QED  BY <2>1
  <1>2. PICK differ \in SUBSET (1 .. k) : differ = {i \in 1 .. Min({Len(s), Len(want)}) : s[i] # want[i]}
    BY <1>0, <1>1
  <1>3. Word(s, want, kind) = IF differ # {} THEN Lexed("error", Min(differ) - 1)
                              ELSE IF n < m THEN Unfinished(s) ELSE Lexed(kind, m)
    BY <1>0, <1>2, Zenon DEF Word
  <1>4. ASSUME differ # {} PROVE Lexed("error", Min(differ) - 1) \in Begins(n)
    <2>0. differ \in SUBSET Nat
      BY <1>2
    <2>1. Min(differ) \in 1 .. k
      BY <1>2, <1>4, <2>0, MinIs
    <2>2. Min(differ) - 1 \in 0 .. n
      BY <1>1, <2>1
    <2> QED  BY <2>2, ErrorAt
  <1>5. ASSUME ~ (n < m) PROVE Lexed(kind, m) \in Begins(n)
    BY <1>5, LexedIs
  <1> QED  BY <1>0, <1>3, <1>4, <1>5, UnfinishedIs

LEMMA AfterDigitsIs ==
  ASSUME NEW s \in ByteTexts, NEW i \in Nat, i >= 1
  PROVE  AfterDigits(s, i) \in 1 .. Len(s) + 1 /\ (i <= Len(s) + 1 => AfterDigits(s, i) >= i)
  <1>0. PICK n \in Nat : n = Len(s)
    BY DEF ByteTexts
  <1>1. PICK T : T = {j \in i .. Len(s) : s[j] \notin DigitCodes} \cup {Len(s) + 1}
    OBVIOUS
  <1>2. T \in SUBSET (1 .. n + 1) /\ n + 1 \in T /\ \A j \in T : j = n + 1 \/ j >= i
    BY <1>0, <1>1
  <1>3. AfterDigits(s, i) = Min(T)
    BY <1>1 DEF AfterDigits
  <1>4. Min(T) \in T
    BY <1>2, MinIs
  <1> QED  BY <1>0, <1>2, <1>3, <1>4

LEMMA ExponentIs ==
  ASSUME NEW s \in ByteTexts, NEW i \in 1 .. Len(s), NEW kind \in {"integer", "double"}, kind = "integer" => i >= 2
  PROVE  Exponent(s, i, kind) \in Begins(Len(s))
  <1>0. PICK n \in Nat : n = Len(s)
    BY DEF ByteTexts
  <1>1. PICK first \in Nat : /\ first = i + 1 + (IF i < Len(s) /\ s[i + 1] \in {43, 45} THEN 1 ELSE 0)
                             /\ first >= 2 /\ first - 1 <= n
    BY <1>0
  <1>2. PICK end \in 1 .. n + 1 : end = AfterDigits(s, first)
    BY <1>0, <1>1, AfterDigitsIs
  <1>3. Exponent(s, i, kind) =
          IF s[i] \notin {69, 101} THEN Lexed(kind, i - 1)
          ELSE IF first > n THEN Unfinished(s)
          ELSE IF end = first THEN Lexed("error", first - 1)
          ELSE IF end > n THEN Unfinished(s) ELSE Lexed("double", end - 1)
    BY <1>0, <1>1, <1>2, Zenon DEF Exponent
  <1>4. Lexed(kind, i - 1) \in Begins(n)
    <2>1. i - 1 \in 0 .. n /\ (kind = "integer" => i - 1 >= 1)
      BY <1>0
    <2>2. kind \in Kinds /\ kind # "string"
      BY DEF Kinds
    <2> QED  BY <2>1, <2>2, LexedIs
  <1>5. Lexed("error", first - 1) \in Begins(n) /\ Lexed("double", end - 1) \in Begins(n)
    <2>1. first - 1 \in 0 .. n /\ end - 1 \in 0 .. n
      BY <1>1, <1>2
    <2> QED  BY <2>1, ErrorAt, DoubleAt
  <1>6. Unfinished(s) \in Begins(n)
    BY <1>0, UnfinishedIs
  <1> QED  BY <1>0, <1>3, <1>4, <1>5, <1>6

LEMMA NumberIs ==
  ASSUME NEW s \in ByteTexts, s # <<>>
  PROVE  yajl_lex_number(s) \in Begins(Len(s))
  <1>0. PICK n \in Nat : n = Len(s) /\ n >= 1
    BY DEF ByteTexts
  <1>1. PICK first \in 1 .. 2 : first = IF s[1] = 45 THEN 2 ELSE 1
    OBVIOUS
  <1>2. PICK whole \in 1 .. n + 1 :
           /\ whole = IF first <= Len(s) /\ s[first] = 48 THEN first + 1 ELSE AfterDigits(s, first)
           /\ first <= n => whole >= first
    <2>1. AfterDigits(s, first) \in 1 .. n + 1 /\ (first <= n + 1 => AfterDigits(s, first) >= first)
      BY <1>0, <1>1, AfterDigitsIs
    <2> QED  BY <1>0, <1>1, <2>1
  <1>3. PICK fraction \in 1 .. n + 1 : fraction = AfterDigits(s, whole + 1)
    <2>1. PICK next \in Nat : next = whole + 1 /\ next >= 1
      OBVIOUS
    <2>2. AfterDigits(s, next) \in 1 .. n + 1
      BY <1>0, <2>1, AfterDigitsIs
    <2> QED  BY <2>1, <2>2
  <1>4. yajl_lex_number(s) =
          IF first > n THEN Unfinished(s)
          ELSE IF whole = first THEN Lexed("error", first - 1)
          ELSE IF whole > n THEN Unfinished(s)
          ELSE IF s[whole] # 46 THEN Exponent(s, whole, "integer")
          ELSE IF whole = n \/ fraction > n THEN Unfinished(s)
          ELSE IF fraction = whole + 1 THEN Lexed("error", whole)
          ELSE Exponent(s, fraction, "double")
    BY <1>0, <1>1, <1>2, <1>3, Zenon DEF yajl_lex_number
  <1>5. Unfinished(s) \in Begins(n)
    BY <1>0, UnfinishedIs
  <1>6. ASSUME first <= n PROVE Lexed("error", first - 1) \in Begins(n)
    <2>1. first - 1 \in 0 .. n
      BY <1>6
    <2> QED  BY <2>1, ErrorAt
  <1>7. ASSUME whole <= n PROVE Lexed("error", whole) \in Begins(n)
    <2>1. whole \in 0 .. n
      BY <1>7
    <2> QED  BY <2>1, ErrorAt
  <1>8. ASSUME first <= n, whole # first, whole <= n PROVE Exponent(s, whole, "integer") \in Begins(n)
    <2>1. whole >= 2 /\ whole \in 1 .. n
      BY <1>2, <1>8
    <2> QED  BY <1>0, <2>1, ExponentIs
  <1>9. ASSUME fraction <= n PROVE Exponent(s, fraction, "double") \in Begins(n)
    BY <1>0, <1>9, ExponentIs
  <1>10. PICK x : x = yajl_lex_number(s)
    OBVIOUS
  <1>11. x \in Begins(n)
    BY <1>4, <1>5, <1>6, <1>7, <1>8, <1>9, <1>10
  <1> QED  BY <1>0, <1>10, <1>11

\* Where a string goes on from i, or what ends it there.
StopsAt(s, i) ==
  IF i > Len(s) THEN TRUE ELSE IF s[i] = Quote \/ s[i] < 32 THEN TRUE ELSE IF s[i] # Backslash THEN FALSE
  ELSE IF i = Len(s) THEN TRUE ELSE IF s[i + 1] = 117 THEN HexError(s, i) # {} ELSE s[i + 1] \notin EscapeCodes
EndsWith(s, i) ==
  IF i > Len(s) THEN Unfinished(s)
  ELSE IF s[i] = Quote THEN Lexed("string", i)
  ELSE IF s[i] < 32 THEN Lexed("error", i - 1)
  ELSE IF i = Len(s) THEN Unfinished(s)
  ELSE IF s[i + 1] = 117 THEN Lexed("error", Min(HexError(s, i)) - 1) ELSE Lexed("error", i)
GoesOnAt(s, i) == IF s[i] # Backslash THEN i + 1 ELSE IF s[i + 1] = 117 THEN i + 6 ELSE i + 2

StringRest(f, s, i) ==
  IF i > Len(s) THEN Unfinished(s)
  ELSE IF s[i] = Quote THEN Lexed("string", i)
  ELSE IF s[i] < 32 THEN Lexed("error", i - 1)
  ELSE IF s[i] # Backslash THEN f[i + 1]
  ELSE IF i = Len(s) THEN Unfinished(s)
  ELSE IF s[i + 1] = 117
  THEN IF HexError(s, i) # {} THEN Lexed("error", Min(HexError(s, i)) - 1) ELSE f[i + 6]
  ELSE IF s[i + 1] \in EscapeCodes THEN f[i + 2] ELSE Lexed("error", i)

LEMMA StringRestIs ==
  ASSUME NEW f, NEW s, NEW i
  PROVE  StringRest(f, s, i) = IF StopsAt(s, i) THEN EndsWith(s, i) ELSE f[GoesOnAt(s, i)]
  <1>1. CASE i > Len(s)
    BY <1>1, Zenon DEF StringRest, StopsAt, EndsWith, GoesOnAt
  <1>2. CASE ~ (i > Len(s)) /\ (s[i] = Quote \/ s[i] < 32)
    BY <1>2, Zenon DEF StringRest, StopsAt, EndsWith, GoesOnAt
  <1>3. CASE ~ (i > Len(s)) /\ ~ (s[i] = Quote \/ s[i] < 32) /\ s[i] # Backslash
    BY <1>3, Zenon DEF StringRest, StopsAt, EndsWith, GoesOnAt
  <1>4. CASE ~ (i > Len(s)) /\ ~ (s[i] = Quote \/ s[i] < 32) /\ s[i] = Backslash /\ i = Len(s)
    BY <1>4, Zenon DEF StringRest, StopsAt, EndsWith, GoesOnAt
  <1>5. CASE ~ (i > Len(s)) /\ ~ (s[i] = Quote \/ s[i] < 32) /\ s[i] = Backslash /\ i # Len(s)
    <2>1. CASE s[i + 1] = 117
      BY <1>5, <2>1 DEF StringRest, StopsAt, EndsWith, GoesOnAt
    <2>2. CASE s[i + 1] # 117
      BY <1>5, <2>2 DEF StringRest, StopsAt, EndsWith, GoesOnAt
    <2> QED  BY <2>1, <2>2
  <1> QED  BY <1>1, <1>2, <1>3, <1>4, <1>5

LEMMA StringEnds ==
  ASSUME NEW s \in ByteTexts, NEW i \in Nat, i >= 2
  PROVE  /\ StopsAt(s, i) => EndsWith(s, i) \in Begins(Len(s))
         /\ ~ StopsAt(s, i) => i <= Len(s) /\ GoesOnAt(s, i) > i /\ GoesOnAt(s, i) \in 2 .. Len(s) + 6
  <1>0. PICK n \in Nat : n = Len(s)
    BY DEF ByteTexts
  <1>1. ASSUME ~ StopsAt(s, i)
        PROVE  i <= Len(s) /\ GoesOnAt(s, i) > i /\ GoesOnAt(s, i) \in 2 .. Len(s) + 6
    <2>1. ~ (i > n)
      BY <1>0, <1>1, Zenon DEF StopsAt
    <2>2. GoesOnAt(s, i) \in {i + 1, i + 2, i + 6}
      BY DEF GoesOnAt
    <2> QED  BY <1>0, <2>1, <2>2
  <1>2. ASSUME StopsAt(s, i) PROVE EndsWith(s, i) \in Begins(Len(s))
    <2>1. CASE i > n
      BY <1>0, <2>1, UnfinishedIs DEF EndsWith
    <2>2. CASE i <= n /\ s[i] = Quote
      <3>1. "string" \in Kinds /\ "string" # "integer" /\ i \in 0 .. n
        BY <2>2 DEF Kinds
      <3>2. Lexed("string", i) \in Begins(n)
        BY <3>1, LexedIs
      <3>3. ~ (i > n)
        BY <2>2
      <3> QED  BY <1>0, <2>2, <3>2, <3>3, Zenon DEF EndsWith
    <2>3. CASE i <= n /\ s[i] # Quote /\ s[i] < 32
      <3>1. i - 1 \in 0 .. n /\ ~ (i > n)
        BY <2>3
      <3>2. Lexed("error", i - 1) \in Begins(n)
        BY <3>1, ErrorAt
      <3> QED  BY <1>0, <2>3, <3>1, <3>2, Zenon DEF EndsWith
    <2>4. CASE i = n /\ s[i] # Quote /\ ~ (s[i] < 32)
      BY <1>0, <2>4, UnfinishedIs DEF EndsWith
    <2>5. CASE i < n /\ s[i] # Quote /\ ~ (s[i] < 32)
      <3>0. ~ (i > n) /\ i # n
        BY <2>5
      <3>1. CASE s[i + 1] = 117
        <4>1. HexError(s, i) # {}
          BY <1>0, <1>2, <2>5, <3>0, <3>1 DEF StopsAt
        <4>2. PICK k \in Int : k = Min({i + 5, Len(s)}) /\ k <= n
          <5>1. Min({i + 5, n}) \in {i + 5, n} /\ \A y \in {i + 5, n} : Min({i + 5, n}) <= y
            <6>1. \E x \in {i + 5, n} : \A y \in {i + 5, n} : x <= y
              BY LeastOf
            <6> QED  BY <6>1 DEF Min
          <5> QED  BY <1>0, <5>1
        <4>3. HexError(s, i) \in SUBSET (2 .. n) /\ HexError(s, i) \in SUBSET Nat
          BY <4>2 DEF HexError
        <4>4. Min(HexError(s, i)) \in 2 .. n
          BY <4>1, <4>3, MinIs
        <4>5. Min(HexError(s, i)) - 1 \in 0 .. n
          BY <4>4
        <4>6. Lexed("error", Min(HexError(s, i)) - 1) \in Begins(n)
          BY <4>5, ErrorAt
        <4> QED  BY <1>0, <2>5, <3>0, <3>1, <4>6, Zenon DEF EndsWith
      <3>2. CASE s[i + 1] # 117
        <4>1. i \in 0 .. n
          BY <2>5
        <4>2. Lexed("error", i) \in Begins(n)
          BY <4>1, ErrorAt
        <4> QED  BY <1>0, <2>5, <3>0, <3>2, <4>2, Zenon DEF EndsWith
      <3> QED  BY <3>1, <3>2
    <2> QED  BY <1>0, <2>1, <2>2, <2>3, <2>4, <2>5
  <1> QED  BY <1>1, <1>2

\* A string is read to its end, or to an error in it, or to the end of the text.
LEMMA StringTokenIs ==
  ASSUME NEW s \in ByteTexts
  PROVE  yajl_lex_string(s) \in Begins(Len(s))
  <1>0. PICK n \in Nat : n = Len(s) + 6 /\ Len(s) \in Nat
    BY DEF ByteTexts
  <1>1. PICK S : S = Begins(Len(s))
    OBVIOUS
  <1>2. PICK u \in S : u = Unfinished(s)
    BY <1>1, UnfinishedIs
  <1> DEFINE Steps(f) ==
               [i \in 2 .. Len(s) + 6 |->
                  IF i > Len(s) THEN Unfinished(s)
                  ELSE IF s[i] = Quote THEN Lexed("string", i)
                  ELSE IF s[i] < 32 THEN Lexed("error", i - 1)
                  ELSE IF s[i] # Backslash THEN f[i + 1]
                  ELSE IF i = Len(s) THEN Unfinished(s)
                  ELSE IF s[i + 1] = 117
                  THEN IF HexError(s, i) # {} THEN Lexed("error", Min(HexError(s, i)) - 1) ELSE f[i + 6]
                  ELSE IF s[i + 1] \in EscapeCodes THEN f[i + 2] ELSE Lexed("error", i)]
             rest == CHOOSE f : f = Steps(f)
             Over(f) == [i \in 2 .. n |-> StringRest(f, s, i)]
             stop == {i \in 0 .. n : i < 2 \/ StopsAt(s, i)}
             base == [i \in 0 .. n |-> IF i \in stop /\ i >= 2 THEN EndsWith(s, i) ELSE u]
             next == [i \in 0 .. n |-> IF i \in stop THEN i ELSE GoesOnAt(s, i)]
  <1>3. yajl_lex_string(s) = rest[2]
    BY DEF yajl_lex_string
  <1>4. \A f : Steps(f) = Over(f)
    BY <1>0 DEF StringRest
  <1>5. base \in [0 .. n -> S] /\ stop \in SUBSET (0 .. n)
    <2>1. \A i \in 0 .. n : i \in stop /\ i >= 2 => EndsWith(s, i) \in S
      BY <1>1, StringEnds
    <2> QED  BY <2>1
  <1>6. Ahead(n, stop, next)
    <2>1. \A i \in 0 .. n : i \notin stop => GoesOnAt(s, i) > i /\ GoesOnAt(s, i) \in 2 .. n
      BY <1>0, StringEnds
    <2>2. next \in [0 .. n -> 0 .. n]
      BY <2>1
    <2> QED  BY <2>1, <2>2 DEF Ahead
  <1>7. PICK g \in [0 .. n -> S] : \A i \in 0 .. n : g[i] = IF i \in stop THEN base[i] ELSE g[next[i]]
    <2> HIDE DEF stop, base, next
    <2>1. Lookers(S, n, stop, base, next) # {}
      BY <1>5, <1>6, LookingAhead
    <2> QED  BY <2>1 DEF Lookers
  <1> DEFINE h == [i \in 2 .. n |-> g[i]]
  <1>8. \A i \in 2 .. n : h[i] = StringRest(h, s, i)
    <2> SUFFICES ASSUME NEW i \in 2 .. n
                 PROVE  h[i] = StringRest(h, s, i)
      OBVIOUS
    <2>0. i \in Nat /\ i >= 2 /\ ~ (i < 2) /\ i \in 0 .. n
      OBVIOUS
    <2>1. g[i] = IF i \in stop THEN base[i] ELSE g[next[i]]
      BY <1>7, <2>0
    <2>2. CASE StopsAt(s, i)
      <3>1. h[i] = EndsWith(s, i)
        BY <2>0, <2>1, <2>2
      <3>2. StringRest(h, s, i) = EndsWith(s, i)
        <4> HIDE DEF h
        <4> QED  BY <2>2, StringRestIs
      <3> QED  BY <3>1, <3>2
    <2>3. CASE ~ StopsAt(s, i)
      <3>1. GoesOnAt(s, i) \in 2 .. n
        BY <1>0, <2>0, <2>3, StringEnds
      <3>2. h[i] = h[GoesOnAt(s, i)]
        BY <2>0, <2>1, <2>3, <3>1
      <3>3. StringRest(h, s, i) = h[GoesOnAt(s, i)]
        <4> HIDE DEF h
        <4> QED  BY <2>3, StringRestIs
      <3> QED  BY <3>2, <3>3
    <2> QED  BY <2>2, <2>3
  <1>9. h = Steps(h)
    <2>1. h = Over(h)
      BY <1>8
    <2> HIDE DEF h, Steps, Over
    <2> QED  BY <1>4, <2>1
  <1>10. rest = Steps(rest)
    <2> HIDE DEF Steps, h
    <2> QED  BY <1>9
  <1>11. \A i \in 2 .. n : rest[i] = StringRest(rest, s, i)
    <2>1. rest = Over(rest)
      <3> HIDE DEF Steps, Over, rest
      <3> QED  BY <1>4, <1>10
    <2> HIDE DEF rest
    <2> QED  BY <2>1
  <1> HIDE DEF rest, h
  <1> DEFINE T == {k \in 2 .. n + 1 : \A i \in k .. n : rest[i] \in S}
  <1>12. 2 \in T
    <2>1. n + 1 \in T
      BY <1>0
    <2>2. \A k \in 2 .. (n + 1) - 1 : k + 1 \in T => k \in T
      <3> SUFFICES ASSUME NEW k \in 2 .. n, k + 1 \in T
                   PROVE  k \in T
        BY (n + 1) - 1 = n
      <3>1. rest[k] \in S
        <4>0. k \in Nat /\ k >= 2
          OBVIOUS
        <4>1. CASE StopsAt(s, k)
          BY <1>1, <1>11, <4>0, <4>1, StringRestIs, StringEnds
        <4>2. CASE ~ StopsAt(s, k)
          <5>1. GoesOnAt(s, k) \in k + 1 .. n
            BY <1>0, <4>0, <4>2, StringEnds
          <5>2. rest[GoesOnAt(s, k)] \in S
            BY <5>1
          <5>3. rest[k] = rest[GoesOnAt(s, k)]
            BY <1>11, <4>2, StringRestIs
          <5> QED  BY <5>2, <5>3
        <4> QED  BY <4>1, <4>2
      <3>2. \A i \in k .. n : i = k \/ i \in k + 1 .. n
        OBVIOUS
      <3> QED  BY <3>1, <3>2
    <2>3. 2 .. n + 1 \subseteq T
      <3>1. n + 1 \in Int /\ 2 \in Int
        OBVIOUS
      <3> HIDE DEF T
      <3> QED  BY <2>1, <2>2, <3>1, DownFrom
    <2>4. 2 \in 2 .. n + 1
      BY <1>0
    <2> HIDE DEF T
    <2> QED  BY <2>3, <2>4
  <1>13. 2 \in 2 .. n
    BY <1>0
  <1> QED  BY <1>1, <1>3, <1>12, <1>13

LEMMA TokenBegins ==
  ASSUME NEW s \in ByteTexts, s # <<>>
  PROVE  TokenOf(s) \in Begins(Len(s))
  <1>0. PICK n \in Nat : n = Len(s) /\ n >= 1
    BY DEF ByteTexts
  <1>1. \A kind \in Kinds \ {"string"} : Lexed(kind, 1) \in Begins(n)
    <2> TAKE kind \in Kinds \ {"string"}
    <2>1. 1 \in 0 .. n /\ 1 >= 1
      BY <1>0
    <2> QED  BY <2>1, LexedIs
  <1>2. {"{", "}", "[", "]", ",", ":", "error"} \subseteq Kinds \ {"string"}
    BY DEF Kinds
  <1>3. Lexed("error", 0) \in Begins(n)
    <2>1. 0 \in 0 .. n
      BY <1>0
    <2> QED  BY <2>1, ErrorAt
  <1>4. /\ Word(s, <<116, 114, 117, 101>>, "bool") \in Begins(n)
        /\ Word(s, <<102, 97, 108, 115, 101>>, "bool") \in Begins(n)
        /\ Word(s, <<110, 117, 108, 108>>, "null") \in Begins(n)
    <2>1. /\ <<116, 114, 117, 101>> \in ByteTexts /\ <<102, 97, 108, 115, 101>> \in ByteTexts
          /\ <<110, 117, 108, 108>> \in ByteTexts
      BY DEF ByteTexts
    <2>2. /\ "bool" \in Kinds /\ "bool" \notin {"string", "integer"}
          /\ "null" \in Kinds /\ "null" \notin {"string", "integer"}
      BY DEF Kinds
    <2> QED  BY <1>0, <2>1, <2>2, WordIs
  <1>5. yajl_lex_string(s) \in Begins(n) /\ yajl_lex_number(s) \in Begins(n)
    BY <1>0, StringTokenIs, NumberIs
  <1>6. PICK t : t = TokenOf(s)
    OBVIOUS
  <1>7. /\ Lexed("{", 1) \in Begins(n) /\ Lexed("}", 1) \in Begins(n) /\ Lexed("[", 1) \in Begins(n)
        /\ Lexed("]", 1) \in Begins(n) /\ Lexed(",", 1) \in Begins(n) /\ Lexed(":", 1) \in Begins(n)
        /\ Lexed("error", 1) \in Begins(n)
    BY <1>1, <1>2
  <1>8. PICK true, false, null :
           /\ true = Word(s, <<116, 114, 117, 101>>, "bool") /\ false = Word(s, <<102, 97, 108, 115, 101>>, "bool")
           /\ null = Word(s, <<110, 117, 108, 108>>, "null")
    OBVIOUS
  <1>9. true \in Begins(n) /\ false \in Begins(n) /\ null \in Begins(n)
    BY <1>4, <1>8
  <1>10. t = CASE s[1] = 123 -> Lexed("{", 1)
               [] s[1] = 125 -> Lexed("}", 1)
               [] s[1] = 91 -> Lexed("[", 1)
               [] s[1] = 93 -> Lexed("]", 1)
               [] s[1] = 44 -> Lexed(",", 1)
               [] s[1] = 58 -> Lexed(":", 1)
               [] s[1] = 116 -> true
               [] s[1] = 102 -> false
               [] s[1] = 110 -> null
               [] s[1] = Quote -> yajl_lex_string(s)
               [] s[1] \in {45} \cup DigitCodes -> yajl_lex_number(s)
               [] s[1] = 47 -> Lexed("error", 0)
               [] OTHER -> Lexed("error", 1)
    BY <1>6, <1>8, Zenon DEF TokenOf
  <1>11. t \in Begins(n)
    BY <1>3, <1>5, <1>7, <1>9, <1>10
  <1> QED  BY <1>0, <1>6, <1>11

LEMMA SpacesIs ==
  ASSUME NEW s \in ByteTexts
  PROVE  Spaces(s) \in 0 .. Len(s)
  <1>0. PICK n \in Nat : n = Len(s) /\ DOMAIN s = 1 .. n
    BY DEF ByteTexts
  <1>1. PICK T : T = {i \in DOMAIN s : s[i] \notin Whitespace} \cup {Len(s) + 1}
    OBVIOUS
  <1>2. T \in SUBSET (1 .. n + 1) /\ T \in SUBSET Nat /\ T # {}
    BY <1>0, <1>1
  <1>3. Min(T) \in 1 .. n + 1
    BY <1>2, MinIs
  <1>4. Spaces(s) = Min(T) - 1
    BY <1>1 DEF Spaces
  <1> QED  BY <1>0, <1>3, <1>4

LEMMA PartOf ==
  ASSUME NEW s \in ByteTexts, NEW a \in Nat, NEW b \in Nat, a <= b, b <= Len(s)
  PROVE  SubSeq(s, a + 1, b) \in ByteTexts /\ Len(SubSeq(s, a + 1, b)) = b - a
  <1>1. PICK S : ByteTexts = Seq(S)
    BY DEF ByteTexts
  <1>2. PICK c \in Nat : c = a + 1 /\ 1 <= c /\ c <= b + 1 /\ b - c + 1 = b - a
    OBVIOUS
  <1>3. PICK t : t = SubSeq(s, c, b)
    OBVIOUS
  <1>4. t \in Seq(S) /\ Len(t) = b - c + 1
    BY <1>1, <1>2, <1>3
  <1> QED  BY <1>1, <1>2, <1>3, <1>4

LEMMA JoinedText ==
  ASSUME NEW s \in ByteTexts, NEW t \in ByteTexts
  PROVE  s \o t \in ByteTexts /\ Len(s \o t) = Len(s) + Len(t)
  <1>1. PICK S : ByteTexts = Seq(S)
    BY DEF ByteTexts
  <1> QED  BY <1>1

\* What yajl_lex_lex finds.
TokenMembers == {"kind", "bytes", "offset", "kept"}
TokenInOrder(tok, offset, n) ==
  /\ HasMembers(tok, TokenMembers) /\ tok.kind \in Kinds
  /\ tok.bytes \in ByteTexts /\ tok.kept \in ByteTexts /\ tok.offset \in offset .. n
  /\ tok.kind = "string" => Len(tok.bytes) >= 2
  /\ tok.kind = "integer" => Len(tok.bytes) >= 1

LEMMA LexIs ==
  ASSUME NEW kept \in ByteTexts, NEW text \in ByteTexts, NEW offset \in 0 .. Len(text)
  PROVE  TokenInOrder(yajl_lex_lex(kept, text, offset), offset, Len(text))
  <1>0. PICK n \in Nat, k \in Nat : n = Len(text) /\ k = Len(kept) /\ offset \in 0 .. n
    BY DEF ByteTexts
  <1>1. PICK from \in offset .. n :
          from = IF kept = <<>> THEN offset + Spaces(SubSeq(text, offset + 1, Len(text))) ELSE offset
    <2>1. SubSeq(text, offset + 1, n) \in ByteTexts /\ Len(SubSeq(text, offset + 1, n)) = n - offset
      BY <1>0, PartOf
    <2>2. Spaces(SubSeq(text, offset + 1, n)) \in 0 .. n - offset
      BY <2>1, SpacesIs
    <2> QED  BY <1>0, <2>2
  <1>2. PICK s \in ByteTexts : s = kept \o SubSeq(text, from + 1, Len(text)) /\ Len(s) = k + n - from
    <2>1. PICK part \in ByteTexts : part = SubSeq(text, from + 1, n) /\ Len(part) = n - from
      <3>1. from \in Nat /\ from <= n
        BY <1>0, <1>1
      <3>2. PICK part : part = SubSeq(text, from + 1, n)
        OBVIOUS
      <3>3. part \in ByteTexts /\ Len(part) = n - from
        BY <1>0, <3>1, <3>2, PartOf
      <3> QED  BY <3>2, <3>3
    <2>2. kept \o part \in ByteTexts /\ Len(kept \o part) = k + n - from
      <3>1. k + (n - from) = k + n - from
        BY <1>1
      <3>2. kept \o part \in ByteTexts /\ Len(kept \o part) = k + Len(part)
        BY <1>0, JoinedText
      <3> QED  BY <2>1, <3>1, <3>2
    <2> QED  BY <1>0, <2>1, <2>2
  <1>3. PICK tok : tok = IF from = Len(text) THEN Unfinished(s) ELSE TokenOf(s)
    OBVIOUS
  <1>4. tok \in Begins(Len(s)) /\ (from = n => tok.used = k)
    <2>1. CASE from = n
      <3>1. Unfinished(s).used = k
        BY <1>0, <1>2, <2>1 DEF Unfinished, Lexed
      <3> QED  BY <1>0, <1>3, <2>1, <3>1, UnfinishedIs
    <2>2. CASE from # n
      <3>1. Len(s) >= 1
        BY <1>0, <1>1, <1>2, <2>2
      <3>2. s # <<>>
        BY <3>1
      <3> QED  BY <1>0, <1>3, <2>2, <3>2, TokenBegins
    <2> QED  BY <2>1, <2>2
  <1>5. PICK used \in 0 .. k + n - from : used = tok.used
    BY <1>2, <1>4 DEF Begins
  <1>6. PICK after : after = IF tok.used < Len(kept) THEN from ELSE from + tok.used - Len(kept)
    OBVIOUS
  <1>7. after \in offset .. n
    BY <1>0, <1>1, <1>5, <1>6
  <1>8. PICK bytes \in ByteTexts : bytes = SubSeq(s, 1, tok.used) /\ Len(bytes) = used
    <2>1. 0 \in Nat /\ used \in Nat /\ 0 <= used /\ used <= Len(s) /\ 0 + 1 = 1 /\ used - 0 = used
      BY <1>0, <1>1, <1>2, <1>5
    <2>2. SubSeq(s, 0 + 1, used) \in ByteTexts /\ Len(SubSeq(s, 0 + 1, used)) = used - 0
      BY <2>1, PartOf
    <2>3. SubSeq(s, 0 + 1, used) = SubSeq(s, 1, tok.used)
      BY <1>5, <2>1
    <2> QED  BY <2>1, <2>2, <2>3
  <1>9. yajl_lex_lex(kept, text, offset) =
          [kind |-> tok.kind, bytes |-> bytes, offset |-> after, kept |-> IF tok.kind = "eof" THEN s ELSE <<>>]
    BY <1>1, <1>2, <1>3, <1>6, <1>8, Zenon DEF yajl_lex_lex
  <1>10. /\ tok.kind \in Kinds /\ (tok.kind = "string" => used >= 2) /\ (tok.kind = "integer" => used >= 1)
    BY <1>4, <1>5 DEF Begins
  <1>11. <<>> \in ByteTexts
    BY DEF ByteTexts
  <1>12. PICK kind \in Kinds, left \in ByteTexts : kind = tok.kind /\ left = IF tok.kind = "eof" THEN s ELSE <<>>
    BY <1>10, <1>11
  <1>13. yajl_lex_lex(kept, text, offset) = [kind |-> kind, bytes |-> bytes, offset |-> after, kept |-> left]
    BY <1>9, <1>12
  <1>14. PICK r : r = [kind |-> kind, bytes |-> bytes, offset |-> after, kept |-> left]
    OBVIOUS
  <1>15. /\ HasMembers(r, TokenMembers)
         /\ r.kind = kind /\ r.bytes = bytes /\ r.offset = after /\ r.kept = left
    BY <1>14 DEF HasMembers, TokenMembers
  <1>16. TokenInOrder(r, offset, n)
    BY <1>7, <1>8, <1>10, <1>12, <1>15 DEF TokenInOrder
  <1> QED  BY <1>0, <1>13, <1>14, <1>16

\* The number that a token of digits spells.
LEMMA IntegerParsed ==
  ASSUME NEW s \in ByteTexts, Len(s) >= 1
  PROVE  yajl_parse_integer(s).value \in Int
  <1>0. PICK n \in Nat : n = Len(s) /\ n >= 1
    BY DEF ByteTexts
  <1>1. PICK first \in 1 .. 2 : first = IF s[1] = 45 THEN 2 ELSE 1
    OBVIOUS
  <1>2. INT64_MAX \in Int /\ \A i \in 1 .. n : s[i] \in Int
    <2>1. INT64_MAX \in Int
      BY Limits
    <2>2. ASSUME NEW i \in 1 .. n PROVE s[i] \in Int
      <3>1. PICK S : S = 0 .. 255 /\ s \in Seq(S)
        BY DEF ByteTexts
      <3>2. s[i] \in S
        BY <1>0, <3>1
      <3>3. \A x \in 0 .. 255 : x \in Int
        OBVIOUS
      <3> QED  BY <3>1, <3>2, <3>3, Zenon
    <2> QED  BY <2>1, <2>2
  <1> DEFINE Digit(i, before) ==
               LET digit == s[i] - 48
               IN  IF before < 0 \/ before > (INT64_MAX - digit) \div 10 THEN -1 ELSE before * 10 + digit
             Steps(f) ==
               [i \in first - 1 .. Len(s) |->
                  IF i < first THEN 0
                  ELSE LET before == f[i - 1]
                           digit == s[i] - 48
                       IN  IF before < 0 \/ before > (INT64_MAX - digit) \div 10 THEN -1 ELSE before * 10 + digit]
             value == CHOOSE f : f = Steps(f)
             step == [i \in 1 .. n |-> [x \in Int |-> IF i < first THEN 0 ELSE Digit(i, x)]]
  <1>3. \A i \in 1 .. n, x \in Int : Digit(i, x) \in Int
    BY <1>2
  <1>4. step \in StepsOn(Int, n)
    <2> HIDE DEF Digit
    <2> QED  BY <1>3 DEF StepsOn
  <1>5. PICK r \in [0 .. n -> Int] : r[0] = 0 /\ \A i \in 1 .. n : r[i] = step[i][r[i - 1]]
    <2> HIDE DEF step
    <2>0. 0 \in Int
      OBVIOUS
    <2>1. Walks(Int, n, 0, step) # {}
      BY <1>4, <2>0, StepByStep
    <2> QED  BY <2>1 DEF Walks
  <1> DEFINE g == [i \in first - 1 .. n |-> r[i]]
  <1>6. \A i \in first - 1 .. n : g[i] = IF i < first THEN 0 ELSE Digit(i, g[i - 1])
    <2> SUFFICES ASSUME NEW i \in first - 1 .. n
                 PROVE  g[i] = IF i < first THEN 0 ELSE Digit(i, g[i - 1])
      OBVIOUS
    <2> HIDE DEF Digit
    <2>1. CASE i = 0
      <3>1. i < first
        BY <2>1
      <3> QED  BY <1>5, <2>1, <3>1
    <2>2. CASE i # 0
      <3>1. i \in 1 .. n /\ r[i - 1] \in Int
        BY <1>5, <2>2
      <3>2. r[i] = IF i < first THEN 0 ELSE Digit(i, r[i - 1])
        BY <1>5, <3>1
      <3>3. i >= first => g[i - 1] = r[i - 1]
        BY <3>1
      <3> QED  BY <3>2, <3>3
    <2> QED  BY <2>1, <2>2
  <1>7. g = Steps(g)
    <2>1. \A i \in first - 1 .. n : Steps(g)[i] = IF i < first THEN 0 ELSE Digit(i, g[i - 1])
      <3> HIDE DEF g
      <3> QED  BY <1>0
    <2>2. \A i \in first - 1 .. n : g[i] = Steps(g)[i]
      <3> HIDE DEF g, Steps, Digit
      <3> QED  BY <1>6, <2>1
    <2>3. DOMAIN g = first - 1 .. n /\ DOMAIN Steps(g) = first - 1 .. n /\ g = [i \in first - 1 .. n |-> g[i]]
          /\ Steps(g) = [i \in first - 1 .. n |-> Steps(g)[i]]
      BY <1>0
    <2> HIDE DEF g, Steps
    <2> QED  BY <2>2, <2>3
  <1>8. value = Steps(value)
    <2> HIDE DEF Steps, g
    <2> QED  BY <1>7
  <1>9. \A i \in first - 1 .. n : value[i] = IF i < first THEN 0 ELSE Digit(i, value[i - 1])
    <2>1. \A i \in first - 1 .. n : Steps(value)[i] = IF i < first THEN 0 ELSE Digit(i, value[i - 1])
      <3> HIDE DEF value
      <3> QED  BY <1>0
    <2> HIDE DEF value, Steps, Digit
    <2> QED  BY <1>8, <2>1
  <1> HIDE DEF value, g, Steps
  <1>10. value[n] \in Int
    <2> DEFINE T == {k \in 0 .. n : k < first \/ value[k] \in Int}
    <2>1. 0 \in T
      BY <1>1
    <2>2. \A i \in 0 .. n - 1 : i \in T => i + 1 \in T
      <3> SUFFICES ASSUME NEW i \in 0 .. n - 1, i \in T
                   PROVE  i + 1 \in T
        OBVIOUS
      <3> HIDE DEF Digit
      <3>1. CASE i + 1 < first
        BY <3>1
      <3>2. CASE i + 1 >= first /\ i < first
        <4>1. i + 1 \in first - 1 .. n /\ i \in first - 1 .. n /\ (i + 1) - 1 = i /\ ~ (i + 1 < first)
          BY <3>2
        <4>2. value[i] = 0
          BY <1>9, <3>2, <4>1
        <4>3. value[i + 1] = Digit(i + 1, value[i])
          BY <1>9, <4>1
        <4>4. i + 1 \in 1 .. n /\ i + 1 \in 0 .. n /\ 0 \in Int
          OBVIOUS
        <4>5. value[i + 1] \in Int
          BY <1>3, <4>2, <4>3, <4>4
        <4> QED  BY <4>4, <4>5
      <3>3. CASE i >= first
        <4>1. i + 1 \in first - 1 .. n /\ (i + 1) - 1 = i /\ ~ (i + 1 < first) /\ ~ (i < first)
          BY <3>3
        <4>2. value[i] \in Int
          BY <4>1
        <4>3. value[i + 1] = Digit(i + 1, value[i])
          BY <1>9, <4>1
        <4>4. i + 1 \in 1 .. n /\ i + 1 \in 0 .. n
          OBVIOUS
        <4>5. value[i + 1] \in Int
          BY <1>3, <4>2, <4>3, <4>4
        <4> QED  BY <4>4, <4>5
      <3> QED  BY <3>1, <3>2, <3>3
    <2>3. 0 .. n \subseteq T
      <3> HIDE DEF T
      <3> QED  BY <2>1, <2>2, UpTo
    <2>4. n \in T
      BY <2>3
    <2>5. CASE n < first
      BY <1>0, <1>9, <2>5
    <2> QED  BY <2>4, <2>5
  <1>11. yajl_parse_integer(s).value = IF first = 2 THEN - value[Len(s)] ELSE value[Len(s)]
    BY <1>1 DEF yajl_parse_integer, value, Steps
  <1> QED  BY <1>0, <1>10, <1>11

-----------------------------------------------------------------------------
(* The inductive invariant.  The parser is running only while bson_json_    *)
(* reader_read waits for it, and whenever it may go on the callbacks are    *)
(* not deeper in the text than it is.  What was parsed of the buffer, and   *)
(* what is being parsed, is in the buffer, or the space at the end of all.  *)

SourceMembers == {"text", "at"}
ProducerMembers == {"cb", "pc", "buf", "room", "bytes_parsed", "all_whitespace", "read_something", "ret"}
YajlMembers == {"stack", "kept", "text", "offset", "status"}
ToolMembers == {"name", "args", "pc", "i", "docnum", "exit"}

ReadPlaces == {"idle", "fetch", "parse", "complete", "returned"}
Answers == {-1, 0, 1, NoAnswer}
Statuses == {"running", "ok", "error", "client_canceled"}
ToolPlaces == {"open", "read", "wait", "done"}
Arguments == Seq({NoFile} \cup ByteTexts)

SourceInOrder(s) == HasMembers(s, SourceMembers) /\ s.text \in ByteTexts /\ s.at \in 0 .. Len(s.text)
ProducerInOrder(p) ==
  /\ HasMembers(p, ProducerMembers) /\ p.pc \in ReadPlaces /\ p.ret \in Answers
  /\ p.buf \in ByteTexts /\ p.room \in Nat /\ Len(p.buf) <= p.room
  /\ p.bytes_parsed \in 0 .. Len(p.buf) + 1
YajlInOrder(y) ==
  /\ HasMembers(y, YajlMembers) /\ y.status \in Statuses
  /\ y.text \in ByteTexts /\ y.kept \in ByteTexts /\ y.offset \in 0 .. Len(y.text)
  /\ IsStack(y.stack) /\ Len(y.stack) >= 1
ToolInOrder(t) ==
  /\ HasMembers(t, ToolMembers) /\ t.pc \in ToolPlaces
  /\ t.args \in Arguments /\ t.i \in Nat \ {0}

Calling(p) == p.pc \in {"fetch", "parse", "complete"}
CallInOrder(p, y, t) ==
  /\ Calling(p) => t.pc \in {"wait", "done"}
  /\ y.status = "running" => p.pc \in {"parse", "complete"}

MayGoOn(p, y) == p.pc = "fetch" \/ (p.pc \in {"parse", "complete"} /\ y.status \in {"running", "ok"})
NotTooDeep(p, y, b) == MayGoOn(p, y) => Level(b) <= Len(y.stack) - 1

TextInBuffer(p, y) ==
  /\ p.pc = "parse" => p.bytes_parsed + Len(y.text) <= Len(p.buf)
  /\ p.pc = "complete" => p.bytes_parsed + Len(y.text) <= Len(p.buf) + 1
  /\ p.pc = "fetch" /\ p.read_something => p.bytes_parsed <= Len(p.buf)

JsonInv ==
  /\ SourceInOrder(source) /\ ProducerInOrder(producer) /\ YajlInOrder(yajl) /\ BsonInOrder(bson)
  /\ ToolInOrder(tool) /\ CallInOrder(producer, yajl, tool)
  /\ NotTooDeep(producer, yajl, bson) /\ TextInBuffer(producer, yajl)

-----------------------------------------------------------------------------
(* A step of the parser.                                                   *)

\* What a step of the parser leaves: y, and the callbacks at b.
ParserLeaves(y, b) ==
  /\ YajlInOrder(y) /\ BsonInOrder(b) /\ y.text = yajl.text
  /\ y.status \in {"running", "ok"} => Level(b) <= Len(y.stack) - 1

LEMMA ParserKeeps ==
  ASSUME JsonInv, Running, ParserLeaves(yajl', bson'), UNCHANGED <<source, producer, tool>>
  PROVE  JsonInv'
  <1>1. producer.pc \in {"parse", "complete"} /\ CallInOrder(producer, yajl, tool)
    BY DEF JsonInv, CallInOrder, Running
  <1>2. YajlInOrder(yajl') /\ BsonInOrder(bson') /\ yajl'.text = yajl.text
    BY DEF ParserLeaves
  <1>3. SourceInOrder(source') /\ ProducerInOrder(producer') /\ ToolInOrder(tool')
    BY DEF JsonInv
  <1>4. CallInOrder(producer', yajl', tool')
    BY <1>1 DEF CallInOrder
  <1>5. NotTooDeep(producer', yajl', bson')
    BY <1>1 DEF NotTooDeep, MayGoOn, ParserLeaves
  <1>6. TextInBuffer(producer', yajl')
    BY <1>1, <1>2 DEF JsonInv, TextInBuffer
  <1> QED  BY <1>2, <1>3, <1>4, <1>5, <1>6 DEF JsonInv

LEMMA BelowIs ==
  ASSUME NEW s, IsStack(s), Len(s) >= 1
  PROVE  IsStack(Below(s)) /\ Len(Below(s)) = Len(s) - 1
  <1>1. Len(s) - 1 \in Nat /\ Len(s) - 1 <= Len(s)
    BY DEF IsStack
  <1> QED  BY <1>1, Lowered DEF Below

LEMMA WithTopIs ==
  ASSUME NEW s, IsStack(s), Len(s) >= 1, NEW state
  PROVE  IsStack(WithTop(s, state)) /\ Len(WithTop(s, state)) = Len(s)
  <1>1. IsStack(Below(s)) /\ Len(Below(s)) = Len(s) - 1 /\ Len(s) \in Nat
    BY BelowIs DEF IsStack
  <1>2. IsStack(WithTop(s, state)) /\ Len(WithTop(s, state)) = (Len(s) - 1) + 1
    BY <1>1, Stacked DEF WithTop
  <1> QED  BY <1>1, <1>2

LEMMA GotValueIs ==
  ASSUME NEW s, IsStack(s), Len(s) >= 1
  PROVE  IsStack(GotValue(s)) /\ Len(GotValue(s)) = Len(s)
  BY WithTopIs DEF GotValue

LEMMA TopSeen ==
  ASSUME JsonInv
  PROVE  /\ YajlInOrder(yajl) /\ BsonInOrder(bson) /\ IsStack(yajl.stack)
         /\ Len(yajl.stack) \in Nat /\ Len(yajl.stack) >= 1 /\ Level(bson) \in Nat
         /\ Running => Level(bson) <= Len(yajl.stack) - 1
         /\ TokenInOrder(Token, yajl.offset, Len(yajl.text))
  <1>1. YajlInOrder(yajl) /\ BsonInOrder(bson) /\ IsStack(yajl.stack) /\ Len(yajl.stack) >= 1
    BY DEF JsonInv, YajlInOrder
  <1>2. Len(yajl.stack) \in Nat
    BY <1>1 DEF IsStack
  <1>3. Running => Level(bson) <= Len(yajl.stack) - 1
    BY DEF JsonInv, CallInOrder, NotTooDeep, MayGoOn, Running
  <1>4. TokenInOrder(Token, yajl.offset, Len(yajl.text))
    BY <1>1, LexIs DEF YajlInOrder, Token
  <1> QED  BY <1>1, <1>2, <1>3, <1>4, LevelIs

LEMMA AfterIs ==
  ASSUME JsonInv, NEW tok, TokenInOrder(tok, yajl.offset, Len(yajl.text)),
         NEW stack, IsStack(stack), Len(stack) >= 1
  PROVE  /\ YajlInOrder(After(tok, stack)) /\ After(tok, stack).text = yajl.text
         /\ After(tok, stack).stack = stack /\ After(tok, stack).status = yajl.status
         /\ After(tok, stack).offset = tok.offset
  <1>1. PICK y : y = After(tok, stack)
    OBVIOUS
  <1>2. /\ HasMembers(y, YajlMembers) /\ y.text = yajl.text /\ y.stack = stack /\ y.status = yajl.status
        /\ y.offset = tok.offset /\ y.kept = tok.kept
    BY <1>1 DEF JsonInv, YajlInOrder, HasMembers, YajlMembers, After
  <1>3. y.offset \in 0 .. Len(y.text)
    <2>1. yajl.offset \in 0 .. Len(yajl.text) /\ tok.offset \in yajl.offset .. Len(yajl.text)
      BY DEF JsonInv, YajlInOrder, TokenInOrder
    <2> QED  BY <1>2, <2>1
  <1>4. y.text \in ByteTexts /\ y.kept \in ByteTexts /\ y.status \in Statuses
    BY <1>2 DEF JsonInv, YajlInOrder, TokenInOrder
  <1> QED  BY <1>1, <1>2, <1>3, <1>4 DEF YajlInOrder

LEMMA StatusSet ==
  ASSUME NEW y, YajlInOrder(y), NEW status \in Statuses
  PROVE  /\ YajlInOrder([y EXCEPT !.status = status]) /\ [y EXCEPT !.status = status].status = status
         /\ [y EXCEPT !.status = status].text = y.text /\ [y EXCEPT !.status = status].stack = y.stack
  BY DEF YajlInOrder, HasMembers, YajlMembers

\* Nothing is called back, and the stack is as deep as before.
LEMMA StopsLeave ==
  ASSUME JsonInv, Running, NEW tok, TokenInOrder(tok, yajl.offset, Len(yajl.text)), Moves(Stops(tok, "ok"))
  PROVE  ParserLeaves(yajl', bson')
  <1>1. /\ YajlInOrder(After(tok, yajl.stack)) /\ After(tok, yajl.stack).text = yajl.text
        /\ After(tok, yajl.stack).stack = yajl.stack
    BY TopSeen, AfterIs
  <1>2. "ok" \in Statuses
    BY DEF Statuses
  <1>3. yajl' = [After(tok, yajl.stack) EXCEPT !.status = "ok"] /\ bson' = bson
    BY DEF Moves, Stops
  <1>4. YajlInOrder(yajl') /\ yajl'.text = yajl.text /\ yajl'.stack = yajl.stack
    BY <1>1, <1>2, <1>3, StatusSet
  <1> QED  BY <1>3, <1>4, TopSeen DEF ParserLeaves

LEMMA FailsIs ==
  ASSUME JsonInv, NEW tok, TokenInOrder(tok, yajl.offset, Len(yajl.text)), NEW state
  PROVE  /\ YajlInOrder(Fails(tok, state)) /\ Fails(tok, state).text = yajl.text
         /\ Fails(tok, state).status = "error" /\ Fails(tok, state).offset = tok.offset
  <1>1. PICK y : y = After(tok, WithTop(yajl.stack, state))
    OBVIOUS
  <1>2. IsStack(WithTop(yajl.stack, state)) /\ Len(WithTop(yajl.stack, state)) >= 1
    BY TopSeen, WithTopIs
  <1>3. YajlInOrder(y) /\ y.text = yajl.text /\ y.offset = tok.offset
    BY <1>1, <1>2, AfterIs
  <1>4. "error" \in Statuses
    BY DEF Statuses
  <1>5. Fails(tok, state) = [y EXCEPT !.status = "error"]
    BY <1>1 DEF Fails
  <1>6. [y EXCEPT !.status = "error"].offset = y.offset
    BY <1>3 DEF YajlInOrder, HasMembers, YajlMembers
  <1> QED  BY <1>3, <1>4, <1>5, <1>6, StatusSet

LEMMA FailureLeaves ==
  ASSUME JsonInv, NEW tok, TokenInOrder(tok, yajl.offset, Len(yajl.text)), NEW state,
         Moves(Fails(tok, state))
  PROVE  ParserLeaves(yajl', bson')
  <1>1. yajl' = Fails(tok, state) /\ bson' = bson
    BY DEF Moves
  <1>2. YajlInOrder(yajl') /\ yajl'.text = yajl.text /\ yajl'.status = "error" /\ BsonInOrder(bson')
    BY <1>1, FailsIs, TopSeen
  <1> QED  BY <1>2 DEF ParserLeaves

LEMMA EarlierFailureLeaves ==
  ASSUME JsonInv, NEW tok, TokenInOrder(tok, yajl.offset, Len(yajl.text)), Moves(FailsBefore(tok))
  PROVE  ParserLeaves(yajl', bson')
  <1>1. PICK y : y = Fails(tok, "parse_error")
    OBVIOUS
  <1>2. YajlInOrder(y) /\ y.text = yajl.text /\ y.status = "error" /\ y.offset = tok.offset
    BY <1>1, FailsIs
  <1>3. bufLen(tok) \in Nat
    <2>1. Len(tok.bytes) \in Nat /\ (tok.kind = "string" => Len(tok.bytes) >= 2)
      BY DEF TokenInOrder, ByteTexts
    <2> QED  BY <2>1 DEF bufLen
  <1>4. PICK o : o = IF tok.offset >= bufLen(tok) THEN tok.offset - bufLen(tok) ELSE 0
    OBVIOUS
  <1>5. tok.offset \in 0 .. Len(yajl.text) /\ Len(yajl.text) \in Nat
    <2>1. yajl.offset \in 0 .. Len(yajl.text) /\ tok.offset \in yajl.offset .. Len(yajl.text)
      BY DEF JsonInv, YajlInOrder, TokenInOrder
    <2>2. Len(yajl.text) \in Nat
      BY DEF JsonInv, YajlInOrder, ByteTexts
    <2> QED  BY <2>1, <2>2
  <1>6. o \in 0 .. Len(yajl.text)
    BY <1>3, <1>4, <1>5
  <1>7. yajl' = [y EXCEPT !.offset = o] /\ bson' = bson
    BY <1>1, <1>4, Zenon DEF Moves, FailsBefore
  <1>8. YajlInOrder(yajl') /\ yajl'.text = yajl.text /\ yajl'.status = "error"
    BY <1>2, <1>6, <1>7 DEF YajlInOrder, HasMembers, YajlMembers
  <1> QED  BY <1>7, <1>8, TopSeen DEF ParserLeaves

\* Nothing is called back, and another state is at the top.
LEMMA TurnLeaves ==
  ASSUME JsonInv, Running, NEW tok, TokenInOrder(tok, yajl.offset, Len(yajl.text)), NEW state,
         Moves(After(tok, WithTop(yajl.stack, state)))
  PROVE  ParserLeaves(yajl', bson')
  <1>1. IsStack(WithTop(yajl.stack, state)) /\ Len(WithTop(yajl.stack, state)) = Len(yajl.stack)
    BY TopSeen, WithTopIs
  <1>2. yajl' = After(tok, WithTop(yajl.stack, state)) /\ bson' = bson
    BY DEF Moves
  <1>3. /\ YajlInOrder(yajl') /\ yajl'.text = yajl.text /\ yajl'.stack = WithTop(yajl.stack, state)
    BY <1>1, <1>2, TopSeen, AfterIs
  <1> QED  BY <1>1, <1>2, <1>3, TopSeen DEF ParserLeaves

\* A callback, and a stack that is by d deeper.
LEMMA CallLeaves ==
  ASSUME JsonInv, Running, NEW tok, TokenInOrder(tok, yajl.offset, Len(yajl.text)),
         NEW called, NEW d \in {-1, 0, 1}, Deeper(bson, called, d),
         NEW stack, IsStack(stack), Len(stack) = Len(yajl.stack) + d, Calls(tok, called, stack)
  PROVE  ParserLeaves(yajl', bson')
  <1>1. bson' = called /\ BsonInOrder(called) /\ called.ret \in BOOLEAN
    BY DEF Calls, Deeper, BsonInOrder
  <1>2. CASE called.ret
    <2>1. yajl' = After(tok, stack)
      BY <1>2, Zenon DEF Calls
    <2>2. Level(called) \in Nat /\ Level(called) <= Level(bson) + d
      BY <1>1, <1>2, LevelIs DEF Deeper
    <2>3. Len(stack) >= 1 /\ Level(called) <= Len(stack) - 1
      BY <2>2, TopSeen
    <2>4. YajlInOrder(yajl') /\ yajl'.text = yajl.text /\ yajl'.stack = stack
      BY <2>1, <2>3, AfterIs
    <2> QED  BY <1>1, <2>3, <2>4 DEF ParserLeaves
  <1>3. CASE ~ called.ret
    <2>1. PICK y : y = After(tok, WithTop(yajl.stack, "parse_error"))
      OBVIOUS
    <2>2. yajl' = [y EXCEPT !.status = "client_canceled"]
      BY <1>3, <2>1, Zenon DEF Calls
    <2>3. IsStack(WithTop(yajl.stack, "parse_error")) /\ Len(WithTop(yajl.stack, "parse_error")) >= 1
      BY TopSeen, WithTopIs
    <2>4. YajlInOrder(y) /\ y.text = yajl.text
      BY <2>1, <2>3, AfterIs
    <2>5. "client_canceled" \in Statuses
      BY DEF Statuses
    <2>6. YajlInOrder(yajl') /\ yajl'.text = yajl.text /\ yajl'.status = "client_canceled"
      BY <2>2, <2>4, <2>5, StatusSet
    <2> QED  BY <1>1, <2>6 DEF ParserLeaves
  <1> QED  BY <1>1, <1>2, <1>3

LEMMA ValueCalledIs ==
  ASSUME JsonInv, NEW tok, TokenInOrder(tok, yajl.offset, Len(yajl.text))
  PROVE  Deeper(bson, ValueCalled(tok, bson), 0)
  <1>0. BsonInOrder(bson)
    BY TopSeen
  <1>1. CASE tok.kind = "string"
    <2>1. ValueCalled(tok, bson) = _bson_json_read_string(bson, yajl_string_decode(Unquoted(tok.bytes)), Behind(tok.bytes))
      BY <1>1 DEF ValueCalled
    <2> QED  BY <1>0, <2>1, StringIs
  <1>2. CASE tok.kind = "bool"
    <2>1. ValueCalled(tok, bson) = _bson_json_read_boolean(bson, tok.bytes[1] = 116)
      BY <1>2, Zenon DEF ValueCalled
    <2> QED  BY <1>0, <2>1, BooleanIs
  <1>3. CASE tok.kind = "null"
    <2>1. ValueCalled(tok, bson) = _bson_json_read_null(bson)
      BY <1>3 DEF ValueCalled
    <2> QED  BY <1>0, <2>1, NullIs
  <1>4. CASE tok.kind = "integer"
    <2>1. ValueCalled(tok, bson) = _bson_json_read_integer(bson, yajl_parse_integer(tok.bytes).value)
      BY <1>4 DEF ValueCalled
    <2>2. yajl_parse_integer(tok.bytes).value \in Int
      BY <1>4, IntegerParsed DEF TokenInOrder
    <2> QED  BY <1>0, <2>1, <2>2, IntegerIs
  <1>5. CASE tok.kind \notin {"string", "bool", "null", "integer"}
    <2>1. ValueCalled(tok, bson) = _bson_json_read_double(bson, tok.bytes)
      BY <1>5 DEF ValueCalled
    <2> QED  BY <1>0, <2>1, DoubleIs
  <1> QED  BY <1>1, <1>2, <1>3, <1>4, <1>5

LEMMA NeedValueKeeps == JsonInv /\ NeedValue => JsonInv'
  <1> SUFFICES ASSUME JsonInv, NeedValue
               PROVE  JsonInv'
    OBVIOUS
  <1>0. /\ Running /\ UNCHANGED <<source, producer, tool>>
        /\ BsonInOrder(bson) /\ IsStack(yajl.stack) /\ Len(yajl.stack) \in Nat /\ Len(yajl.stack) >= 1
    BY TopSeen DEF NeedValue
  <1>1. PICK tok : tok = Token
    OBVIOUS
  <1>2. TokenInOrder(tok, yajl.offset, Len(yajl.text))
    BY <1>1, TopSeen
  <1>3. PICK value : value = GotValue(yajl.stack)
    OBVIOUS
  <1>4. IsStack(value) /\ Len(value) = Len(yajl.stack) + 0
    BY <1>0, <1>3, GotValueIs
  <1>5. /\ IsStack(Append(value, "map_start")) /\ Len(Append(value, "map_start")) = Len(yajl.stack) + 1
        /\ IsStack(Append(value, "array_start")) /\ Len(Append(value, "array_start")) = Len(yajl.stack) + 1
    BY <1>0, <1>4, Stacked
  <1>6. IsStack(Below(yajl.stack)) /\ Len(Below(yajl.stack)) = Len(yajl.stack) + (-1)
    BY <1>0, BelowIs
  <1>7. /\ Deeper(bson, _bson_json_read_start_map(bson), 1)
        /\ Deeper(bson, _bson_json_read_start_array(bson), 1)
        /\ Deeper(bson, _bson_json_read_end_array(bson), -1)
        /\ Deeper(bson, ValueCalled(tok, bson), 0)
    BY <1>0, <1>2, StartMapIs, StartArrayIs, EndArrayIs, ValueCalledIs
  <1>8. \/ Moves(Stops(tok, "ok"))
        \/ Moves(Fails(tok, "lexical_error"))
        \/ Moves(Fails(tok, "parse_error"))
        \/ Moves(FailsBefore(tok))
        \/ Calls(tok, _bson_json_read_start_map(bson), Append(value, "map_start"))
        \/ Calls(tok, _bson_json_read_start_array(bson), Append(value, "array_start"))
        \/ Calls(tok, _bson_json_read_end_array(bson), Below(yajl.stack))
        \/ Calls(tok, ValueCalled(tok, bson), value)
    BY <1>1, <1>3 DEF NeedValue
  <1>9. 1 \in {-1, 0, 1} /\ 0 \in {-1, 0, 1} /\ -1 \in {-1, 0, 1}
    OBVIOUS
  <1>10. ParserLeaves(yajl', bson')
    <2>1. CASE Moves(Stops(tok, "ok"))
      BY <1>0, <1>2, <2>1, StopsLeave
    <2>2. CASE Moves(Fails(tok, "lexical_error")) \/ Moves(Fails(tok, "parse_error"))
      BY <1>2, <2>2, FailureLeaves
    <2>3. CASE Moves(FailsBefore(tok))
      BY <1>2, <2>3, EarlierFailureLeaves
    <2>4. CASE Calls(tok, _bson_json_read_start_map(bson), Append(value, "map_start"))
      BY <1>0, <1>2, <1>5, <1>7, <1>9, <2>4, CallLeaves
    <2>5. CASE Calls(tok, _bson_json_read_start_array(bson), Append(value, "array_start"))
      BY <1>0, <1>2, <1>5, <1>7, <1>9, <2>5, CallLeaves
    <2>6. CASE Calls(tok, _bson_json_read_end_array(bson), Below(yajl.stack))
      BY <1>0, <1>2, <1>6, <1>7, <1>9, <2>6, CallLeaves
    <2>7. CASE Calls(tok, ValueCalled(tok, bson), value)
      BY <1>0, <1>2, <1>4, <1>7, <1>9, <2>7, CallLeaves
    <2> QED  BY <1>8, <2>1, <2>2, <2>3, <2>4, <2>5, <2>6, <2>7
  <1> QED  BY <1>0, <1>10, ParserKeeps

LEMMA NeedKeyKeeps == JsonInv /\ NeedKey => JsonInv'
  <1> SUFFICES ASSUME JsonInv, NeedKey
               PROVE  JsonInv'
    OBVIOUS
  <1>0. /\ Running /\ UNCHANGED <<source, producer, tool>>
        /\ BsonInOrder(bson) /\ IsStack(yajl.stack) /\ Len(yajl.stack) \in Nat /\ Len(yajl.stack) >= 1
    BY TopSeen DEF NeedKey
  <1>1. PICK tok : tok = Token
    OBVIOUS
  <1>2. TokenInOrder(tok, yajl.offset, Len(yajl.text))
    BY <1>1, TopSeen
  <1>3. PICK key : key = yajl_string_decode(Unquoted(tok.bytes))
    OBVIOUS
  <1>4. IsStack(WithTop(yajl.stack, "map_sep")) /\ Len(WithTop(yajl.stack, "map_sep")) = Len(yajl.stack) + 0
    BY <1>0, WithTopIs
  <1>5. IsStack(Below(yajl.stack)) /\ Len(Below(yajl.stack)) = Len(yajl.stack) + (-1)
    BY <1>0, BelowIs
  <1>6. /\ Deeper(bson, _bson_json_read_map_key(bson, key), 0)
        /\ Deeper(bson, _bson_json_read_end_map(bson), -1)
    BY <1>0, MapKeyIs, EndMapIs
  <1>7. \/ Moves(Stops(tok, "ok"))
        \/ Moves(Fails(tok, "lexical_error"))
        \/ Moves(Fails(tok, "parse_error"))
        \/ Calls(tok, _bson_json_read_map_key(bson, key), WithTop(yajl.stack, "map_sep"))
        \/ Calls(tok, _bson_json_read_end_map(bson), Below(yajl.stack))
    BY <1>1, <1>3 DEF NeedKey
  <1>8. 0 \in {-1, 0, 1} /\ -1 \in {-1, 0, 1}
    OBVIOUS
  <1>9. ParserLeaves(yajl', bson')
    <2>1. CASE Moves(Stops(tok, "ok"))
      BY <1>0, <1>2, <2>1, StopsLeave
    <2>2. CASE Moves(Fails(tok, "lexical_error")) \/ Moves(Fails(tok, "parse_error"))
      BY <1>2, <2>2, FailureLeaves
    <2>3. CASE Calls(tok, _bson_json_read_map_key(bson, key), WithTop(yajl.stack, "map_sep"))
      BY <1>0, <1>2, <1>4, <1>6, <1>8, <2>3, CallLeaves
    <2>4. CASE Calls(tok, _bson_json_read_end_map(bson), Below(yajl.stack))
      BY <1>0, <1>2, <1>5, <1>6, <1>8, <2>4, CallLeaves
    <2> QED  BY <1>7, <2>1, <2>2, <2>3, <2>4
  <1> QED  BY <1>0, <1>9, ParserKeeps

LEMMA NeedColonKeeps == JsonInv /\ NeedColon => JsonInv'
  <1> SUFFICES ASSUME JsonInv, NeedColon
               PROVE  JsonInv'
    OBVIOUS
  <1>0. Running /\ UNCHANGED <<source, producer, tool>>
    BY DEF NeedColon
  <1>1. PICK tok : tok = Token
    OBVIOUS
  <1>2. TokenInOrder(tok, yajl.offset, Len(yajl.text))
    BY <1>1, TopSeen
  <1>3. \/ Moves(Stops(tok, "ok"))
        \/ Moves(Fails(tok, "lexical_error"))
        \/ Moves(Fails(tok, "parse_error"))
        \/ Moves(After(tok, WithTop(yajl.stack, "map_need_val")))
    BY <1>1 DEF NeedColon
  <1>4. ParserLeaves(yajl', bson')
    BY <1>0, <1>2, <1>3, StopsLeave, FailureLeaves, TurnLeaves
  <1> QED  BY <1>0, <1>4, ParserKeeps

LEMMA MapGotValueKeeps == JsonInv /\ MapGotValue => JsonInv'
  <1> SUFFICES ASSUME JsonInv, MapGotValue
               PROVE  JsonInv'
    OBVIOUS
  <1>0. /\ Running /\ UNCHANGED <<source, producer, tool>>
        /\ BsonInOrder(bson) /\ IsStack(yajl.stack) /\ Len(yajl.stack) \in Nat /\ Len(yajl.stack) >= 1
    BY TopSeen DEF MapGotValue
  <1>1. PICK tok : tok = Token
    OBVIOUS
  <1>2. TokenInOrder(tok, yajl.offset, Len(yajl.text))
    BY <1>1, TopSeen
  <1>3. IsStack(Below(yajl.stack)) /\ Len(Below(yajl.stack)) = Len(yajl.stack) + (-1)
    BY <1>0, BelowIs
  <1>4. Deeper(bson, _bson_json_read_end_map(bson), -1) /\ -1 \in {-1, 0, 1}
    BY <1>0, EndMapIs
  <1>5. \/ Moves(Stops(tok, "ok"))
        \/ Moves(Fails(tok, "lexical_error"))
        \/ Moves(FailsBefore(tok))
        \/ Moves(After(tok, WithTop(yajl.stack, "map_need_key")))
        \/ Calls(tok, _bson_json_read_end_map(bson), Below(yajl.stack))
    BY <1>1 DEF MapGotValue
  <1>6. ParserLeaves(yajl', bson')
    <2>1. CASE Calls(tok, _bson_json_read_end_map(bson), Below(yajl.stack))
      BY <1>0, <1>2, <1>3, <1>4, <2>1, CallLeaves
    <2> QED  BY <1>0, <1>2, <1>5, <2>1, StopsLeave, FailureLeaves, EarlierFailureLeaves, TurnLeaves
  <1> QED  BY <1>0, <1>6, ParserKeeps

LEMMA ArrayGotValueKeeps == JsonInv /\ ArrayGotValue => JsonInv'
  <1> SUFFICES ASSUME JsonInv, ArrayGotValue
               PROVE  JsonInv'
    OBVIOUS
  <1>0. /\ Running /\ UNCHANGED <<source, producer, tool>>
        /\ BsonInOrder(bson) /\ IsStack(yajl.stack) /\ Len(yajl.stack) \in Nat /\ Len(yajl.stack) >= 1
    BY TopSeen DEF ArrayGotValue
  <1>1. PICK tok : tok = Token
    OBVIOUS
  <1>2. TokenInOrder(tok, yajl.offset, Len(yajl.text))
    BY <1>1, TopSeen
  <1>3. IsStack(Below(yajl.stack)) /\ Len(Below(yajl.stack)) = Len(yajl.stack) + (-1)
    BY <1>0, BelowIs
  <1>4. Deeper(bson, _bson_json_read_end_array(bson), -1) /\ -1 \in {-1, 0, 1}
    BY <1>0, EndArrayIs
  <1>5. \/ Moves(Stops(tok, "ok"))
        \/ Moves(Fails(tok, "lexical_error"))
        \/ Moves(Fails(tok, "parse_error"))
        \/ Moves(After(tok, WithTop(yajl.stack, "array_need_val")))
        \/ Calls(tok, _bson_json_read_end_array(bson), Below(yajl.stack))
    BY <1>1 DEF ArrayGotValue
  <1>6. ParserLeaves(yajl', bson')
    <2>1. CASE Calls(tok, _bson_json_read_end_array(bson), Below(yajl.stack))
      BY <1>0, <1>2, <1>3, <1>4, <2>1, CallLeaves
    <2> QED  BY <1>0, <1>2, <1>5, <2>1, StopsLeave, FailureLeaves, TurnLeaves
  <1> QED  BY <1>0, <1>6, ParserKeeps

-----------------------------------------------------------------------------
(* bson_json_reader_read.                                                  *)

LEMMA AtRead ==
  ASSUME JsonInv
  PROVE  /\ SourceInOrder(source) /\ ProducerInOrder(producer) /\ YajlInOrder(yajl) /\ BsonInOrder(bson)
         /\ ToolInOrder(tool)
         /\ Len(source.text) \in Nat /\ Len(producer.buf) \in Nat /\ Len(yajl.text) \in Nat
         /\ source.at \in Nat /\ producer.bytes_parsed \in Nat
         /\ ~ Running \/ producer.pc \in {"parse", "complete"}
  BY DEF JsonInv, SourceInOrder, ProducerInOrder, YajlInOrder, ByteTexts, CallInOrder, Running

\* A piece of text is given to the parser.
LEMMA ParsesIs ==
  ASSUME JsonInv, NEW text \in ByteTexts, Parses(text)
  PROVE  YajlInOrder(yajl') /\ yajl'.text = text /\ yajl'.stack = yajl.stack /\ yajl'.status = "running"
  <1>1. /\ HasMembers(yajl', YajlMembers) /\ yajl'.text = text /\ yajl'.stack = yajl.stack
        /\ yajl'.status = "running" /\ yajl'.offset = 0 /\ yajl'.kept = yajl.kept
    BY DEF JsonInv, YajlInOrder, HasMembers, YajlMembers, Parses
  <1>2. 0 \in 0 .. Len(text) /\ "running" \in Statuses
    BY DEF ByteTexts, Statuses
  <1> QED  BY <1>1, <1>2 DEF JsonInv, YajlInOrder

LEMMA FeedKeeps ==
  ASSUME JsonInv, tool.pc = "wait", producer.pc = "fetch",
         NEW p, ProducerInOrder(p), NEW text \in ByteTexts, p.bytes_parsed + Len(text) <= Len(p.buf),
         Feed(p, text), SourceInOrder(source')
  PROVE  JsonInv'
  <1>1. Parses(text) /\ bson' = bson /\ tool' = tool
    BY DEF Feed
  <1>2. YajlInOrder(yajl') /\ yajl'.text = text /\ yajl'.stack = yajl.stack /\ yajl'.status = "running"
    BY <1>1, ParsesIs
  <1>3. PICK white : producer' = [p EXCEPT !.pc = "parse", !.read_something = TRUE, !.all_whitespace = white]
    BY DEF Feed
  <1>4. /\ HasMembers(producer', ProducerMembers) /\ producer'.pc = "parse" /\ producer'.ret = p.ret
        /\ producer'.buf = p.buf /\ producer'.room = p.room /\ producer'.bytes_parsed = p.bytes_parsed
    BY <1>3 DEF ProducerInOrder, HasMembers, ProducerMembers
  <1>5. ProducerInOrder(producer')
    BY <1>4 DEF ProducerInOrder, ReadPlaces
  <1>6. BsonInOrder(bson') /\ ToolInOrder(tool') /\ tool'.pc = "wait"
    BY <1>1, AtRead
  <1>7. CallInOrder(producer', yajl', tool')
    BY <1>4, <1>6 DEF CallInOrder
  <1>8. NotTooDeep(producer', yajl', bson')
    BY <1>1, <1>2 DEF JsonInv, NotTooDeep, MayGoOn
  <1>9. TextInBuffer(producer', yajl')
    BY <1>2, <1>4 DEF TextInBuffer
  <1> QED  BY <1>2, <1>5, <1>6, <1>7, <1>8, <1>9 DEF JsonInv

LEMMA FeedRestKeeps == JsonInv /\ tool.pc = "wait" /\ FeedRest => JsonInv'
  <1> SUFFICES ASSUME JsonInv, tool.pc = "wait", FeedRest
               PROVE  JsonInv'
    OBVIOUS
  <1>1. PICK text : text = SubSeq(producer.buf, producer.bytes_parsed + 1, Len(producer.buf))
    OBVIOUS
  <1>2. /\ producer.pc = "fetch" /\ source' = source /\ Feed(producer, text)
        /\ producer.bytes_parsed \in 1 .. Len(producer.buf) - 1
    BY <1>1 DEF FeedRest, RestIsLeft
  <1>3. producer.buf \in ByteTexts /\ Len(producer.buf) \in Nat /\ producer.bytes_parsed \in Nat
    BY AtRead DEF ProducerInOrder
  <1>4. text \in ByteTexts /\ Len(text) = Len(producer.buf) - producer.bytes_parsed
    <2>1. PICK n \in Nat, at \in Nat : n = Len(producer.buf) /\ at = producer.bytes_parsed /\ at <= n /\ n <= n
      BY <1>2, <1>3
    <2>2. SubSeq(producer.buf, at + 1, n) \in ByteTexts /\ Len(SubSeq(producer.buf, at + 1, n)) = n - at
      BY <1>3, <2>1, PartOf
    <2> QED  BY <1>1, <2>1, <2>2, Zenon
  <1>5. producer.bytes_parsed + Len(text) <= Len(producer.buf)
    BY <1>3, <1>4
  <1> QED  BY <1>2, <1>4, <1>5, AtRead, FeedKeeps

LEMMA FeedMoreKeeps == JsonInv /\ tool.pc = "wait" /\ FeedMore => JsonInv'
  <1> SUFFICES ASSUME JsonInv, tool.pc = "wait", FeedMore
               PROVE  JsonInv'
    OBVIOUS
  <1>1. PICK n \in Pieces :
          /\ producer.pc = "fetch"
          /\ Feed(Refilled(producer, SubSeq(source.text, source.at + 1, source.at + n)),
                  SubSeq(source.text, source.at + 1, source.at + n))
          /\ source' = [source EXCEPT !.at = @ + n]
    BY DEF FeedMore
  <1>2. PICK l \in Nat, a \in Nat, room \in Nat :
          l = Len(source.text) /\ a = source.at /\ room = producer.room /\ a <= l
    BY AtRead DEF SourceInOrder, ProducerInOrder
  <1>3. n \in Nat /\ n <= l - a /\ n <= room
    <2>1. PICK there \in Nat : there = l - a
      BY <1>2
    <2>2. PICK most \in Nat : most = Min({there, room}) /\ most <= there /\ most <= room
      <3>1. Min({there, room}) \in {there, room} /\ \A y \in {there, room} : Min({there, room}) <= y
        <4>1. \E x \in {there, room} : \A y \in {there, room} : x <= y
          BY LeastOf
        <4> QED  BY <4>1 DEF Min
      <3> QED  BY <3>1
    <2>3. Pieces = IF most = 0 THEN {} ELSE IF producer.cb = "data" THEN {most} ELSE 1 .. most
      BY <1>2, <2>1, <2>2, Zenon DEF Pieces
    <2>4. n = most \/ n \in 1 .. most
      BY <1>1, <2>3
    <2> QED  BY <2>1, <2>2, <2>4
  <1>4. PICK text : text = SubSeq(source.text, source.at + 1, source.at + n)
    OBVIOUS
  <1>5. source.text \in ByteTexts /\ HasMembers(source, SourceMembers)
    BY AtRead DEF SourceInOrder
  <1>6. text \in ByteTexts /\ Len(text) = n
    <2>1. a + n \in Nat /\ a <= a + n /\ a + n <= l /\ (a + n) - a = n
      BY <1>2, <1>3
    <2> QED  BY <1>2, <1>4, <1>5, <2>1, PartOf
  <1>7. SourceInOrder(source')
    <2>1. HasMembers(source', SourceMembers) /\ source'.text = source.text /\ source'.at = a + n
      BY <1>1, <1>2, <1>5 DEF HasMembers, SourceMembers
    <2>2. a + n \in 0 .. l
      BY <1>2, <1>3
    <2> QED  BY <1>2, <1>5, <2>1, <2>2 DEF SourceInOrder
  <1>8. PICK p : p = Refilled(producer, text)
    OBVIOUS
  <1>9. /\ HasMembers(p, ProducerMembers) /\ p.pc = producer.pc /\ p.ret = producer.ret /\ p.buf = text
        /\ p.room = room /\ p.bytes_parsed = 0
    BY <1>2, <1>8, AtRead DEF Refilled, ProducerInOrder, HasMembers, ProducerMembers
  <1>10. ProducerInOrder(p)
    <2>1. p.pc \in ReadPlaces /\ p.ret \in Answers
      BY <1>9, AtRead DEF ProducerInOrder
    <2>2. 0 \in 0 .. n + 1 /\ n <= room
      BY <1>3
    <2> QED  BY <1>6, <1>9, <2>1, <2>2 DEF ProducerInOrder
  <1>11. p.bytes_parsed + Len(text) <= Len(p.buf)
    BY <1>3, <1>6, <1>9
  <1>12. Feed(p, text)
    BY <1>1, <1>4, <1>8, Zenon
  <1> QED  BY <1>1, <1>6, <1>7, <1>10, <1>11, <1>12, FeedKeeps

\* bson_json_reader_read returns.
LEMMA ReturnKeeps ==
  ASSUME JsonInv, tool.pc = "wait", ~ Running, NEW p, ProducerInOrder(p), NEW ret \in {-1, 0, 1}, Returns(p, ret),
         YajlInOrder(yajl'), yajl'.status # "running", BsonInOrder(bson'), UNCHANGED <<source, tool>>
  PROVE  JsonInv'
  <1>1. producer' = [p EXCEPT !.pc = "returned", !.ret = ret]
    BY DEF Returns
  <1>2. /\ HasMembers(producer', ProducerMembers) /\ producer'.pc = "returned" /\ producer'.ret = ret
        /\ producer'.buf = p.buf /\ producer'.room = p.room /\ producer'.bytes_parsed = p.bytes_parsed
    BY <1>1 DEF ProducerInOrder, HasMembers, ProducerMembers
  <1>3. "returned" \in ReadPlaces /\ ret \in Answers
    BY DEF ReadPlaces, Answers
  <1>4. ProducerInOrder(producer')
    BY <1>2, <1>3 DEF ProducerInOrder
  <1>5. CallInOrder(producer', yajl', tool')
    BY <1>2 DEF CallInOrder, Calling
  <1>6. NotTooDeep(producer', yajl', bson') /\ TextInBuffer(producer', yajl')
    BY <1>2 DEF NotTooDeep, MayGoOn, TextInBuffer
  <1>7. SourceInOrder(source') /\ ToolInOrder(tool')
    BY AtRead
  <1> QED  BY <1>4, <1>5, <1>6, <1>7 DEF JsonInv

LEMMA OneState ==
  ASSUME NEW state
  PROVE  IsStack(<<state>>) /\ Len(<<state>>) = 1
  <1>1. <<state>> \in Seq({state}) /\ Len(<<state>>) = 1
    OBVIOUS
  <1> QED  BY <1>1 DEF IsStack

LEMMA ErrorSet ==
  ASSUME NEW b, BsonInOrder(b), NEW error
  PROVE  BsonInOrder([b EXCEPT !.error = error])
  BY DEF BsonInOrder, HasMembers, BsonMembers

LEMMA FetchFailsKeeps == JsonInv /\ tool.pc = "wait" /\ FetchFails => JsonInv'
  <1> SUFFICES ASSUME JsonInv, tool.pc = "wait", FetchFails
               PROVE  JsonInv'
    OBVIOUS
  <1>1. /\ producer.pc = "fetch" /\ Returns(producer, -1) /\ bson' = [bson EXCEPT !.error = "CB_FAILURE"]
        /\ UNCHANGED <<source, yajl, tool>>
    BY DEF FetchFails
  <1>2. ~ Running
    BY <1>1, AtRead
  <1>3. BsonInOrder(bson') /\ YajlInOrder(yajl') /\ yajl'.status # "running" /\ -1 \in {-1, 0, 1}
    BY <1>1, <1>2, AtRead, ErrorSet DEF Running
  <1> QED  BY <1>1, <1>2, <1>3, AtRead, ReturnKeeps

LEMMA FetchEndsKeeps == JsonInv /\ tool.pc = "wait" /\ FetchEnds => JsonInv'
  <1> SUFFICES ASSUME JsonInv, tool.pc = "wait", FetchEnds
               PROVE  JsonInv'
    OBVIOUS
  <1>1. producer.pc = "fetch" /\ UNCHANGED <<source, bson, tool>>
    BY DEF FetchEnds
  <1>2. CASE producer.read_something
    <2>1. producer' = [producer EXCEPT !.pc = "complete"] /\ Parses(<<32>>)
      BY <1>2, Zenon DEF FetchEnds
    <2>2. <<32>> \in ByteTexts /\ Len(<<32>>) = 1
      BY DEF ByteTexts
    <2>3. YajlInOrder(yajl') /\ yajl'.text = <<32>> /\ yajl'.stack = yajl.stack /\ yajl'.status = "running"
      BY <2>1, <2>2, ParsesIs
    <2>4. /\ HasMembers(producer', ProducerMembers) /\ producer'.pc = "complete" /\ producer'.ret = producer.ret
          /\ producer'.buf = producer.buf /\ producer'.room = producer.room
          /\ producer'.bytes_parsed = producer.bytes_parsed
      BY <2>1, AtRead DEF ProducerInOrder, HasMembers, ProducerMembers
    <2>5. ProducerInOrder(producer')
      BY <2>4, AtRead DEF ProducerInOrder, ReadPlaces
    <2>6. CallInOrder(producer', yajl', tool')
      BY <1>1, <2>4 DEF CallInOrder
    <2>7. NotTooDeep(producer', yajl', bson')
      BY <1>1, <2>3 DEF JsonInv, NotTooDeep, MayGoOn
    <2>8. TextInBuffer(producer', yajl')
      <3>1. producer.bytes_parsed <= Len(producer.buf)
        BY <1>1, <1>2 DEF JsonInv, TextInBuffer
      <3>2. producer'.bytes_parsed + Len(yajl'.text) <= Len(producer'.buf) + 1
        BY <2>2, <2>3, <2>4, <3>1, AtRead
      <3> QED  BY <2>4, <3>2 DEF TextInBuffer
    <2>9. SourceInOrder(source') /\ BsonInOrder(bson') /\ ToolInOrder(tool')
      BY <1>1, AtRead
    <2> QED  BY <2>3, <2>5, <2>6, <2>7, <2>8, <2>9 DEF JsonInv
  <1>3. CASE ~ producer.read_something
    <2>1. Returns(producer, 0) /\ yajl' = yajl
      BY <1>3, Zenon DEF FetchEnds
    <2>2. ~ Running
      BY <1>1, AtRead
    <2>3. BsonInOrder(bson') /\ YajlInOrder(yajl') /\ yajl'.status # "running" /\ 0 \in {-1, 0, 1}
      BY <1>1, <2>1, <2>2, AtRead DEF Running
    <2> QED  BY <1>1, <2>1, <2>2, <2>3, AtRead, ReturnKeeps
  <1> QED  BY <1>2, <1>3

LEMMA ParseReturnsKeeps == JsonInv /\ tool.pc = "wait" /\ ParseReturns => JsonInv'
  <1> SUFFICES ASSUME JsonInv, tool.pc = "wait", ParseReturns
               PROVE  JsonInv'
    OBVIOUS
  <1>1. producer.pc \in {"parse", "complete"} /\ ~ Running /\ UNCHANGED <<source, tool>>
    BY DEF ParseReturns
  <1>2. PICK n \in Nat, o \in Nat, l \in Nat, bp \in Nat :
          /\ n = Len(producer.buf) /\ o = yajl.offset /\ l = Len(yajl.text) /\ bp = producer.bytes_parsed
          /\ o <= l /\ bp + l <= n + 1
    <2>1. yajl.offset \in 0 .. Len(yajl.text) /\ Len(yajl.text) \in Nat
      BY AtRead DEF YajlInOrder
    <2>2. producer.bytes_parsed + Len(yajl.text) <= Len(producer.buf) + 1
      BY <1>1, AtRead DEF JsonInv, TextInBuffer
    <2> QED  BY <2>1, <2>2, AtRead
  <1>3. o <= l /\ bp + l <= n + 1
    BY <1>2
  <1>4. CASE Completed # "ok"
    <2>1. ParseAnswers(Completed)
      BY <1>4, Zenon DEF ParseReturns
    <2>2. PICK p : p = [producer EXCEPT !.bytes_parsed = @ + yajl.offset]
      OBVIOUS
    <2>3. PICK ret \in {-1, 0, 1} :
            ret = IF Completed = "client_canceled" THEN (IF bson.read_state = "DONE" THEN 1 ELSE -1)
                  ELSE IF producer.all_whitespace THEN 0 ELSE -1
      OBVIOUS
    <2>4. Returns(p, ret) /\ yajl' = ParserReset
      BY <2>1, <2>2, <2>3, Zenon DEF ParseAnswers
    <2>5. /\ HasMembers(p, ProducerMembers) /\ p.pc = producer.pc /\ p.ret = producer.ret
          /\ p.buf = producer.buf /\ p.room = producer.room /\ p.bytes_parsed = bp + o
      BY <1>2, <2>2, AtRead DEF ProducerInOrder, HasMembers, ProducerMembers
    <2>6. ProducerInOrder(p)
      <3>1. bp + o \in 0 .. n + 1
        BY <1>3
      <3> QED  BY <1>2, <2>5, <3>1, AtRead DEF ProducerInOrder
    <2>7. YajlInOrder(yajl') /\ yajl'.status # "running"
      <3>1. IsStack(<<"start">>) /\ Len(<<"start">>) >= 1
        BY OneState
      <3>2. yajl' = [yajl EXCEPT !.stack = <<"start">>]
        BY <2>4 DEF ParserReset
      <3>3. /\ HasMembers(yajl', YajlMembers) /\ yajl'.stack = <<"start">> /\ yajl'.text = yajl.text
            /\ yajl'.kept = yajl.kept /\ yajl'.offset = yajl.offset /\ yajl'.status = yajl.status
        BY <3>2, AtRead DEF YajlInOrder, HasMembers, YajlMembers
      <3> QED  BY <1>1, <3>1, <3>3, AtRead DEF YajlInOrder, Running
    <2>8. BsonInOrder(bson')
      <3>1. bson' = bson \/ bson' = [bson EXCEPT !.error = "CORRUPT_JS"]
        BY <2>1, Zenon DEF ParseAnswers
      <3>2. BsonInOrder(bson)
        BY AtRead
      <3>3. BsonInOrder([bson EXCEPT !.error = "CORRUPT_JS"])
        BY <3>2, ErrorSet
      <3> QED  BY <3>1, <3>2, <3>3, Zenon
    <2> QED  BY <1>1, <2>4, <2>6, <2>7, <2>8, ReturnKeeps
  <1>5. CASE Completed = "ok"
    <2>1. producer' = [producer EXCEPT !.pc = "fetch"] /\ UNCHANGED <<yajl, bson>>
      BY <1>5, Zenon DEF ParseReturns
    <2>2. producer.pc = "parse" /\ yajl.status = "ok"
      BY <1>1, <1>5 DEF Completed
    <2>3. /\ HasMembers(producer', ProducerMembers) /\ producer'.pc = "fetch" /\ producer'.ret = producer.ret
          /\ producer'.buf = producer.buf /\ producer'.room = producer.room
          /\ producer'.bytes_parsed = producer.bytes_parsed
      BY <2>1, AtRead DEF ProducerInOrder, HasMembers, ProducerMembers
    <2>4. ProducerInOrder(producer')
      BY <2>3, AtRead DEF ProducerInOrder, ReadPlaces
    <2>5. CallInOrder(producer', yajl', tool')
      BY <1>1, <2>1, <2>2, <2>3 DEF CallInOrder
    <2>6. NotTooDeep(producer', yajl', bson')
      BY <2>1, <2>2, <2>3 DEF JsonInv, NotTooDeep, MayGoOn
    <2>7. TextInBuffer(producer', yajl')
      <3>1. producer.bytes_parsed + Len(yajl.text) <= Len(producer.buf)
        BY <2>2 DEF JsonInv, TextInBuffer
      <3>2. producer'.bytes_parsed <= Len(producer'.buf)
        BY <1>2, <2>3, <3>1
      <3> QED  BY <2>3, <3>2 DEF TextInBuffer
    <2>8. SourceInOrder(source') /\ YajlInOrder(yajl') /\ BsonInOrder(bson') /\ ToolInOrder(tool')
      BY <1>1, <2>1, AtRead
    <2> QED  BY <2>4, <2>5, <2>6, <2>7, <2>8 DEF JsonInv
  <1> QED  BY <1>4, <1>5

-----------------------------------------------------------------------------
(* The programs.                                                           *)

\* Where nothing is being read the parser stands still.
LEMMA IdleKeeps ==
  ASSUME SourceInOrder(source'), ProducerInOrder(producer'), YajlInOrder(yajl'), BsonInOrder(bson'),
         ToolInOrder(tool'), producer'.pc \in {"idle", "returned"}, yajl'.status # "running"
  PROVE  JsonInv'
  <1>1. CallInOrder(producer', yajl', tool')
    BY DEF CallInOrder, Calling
  <1>2. NotTooDeep(producer', yajl', bson') /\ TextInBuffer(producer', yajl')
    BY DEF NotTooDeep, MayGoOn, TextInBuffer
  <1> QED  BY <1>1, <1>2 DEF JsonInv

LEMMA OnlyToolKeeps ==
  ASSUME JsonInv, ToolInOrder(tool'), UNCHANGED <<source, producer, yajl, bson>>,
         tool'.pc \in {"wait", "done"} \/ ~ Calling(producer)
  PROVE  JsonInv'
  <1>1. CallInOrder(producer', yajl', tool')
    BY DEF JsonInv, CallInOrder, Calling
  <1> QED  BY <1>1 DEF JsonInv

\* Between two calls nothing is being read.
LEMMA BetweenCalls ==
  ASSUME JsonInv, tool.pc \notin {"wait", "done"}
  PROVE  ~ Calling(producer) /\ producer.pc \in {"idle", "returned"} /\ yajl.status # "running"
  BY DEF JsonInv, CallInOrder, Calling, ProducerInOrder, ReadPlaces

LEMMA NewBsonIs == BsonInOrder(NewBson)
  <1>1. DataInOrder(NoData)
    <2>1. 0 \in Unsigned
      BY Limits DEF Unsigned
    <2> QED  BY <2>1 DEF NoData, DataInOrder, HasMembers, DataMembers
  <1>2. IsStack(<<>>) /\ Len(<<>>) <= STACK_MAX
    BY Limits DEF IsStack
  <1>3. PICK b : b = NewBson
    OBVIOUS
  <1>4. HasMembers(b, BsonMembers) /\ b.data = NoData /\ b.frames = <<>> /\ b.ret = TRUE
    BY <1>3 DEF NewBson, HasMembers, BsonMembers
  <1> QED  BY <1>1, <1>2, <1>3, <1>4 DEF BsonInOrder

LEMMA NewParserIs == YajlInOrder(yajl_alloc) /\ yajl_alloc.status # "running"
  <1>1. PICK y, stack : y = yajl_alloc /\ stack = <<"start">>
    OBVIOUS
  <1>2. IsStack(stack) /\ Len(stack) = 1
    BY <1>1, OneState
  <1>3. /\ HasMembers(y, YajlMembers) /\ y.stack = stack /\ y.kept = <<>> /\ y.text = <<>>
        /\ y.offset = 0 /\ y.status = "ok"
    BY <1>1 DEF yajl_alloc, HasMembers, YajlMembers
  <1>4. <<>> \in ByteTexts /\ 0 \in 0 .. Len(<<>>) /\ "ok" \in Statuses
    BY DEF ByteTexts, Statuses
  <1> QED  BY <1>1, <1>2, <1>3, <1>4 DEF YajlInOrder

LEMMA NoTextIs == <<>> \in ByteTexts /\ Len(<<>>) = 0
  BY DEF ByteTexts

LEMMA NewReaderIs ==
  ASSUME NEW cb, NEW size \in Nat \ {0}, bson_json_reader_new(cb, size)
  PROVE  /\ ProducerInOrder(producer') /\ producer'.pc = "idle"
         /\ YajlInOrder(yajl') /\ yajl'.status # "running" /\ BsonInOrder(bson')
  <1>1. PICK room \in Nat : room = size - 1
    OBVIOUS
  <1>2. PICK p : p = producer'
    OBVIOUS
  <1>3. p = [cb |-> cb, pc |-> "idle", buf |-> <<>>, room |-> room, bytes_parsed |-> 0,
             all_whitespace |-> TRUE, read_something |-> FALSE, ret |-> NoAnswer]
    BY <1>1, <1>2 DEF bson_json_reader_new
  <1>4. /\ HasMembers(p, ProducerMembers) /\ p.pc = "idle" /\ p.buf = <<>> /\ p.room = room
        /\ p.bytes_parsed = 0 /\ p.ret = NoAnswer
    BY <1>3 DEF HasMembers, ProducerMembers
  <1>5. "idle" \in ReadPlaces /\ NoAnswer \in Answers /\ 0 \in 0 .. 0 + 1 /\ 0 <= room
    BY DEF ReadPlaces, Answers
  <1>6. ProducerInOrder(p)
    BY <1>4, <1>5, NoTextIs DEF ProducerInOrder
  <1>7. yajl' = yajl_alloc /\ bson' = NewBson
    BY DEF bson_json_reader_new
  <1> QED  BY <1>2, <1>4, <1>6, <1>7, NewParserIs, NewBsonIs

LEMMA NextTextIs ==
  ASSUME JsonInv, HasMore, Text # NoFile
  PROVE  SourceInOrder(Ingested(Text))
  <1>1. PICK S : S = {NoFile} \cup ByteTexts
    OBVIOUS
  <1>2. tool.args \in Seq(S) /\ tool.i \in Nat \ {0} /\ tool.i <= Len(tool.args)
    BY <1>1, AtRead DEF ToolInOrder, Arguments, HasMore
  <1>3. tool.args[tool.i] \in S
    BY <1>2
  <1>4. Text \in ByteTexts
    BY <1>1, <1>3 DEF Text
  <1>5. PICK t \in ByteTexts : t = Text
    BY <1>4
  <1>6. Len(t) \in Nat
    BY DEF ByteTexts
  <1>7. HasMembers(Ingested(t), SourceMembers) /\ Ingested(t).text = t /\ Ingested(t).at = 0
    BY DEF Ingested, HasMembers, SourceMembers
  <1> QED  BY <1>5, <1>6, <1>7 DEF SourceInOrder

\* The program goes to another place, and perhaps to another text.
LEMMA ToolSet ==
  ASSUME NEW t, ToolInOrder(t), NEW pc \in ToolPlaces, NEW i \in Nat \ {0}, NEW u,
         HasMembers(u, ToolMembers), u.pc = pc, u.i = i, u.args = t.args
  PROVE  ToolInOrder(u)
  BY DEF ToolInOrder

LEMMA OpenedIs ==
  ASSUME NEW t, ToolInOrder(t)
  PROVE  ToolInOrder(Opened(t))
  <1>1. /\ HasMembers(Opened(t), ToolMembers) /\ Opened(t).pc = "read" /\ Opened(t).i = t.i
        /\ Opened(t).args = t.args
    BY DEF ToolInOrder, HasMembers, ToolMembers, Opened
  <1>2. "read" \in ToolPlaces /\ t.i \in Nat \ {0}
    BY DEF ToolPlaces, ToolInOrder
  <1> QED  BY <1>1, <1>2, ToolSet

LEMMA SkipKeeps ==
  ASSUME JsonInv, tool.pc = "open", Skip
  PROVE  JsonInv'
  <1>1. tool' = [tool EXCEPT !.i = @ + 1] /\ UNCHANGED <<source, producer, yajl, bson>>
    BY DEF Skip
  <1>2. PICK i \in Nat \ {0} : i = tool.i + 1
    BY AtRead DEF ToolInOrder
  <1>3. HasMembers(tool', ToolMembers) /\ tool'.pc = tool.pc /\ tool'.i = i /\ tool'.args = tool.args
    BY <1>1, <1>2, AtRead DEF ToolInOrder, HasMembers, ToolMembers
  <1>4. ToolInOrder(tool')
    BY <1>2, <1>3, AtRead DEF ToolInOrder
  <1> QED  BY <1>1, <1>4, BetweenCalls, OnlyToolKeeps

LEMMA OpenFileKeeps == JsonInv /\ OpenFile => JsonInv'
  <1> SUFFICES ASSUME JsonInv, OpenFile
               PROVE  JsonInv'
    OBVIOUS
  <1>1. tool.pc = "open" /\ HasMore
    BY DEF OpenFile
  <1>2. CASE Text = NoFile
    BY <1>1, <1>2, SkipKeeps DEF OpenFile
  <1>3. CASE Text # NoFile
    <2>1. /\ bson_json_reader_new("fd", BSON_JSON_DEFAULT_BUF_SIZE)
          /\ source' = Ingested(Text) /\ tool' = Opened(tool)
      BY <1>3 DEF OpenFile
    <2>2. BSON_JSON_DEFAULT_BUF_SIZE \in Nat \ {0}
      BY ReaderAssumption
    <2>3. /\ ProducerInOrder(producer') /\ producer'.pc = "idle"
          /\ YajlInOrder(yajl') /\ yajl'.status # "running" /\ BsonInOrder(bson')
      BY <2>1, <2>2, NewReaderIs
    <2>4. SourceInOrder(source') /\ ToolInOrder(tool')
      BY <1>1, <1>3, <2>1, AtRead, NextTextIs, OpenedIs
    <2> QED  BY <2>3, <2>4, IdleKeeps
  <1> QED  BY <1>2, <1>3

LEMMA FromJsonKeeps == JsonInv /\ FromJson => JsonInv'
  <1> SUFFICES ASSUME JsonInv, FromJson
               PROVE  JsonInv'
    OBVIOUS
  <1>1. tool.pc = "open" /\ HasMore
    BY DEF FromJson
  <1>2. CASE Text = NoFile
    BY <1>1, <1>2, SkipKeeps DEF FromJson
  <1>3. CASE Text # NoFile
    <2>1. /\ bson_json_reader_new("data", BSON_JSON_DEFAULT_BUF_SIZE)
          /\ source' = Ingested(Text) /\ tool' = Opened(tool)
      BY <1>3 DEF FromJson
    <2>2. BSON_JSON_DEFAULT_BUF_SIZE \in Nat \ {0}
      BY ReaderAssumption
    <2>3. /\ ProducerInOrder(producer') /\ producer'.pc = "idle"
          /\ YajlInOrder(yajl') /\ yajl'.status # "running" /\ BsonInOrder(bson')
      BY <2>1, <2>2, NewReaderIs
    <2>4. SourceInOrder(source') /\ ToolInOrder(tool')
      BY <1>1, <1>3, <2>1, AtRead, NextTextIs, OpenedIs
    <2> QED  BY <2>3, <2>4, IdleKeeps
  <1> QED  BY <1>2, <1>3

LEMMA IngestKeeps == JsonInv /\ Ingest => JsonInv'
  <1> SUFFICES ASSUME JsonInv, Ingest
               PROVE  JsonInv'
    OBVIOUS
  <1>1. tool.pc = "open" /\ HasMore
    BY DEF Ingest
  <1>2. CASE Text = NoFile
    BY <1>1, <1>2, SkipKeeps DEF Ingest
  <1>3. CASE Text # NoFile
    <2>1. /\ source' = Ingested(Text) /\ tool' = Opened(tool)
          /\ \/ \E size \in BufSizes : bson_json_reader_new("data", size)
             \/ UNCHANGED <<producer, yajl, bson>>
      BY <1>3 DEF Ingest
    <2>2. SourceInOrder(source') /\ ToolInOrder(tool')
      BY <1>1, <1>3, <2>1, AtRead, NextTextIs, OpenedIs
    <2>3. CASE \E size \in BufSizes : bson_json_reader_new("data", size)
      <3>1. PICK size \in BufSizes : bson_json_reader_new("data", size)
        BY <2>3
      <3>2. size \in Nat \ {0}
        BY ReaderAssumption
      <3>3. /\ ProducerInOrder(producer') /\ producer'.pc = "idle"
            /\ YajlInOrder(yajl') /\ yajl'.status # "running" /\ BsonInOrder(bson')
        BY <3>1, <3>2, NewReaderIs
      <3> QED  BY <2>2, <3>3, IdleKeeps
    <2>4. CASE UNCHANGED <<producer, yajl, bson>>
      <3>1. producer'.pc \in {"idle", "returned"} /\ yajl'.status # "running"
        BY <1>1, <2>4, BetweenCalls
      <3>2. ProducerInOrder(producer') /\ YajlInOrder(yajl') /\ BsonInOrder(bson')
        BY <2>4, AtRead
      <3> QED  BY <2>2, <3>1, <3>2, IdleKeeps
    <2> QED  BY <2>1, <2>3, <2>4
  <1> QED  BY <1>2, <1>3

LEMMA CallReadKeeps == JsonInv /\ CallRead => JsonInv'
  <1> SUFFICES ASSUME JsonInv, CallRead
               PROVE  JsonInv'
    OBVIOUS
  <1>1. /\ tool.pc = "read" /\ tool' = [tool EXCEPT !.pc = "wait"] /\ UNCHANGED <<source, yajl>>
        /\ producer' = [producer EXCEPT !.pc = "fetch", !.all_whitespace = TRUE, !.read_something = FALSE, !.ret = NoAnswer]
        /\ bson' = [bson EXCEPT !.frames = <<>>, !.read_state = "REGULAR", !.ret = TRUE, !.error = "none"]
    BY DEF CallRead, Call
  <1>2. /\ HasMembers(producer', ProducerMembers) /\ producer'.pc = "fetch" /\ producer'.ret = NoAnswer
        /\ producer'.buf = producer.buf /\ producer'.room = producer.room
        /\ producer'.bytes_parsed = producer.bytes_parsed /\ producer'.read_something = FALSE
    BY <1>1, AtRead DEF ProducerInOrder, HasMembers, ProducerMembers
  <1>3. ProducerInOrder(producer')
    <2>1. "fetch" \in ReadPlaces /\ NoAnswer \in Answers
      BY DEF ReadPlaces, Answers
    <2> QED  BY <1>2, <2>1, AtRead DEF ProducerInOrder
  <1>4. HasMembers(tool', ToolMembers) /\ tool'.pc = "wait" /\ tool'.i = tool.i /\ tool'.args = tool.args
    BY <1>1, AtRead DEF ToolInOrder, HasMembers, ToolMembers
  <1>5. ToolInOrder(tool')
    <2>1. "wait" \in ToolPlaces
      BY DEF ToolPlaces
    <2> QED  BY <1>4, <2>1, AtRead DEF ToolInOrder
  <1>6. /\ HasMembers(bson', BsonMembers) /\ bson'.frames = <<>> /\ bson'.data = bson.data
        /\ bson'.ret = TRUE /\ bson'.read_state = "REGULAR"
    BY <1>1, AtRead DEF BsonInOrder, HasMembers, BsonMembers
  <1>7. BsonInOrder(bson') /\ Level(bson') = 0
    <2>1. IsStack(<<>>) /\ Len(<<>>) = 0 /\ 0 <= STACK_MAX
      BY Limits DEF IsStack
    <2>2. DataInOrder(bson'.data)
      BY <1>6, AtRead DEF BsonInOrder
    <2>3. BsonInOrder(bson')
      BY <1>6, <2>1, <2>2 DEF BsonInOrder
    <2>4. SpecialLevels(bson') = 0
      BY <1>6 DEF SpecialLevels
    <2>5. Len(bson'.frames) = 0
      BY <1>6
    <2>6. Level(bson') = 0
      BY <2>4, <2>5 DEF Level
    <2> QED  BY <2>3, <2>6
  <1>8. CallInOrder(producer', yajl', tool')
    <2>1. yajl'.status # "running"
      BY <1>1, BetweenCalls
    <2> QED  BY <1>4, <2>1 DEF CallInOrder
  <1>9. NotTooDeep(producer', yajl', bson')
    <2>1. 0 <= Len(yajl'.stack) - 1
      BY <1>1, TopSeen
    <2> QED  BY <1>7, <2>1 DEF NotTooDeep
  <1>10. TextInBuffer(producer', yajl')
    BY <1>2 DEF TextInBuffer
  <1>11. SourceInOrder(source') /\ YajlInOrder(yajl')
    BY <1>1, AtRead
  <1> QED  BY <1>3, <1>5, <1>7, <1>8, <1>9, <1>10, <1>11 DEF JsonInv

LEMMA HandleDocumentKeeps == JsonInv /\ HandleDocument => JsonInv'
  <1> SUFFICES ASSUME JsonInv, HandleDocument
               PROVE  JsonInv'
    OBVIOUS
  <1>1. /\ producer.pc = "returned" /\ bson' = bson_reinit(bson) /\ UNCHANGED <<source, producer, yajl>>
        /\ tool' = [tool EXCEPT !.docnum = @ + 1,
                                !.pc = IF tool.name = "from_json" THEN "open" ELSE "read",
                                !.i = IF tool.name = "from_json" THEN @ + 1 ELSE @]
    BY DEF HandleDocument, HasAnswer
  <1>2. BsonInOrder(bson')
    BY <1>1, AtRead DEF bson_reinit, BsonInOrder, HasMembers, BsonMembers
  <1>3. PICK pc \in ToolPlaces, i \in Nat \ {0} :
          /\ pc = IF tool.name = "from_json" THEN "open" ELSE "read"
          /\ i = IF tool.name = "from_json" THEN tool.i + 1 ELSE tool.i
    BY AtRead DEF ToolPlaces, ToolInOrder
  <1>4. HasMembers(tool', ToolMembers) /\ tool'.pc = pc /\ tool'.i = i /\ tool'.args = tool.args
    BY <1>1, <1>3, AtRead DEF ToolInOrder, HasMembers, ToolMembers
  <1>5. ToolInOrder(tool')
    BY <1>4, AtRead, ToolSet
  <1>6. producer'.pc = "returned" /\ yajl'.status # "running"
    BY <1>1, AtRead DEF Running
  <1>7. SourceInOrder(source') /\ ProducerInOrder(producer') /\ YajlInOrder(yajl')
    BY <1>1, AtRead
  <1> QED  BY <1>2, <1>5, <1>6, <1>7, IdleKeeps

LEMMA HandleEndKeeps == JsonInv /\ HandleEnd => JsonInv'
  <1> SUFFICES ASSUME JsonInv, HandleEnd
               PROVE  JsonInv'
    OBVIOUS
  <1>1. /\ producer.pc = "returned" /\ UNCHANGED <<source, producer, yajl, bson>>
        /\ tool' = [tool EXCEPT !.pc = "open", !.i = @ + 1, !.exit = IF tool.name = "from_json" THEN "error" ELSE @]
    BY DEF HandleEnd, HasAnswer
  <1>2. PICK i \in Nat \ {0} : i = tool.i + 1
    BY AtRead DEF ToolInOrder
  <1>3. HasMembers(tool', ToolMembers) /\ tool'.pc = "open" /\ tool'.i = i /\ tool'.args = tool.args
    BY <1>1, <1>2, AtRead DEF ToolInOrder, HasMembers, ToolMembers
  <1>4. "open" \in ToolPlaces
    BY DEF ToolPlaces
  <1>5. ToolInOrder(tool') /\ ~ Calling(producer)
    BY <1>1, <1>3, <1>4, AtRead, ToolSet DEF Calling
  <1> QED  BY <1>1, <1>5, OnlyToolKeeps

\* The program is done.
LEMMA DoneKeeps ==
  ASSUME JsonInv, UNCHANGED <<source, producer, yajl, bson>>, NEW exit,
         tool' = [tool EXCEPT !.pc = "done", !.exit = exit]
  PROVE  JsonInv'
  <1>1. HasMembers(tool', ToolMembers) /\ tool'.pc = "done" /\ tool'.i = tool.i /\ tool'.args = tool.args
    BY AtRead DEF ToolInOrder, HasMembers, ToolMembers
  <1>2. "done" \in ToolPlaces
    BY DEF ToolPlaces
  <1>3. ToolInOrder(tool')
    BY <1>1, <1>2, AtRead DEF ToolInOrder
  <1> QED  BY <1>1, <1>3, OnlyToolKeeps

LEMMA ProgramEndKeeps == JsonInv /\ (HandleError \/ Aborts \/ Finish) => JsonInv'
  <1> SUFFICES ASSUME JsonInv, HandleError \/ Aborts \/ Finish
               PROVE  JsonInv'
    OBVIOUS
  <1>1. CASE HandleError
    BY <1>1, DoneKeeps DEF HandleError
  <1>2. CASE Aborts
    BY <1>2, DoneKeeps DEF Aborts
  <1>3. CASE Finish
    <2>1. tool' = [tool EXCEPT !.pc = "done"] /\ UNCHANGED <<source, producer, yajl, bson>>
      BY <1>3 DEF Finish
    <2>2. tool' = [tool EXCEPT !.pc = "done", !.exit = tool.exit]
      BY <2>1, AtRead DEF ToolInOrder, HasMembers, ToolMembers
    <2> QED  BY <2>1, <2>2, DoneKeeps
  <1> QED  BY <1>1, <1>2, <1>3

-----------------------------------------------------------------------------
(* The theorem.                                                            *)

LEMMA JsonInvInitially == Init => JsonInv
  <1> SUFFICES ASSUME Init
               PROVE  JsonInv
    OBVIOUS
  <1>1. SourceInOrder(source)
    <2>1. source = Ingested(<<>>)
      BY DEF Init
    <2>2. HasMembers(source, SourceMembers) /\ source.text = <<>> /\ source.at = 0
      BY <2>1 DEF Ingested, HasMembers, SourceMembers
    <2>3. 0 \in 0 .. 0
      OBVIOUS
    <2> QED  BY <2>2, <2>3, NoTextIs DEF SourceInOrder
  <1>2. ProducerInOrder(producer) /\ producer.pc = "idle"
    <2>1. producer = NoProducer
      BY DEF Init
    <2>2. /\ HasMembers(producer, ProducerMembers) /\ producer.pc = "idle" /\ producer.buf = <<>>
          /\ producer.room = 0 /\ producer.bytes_parsed = 0 /\ producer.ret = NoAnswer
      BY <2>1 DEF NoProducer, HasMembers, ProducerMembers
    <2>3. "idle" \in ReadPlaces /\ NoAnswer \in Answers /\ 0 \in 0 .. 0 + 1 /\ 0 \in Nat /\ 0 <= 0
      BY DEF ReadPlaces, Answers
    <2> QED  BY <2>2, <2>3, NoTextIs DEF ProducerInOrder
  <1>3. YajlInOrder(yajl) /\ yajl.status # "running" /\ BsonInOrder(bson)
    BY NewParserIs, NewBsonIs DEF Init
  <1>4. ToolInOrder(tool)
    <2>1. PICK n \in Tools, a \in Args : tool = Tool(n, a)
      BY DEF Init
    <2>2. a \in Arguments
      BY ReaderAssumption DEF Arguments, ByteTexts
    <2>3. HasMembers(tool, ToolMembers) /\ tool.pc = "open" /\ tool.i = 1 /\ tool.args = a
      BY <2>1 DEF Tool, HasMembers, ToolMembers
    <2>4. "open" \in ToolPlaces /\ 1 \in Nat \ {0}
      BY DEF ToolPlaces
    <2> QED  BY <2>2, <2>3, <2>4 DEF ToolInOrder
  <1>5. CallInOrder(producer, yajl, tool)
    BY <1>2, <1>3 DEF CallInOrder, Calling
  <1>6. NotTooDeep(producer, yajl, bson) /\ TextInBuffer(producer, yajl)
    BY <1>2 DEF NotTooDeep, MayGoOn, TextInBuffer
  <1> QED  BY <1>1, <1>2, <1>3, <1>4, <1>5, <1>6 DEF JsonInv

LEMMA JsonInvIsKept == JsonInv /\ [Next]_vars => JsonInv'
  <1> SUFFICES ASSUME JsonInv, [Next]_vars
               PROVE  JsonInv'
    OBVIOUS
  <1>1. CASE ReaderStep /\ tool.pc = "wait"
    BY <1>1, FeedRestKeeps, FeedMoreKeeps, FetchFailsKeeps, FetchEndsKeeps, ParseReturnsKeeps,
       NeedValueKeeps, NeedKeyKeeps, NeedColonKeeps, MapGotValueKeeps, ArrayGotValueKeeps DEF ReaderStep
  <1>2. CASE OpenFile \/ FromJson \/ Ingest \/ CallRead
    BY <1>2, OpenFileKeeps, FromJsonKeeps, IngestKeeps, CallReadKeeps
  <1>3. CASE HandleDocument \/ HandleEnd \/ HandleError \/ Aborts \/ Finish
    BY <1>3, HandleDocumentKeeps, HandleEndKeeps, ProgramEndKeeps
  <1>4. CASE UNCHANGED vars
    BY <1>4 DEF vars, JsonInv
  <1> QED  BY <1>1, <1>2, <1>3, <1>4 DEF Next

LEMMA JsonInvGives == JsonInv => InStep
  <1> SUFFICES ASSUME JsonInv
               PROVE  InStep
    OBVIOUS
  <1>1. /\ source.at \in 0 .. Len(source.text)
        /\ producer.pc \in ReadPlaces /\ producer.ret \in Answers
        /\ Len(producer.buf) <= producer.room /\ producer.bytes_parsed \in 0 .. Len(producer.buf) + 1
        /\ yajl.status \in Statuses /\ yajl.offset \in 0 .. Len(yajl.text)
        /\ Len(bson.frames) <= STACK_MAX /\ bson.data.t \in Unsigned /\ bson.data.i \in Unsigned
        /\ tool.pc \in ToolPlaces
    BY AtRead DEF SourceInOrder, ProducerInOrder, YajlInOrder, BsonInOrder, DataInOrder, ToolInOrder
  <1>2. TypeOK
    BY <1>1, Zenon DEF TypeOK, ReadPlaces, Answers, Statuses, Unsigned, ToolPlaces
  <1>3. DepthsAgree
    BY TopSeen DEF DepthsAgree, Level
  <1> QED  BY <1>2, <1>3 DEF InStep

\* In every state of every program, whatever the texts are and however they arrive, the
\* reader, yajl's parser and the callbacks are in step: what bson_json_reader_read has
\* parsed is in its buffer, no more than STACK_MAX documents are open, and the callbacks
\* never believe to be deeper in the text than the parser is.
THEOREM ReaderIsInStep == Spec => []InStep
  <1>1. Init => JsonInv
    BY JsonInvInitially
  <1>2. JsonInv /\ [Next]_vars => JsonInv'
    BY JsonInvIsKept
  <1>3. JsonInv => InStep
    BY JsonInvGives
  <1> QED  BY <1>1, <1>2, <1>3, PTL DEF Spec

================================================================================
