------------------------------ MODULE Calendar ------------------------------
(***************************************************************************)
(* DateTime and DateField of evaluator/namespaces_datetime.rs.  A DateTime *)
(* is an instant, counted in the smallest unit; a DateField is the number  *)
(* of one of its fields together with the instant it came from, and its    *)
(* add, reduce and remove give a new DateTime.  The calendar itself is the *)
(* library chrono's; the code adds its own length of a month, by which it  *)
(* clamps a day.  The units of a day are scaled down (Radix).              *)
(***************************************************************************)
EXTENDS Integers, Sequences, FiniteSets, SequencesExt

CONSTANTS FirstYear, LastYear,   \* the range of years chrono represents, scaled down
          Radix,                 \* hours of a day, minutes, seconds, milliseconds
          Starts,                \* fields given to DateTime.from
          Amounts,               \* numbers given to add, reduce and remove
          Stamps,                \* numbers given to fromEpoch
          Patterns,              \* sequences of tokens and texts given to format
          MaxCalls               \* bound: dates made, fields read, numbers added

VARIABLES date,      \* the program's DateTime
          field,     \* its DateField, with the instant it came from
          answer,    \* what the last call gave
          shown,     \* what format and the derived members gave
          calls
calendarVars == <<date, field, answer, shown, calls>>

Millisecond == 1
Second == Radix[4]
Minute == Radix[3] * Second
Hour == Radix[2] * Minute
Day == Radix[1] * Hour

(* chrono's calendar: days are counted from the first of FirstYear. *)
IsLeap(y) == (y % 4 = 0 /\ y % 100 # 0) \/ y % 400 = 0
DaysBefore(y) == 365 * (y - FirstYear) + Cardinality({n \in FirstYear..(y - 1) : IsLeap(n)})
Lengths(y) == <<31, IF IsLeap(y) THEN 29 ELSE 28, 31, 30, 31, 30, 31, 31, 30, 31, 30, 31>>
\* Days of the year before each month; the thirteenth is the year's length.
Elapsed(y) ==
  LET sum[m \in 1..13] == IF m = 1 THEN 0 ELSE sum[m - 1] + Lengths(y)[m - 1] IN sum
Representable(instant) == instant \in 0..(DaysBefore(LastYear + 1) * Day - 1)

\* parts and to_epoch
Parts(instant) ==
  LET days == instant \div Day
      time == instant % Day
      y == CHOOSE n \in FirstYear..LastYear : DaysBefore(n) <= days /\ days < DaysBefore(n + 1)
      rest == days - DaysBefore(y)
      m == CHOOSE n \in 1..12 : Elapsed(y)[n] <= rest /\ rest < Elapsed(y)[n + 1]
  IN  [year |-> y, month |-> m, day |-> rest - Elapsed(y)[m] + 1,
       hour |-> time \div Hour, minute |-> (time % Hour) \div Minute,
       second |-> (time % Minute) \div Second, ms |-> time % Second]
ToEpoch(p) ==
  (DaysBefore(p.year) + Elapsed(p.year)[p.month] + p.day - 1) * Day
  + p.hour * Hour + p.minute * Minute + p.second * Second + p.ms
Real(p) == p.year \in FirstYear..LastYear /\ p.month \in 1..12 /\ p.day \in 1..Lengths(p.year)[p.month]

(* The code's own part. *)
DaysInMonthOfCommonYear(y, m) == IF m \in {1, 3, 5, 7, 8, 10, 12} THEN 31 ELSE IF m = 2 THEN 28 ELSE 30
DaysInMonth(y, m) ==
  CASE m \in {1, 3, 5, 7, 8, 10, 12} -> 31
    [] m \in {4, 6, 9, 11} -> 30
    [] OTHER -> IF IsLeap(y) THEN 29 ELSE 28

Fields == {"year", "month", "day", "hour", "minute", "second", "ms"}
FieldValue(instant, f) == Parts(instant)[f]
Unit == [day |-> Day, hour |-> Hour, minute |-> Minute, second |-> Second, ms |-> Millisecond]
OutOfRange == -1

\* add_to_field: days and less shift the instant, months and years keep the
\* time of day and clamp the day.
AddToField(instant, f, delta) ==
  IF f \in {"month", "year"}
  THEN LET p == Parts(instant)
           total == p.year * 12 + p.month - 1 + (IF f = "year" THEN 12 * delta ELSE delta)
           y == total \div 12
           m == (total % 12) + 1
           last == DaysInMonth(y, m)
           out == [p EXCEPT !.year = y, !.month = m, !.day = IF p.day < last THEN p.day ELSE last]
       IN  IF Real(out) THEN ToEpoch(out) ELSE OutOfRange
  ELSE LET moved == instant + delta * Unit[f]
       IN  IF Representable(moved) THEN moved ELSE OutOfRange

-----------------------------------------------------------------------------
None == [of |-> "none", instant |-> OutOfRange, name |-> "none", number |-> 0, given |-> 0]
Unshown == [pieces |-> <<>>, instant |-> OutOfRange, derived |-> [weekday |-> 0], text |-> <<>>]
Init == shown = Unshown /\ date = [instant |-> OutOfRange, utc |-> FALSE] /\ field = None /\ answer = None /\ calls = 0

Count == calls < MaxCalls /\ calls' = calls + 1

\* DateTime.from: the ranges of the single fields, then chrono's verdict.
From(p) ==
  LET inRange == /\ p.month \in 1..12 /\ p.day \in 1..31
                 /\ p.hour < Radix[1] /\ p.minute < Radix[2] /\ p.second < Radix[3] /\ p.ms < Radix[4]
      made == IF inRange /\ Real(p) THEN ToEpoch(p) ELSE OutOfRange
  IN  /\ date.instant = OutOfRange
      /\ date' = [instant |-> made, utc |-> FALSE]
      /\ answer' = [of |-> "from", instant |-> made, name |-> "none", number |-> 0, given |-> 0]
      /\ UNCHANGED <<field, shown>> /\ Count

FromEpoch(n) ==
  /\ date.instant = OutOfRange
  /\ date' = IF Representable(n) THEN [instant |-> n, utc |-> TRUE] ELSE date
  /\ answer' = [of |-> "fromEpoch", instant |-> date'.instant, name |-> "none", number |-> n, given |-> 0]
  /\ UNCHANGED <<field, shown>> /\ Count

\* date.month and its like: the field keeps the instant.
ReadField(f) ==
  /\ date.instant # OutOfRange
  /\ field' = [of |-> "field", instant |-> date.instant, name |-> f,
               number |-> FieldValue(date.instant, f), given |-> 0]
  /\ answer' = field' /\ UNCHANGED <<date, shown>> /\ Count

\* add, reduce and remove; the program keeps the result as its date, and the field.
Arithmetic(method, n) ==
  /\ field # None
  /\ LET delta == IF method = "add" THEN n ELSE -n
         moved == AddToField(field.instant, field.name, delta)
     IN  /\ answer' = [of |-> method, instant |-> moved, name |-> field.name, number |-> n,
                       given |-> field.instant]
         /\ date' = IF moved = OutOfRange THEN date ELSE [instant |-> moved, utc |-> date.utc]
  /\ UNCHANGED <<field, shown>> /\ Count

\* The derived members, read or taken by a destructuring.
Derived(instant) ==
  LET p == Parts(instant)
  IN  [weekday |-> ((instant \div Day) % 7) + 1, dayOfYear |-> instant \div Day - DaysBefore(p.year) + 1,
       daysInMonth |-> DaysInMonth(p.year, p.month), isLeapYear |-> IsLeap(p.year)]

\* The token of a letter repeated n times, as the number it prints and its width.
Letters == {"Y", "M", "D", "H", "h", "m", "s", "S", "A"}
Token(p, letter, n) ==
  LET number(v, two) == <<v, IF n = 2 /\ two THEN 2 ELSE 1>>
  IN  CASE letter = "Y" -> IF n = 2 THEN <<p.year % 100, 2>> ELSE <<p.year, IF n = 4 THEN 4 ELSE 1>>
        [] letter = "M" -> number(p.month, TRUE)
        [] letter = "D" -> number(p.day, TRUE)
        [] letter = "H" -> number(p.hour, TRUE)
        [] letter = "h" -> number(IF p.hour % (Radix[1] \div 2) = 0 THEN Radix[1] \div 2 ELSE p.hour % (Radix[1] \div 2), TRUE)
        [] letter = "m" -> number(p.minute, TRUE)
        [] letter = "s" -> number(p.second, TRUE)
        [] letter = "S" -> <<p.ms, 3>>
        [] letter = "A" -> <<IF p.hour < Radix[1] \div 2 THEN 0 ELSE 1, 0>>
Literal(c) == <<c>>

\* format_pattern: brackets are copied without themselves, a run of one letter is
\* one token, anything else is itself.
FormatPattern(instant, pattern) ==
  LET p == Parts(instant)
      closing(i) == {j \in i..Len(pattern) : pattern[j] = "]"}
      Close(i) == IF closing(i) = {} THEN Len(pattern) + 1 ELSE CHOOSE j \in closing(i) : \A k \in closing(i) : j <= k
      other(i) == {j \in i..Len(pattern) : pattern[j] # pattern[i]}
      RunEnd(i) == IF other(i) = {} THEN Len(pattern) + 1 ELSE CHOOSE j \in other(i) : \A k \in other(i) : j <= k
      from[i \in 1..(Len(pattern) + 2)] ==
        IF i > Len(pattern) THEN <<>>
        ELSE IF pattern[i] = "["
             THEN [k \in 1..(Close(i) - i - 1) |-> Literal(pattern[i + k])] \o from[Close(i) + 1]
        ELSE IF pattern[i] \in Letters
             THEN <<Token(p, pattern[i], RunEnd(i) - i)>> \o from[RunEnd(i)]
        ELSE <<Literal(pattern[i])>> \o from[i + 1]
  IN  from[1]

\* A pattern as its author means it: tokens and texts, and how it is spelled.
Spelled(piece) ==
  IF piece.kind = "token" THEN [k \in 1..piece.n |-> piece.letter]
  ELSE <<"[">> \o piece.text \o <<"]">>
Meant(instant, piece) ==
  IF piece.kind = "token" THEN <<Token(Parts(instant), piece.letter, piece.n)>>
  ELSE [k \in DOMAIN piece.text |-> Literal(piece.text[k])]
Format(pieces) ==
  /\ date.instant # OutOfRange /\ shown.text = <<>>
  /\ shown' = [pieces |-> pieces, instant |-> date.instant, derived |-> Derived(date.instant),
               text |-> FormatPattern(date.instant, FlattenSeq([k \in DOMAIN pieces |-> Spelled(pieces[k])]))]
  /\ UNCHANGED <<date, field, answer, calls>>

Next == \/ \E p \in Starts : From(p)
        \/ \E n \in Stamps : FromEpoch(n)
        \/ \E f \in Fields : ReadField(f)
        \/ \E method \in {"add", "reduce", "remove"}, n \in Amounts : Arithmetic(method, n)
        \/ \E pieces \in Patterns : Format(pieces)
Spec == Init /\ [][Next]_calendarVars

-----------------------------------------------------------------------------
\* Where a field's add or reduce lands.  Of days and less it is exact and the
\* opposite call undoes it.  Of months it is in the month that many months away,
\* at the same time of day, on the same day or, where that month has no such
\* day, on its last; it fails only outside the calendar (namespaces_datetime.rs:84-88).
ArithmeticLandsOnItsDate ==
  answer.of \in {"add", "reduce", "remove"} =>
    LET delta == IF answer.of = "add" THEN answer.number ELSE -answer.number
        from == Parts(answer.given)
        to == Parts(answer.instant)
        months == IF answer.name = "year" THEN 12 * delta ELSE delta
        year == from.year + (from.month - 1 + months) \div 12
    IN  IF answer.name \in {"month", "year"}
        THEN IF answer.instant = OutOfRange THEN year \notin FirstYear..LastYear
             ELSE /\ (to.year - from.year) * 12 + to.month - from.month = months
                  /\ answer.instant % Day = answer.given % Day
                  /\ to.day # from.day => /\ to.day < from.day
                                          /\ Parts(answer.instant + Day).day = 1
        ELSE IF answer.instant = OutOfRange THEN ~Representable(answer.given + delta * Unit[answer.name])
             ELSE AddToField(answer.instant, answer.name, -delta) = answer.given

\* A text is formatted token by token and literal by literal as it was spelled, and
\* the derived members agree with chrono's days: a month lasts as long as the code
\* says, and the day of the year counts from its first (namespaces_datetime.rs:181).
InspectionAgrees ==
  shown.text # <<>> =>
    LET p == Parts(shown.instant)
        first == [p EXCEPT !.day = 1]
    IN  /\ shown.text = FlattenSeq([k \in DOMAIN shown.pieces |-> Meant(shown.instant, shown.pieces[k])])
        /\ Parts(ToEpoch(first) + (shown.derived.daysInMonth - 1) * Day).month = p.month
        /\ p.month < 12 => Parts(ToEpoch(first) + shown.derived.daysInMonth * Day).month = p.month + 1
        /\ shown.derived.isLeapYear <=> Real([p EXCEPT !.month = 2, !.day = 29])
        /\ Parts(shown.instant - (shown.derived.dayOfYear - 1) * Day) = [p EXCEPT !.month = 1, !.day = 1]
=============================================================================
