-------------------------------- MODULE Cron --------------------------------
(***************************************************************************)
(* Schedules: the calendar expressions, macros and relative delays that    *)
(* CronExpression parses, and the instant it finds next.  A text is given  *)
(* by its parts: a relative delay, a macro, or a sequence of fields; a     *)
(* field is a sequence of items (form, bounds, step), names of months and  *)
(* weekdays being the numbers they stand for.  Instants are counted in     *)
(* half minutes from the epoch, so that they may fall between two minutes. *)
(***************************************************************************)
EXTENDS Integers, Sequences, FiniteSets, FiniteSetsExt

CONSTANTS
    Never,          \* no instant
    SearchDays      \* nextAfter looks this many days ahead

Minute == 2
Day == 1440 * Minute
----------------------------------------------------------------------------
\* gmtime_r: the date of a day counted from 1970-01-01, a Thursday.
Civil(n) ==
    LET z == n + 719468
        doe == z % 146097
        yoe == (doe - (doe \div 1460) + (doe \div 36524) - (doe \div 146096)) \div 365
        doy == doe - (365 * yoe + (yoe \div 4) - (yoe \div 100))
        mp == (5 * doy + 2) \div 153
        m == IF mp < 10 THEN mp + 3 ELSE mp - 9
    IN  [year |-> yoe + 400 * (z \div 146097) + (IF m <= 2 THEN 1 ELSE 0),
         month |-> m,
         day |-> doy - ((153 * mp + 2) \div 5) + 1,
         weekday |-> (n + 4) % 7]

\* breakDown, and compose of its midnight: the local day and the time in it.
LocalDay(t, offset) == (t + offset) \div Day
TimeOfDay(t, offset) == (t + offset) % Day
Midnight(day, offset) == day * Day - offset
----------------------------------------------------------------------------
Item(form, a, b, step) == [form |-> form, a |-> a, b |-> b, step |-> step]
Star == Item("star", 0, 0, <<>>)
At(a) == Item("value", a, a, <<>>)
Every(n) == Item("star", 0, 0, <<n>>)
Span(a, b) == Item("range", a, b, <<>>)

\* A field that is a lone star restricts nothing.
Unrestricted(field) == field = <<Star>>

\* The last value of an item; 7 is read as Sunday, that is 0.
LastOf(item, hi, dow) ==
    LET end == CASE item.form = "star" -> hi
                 [] item.form = "range" -> item.b
                 [] OTHER -> IF item.step = <<>> THEN item.a ELSE hi
    IN  IF dow /\ end = 7 THEN 0 ELSE end

\* Refused: a text that is no number or name, a step below 1, a value out of
\* range and a range that runs backwards.
ItemOk(item, lo, hi, dow) ==
    LET begin == IF item.form = "star" THEN lo ELSE item.a
        end == LastOf(item, hi, dow)
    IN  /\ item.form # "bad"
        /\ item.step # <<>> => item.step[1] > 0
        /\ lo <= begin /\ begin <= end /\ end <= hi

ItemValues(item, lo, hi, dow) ==
    LET begin == IF item.form = "star" THEN lo ELSE item.a
        step == IF item.step = <<>> THEN 1 ELSE item.step[1]
    IN  {v \in begin..LastOf(item, hi, dow) : (v - begin) % step = 0}

FieldOk(field, lo, hi, dow) ==
    field # <<>> /\ (Unrestricted(field) \/ \A i \in DOMAIN field : ItemOk(field[i], lo, hi, dow))

FieldValues(field, lo, hi, dow) ==
    IF Unrestricted(field) THEN lo..hi
    ELSE UNION {ItemValues(field[i], lo, hi, dow) : i \in DOMAIN field}

Calendar(minute, hour, dom, month, dow, year, domRestricted, dowRestricted) ==
    [kind |-> "cron", minute |-> minute, hour |-> hour, dom |-> dom, month |-> month,
     dow |-> dow, year |-> year, domRestricted |-> domRestricted,
     dowRestricted |-> dowRestricted]

\* @yearly and its kin.
Macro(name) ==
    CASE name = "yearly"   -> Calendar({0}, {0}, {1}, {1}, 0..6, {}, TRUE, FALSE)
      [] name = "monthly"  -> Calendar({0}, {0}, {1}, 1..12, 0..6, {}, TRUE, FALSE)
      [] name = "weekly"   -> Calendar({0}, {0}, 1..31, 1..12, {0}, {}, FALSE, TRUE)
      [] name = "daily"    -> Calendar({0}, {0}, 1..31, 1..12, 0..6, {}, FALSE, FALSE)
      [] name = "hourly"   -> Calendar({0}, 0..23, 1..31, 1..12, 0..6, {}, FALSE, FALSE)
      [] name = "minutely" -> Calendar(0..59, 0..23, 1..31, 1..12, 0..6, {}, FALSE, FALSE)

Macros == {"yearly", "monthly", "weekly", "daily", "hourly", "minutely"}

\* The parts a text can have: the numbers in it are whole.
Items == [form : {"star", "value", "range", "bad"}, a : Int, b : Int, step : Seq(Int)]
Written(text) ==
    \/ text.form = "relative" /\ text.delay \in Int
    \/ text.form = "macro"
    \/ text.form = "fields" /\ text.fields \in Seq(Seq(Items))

\* CronExpression::parse, what it accepts: the relative delays, the macros, or
\* five fields and perhaps a year.
Parses(text) ==
    CASE text.form = "relative" -> text.delay > 0
      [] text.form = "macro"    -> text.name \in Macros
      [] OTHER ->
            LET f == text.fields
            IN  /\ Len(f) \in {5, 6}
                /\ FieldOk(f[1], 0, 59, FALSE) /\ FieldOk(f[2], 0, 23, FALSE)
                /\ FieldOk(f[3], 1, 31, FALSE) /\ FieldOk(f[4], 1, 12, FALSE)
                /\ FieldOk(f[5], 0, 7, TRUE)
                /\ Len(f) = 6 => FieldOk(f[6], 1970, 9999, FALSE)

\* The set a day-of-week field stands for once 7 is normalised.
Weekdays(field) ==
    LET v == FieldValues(field, 0, 7, TRUE) IN IF 7 \in v THEN (v \ {7}) \cup {0} ELSE v

\* Five fields, and perhaps a year.
OfFields(f) ==
    Calendar(FieldValues(f[1], 0, 59, FALSE), FieldValues(f[2], 0, 23, FALSE),
             FieldValues(f[3], 1, 31, FALSE), FieldValues(f[4], 1, 12, FALSE), Weekdays(f[5]),
             IF Len(f) = 6 THEN FieldValues(f[6], 1970, 9999, FALSE) ELSE {},
             ~Unrestricted(f[3]), ~Unrestricted(f[5]))

\* CronExpression::parse, what it keeps of the text.
Parse(text) ==
    CASE text.form = "relative" ->
            [kind |-> "relative", interval |-> text.delay, oneShot |-> text.once]
      [] text.form = "macro" -> Macro(text.name)
      [] OTHER               -> OfFields(text.fields)
----------------------------------------------------------------------------
\* Either day field may match when both are restricted.
DayFieldsMatch(c, d) ==
    IF c.domRestricted /\ c.dowRestricted THEN d.day \in c.dom \/ d.weekday \in c.dow
    ELSE d.day \in c.dom /\ d.weekday \in c.dow

\* dayMatches.
DayMatches(c, d) ==
    d.month \in c.month /\ (c.year = {} \/ d.year \in c.year) /\ DayFieldsMatch(c, d)

\* matches.
Matches(c, d, hour, minute) ==
    /\ c.year = {} \/ d.year \in c.year
    /\ d.month \in c.month /\ hour \in c.hour /\ minute \in c.minute
    /\ DayFieldsMatch(c, d)

\* Mutant: the minutes of the first day are compared with <.
MutTimesOn(c, first, now) ==
    {x \in {h * 60 + m : h \in c.hour, m \in c.minute} : first => x >= now}

\* The minutes of a day at which c fires; on the first day only later ones.
TimesOn(c, first, now) ==
    {x \in {h * 60 + m : h \in c.hour, m \in c.minute} : first => x > now}

\* The days ahead on which c fires.  The search stops early after the last
\* year of c, which no later day can match.
FiringDays(c, today, now) ==
    {k \in 0..SearchDays :
        DayMatches(c, Civil(today + k)) /\ (k = 0 => TimesOn(c, TRUE, now) # {})}

FirstOn(c, k, today, now, offset) ==
    Midnight(today + k, offset) + Minute * Min(TimesOn(c, k = 0, now))

SearchFrom(c, today, now, offset, days) ==
    IF days = {} THEN Never ELSE FirstOn(c, Min(days), today, now, offset)

\* nextAfter.
NextAfter(c, t, offset) ==
    IF c.kind = "relative" THEN t + c.interval
    ELSE LET today == LocalDay(t, offset)
             now == TimeOfDay(t, offset) \div Minute
         IN  SearchFrom(c, today, now, offset, FiringDays(c, today, now))
=============================================================================
