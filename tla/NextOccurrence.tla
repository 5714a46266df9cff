--------------------------- MODULE NextOccurrence ---------------------------
(***************************************************************************)
(* One schedule asked for its next instant again and again, in some time   *)
(* zone, against the plain definition: the earliest later minute that      *)
(* matches.                                                                *)
(***************************************************************************)
EXTENDS Cron

CONSTANTS
    Texts,         \* of the schedules asked
    Zones,         \* offsets of time zones
    Instants,      \* where the questions start
    Steps          \* how often each schedule is asked

ASSUME CalendarAssumption ==
    /\ Never \notin Int /\ SearchDays \in Nat
    /\ \A t \in Texts : Written(t)
    /\ Zones \subseteq Int /\ Instants \subseteq Int

VARIABLES given, zone, since, upcoming, asked

calendarVars == <<given, zone, since, upcoming, asked>>

CalendarInit ==
    /\ given \in {t \in Texts : Parses(t)}
    /\ zone \in Zones /\ upcoming \in Instants
    /\ since = upcoming /\ asked = 0

Ask ==
    /\ asked < Steps /\ upcoming # Never
    /\ since' = upcoming
    /\ upcoming' = NextAfter(Parse(given), upcoming, zone)
    /\ asked' = asked + 1
    /\ UNCHANGED <<given, zone>>

CalendarSpec == CalendarInit /\ [][Ask]_calendarVars
----------------------------------------------------------------------------
\* CronExpression::nextAfter answers a later whole minute that the schedule
\* matches in its time zone, and no minute in between matches; without an
\* answer, no minute of the days searched does.
NextIsEarliest ==
    asked > 0 /\ given.form \in {"fields", "macro"} =>
        LET c == Parse(given)
            last == IF upcoming = Never THEN LocalDay(since, zone) + SearchDays ELSE LocalDay(upcoming, zone)
        IN  /\ upcoming # Never =>
                  /\ upcoming > since /\ TimeOfDay(upcoming, zone) % Minute = 0
                  /\ Matches(c, Civil(last), TimeOfDay(upcoming, zone) \div (60 * Minute),
                             (TimeOfDay(upcoming, zone) \div Minute) % 60)
            /\ \A d \in LocalDay(since, zone)..last, h \in c.hour, m \in c.minute :
                  LET t == Midnight(d, zone) + Minute * (60 * h + m)
                  IN  t > since /\ Matches(c, Civil(d), h, m) => upcoming # Never /\ t >= upcoming
=============================================================================
