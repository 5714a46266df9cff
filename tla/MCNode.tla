------------------------------- MODULE MCNode --------------------------------
(***************************************************************************)
(* What a node keeps on its own disk and clock: the files of its sessions, *)
(* its scheduler, and the calendar of its schedules.  They share nothing,  *)
(* so each behaviour runs one of them and leaves the others where they     *)
(* start.                                                                  *)
(***************************************************************************)
EXTENDS FileStore, Scheduler, NextOccurrence, TLC

VARIABLE part      \* the component that runs

files == vars
allVars == <<part, files, schedulerVars, calendarVars>>
----------------------------------------------------------------------------
\* Session ids that pathFor keeps apart.
OwnFiles == [a |-> "fa", b |-> "fb"]

Fields(m, h, d, mo, w) == [form |-> "fields", fields |-> <<m, h, d, mo, w>>]
InYear(t, y) == [t EXCEPT !.fields = Append(@, <<At(y)>>)]
Lone == <<Star>>
On(n) == <<At(n)>>

\* The scheduler's: one that fires every minute, and one that fires once, at
\* the second minute of 1970.
NodeTexts ==
    [minutely |-> [form |-> "macro", name |-> "minutely"],
     once     |-> InYear(Fields(On(1), On(0), On(1), On(1), Lone), 1970)]
InUTC == [s \in DOMAIN NodeTexts |-> 0]

\* The calendar's.
Awkward ==
    {[form |-> "macro", name |-> n] : n \in {"yearly", "monthly", "weekly", "daily", "hourly", "minutely", "never"}}
    \cup {[form |-> "relative", delay |-> d, once |-> TRUE] : d \in {0, 3}}
    \cup {Fields(<<Every(20)>>, On(23), Lone, Lone, Lone),
          Fields(On(59), On(23), On(31), Lone, Lone),
          Fields(On(0), On(0), On(29), On(2), Lone),
          Fields(On(0), On(12), On(13), Lone, On(5)),
          Fields(<<At(5), Span(50, 52)>>, On(0), Lone, Lone, <<Span(1, 3)>>),
          Fields(On(30), <<Every(7)>>, On(1), <<Item("range", 2, 12, <<5>>)>>, Lone),
          Fields(On(0), On(6), Lone, Lone, On(7)),
          Fields(On(0), On(6), Lone, Lone, <<Every(2)>>),
          Fields(On(0), On(0), On(30), On(2), Lone),
          Fields(<<Span(5, 2)>>, Lone, Lone, Lone, Lone),
          Fields(On(60), Lone, Lone, Lone, Lone), Fields(<<Every(0)>>, Lone, Lone, Lone, Lone),
          Fields(<<>>, Lone, Lone, Lone, Lone), Fields(<<Item("bad", 0, 0, <<>>)>>, Lone, Lone, Lone, Lone),
          InYear(Fields(On(0), On(0), On(1), On(1), Lone), 2025),
          InYear(Fields(On(0), On(0), On(1), On(1), Lone), 2023)}

\* 2024-02-28 23:59:30, 2023-12-31 23:59:00 and 2096-02-29 00:00:00 in UTC.
Dates == {19781 * Day + Day - 1, 19722 * Day + Day - Minute, 46080 * Day}
Offsets == {0, 330 * Minute, -60 * Minute}
----------------------------------------------------------------------------
\* Where a component is that does not run.
NoSchedule == given = {} /\ zone = 0 /\ since = 0 /\ upcoming = 0 /\ asked = 0

NodeInit ==
    \/ part \in {"files", "scheduler"} /\ Init /\ SchedulerInit /\ NoSchedule
    \/ part = "calendar" /\ Init /\ SchedulerInit /\ CalendarInit

NodeNext ==
    \/ part = "files" /\ Next /\ UNCHANGED <<part, schedulerVars, calendarVars>>
    \/ part = "scheduler" /\ SchedulerNext /\ UNCHANGED <<part, files, calendarVars>>
    \/ part = "calendar" /\ Ask /\ UNCHANGED <<part, files, schedulerVars>>
    \/ part # "files" /\ UNCHANGED allVars    \* they stop at their bounds

NodeSpec == NodeInit /\ [][NodeNext]_allVars

\* Where both threads tick, nothing is saved and nothing crashes.
Bounded ==
    \/ crashes = 0 /\ saved = NoFile
    \/ \E k \in Clients : \A l \in Clients \ {k} : tick[l] = Idle

AnyClient == Permutations(Clients)
----------------------------------------------------------------------------
\* Type invariant: every cell of the store and every job, and the timers stay
\* in the order of their due times, which tickUntil relies on.
TypesOK == TypeOK /\ SchedulerTypeOK
=============================================================================
