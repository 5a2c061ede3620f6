----------------------------- MODULE WorkIntervals -----------------------------
(* TWorkIntervals: the times of day at which a detector works.  update() takes a
   list from the configuration, isRun() is asked at any moment.

   A time is a record of hours, minutes and seconds as sscanf() reads them, or
   Malformed; inside the class it is the number hhmmss.                          *)
EXTENDS Integers, Sequences

CONSTANTS
    Lists,        \* the lists of intervals a configuration may hold
    Moments       \* the times of day at which isRun() is asked

VARIABLES
    given,        \* the list last passed to update()
    m_Ena, m_Run, m_Intervals

ClockTimes == [h : Int, m : Int, s : Int]
Hours == 0..24
Sixty == 0..59
TimesOfDay == [h : Hours \ {24}, m : Sixty, s : Sixty]

ASSUME TimesAssumption ==
    /\ Lists \subseteq Seq([begin : ClockTimes, end : ClockTimes])
    /\ Moments \subseteq TimesOfDay

timesVars == <<given, m_Ena, m_Run, m_Intervals>>

Malformed == [h |-> -1, m |-> -1, s |-> -1]
Hhmmss(t) == (t.h * 100 + t.m) * 100 + t.s
LastTime == 24 * 100 * 100

\* Seconds are bounded only through the whole.
stringToTime(t) ==
    IF t # Malformed /\ t.h \in Hours /\ t.m \in Sixty /\ 0 <= Hhmmss(t) /\ Hhmmss(t) <= LastTime
    THEN Hhmmss(t) ELSE -1

TimesInit ==
    /\ given = [run |-> FALSE, list |-> <<>>]
    /\ m_Ena = FALSE /\ m_Run = FALSE /\ m_Intervals = <<>>

\* update() stops at the first interval it refuses: only the first one may start
\* at midnight, and none may reach over it.
Refuses(list, i) ==
    LET from == stringToTime(list[i].begin)
        to == stringToTime(list[i].end)
    IN  \/ IF i = 1 THEN from < 0 ELSE from <= 0
        \/ to <= 0 \/ to <= from

ReadIn(list) == [i \in DOMAIN list |-> [from |-> stringToTime(list[i].begin),
                                      to |-> stringToTime(list[i].end)]]

\* A version that keeps the old list when the new one is refused.
MutUpdate(run, list) ==
    /\ given' = [run |-> run, list |-> list]
    /\ IF list # <<>> /\ \A i \in DOMAIN list : ~Refuses(list, i)
       THEN m_Ena' = TRUE /\ m_Run' = run /\ m_Intervals' = ReadIn(list)
       ELSE UNCHANGED <<m_Ena, m_Run, m_Intervals>>

Update(run, list) ==
    /\ given' = [run |-> run, list |-> list]
    /\ m_Run' = (list # <<>> /\ run)
    /\ m_Ena' = (list # <<>> /\ \A i \in DOMAIN list : ~Refuses(list, i))
    /\ m_Intervals' =
          LET bad == {i \in DOMAIN list : Refuses(list, i)}
          IN  ReadIn(IF bad = {} THEN list
                   ELSE SubSeq(list, 1, (CHOOSE i \in bad : \A j \in bad : i <= j) - 1))

Clear ==
    /\ given' = [run |-> FALSE, list |-> <<>>]
    /\ m_Ena' = FALSE /\ m_Run' = FALSE /\ m_Intervals' = <<>>

TimesNext == Clear \/ \E run \in BOOLEAN, list \in Lists : Update(run, list)

TimesSpec == TimesInit /\ [][TimesNext]_timesVars

isRun(now) ==
    IF ~m_Ena THEN TRUE
    ELSE IF \E i \in DOMAIN m_Intervals :
               Hhmmss(now) >= m_Intervals[i].from /\ Hhmmss(now) < m_Intervals[i].to
    THEN m_Run ELSE ~m_Run

\* The reference counts in seconds of the day.
Second(t) == (t.h * 60 + t.m) * 60 + t.s
LastSecond == 24 * 60 * 60
Wrong(t) == t.h \notin Hours \/ t.m \notin Sixty

\* The intervals of a list that are none: no time, not from a time to a later one of
\* the same day, or from midnight and not the first.
NoInterval(list, i) ==
    \/ Wrong(list[i].begin) \/ Wrong(list[i].end)
    \/ Second(list[i].end) <= Second(list[i].begin)
    \/ Second(list[i].end) > LastSecond
    \/ i > 1 /\ Second(list[i].begin) = 0

Covers(interval, now) ==
    Second(interval.begin) <= Second(now) /\ Second(now) < Second(interval.end)

\* isRun() answers by the list given last, as if times were counted in seconds: in
\* its intervals, the end excluded, `run`, outside them the opposite.  A list that
\* update() refuses, and an empty one, let the detector work at any time, whatever
\* lists came before.  (For times whose seconds are below 60: update() takes more.)
RunsAsGiven ==
    (\A i \in DOMAIN given.list : \A t \in {given.list[i].begin, given.list[i].end} :
        t = Malformed \/ t.s \in Sixty) =>
    \A now \in Moments :
        isRun(now) =
            IF given.list = <<>> \/ \E i \in DOMAIN given.list : NoInterval(given.list, i)
            THEN TRUE
            ELSE given.run = \E i \in DOMAIN given.list : Covers(given.list[i], now)

================================================================================
