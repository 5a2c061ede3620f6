--------------------------- MODULE ServicePartsProofs ---------------------------
(* What the parts of a service promise for every value of their constants: the
   deque of requests of a TransportServer, the working hours read from the
   configuration and the rotation of the log.                                     *)
EXTENDS TransportServer, WorkIntervals, LogRotation, SequenceTheorems, TLAPS

--------------------------------------------------------------------------------
(* WorkIntervals *)

\* A time that stringToTime() takes and whose seconds are seconds.
Proper(t) == t \in ClockTimes /\ t.h \in Hours /\ t.m \in Sixty /\ t.s \in Sixty

LEMMA Bounds ==
    /\ \A x \in Hours : x \in Int /\ 0 <= x /\ x <= 24
    /\ \A x \in Sixty : x \in Int /\ 0 <= x /\ x <= 59
  BY DEF Hours, Sixty

\* Hundreds order times as seconds do.
LEMMA SameOrder ==
    ASSUME NEW t, NEW u, Proper(t), Proper(u)
    PROVE  /\ Hhmmss(t) < Hhmmss(u) <=> Second(t) < Second(u)
           /\ Hhmmss(t) \in Nat /\ Second(t) \in Nat
           /\ Hhmmss(t) = 0 <=> Second(t) = 0
           /\ Hhmmss(t) <= LastTime <=> Second(t) <= LastSecond
<1> DEFINE a == t.h
           b == t.m
           c == t.s
           d == u.h
           e == u.m
           f == u.s
<1>1. a \in Hours /\ d \in Hours /\ b \in Sixty /\ e \in Sixty /\ c \in Sixty /\ f \in Sixty
  BY DEF Proper
<1>2. /\ a \in Int /\ 0 <= a /\ a <= 24 /\ d \in Int /\ 0 <= d /\ d <= 24
      /\ b \in Int /\ 0 <= b /\ b <= 59 /\ e \in Int /\ 0 <= e /\ e <= 59
      /\ c \in Int /\ 0 <= c /\ c <= 59 /\ f \in Int /\ 0 <= f /\ f <= 59
  BY <1>1, Bounds
<1>3. /\ Hhmmss(t) = (a * 100 + b) * 100 + c /\ Hhmmss(u) = (d * 100 + e) * 100 + f
      /\ Second(t) = (a * 60 + b) * 60 + c /\ Second(u) = (d * 60 + e) * 60 + f
  BY DEF Hhmmss, Second
<1> HIDE DEF a, b, c, d, e, f
<1> QED BY <1>2, <1>3, SMT DEF LastTime, LastSecond

\* What stringToTime() makes of a time whose seconds are seconds.
LEMMA TimeOf ==
    ASSUME NEW t \in ClockTimes, t = Malformed \/ t.s \in Sixty
    PROVE  /\ Wrong(t) => stringToTime(t) = -1
           /\ ~Wrong(t) => /\ Proper(t)
                           /\ stringToTime(t) = IF Second(t) <= LastSecond THEN Hhmmss(t) ELSE -1
<1>1. Wrong(t) => stringToTime(t) = -1
  BY DEF Wrong, stringToTime
<1>2. ASSUME ~Wrong(t) PROVE Proper(t) /\ t # Malformed
  <2>1. t # Malformed
    <3>1. Malformed.h \notin Hours
      BY Bounds DEF Malformed
    <3> QED BY <1>2, <3>1 DEF Wrong
  <2> QED BY <1>2, <2>1 DEF Wrong, Proper
<1>3. ASSUME ~Wrong(t) PROVE stringToTime(t) = IF Second(t) <= LastSecond THEN Hhmmss(t) ELSE -1
  <2>1. Proper(t) /\ t # Malformed /\ t.h \in Hours /\ t.m \in Sixty
    BY <1>2, <1>3 DEF Proper
  <2>2. Hhmmss(t) \in Nat /\ (Hhmmss(t) <= LastTime <=> Second(t) <= LastSecond)
    BY <2>1, SameOrder
  <2> QED BY <2>1, <2>2 DEF stringToTime
<1> QED BY <1>1, <1>2, <1>3

\* What a sequence holds.
LEMMA Elements ==
    ASSUME NEW S, NEW list \in Seq(S), NEW i \in DOMAIN list
    PROVE  list[i] \in S /\ i \in 1..Len(list)
OBVIOUS

\* update() refuses the intervals that are none.
LEMMA RefusesNone ==
    ASSUME NEW list \in Seq([begin : ClockTimes, end : ClockTimes]), NEW i \in DOMAIN list,
           \A t \in {list[i].begin, list[i].end} : t = Malformed \/ t.s \in Sixty
    PROVE  Refuses(list, i) <=> NoInterval(list, i)
<1> DEFINE b == list[i].begin
           e == list[i].end
           from == stringToTime(b)
           to == stringToTime(e)
<1>1. b \in ClockTimes /\ e \in ClockTimes /\ i \in Nat \ {0}
  <2>1. list[i] \in [begin : ClockTimes, end : ClockTimes] /\ i \in 1..Len(list)
    BY Elements, Zenon
  <2> QED BY <2>1
<1>2. CASE Wrong(b) \/ Wrong(e)
  <2>1. from = -1 \/ to = -1
    BY <1>1, <1>2, TimeOf
  <2> QED BY <1>2, <2>1 DEF Refuses, NoInterval
<1>3. CASE ~Wrong(b) /\ ~Wrong(e)
  <2>1. /\ Proper(b) /\ from = IF Second(b) <= LastSecond THEN Hhmmss(b) ELSE -1
        /\ Proper(e) /\ to = IF Second(e) <= LastSecond THEN Hhmmss(e) ELSE -1
    BY <1>1, <1>3, TimeOf
  <2>2. /\ Hhmmss(b) < Hhmmss(e) <=> Second(b) < Second(e)
        /\ Hhmmss(b) \in Nat /\ Second(b) \in Nat /\ (Hhmmss(b) = 0 <=> Second(b) = 0)
    BY <2>1, SameOrder
  <2>3. Hhmmss(e) \in Nat /\ Second(e) \in Nat /\ (Hhmmss(e) = 0 <=> Second(e) = 0)
    BY <2>1, SameOrder
  <2>4. Refuses(list, i) <=> \/ IF i = 1 THEN from < 0 ELSE from <= 0
                             \/ to <= 0 \/ to <= from
    BY DEF Refuses
  <2>5. NoInterval(list, i) <=> \/ Second(e) <= Second(b) \/ Second(e) > LastSecond
                                \/ i > 1 /\ Second(b) = 0
    BY <1>3, <2>2, <2>3 DEF NoInterval
  <2>6. LastSecond \in Nat
    BY DEF LastSecond
  <2> DEFINE hb == Hhmmss(b)
             he == Hhmmss(e)
             sb == Second(b)
             se == Second(e)
  <2> HIDE DEF b, e, from, to, hb, he, sb, se
  <2> QED BY <1>1, <2>1, <2>2, <2>3, <2>4, <2>5, <2>6 DEF hb, he, sb, se
<1> QED BY <1>2, <1>3

\* What update() leaves behind is what the list given last says.
TimesInv ==
    /\ given.list \in Seq([begin : ClockTimes, end : ClockTimes])
    /\ given.run \in BOOLEAN
    /\ m_Ena = (given.list # <<>> /\ \A i \in DOMAIN given.list : ~Refuses(given.list, i))
    /\ m_Ena => m_Run = given.run /\ m_Intervals = ReadIn(given.list)

LEMMA TimesStep == TimesInv /\ [TimesNext]_timesVars => TimesInv'
<1> SUFFICES ASSUME TimesInv, [TimesNext]_timesVars PROVE TimesInv'
  OBVIOUS
<1>1. CASE UNCHANGED timesVars
  BY <1>1 DEF TimesInv, timesVars
<1>2. CASE Clear
  <2>1. given'.list = <<>> /\ given'.run = FALSE /\ m_Ena' = FALSE
    BY <1>2 DEF Clear
  <2>2. <<>> \in Seq([begin : ClockTimes, end : ClockTimes])
    OBVIOUS
  <2> QED BY <2>1, <2>2, Zenon DEF TimesInv
<1>3. ASSUME NEW run \in BOOLEAN, NEW list \in Lists, Update(run, list) PROVE TimesInv'
  <2>1. list \in Seq([begin : ClockTimes, end : ClockTimes])
    BY TimesAssumption, Zenon
  <2>2. given'.list = list /\ given'.run = run
    BY <1>3 DEF Update
  <2>3. m_Ena' = (list # <<>> /\ \A i \in DOMAIN list : ~Refuses(list, i))
    BY <1>3 DEF Update
  <2>4. ASSUME m_Ena' PROVE m_Run' = run /\ m_Intervals' = ReadIn(list)
    <3>1. list # <<>> /\ {i \in DOMAIN list : Refuses(list, i)} = {}
      BY <2>3, <2>4, Zenon
    <3> QED BY <1>3, <3>1 DEF Update
  <2> QED BY <2>1, <2>2, <2>3, <2>4 DEF TimesInv
<1> QED BY <1>1, <1>2, <1>3 DEF TimesNext

\* isRun() answers by the list given last, counted in seconds, for every list.
THEOREM RunsAlwaysAsGiven == TimesSpec => []RunsAsGiven
<1>1. ASSUME TimesInit PROVE TimesInv
  <2>1. given.list = <<>> /\ given.run = FALSE /\ m_Ena = FALSE
    BY <1>1 DEF TimesInit
  <2>2. <<>> \in Seq([begin : ClockTimes, end : ClockTimes])
    OBVIOUS
  <2> QED BY <2>1, <2>2, Zenon DEF TimesInv
<1>2. TimesInv => RunsAsGiven
  <2> DEFINE list == given.list
  <2> SUFFICES ASSUME TimesInv, NEW moment \in Moments,
                      \A i \in DOMAIN list : \A t \in {list[i].begin, list[i].end} :
                          t = Malformed \/ t.s \in Sixty
               PROVE  isRun(moment) = IF list = <<>> \/ \E i \in DOMAIN list : NoInterval(list, i)
                                   THEN TRUE
                                   ELSE given.run = \E i \in DOMAIN list : Covers(list[i], moment)
    BY Zenon DEF RunsAsGiven
  <2>1. list \in Seq([begin : ClockTimes, end : ClockTimes])
    BY DEF TimesInv
  <2>2. \A i \in DOMAIN list : Refuses(list, i) <=> NoInterval(list, i)
    BY <2>1, RefusesNone, Zenon
  <2>3. m_Ena = (list # <<>> /\ \A i \in DOMAIN list : ~NoInterval(list, i))
    BY <2>2 DEF TimesInv
  <2>4. CASE ~m_Ena
    BY <2>3, <2>4, Zenon DEF isRun
  <2>5. CASE m_Ena
    <3>1. m_Run = given.run /\ m_Intervals = ReadIn(list) /\ given.run \in BOOLEAN
      BY <2>5 DEF TimesInv
    <3>2. moment \in ClockTimes /\ Proper(moment)
      <4>1. moment \in [h : Hours \ {24}, m : Sixty, s : Sixty]
        BY TimesAssumption DEF TimesOfDay
      <4>2. moment = [h |-> moment.h, m |-> moment.m, s |-> moment.s]
        BY <4>1
      <4>3. moment.h \in Hours /\ moment.m \in Sixty /\ moment.s \in Sixty
        BY <4>1
      <4>4. moment.h \in Int /\ moment.m \in Int /\ moment.s \in Int
        BY <4>3, Bounds
      <4>5. moment \in [h : Int, m : Int, s : Int]
        BY <4>2, <4>4
      <4> QED BY <4>3, <4>5 DEF ClockTimes, Proper
    <3>3. ASSUME NEW i \in DOMAIN list
          PROVE  (Hhmmss(moment) >= m_Intervals[i].from /\ Hhmmss(moment) < m_Intervals[i].to)
                     <=> Covers(list[i], moment)
      <4> DEFINE b == list[i].begin
                 e == list[i].end
      <4>1. list[i] \in [begin : ClockTimes, end : ClockTimes]
        BY <2>1, Elements, Zenon
      <4>2. b \in ClockTimes /\ e \in ClockTimes
        BY <4>1
      <4>3. ~NoInterval(list, i) /\ ~Refuses(list, i)
        BY <2>2, <2>3, <2>5, Zenon
      <4>4. ~Wrong(b) /\ ~Wrong(e)
        BY <4>3 DEF NoInterval
      <4>5. /\ Proper(b) /\ stringToTime(b) = IF Second(b) <= LastSecond THEN Hhmmss(b) ELSE -1
            /\ Proper(e) /\ stringToTime(e) = IF Second(e) <= LastSecond THEN Hhmmss(e) ELSE -1
        BY <4>2, <4>4, TimeOf
      <4>6. stringToTime(b) # -1 /\ stringToTime(e) # -1
        BY <4>3 DEF Refuses
      <4>7. m_Intervals[i].from = Hhmmss(b) /\ m_Intervals[i].to = Hhmmss(e)
        BY <3>1, <4>5, <4>6 DEF ReadIn
      <4>8. /\ Hhmmss(moment) < Hhmmss(b) <=> Second(moment) < Second(b)
            /\ Hhmmss(moment) < Hhmmss(e) <=> Second(moment) < Second(e)
            /\ Hhmmss(moment) \in Nat /\ Second(moment) \in Nat
        BY <3>2, <4>5, SameOrder
      <4>9. Hhmmss(b) \in Nat /\ Second(b) \in Nat
        BY <4>5, SameOrder
      <4> HIDE DEF b, e
      <4>10. (Hhmmss(moment) >= Hhmmss(b) /\ Hhmmss(moment) < Hhmmss(e))
                 <=> Second(b) <= Second(moment) /\ Second(moment) < Second(e)
        BY <4>8, <4>9
      <4> QED BY <4>7, <4>10 DEF Covers, b, e
    <3>4. DOMAIN m_Intervals = DOMAIN list
      BY <3>1 DEF ReadIn
    <3> HIDE DEF list
    <3> QED BY <2>3, <2>5, <3>1, <3>3, <3>4, Zenon DEF isRun
  <2> QED BY <2>4, <2>5, Zenon
<1> QED BY <1>1, <1>2, TimesStep, PTL DEF TimesSpec

--------------------------------------------------------------------------------
(* LogRotation *)

\* The lines of all archives.
Filed == UNION {kept[d].lines : d \in DOMAIN kept}

\* Where run() stands with the day: behind it only until it looks, and ahead of the
\* archives, so that the name of the next one is free.
StampsAreRight ==
    /\ today \in Nat /\ lastTimeStamp \in Nat /\ oldLastTimeStamp \in Nat
    /\ turn \in {"loop", "copy", "truncate", "clean"}
    /\ today = lastTimeStamp \/ (today = lastTimeStamp + 1 /\ turn \in {"loop", "clean"})
    /\ turn = "copy" => lastTimeStamp = oldLastTimeStamp + 1
    /\ \A d \in DOMAIN kept :
          /\ d \in Nat /\ d < lastTimeStamp
          /\ turn = "copy" => d < oldLastTimeStamp

\* What the log file holds: nothing from before the day run() last saw, and what it
\* must keep is in the archives when it is emptied.
FileIsRight ==
    /\ \A line \in live : line[2] \in Nat /\ line[2] <= today
    /\ starts = 1 => /\ turn \in {"loop", "clean"} => \A line \in live : line[2] >= lastTimeStamp
                     /\ turn = "copy" => \A line \in live : line[2] >= oldLastTimeStamp
    /\ turn = "truncate" => expected \subseteq Filed

RotInv ==
    /\ backs \in Nat /\ starts \in Nat \ {0}
    /\ backs = 0 => /\ StampsAreRight /\ FileIsRight
                    /\ expected \subseteq live \cup Filed
                    /\ FiledByDay

LEMMA RotStep == RotInv /\ [RotNext]_rotVars => RotInv'
<1> SUFFICES ASSUME RotInv, [RotNext]_rotVars PROVE RotInv'
  OBVIOUS
<1> USE DEF clockVars, stampVars
<1>0. backs' \in Nat /\ starts' \in Nat \ {0} /\ (backs' = 0 => backs = 0) /\ (starts' = 1 => starts = 1)
  BY DEF RotInv, RotNext, rotVars, CheckNewDay, Copy, Truncate, Clean, Log, Midnight, SetBack,
         StartAgain
<1> SUFFICES ASSUME backs' = 0
             PROVE  /\ StampsAreRight' /\ FileIsRight'
                    /\ expected' \subseteq live' \cup Filed'
                    /\ FiledByDay'
  BY <1>0 DEF RotInv
<1>i. /\ StampsAreRight /\ FileIsRight /\ expected \subseteq live \cup Filed /\ FiledByDay
      /\ backs = 0
  BY <1>0 DEF RotInv
<1>1. CASE UNCHANGED rotVars
  BY <1>i, <1>1 DEF rotVars, StampsAreRight, FileIsRight, Filed, FiledByDay
<1>2. CASE CheckNewDay
  <2>1. UNCHANGED <<today, backs, live, kept, logged, expected, starts>> /\ UNCHANGED Filed
    BY <1>2 DEF CheckNewDay, Filed
  <2>2. StampsAreRight'
    BY <1>2, <1>i DEF CheckNewDay, StampsAreRight
  <2>3. FileIsRight'
    <3>1. turn' \in {"copy", "clean"} /\ turn = "loop" /\ oldLastTimeStamp' = lastTimeStamp
      BY <1>2 DEF CheckNewDay
    <3>2. turn' = "clean" => lastTimeStamp' = lastTimeStamp
      BY <1>2 DEF CheckNewDay
    <3> QED BY <1>i, <2>1, <3>1, <3>2 DEF FileIsRight
  <2>4. FiledByDay'
    BY <1>i, <2>1 DEF FiledByDay
  <2> QED BY <1>i, <2>1, <2>2, <2>3, <2>4
<1>3. CASE Copy
  <2>1. /\ turn = "copy" /\ turn' = "truncate"
        /\ UNCHANGED <<today, backs, lastTimeStamp, oldLastTimeStamp, live, starts>>
    BY <1>3 DEF Copy
  <2>2. ArchiveName \notin DOMAIN kept
    BY <1>i, <2>1 DEF ArchiveName, StampsAreRight
  <2>3. ASSUME NEW copied \in SUBSET live, Archive(copied), expected' = expected \ (live \ copied)
        PROVE  /\ DOMAIN kept' = DOMAIN kept \cup {oldLastTimeStamp}
               /\ kept'[oldLastTimeStamp].lines = copied
               /\ \A d \in DOMAIN kept : kept'[d] = kept[d]
               /\ expected' \subseteq Filed'
    <3>1. /\ DOMAIN kept' = DOMAIN kept \cup {oldLastTimeStamp}
          /\ kept'[oldLastTimeStamp].lines = copied
          /\ \A d \in DOMAIN kept : kept'[d] = kept[d]
      BY <2>2, <2>3 DEF Archive, ArchiveName
    <3>2. \A x \in expected' : x \in copied \/ x \in Filed
      BY <1>i, <2>3
    <3>3. \A x \in Filed : x \in Filed'
      BY <3>1 DEF Filed
    <3>4. \A x \in copied : x \in Filed'
      BY <3>1 DEF Filed
    <3> QED BY <3>1, <3>2, <3>3, <3>4
  <2>4. CASE UNCHANGED kept /\ expected' = expected \ live
    <3>1. Filed' = Filed /\ expected' \subseteq Filed'
      BY <1>i, <2>4 DEF Filed
    <3>2. StampsAreRight'
      BY <1>i, <2>1, <2>4 DEF StampsAreRight
    <3>3. FileIsRight'
      BY <1>i, <2>1, <3>1 DEF FileIsRight
    <3>4. FiledByDay'
      BY <1>i, <2>1, <2>4 DEF FiledByDay
    <3> QED BY <3>1, <3>2, <3>3, <3>4
  <2>5. CASE \E copied \in SUBSET live : Archive(copied) /\ expected' = expected \ (live \ copied)
    <3> PICK copied \in SUBSET live : Archive(copied) /\ expected' = expected \ (live \ copied)
      BY <2>5
    <3>1. /\ DOMAIN kept' = DOMAIN kept \cup {oldLastTimeStamp}
          /\ kept'[oldLastTimeStamp].lines = copied
          /\ \A d \in DOMAIN kept : kept'[d] = kept[d]
          /\ expected' \subseteq Filed'
      BY <2>3, Zenon
    <3>2. StampsAreRight'
      BY <1>i, <2>1, <3>1 DEF StampsAreRight
    <3>3. FileIsRight'
      BY <1>i, <2>1, <3>1 DEF FileIsRight
    <3>4. \A line \in copied : line[2] <= oldLastTimeStamp + 1 /\ (starts = 1 => line[2] >= oldLastTimeStamp)
      BY <1>i, <2>1 DEF StampsAreRight, FileIsRight
    <3>5. FiledByDay'
      BY <1>i, <2>1, <3>1, <3>4 DEF FiledByDay
    <3> QED BY <3>1, <3>2, <3>3, <3>5
  <2> QED BY <1>3, <2>2, <2>4, <2>5 DEF Copy
<1>4. CASE Truncate
  <2>1. /\ turn = "truncate" /\ turn' = "clean" /\ live' = {}
        /\ UNCHANGED <<today, backs, lastTimeStamp, oldLastTimeStamp, kept, expected, starts>>
        /\ UNCHANGED Filed
    BY <1>4 DEF Truncate, Filed
  <2>2. StampsAreRight'
    BY <1>i, <2>1 DEF StampsAreRight
  <2>3. FileIsRight' /\ expected' \subseteq Filed'
    BY <1>i, <2>1 DEF FileIsRight
  <2>4. FiledByDay'
    BY <1>i, <2>1 DEF FiledByDay
  <2> QED BY <2>2, <2>3, <2>4
<1>5. CASE Clean
  <2> PICK old \in SUBSET {d \in DOMAIN kept : today >= kept[d].made + TimeLiveDays} :
              /\ kept' = [d \in DOMAIN kept \ old |-> kept[d]]
              /\ expected' = expected \ UNION {kept[d].lines : d \in old}
    BY <1>5 DEF Clean
  <2>1. /\ turn = "clean" /\ turn' = "loop"
        /\ UNCHANGED <<today, backs, lastTimeStamp, live, starts>>
        /\ oldLastTimeStamp' = lastTimeStamp
    BY <1>5 DEF Clean
  <2>2. StampsAreRight'
    BY <1>i, <2>1 DEF StampsAreRight
  <2>3. FileIsRight'
    BY <1>i, <2>1 DEF FileIsRight
  <2>4. FiledByDay'
    BY <1>i, <2>1 DEF FiledByDay
  <2>5. ASSUME NEW x \in expected', x \notin live PROVE x \in Filed'
    <3>1. x \in Filed /\ x \notin UNION {kept[d].lines : d \in old}
      BY <1>i, <2>5
    <3>2. PICK d \in DOMAIN kept : x \in kept[d].lines
      BY <3>1 DEF Filed
    <3>3. d \in DOMAIN kept' /\ kept'[d] = kept[d]
      BY <3>1, <3>2
    <3> QED BY <3>2, <3>3 DEF Filed
  <2> QED BY <2>1, <2>2, <2>3, <2>4, <2>5
<1>6. CASE Log
  <2> DEFINE line == <<logged + 1, today>>
  <2>1. /\ live' = live \cup {line} /\ line[2] = today
        /\ UNCHANGED <<today, backs, lastTimeStamp, oldLastTimeStamp, turn, kept, starts>>
        /\ UNCHANGED Filed
    BY <1>6 DEF Log, Filed
  <2>2. /\ turn = "truncate" => expected' = expected
        /\ expected' \subseteq expected \cup {line}
    BY <1>6 DEF Log
  <2> HIDE DEF line
  <2>3. StampsAreRight'
    BY <1>i, <2>1 DEF StampsAreRight
  <2>4. FileIsRight'
    BY <1>i, <2>1, <2>2 DEF FileIsRight, StampsAreRight
  <2>5. FiledByDay'
    BY <1>i, <2>1 DEF FiledByDay
  <2> QED BY <1>i, <2>1, <2>2, <2>3, <2>4, <2>5
<1>7. CASE Midnight
  <2>1. /\ lastTimeStamp = today /\ turn \in {"loop", "clean"} /\ today' = today + 1
        /\ UNCHANGED <<backs, lastTimeStamp, oldLastTimeStamp, turn, live, kept, expected, starts>>
        /\ UNCHANGED Filed
    BY <1>7 DEF Midnight, Filed
  <2>2. StampsAreRight'
    BY <1>i, <2>1 DEF StampsAreRight
  <2>3. FileIsRight'
    BY <1>i, <2>1 DEF FileIsRight, StampsAreRight
  <2>4. FiledByDay'
    BY <1>i, <2>1 DEF FiledByDay
  <2> QED BY <1>i, <2>1, <2>2, <2>3, <2>4
<1>8. CASE SetBack
  BY <1>8, <1>i DEF SetBack
<1>9. CASE StartAgain
  <2>1. /\ starts' = starts + 1 /\ turn' = "loop" /\ lastTimeStamp' = today /\ oldLastTimeStamp' = today
        /\ UNCHANGED <<today, backs, live, kept, expected>> /\ UNCHANGED Filed
    BY <1>9 DEF StartAgain, Filed
  <2>2. starts' # 1
    BY <2>1 DEF RotInv
  <2>3. StampsAreRight'
    BY <1>i, <2>1 DEF StampsAreRight
  <2>4. FileIsRight'
    BY <1>i, <2>1, <2>2 DEF FileIsRight
  <2>5. FiledByDay'
    BY <1>i, <2>1, <2>2 DEF FiledByDay
  <2> QED BY <1>i, <2>1, <2>3, <2>4, <2>5
<1> QED BY <1>1, <1>2, <1>3, <1>4, <1>5, <1>6, <1>7, <1>8, <1>9 DEF RotNext

\* run() keeps every line it can under the day it belongs to, for every number of
\* days, lines and starts and every time archives live.
THEOREM LinesAreAlwaysFiled == RotSpec => []LinesAreFiled
<1>1. RotInit => RotInv
  BY DEF RotInit, RotInv, StampsAreRight, FileIsRight, FiledByDay, Filed
<1>2. RotInv => LinesAreFiled
  BY DEF RotInv, LinesAreFiled, LinesKept, FiledByDay, Filed
<1> QED BY <1>1, <1>2, RotStep, PTL DEF RotSpec

--------------------------------------------------------------------------------
(* TransportServer *)

\* Inside addToIncoming() the eviction has made room.
AddInv == adding => Len(msgInDeque) <= capacityMsgDeque /\ accepted < MaxMsgs

\* The deque is the gapless run of the newest accepted requests, the callback
\* has seen older ones in order, and the one in run()'s hand lies between.
OrderInv ==
    /\ \A i \in 1..Len(msgInDeque) :
          msgInDeque[i] = (accepted - Len(msgInDeque)) + i
    /\ \A i, j \in 1..Len(handled) : i < j => handled[i] < handled[j]
    /\ \A i \in 1..Len(handled) : handled[i] <= accepted - Len(msgInDeque)
    /\ inHand <= accepted - Len(msgInDeque)
    /\ inHand # 0 => \A i \in 1..Len(handled) : handled[i] < inHand

\* run() holds a request exactly between the pop and the callback, and finds
\* one to pop unless the listener is about to push.
TakeInv ==
    /\ inHand # 0 <=> pc = "callback"
    /\ pc # "undefined"
    /\ pc = "take" => msgInDeque # <<>> \/ adding

\* A pipe server's link is up exactly while m_thrListen is joinable, and a
\* WebSocket server never creates a connection in run().
LinkInv ==
    /\ broker = "pipe" => /\ conn # "pending"
                          /\ conn = "open" <=> thrListen = "joinable"
                          /\ pc = "create" => conn # "open"
    /\ broker = "websocket" => conn = "open" /\ pc # "create"
    /\ OneListener

\* A server that keeps its connection clears no flag and keeps its listener.
KeepInv ==
    isKeepConnect =>
        /\ ~Working => stopAsked
        /\ pc = "ended" => ~localIsWork
        /\ broker # "pipe" => thrListen = "joinable"
        /\ (status = "OK" \/ pc \in {"status", "empty", "take", "callback", "after"})
              => thrListen = "joinable" /\ (conn = "open" \/ broker = "rabbitmq")

IInv ==
    /\ TypeOK
    /\ AddInv
    /\ OrderInv
    /\ QueueBound
    /\ TakeInv
    /\ LinkInv
    /\ KeepInv

-----------------------------------------------------------------------------
\* Removing the front of a gapless deque leaves a gapless deque.
LEMMA TailOfNewest ==
    ASSUME NEW q \in Seq(MsgIds), NEW n \in Nat, q # <<>>,
           \A i \in 1..Len(q) : q[i] = (n - Len(q)) + i
    PROVE  /\ Tail(q) \in Seq(MsgIds)
           /\ Len(Tail(q)) = Len(q) - 1
           /\ Head(q) \in MsgIds
           /\ Head(q) = (n - Len(q)) + 1
           /\ \A i \in 1..Len(Tail(q)) : Tail(q)[i] = (n - Len(Tail(q))) + i
  <1>1. Len(q) \in Nat /\ Len(q) # 0 /\ Head(q) = q[1] /\ 1 \in 1..Len(q)
    OBVIOUS
  <1>2. /\ Head(q) \in MsgIds /\ Tail(q) \in Seq(MsgIds) /\ Len(Tail(q)) = Len(q) - 1
        /\ \A i \in 1..Len(Tail(q)) : Tail(q)[i] = q[i + 1]
    BY HeadTailProperties
  <1>3. ASSUME NEW i \in 1..Len(Tail(q))
        PROVE  Tail(q)[i] = (n - Len(Tail(q))) + i
    <2>1. i + 1 \in 1..Len(q)
      BY <1>1, <1>2
    <2>2. Tail(q)[i] = (n - Len(q)) + (i + 1)
      BY <2>1, <1>2
    <2>3. QED
      BY <2>2, <1>1, <1>2
  <1>4. QED
    BY <1>1, <1>2, <1>3

\* Adding the next number at the back of a gapless deque keeps it gapless.
LEMMA AppendToNewest ==
    ASSUME NEW q \in Seq(MsgIds), NEW n \in Nat, n + 1 \in MsgIds,
           \A i \in 1..Len(q) : q[i] = (n - Len(q)) + i,
           NEW p, p = Append(q, n + 1)
    PROVE  /\ p \in Seq(MsgIds)
           /\ Len(p) = Len(q) + 1
           /\ p # <<>>
           /\ \A i \in 1..Len(p) : p[i] = ((n + 1) - Len(p)) + i
  <1>1. n + 1 \in MsgIds
    OBVIOUS
  <1>2. /\ p \in Seq(MsgIds)
        /\ Len(p) = Len(q) + 1
        /\ Len(q) \in Nat
    BY <1>1
  <1>3. /\ \A i \in 1..Len(q) : p[i] = q[i]
        /\ p[Len(q) + 1] = n + 1
    BY <1>1
  <1>4. ASSUME NEW i \in 1..(Len(q) + 1)
        PROVE  p[i] = ((n + 1) - (Len(q) + 1)) + i
    <2>1. CASE i = Len(q) + 1
      BY <2>1, <1>2, <1>3
    <2>2. CASE i \in 1..Len(q)
      BY <2>2, <1>2, <1>3
    <2>3. QED
      BY <2>1, <2>2, <1>2
  <1>5. p # <<>>
    BY <1>2
  <1>6. QED
    BY <1>2, <1>4, <1>5

\* What the callback has seen are numbers.
LEMMA HandledAreNumbers ==
    TypeOK => /\ Len(handled) \in Nat
              /\ \A i \in 1..Len(handled) : handled[i] \in Nat
  <1> SUFFICES ASSUME TypeOK PROVE /\ Len(handled) \in Nat
                                   /\ \A i \in 1..Len(handled) : handled[i] \in Nat
    OBVIOUS
  <1>1. handled \in Seq(MsgIds)
    BY DEF TypeOK
  <1>2. Len(handled) \in Nat /\ \A i \in 1..Len(handled) : handled[i] \in MsgIds
    BY <1>1, ElementOfSeq
  <1> QED BY <1>2 DEF MsgIds

LEMMA InitIInv == Init => IInv
  <1> SUFFICES ASSUME Init PROVE IInv
    OBVIOUS
  <1>1. TypeOK
    <2>1. msgInDeque \in Seq(MsgIds) /\ handled \in Seq(MsgIds)
      BY DEF Init
    <2>2. breaks \in 0..MaxBreaks /\ inHand \in 0..MaxMsgs /\ accepted \in 0..MaxMsgs
      BY ConstantsAssumption DEF Init
    <2>3. QED
      BY <2>1, <2>2, Zenon DEF Init, TypeOK, RunPcs
  <1>2. AddInv /\ OrderInv /\ TakeInv
    BY DEF Init, AddInv, OrderInv, TakeInv
  <1>3. QueueBound
    BY ConstantsAssumption DEF Init, QueueBound
  <1>4. LinkInv /\ KeepInv
    BY DEF Init, LinkInv, OneListener, KeepInv, Working
  <1> QED BY <1>1, <1>2, <1>3, <1>4 DEF IInv

\* The steps that touch neither the deque nor the request in run()'s hand.
QuietStep ==
    \/ StopLocal \/ StopGlobal \/ LinkBreak \/ LinkReady
    \/ RunStart \/ RunWhile \/ RunEnd \/ RunNeed \/ RunCheck \/ RunStatus
    \/ RunEmpty \/ RunAfter
    \/ \E ok \in BOOLEAN : RunCreate(ok)

LEMMA QuietStepIInv ==
    ASSUME IInv, QuietStep
    PROVE  IInv'
  <1> USE DEF Goto, queueVars, flagVars, modeVars, linkVars, histVars
  <1>1. UNCHANGED <<queueVars, modeVars, inHand, histVars>>
    BY DEF QuietStep, StopLocal, StopGlobal, LinkBreak, LinkReady, RunStart,
           RunWhile, RunEnd, RunNeed, RunCheck, RunStatus, RunEmpty, RunAfter,
           RunCreate
  <1>2. AddInv' /\ OrderInv' /\ QueueBound'
    BY <1>1 DEF IInv, AddInv, OrderInv, QueueBound
  <1> DEFINE Moving == /\ localIsWork \in BOOLEAN /\ globalIsWork \in BOOLEAN
                       /\ stopAsked \in BOOLEAN
                       /\ status \in {"OK", "ERROR_CONNECT", "ERROR_MESSAGE"}
                       /\ conn \in {"open", "pending", "closed"}
                       /\ thrListen \in {"none", "joinable"}
                       /\ breaks \in 0..MaxBreaks /\ pc \in RunPcs
             Kept == Moving /\ TakeInv /\ LinkInv /\ KeepInv
  <1>3. Kept
    BY DEF IInv, TypeOK
  <1>4. ASSUME StopLocal \/ StopGlobal PROVE Kept'
    <2>1. /\ localIsWork' \in BOOLEAN /\ globalIsWork' \in BOOLEAN
          /\ stopAsked' = TRUE /\ UNCHANGED <<status, linkVars, pc, inHand>>
          /\ localIsWork' => localIsWork
      <3>1. CASE StopLocal
        BY <1>3, <3>1, Zenon DEF StopLocal
      <3>2. CASE StopGlobal
        BY <1>3, <3>2, Zenon DEF StopGlobal
      <3> QED BY <1>4, <3>1, <3>2, Zenon
    <2>2. Moving'
      BY <1>3, <2>1
    <2>3. TakeInv' /\ LinkInv'
      BY <1>1, <1>3, <2>1 DEF TakeInv, LinkInv, OneListener
    <2>4. KeepInv'
      BY <1>1, <1>3, <2>1, Zenon DEF KeepInv, Working
    <2> QED BY <2>2, <2>3, <2>4
  <1>5. ASSUME LinkBreak PROVE Kept'
    <2>1. breaks' \in 0..MaxBreaks
      BY <1>3, <1>5, ConstantsAssumption DEF LinkBreak
    <2>2. QED
      BY <1>3, <1>5, <2>1 DEF LinkBreak, TakeInv, LinkInv, OneListener, KeepInv, Working
  <1>6. ASSUME LinkReady PROVE Kept'
    BY <1>3, <1>6 DEF LinkReady, TakeInv, LinkInv, OneListener, KeepInv, Working
  <1>7. ASSUME RunStart \/ RunWhile PROVE Kept'
    BY <1>3, <1>7 DEF RunStart, RunWhile, RunPcs, TakeInv, LinkInv, OneListener,
                      KeepInv, Working
  <1>7a. ASSUME RunEnd PROVE Kept'
    <2>1. Moving' /\ TakeInv' /\ LinkInv'
      BY <1>3, <1>7a, Zenon DEF RunEnd, RunPcs, TakeInv, LinkInv, OneListener
    <2>2. /\ ~Working /\ pc' = "ended" /\ localIsWork' = FALSE
          /\ UNCHANGED <<stopAsked, isKeepConnect, broker, status, thrListen, conn>>
      BY <1>7a DEF RunEnd
    <2>3. KeepInv'
      BY <1>3, <2>2, Zenon DEF KeepInv
    <2> QED BY <2>1, <2>3
  <1>8. ASSUME RunNeed \/ RunStatus \/ RunEmpty PROVE Kept'
    BY <1>3, <1>8 DEF RunNeed, RunStatus, RunEmpty, RunPcs, TakeInv, LinkInv,
                      OneListener, KeepInv, Working
  <1>9. ASSUME RunCheck PROVE Kept'
    BY <1>3, <1>9 DEF RunCheck, RunPcs, TakeInv, LinkInv, OneListener, KeepInv, Working
  <1>10. ASSUME RunAfter PROVE Kept'
    BY <1>3, <1>10, Zenon DEF RunAfter, ReleasePipe, ReleaseRabbitMQ, ReleaseWebSocket, RunPcs,
                       TakeInv, LinkInv, OneListener, KeepInv, Working
  <1>11. ASSUME NEW ok \in BOOLEAN, RunCreate(ok) PROVE Kept'
    BY <1>3, <1>11 DEF RunCreate, CreatePipe, CreateRabbitMQ, AssignThrListen, RunPcs,
                       TakeInv, LinkInv, OneListener, KeepInv, Working
  <1> HIDE DEF Kept
  <1>12. Kept'
    BY <1>4, <1>5, <1>6, <1>7, <1>7a, <1>8, <1>9, <1>10,
       <1>11 DEF QuietStep
  <1>13. TypeOK'
    BY <1>1, <1>12 DEF IInv, TypeOK, Kept
  <1> QED BY <1>2, <1>12, <1>13 DEF IInv, Kept

LEMMA AddLockIInv ==
    ASSUME IInv, AddLock
    PROVE  IInv'
  <1> USE DEF flagVars, modeVars, linkVars, histVars
  <1>1. /\ TypeOK /\ adding' = TRUE /\ accepted < MaxMsgs
        /\ UNCHANGED <<capacityMsgDeque, flagVars, modeVars, status, linkVars, pc,
                       inHand, histVars>>
    BY DEF IInv, AddLock
  <1>2. /\ Len(msgInDeque) \in Nat /\ capacityMsgDeque \in Nat /\ accepted \in Nat
        /\ inHand \in Nat /\ \A i \in 1..Len(handled) : handled[i] \in Nat
        /\ msgInDeque \in Seq(MsgIds)
    BY <1>1, ConstantsAssumption, HandledAreNumbers DEF TypeOK
  <1>3. TakeInv' /\ LinkInv' /\ KeepInv'
    BY <1>1 DEF IInv, TakeInv, LinkInv, OneListener, KeepInv, Working
  <1>4. CASE ~IsFull
    <2>1. msgInDeque' = msgInDeque /\ Len(msgInDeque) <= capacityMsgDeque
      BY <1>2, <1>4 DEF AddLock, IsFull
    <2>2. TypeOK'
      BY <1>1, <2>1 DEF TypeOK
    <2>3. AddInv' /\ QueueBound' /\ OrderInv'
      BY <1>1, <2>1 DEF IInv, AddInv, QueueBound, OrderInv
    <2> QED BY <1>3, <2>2, <2>3 DEF IInv
  <1>5. CASE IsFull
    <2>1. /\ msgInDeque' = Tail(msgInDeque)
          /\ Len(msgInDeque) > capacityMsgDeque
      BY <1>5 DEF AddLock, IsFull
    <2>2. msgInDeque # <<>>
      BY <1>2, <2>1
    <2>3. \A i \in 1..Len(msgInDeque) : msgInDeque[i] = (accepted - Len(msgInDeque)) + i
      BY DEF IInv, OrderInv
    <2>4. /\ msgInDeque' \in Seq(MsgIds)
          /\ Len(msgInDeque') = Len(msgInDeque) - 1
          /\ \A i \in 1..Len(msgInDeque') :
                msgInDeque'[i] = (accepted - Len(msgInDeque')) + i
      BY <1>2, <2>1, <2>2, <2>3, TailOfNewest
    <2>5. TypeOK'
      BY <1>1, <2>4 DEF TypeOK
    <2>6. AddInv' /\ QueueBound'
      BY <1>1, <1>2, <2>4 DEF IInv, AddInv, QueueBound
    <2>7. OrderInv'
      <3>1. \A x \in Nat : x <= accepted - Len(msgInDeque) => x <= accepted - Len(msgInDeque')
        BY <1>2, <2>4
      <3>2. QED
        BY <1>1, <1>2, <2>4, <3>1 DEF IInv, OrderInv
    <2> QED BY <1>3, <2>5, <2>6, <2>7 DEF IInv
  <1> QED BY <1>4, <1>5

LEMMA AddPushIInv ==
    ASSUME IInv, AddPush
    PROVE  IInv'
  <1> USE DEF flagVars, modeVars, linkVars
  <1>1. /\ TypeOK /\ adding' = FALSE /\ accepted' = accepted + 1
        /\ msgInDeque' = Append(msgInDeque, accepted + 1)
        /\ accepted < MaxMsgs /\ Len(msgInDeque) <= capacityMsgDeque
        /\ UNCHANGED <<capacityMsgDeque, flagVars, modeVars, status, linkVars, pc,
                       inHand, handled>>
    BY DEF IInv, AddInv, AddPush
  <1>2. /\ Len(msgInDeque) \in Nat /\ capacityMsgDeque \in Nat /\ accepted \in Nat
        /\ msgInDeque \in Seq(MsgIds) /\ MaxMsgs \in Nat
    BY <1>1, ConstantsAssumption DEF TypeOK
  <1>3. accepted + 1 \in MsgIds /\ accepted' \in 0..MaxMsgs
    BY <1>1, <1>2 DEF MsgIds
  <1> DEFINE pushed == Append(msgInDeque, accepted + 1)
  <1>3a. pushed = Append(msgInDeque, accepted + 1)
    OBVIOUS
  <1> HIDE DEF pushed
  <1>4. \A i \in 1..Len(msgInDeque) : msgInDeque[i] = (accepted - Len(msgInDeque)) + i
    BY DEF IInv, OrderInv
  <1>5. /\ pushed \in Seq(MsgIds)
        /\ Len(pushed) = Len(msgInDeque) + 1
        /\ pushed # <<>>
        /\ \A i \in 1..Len(pushed) : pushed[i] = ((accepted + 1) - Len(pushed)) + i
    BY <1>2, <1>3, <1>3a, <1>4, AppendToNewest
  <1>6. msgInDeque' = pushed
    BY <1>1, <1>3a
  <1>7. TypeOK'
    BY <1>1, <1>3, <1>5, <1>6, Zenon DEF TypeOK
  <1>8. AddInv' /\ QueueBound'
    BY <1>1, <1>2, <1>5, <1>6 DEF AddInv, QueueBound
  <1>9. OrderInv'
    <2>1. accepted' - Len(msgInDeque') = accepted - Len(msgInDeque)
      BY <1>1, <1>2, <1>5, <1>6
    <2> QED BY <1>1, <1>5, <1>6, <2>1 DEF IInv, OrderInv
  <1>10. TakeInv' /\ LinkInv' /\ KeepInv'
    BY <1>1, <1>5, <1>6 DEF IInv, TakeInv, LinkInv, OneListener, KeepInv, Working
  <1> QED BY <1>7, <1>8, <1>9, <1>10 DEF IInv

LEMMA SetInDeqCapacityIInv ==
    ASSUME IInv, NEW c \in Capacities, SetInDeqCapacity(c)
    PROVE  IInv'
  <1> USE DEF flagVars, modeVars, linkVars, histVars
  <1>1. /\ TypeOK /\ ~adding /\ pc = "idle" /\ msgInDeque' = <<>>
        /\ capacityMsgDeque' = c /\ c \in Nat
        /\ UNCHANGED <<adding, flagVars, modeVars, status, linkVars, pc, inHand,
                       histVars>>
    BY ConstantsAssumption DEF IInv, SetInDeqCapacity
  <1>2. Len(msgInDeque') = 0 /\ msgInDeque' \in Seq(MsgIds)
    BY <1>1
  <1>3. /\ Len(msgInDeque) \in Nat /\ accepted \in Nat /\ inHand \in Nat
        /\ \A i \in 1..Len(handled) : handled[i] \in Nat
    BY <1>1, HandledAreNumbers DEF TypeOK
  <1>4. TypeOK'
    BY <1>1, <1>2 DEF TypeOK
  <1>5. AddInv' /\ QueueBound'
    BY <1>1, <1>2 DEF AddInv, QueueBound
  <1>6. OrderInv'
    <2>1. \A x \in Nat : x <= accepted - Len(msgInDeque) => x <= accepted - 0
      BY <1>3
    <2> QED BY <1>1, <1>2, <1>3, <2>1 DEF IInv, OrderInv
  <1>7. TakeInv' /\ LinkInv' /\ KeepInv'
    BY <1>1 DEF IInv, TakeInv, LinkInv, OneListener, KeepInv, Working
  <1> QED BY <1>4, <1>5, <1>6, <1>7 DEF IInv

LEMMA RunTakeIInv ==
    ASSUME IInv, RunTake
    PROVE  IInv'
  <1> USE DEF flagVars, modeVars, linkVars, histVars, Goto
  <1>1. /\ TypeOK /\ ~adding /\ pc = "take" /\ inHand = 0 /\ msgInDeque # <<>>
        /\ UNCHANGED <<capacityMsgDeque, adding, flagVars, modeVars, status, linkVars,
                       histVars>>
    BY DEF IInv, TakeInv, RunTake
  <1>2. /\ pc' = "callback" /\ inHand' = Head(msgInDeque)
        /\ msgInDeque' = Tail(msgInDeque)
    BY <1>1 DEF RunTake
  <1>3. /\ Len(msgInDeque) \in Nat /\ capacityMsgDeque \in Nat /\ accepted \in Nat
        /\ msgInDeque \in Seq(MsgIds)
        /\ \A i \in 1..Len(handled) : handled[i] \in Nat
    BY <1>1, ConstantsAssumption, HandledAreNumbers DEF TypeOK
  <1>4. \A i \in 1..Len(msgInDeque) : msgInDeque[i] = (accepted - Len(msgInDeque)) + i
    BY DEF IInv, OrderInv
  <1>5. /\ msgInDeque' \in Seq(MsgIds)
        /\ Len(msgInDeque') = Len(msgInDeque) - 1
        /\ inHand' \in MsgIds /\ inHand' = (accepted - Len(msgInDeque)) + 1
        /\ \A i \in 1..Len(msgInDeque') :
              msgInDeque'[i] = (accepted - Len(msgInDeque')) + i
    BY <1>1, <1>2, <1>3, <1>4, TailOfNewest
  <1>6. inHand' \in Nat /\ inHand' # 0 /\ inHand' \in 0..MaxMsgs
    BY <1>5, ConstantsAssumption DEF MsgIds
  <1>7. TypeOK'
    BY <1>1, <1>2, <1>5, <1>6 DEF TypeOK, RunPcs
  <1>8. AddInv' /\ QueueBound'
    BY <1>1, <1>3, <1>5 DEF IInv, AddInv, QueueBound
  <1>9. OrderInv'
    <2>1. accepted - Len(msgInDeque') = inHand' /\ accepted - Len(msgInDeque) = inHand' - 1
      BY <1>3, <1>5, <1>6
    <2>2. \A i \in 1..Len(handled) : handled[i] <= inHand' - 1
      BY <2>1 DEF IInv, OrderInv
    <2>3. \A i \in 1..Len(handled) : handled[i] < inHand' /\ handled[i] <= inHand'
      BY <1>3, <1>6, <2>2
    <2>4. \A i, j \in 1..Len(handled) : i < j => handled[i] < handled[j]
      BY DEF IInv, OrderInv
    <2>5. inHand' <= inHand'
      BY <1>6
    <2> QED BY <1>1, <1>5, <2>1, <2>3, <2>4, <2>5 DEF OrderInv
  <1>10. TakeInv' /\ LinkInv'
    BY <1>1, <1>2, <1>6 DEF IInv, TakeInv, LinkInv, OneListener
  <1>11. KeepInv'
    BY <1>1, <1>2 DEF IInv, KeepInv, Working
  <1> QED BY <1>7, <1>8, <1>9, <1>10, <1>11 DEF IInv

LEMMA RunCallbackIInv ==
    ASSUME IInv, RunCallback
    PROVE  IInv'
  <1> USE DEF queueVars, flagVars, modeVars, linkVars, Goto
  <1>1. /\ TypeOK /\ pc = "callback" /\ pc' = "after" /\ inHand # 0 /\ inHand' = 0
        /\ handled' = Append(handled, inHand)
        /\ UNCHANGED <<queueVars, flagVars, modeVars, status, linkVars, accepted>>
    BY DEF IInv, TakeInv, RunCallback
  <1>2. /\ inHand \in MsgIds /\ inHand \in Nat /\ accepted \in Nat
        /\ Len(msgInDeque) \in Nat
    BY <1>1, ConstantsAssumption DEF TypeOK, MsgIds
  <1>3. /\ Len(handled) \in Nat /\ \A i \in 1..Len(handled) : handled[i] \in Nat
    BY <1>1, HandledAreNumbers
  <1>4. /\ handled' \in Seq(MsgIds)
        /\ Len(handled') = Len(handled) + 1
        /\ \A i \in 1..Len(handled) : handled'[i] = handled[i]
        /\ handled'[Len(handled) + 1] = inHand
    BY <1>1, <1>2 DEF TypeOK
  <1>5. TypeOK'
    <2>1. inHand' \in 0..MaxMsgs
      BY <1>1, ConstantsAssumption
    <2> QED BY <1>1, <1>4, <2>1 DEF TypeOK, RunPcs
  <1>6. AddInv' /\ QueueBound'
    BY <1>1 DEF IInv, AddInv, QueueBound
  <1>7. /\ inHand <= accepted - Len(msgInDeque)
        /\ \A i, j \in 1..Len(handled) : i < j => handled[i] < handled[j]
        /\ \A i \in 1..Len(handled) : /\ handled[i] < inHand
                                      /\ handled[i] <= accepted - Len(msgInDeque)
    BY <1>1 DEF IInv, OrderInv
  <1>8. OrderInv'
    <2>1. ASSUME NEW i \in 1..Len(handled'), NEW j \in 1..Len(handled'), i < j
          PROVE  handled'[i] < handled'[j]
      <3>1. i \in 1..Len(handled)
        BY <1>3, <1>4, <2>1
      <3>2. CASE j = Len(handled) + 1
        BY <1>4, <1>7, <3>1, <3>2
      <3>3. CASE j \in 1..Len(handled)
        BY <1>4, <1>7, <2>1, <3>1, <3>3
      <3> QED BY <1>3, <1>4, <3>2, <3>3
    <2>2. ASSUME NEW i \in 1..Len(handled')
          PROVE  handled'[i] <= accepted' - Len(msgInDeque')
      <3>1. CASE i = Len(handled) + 1
        BY <1>1, <1>4, <1>7, <3>1
      <3>2. CASE i \in 1..Len(handled)
        BY <1>1, <1>4, <1>7, <3>2
      <3> QED BY <1>3, <1>4, <3>1, <3>2
    <2>3. inHand' <= accepted' - Len(msgInDeque')
      BY <1>1, <1>2, <1>7
    <2>4. \A i \in 1..Len(msgInDeque') :
             msgInDeque'[i] = (accepted' - Len(msgInDeque')) + i
      BY <1>1 DEF IInv, OrderInv
    <2> QED BY <1>1, <2>1, <2>2, <2>3, <2>4 DEF OrderInv
  <1>9. TakeInv' /\ LinkInv' /\ KeepInv'
    BY <1>1 DEF IInv, TakeInv, LinkInv, OneListener, KeepInv, Working
  <1> QED BY <1>5, <1>6, <1>8, <1>9 DEF IInv

-----------------------------------------------------------------------------
LEMMA NextIInv ==
    ASSUME IInv, [Next]_vars
    PROVE  IInv'
  <1>1. CASE UNCHANGED vars
    <2> USE <1>1 DEF vars, queueVars, flagVars, modeVars, linkVars, histVars
    <2>1. TypeOK'
      BY DEF IInv, TypeOK
    <2>2. AddInv' /\ OrderInv' /\ QueueBound' /\ TakeInv'
      BY DEF IInv, AddInv, OrderInv, QueueBound, TakeInv
    <2>3. LinkInv' /\ KeepInv'
      BY DEF IInv, LinkInv, OneListener, KeepInv, Working
    <2> QED BY <2>1, <2>2, <2>3 DEF IInv
  <1>2. CASE QuietStep
    BY <1>2, QuietStepIInv
  <1>3. CASE AddLock
    BY <1>3, AddLockIInv
  <1>4. CASE AddPush
    BY <1>4, AddPushIInv
  <1>5. ASSUME NEW c \in Capacities, SetInDeqCapacity(c) PROVE IInv'
    BY <1>5, SetInDeqCapacityIInv
  <1>6. CASE RunTake
    BY <1>6, RunTakeIInv
  <1>7. CASE RunCallback
    BY <1>7, RunCallbackIInv
  <1> QED BY <1>1, <1>2, <1>3, <1>4, <1>5, <1>6, <1>7 DEF Next, RunStep, QuietStep

\* The inductive invariant holds in every reachable state.
THEOREM Invariance == Spec => []IInv
  <1>1. Init => IInv
    BY InitIInv
  <1>2. IInv /\ [Next]_vars => IInv'
    BY NextIInv
  <1> QED BY <1>1, <1>2, PTL DEF Spec

\* However slow the callback is and however often the link breaks, the deque
\* never holds more than one request above its capacity.
THEOREM QueueIsBounded == Spec => []QueueBound
  BY Invariance, PTL DEF IInv

\* The callback sees every request at most once and in the order of arrival.
THEOREM HandledInOrderOnce == Spec => []HandledInOrder
  <1>1. ASSUME IInv PROVE HandledInOrder
    <2>1. /\ Len(msgInDeque) \in Nat /\ accepted \in Nat /\ inHand \in Nat
          /\ \A i \in 1..Len(handled) : handled[i] \in Nat
      BY <1>1, HandledAreNumbers DEF IInv, TypeOK
    <2>2. \A j \in 1..Len(msgInDeque) : /\ msgInDeque[j] = (accepted - Len(msgInDeque)) + j
                                        /\ accepted - Len(msgInDeque) < msgInDeque[j]
      BY <1>1, <2>1 DEF IInv, OrderInv
    <2>3. ASSUME NEW x \in Nat, x <= accepted - Len(msgInDeque),
                 NEW j \in 1..Len(msgInDeque)
          PROVE  x < msgInDeque[j]
      BY <2>1, <2>2, <2>3
    <2>4. /\ \A i, j \in 1..Len(handled) : i < j => handled[i] < handled[j]
          /\ \A i \in 1..Len(handled) : handled[i] <= accepted - Len(msgInDeque)
          /\ inHand <= accepted - Len(msgInDeque)
          /\ inHand # 0 => \A i \in 1..Len(handled) : handled[i] < inHand
      BY <1>1 DEF IInv, OrderInv
    <2> QED BY <2>1, <2>3, <2>4, Zenon DEF HandledInOrder
  <1> QED BY <1>1, Invariance, PTL

\* The pop outside the emptiness test never meets an empty deque.
THEOREM PopIsSafe == Spec => []NoPopFromEmpty
  <1>1. IInv => NoPopFromEmpty
    BY DEF IInv, TakeInv, NoPopFromEmpty
  <1> QED BY <1>1, Invariance, PTL

\* The listener and run() keep the deque sound for any number of requests.
THEOREM QueueAlwaysSound == Spec => []QueueIsSound
  BY Invariance, QueueIsBounded, HandledInOrderOnce, PopIsSafe, PTL
  DEF QueueIsSound, IInv

\* run() of a pipe or WebSocket server never assigns to a joinable m_thrListen.
THEOREM ListenerIsSingle == Spec => []OneListener
  <1>1. IInv => OneListener
    BY DEF IInv, LinkInv
  <1> QED BY <1>1, Invariance, PTL

\* A server that keeps its connection and reports OK has its listener.
THEOREM OkServes == Spec => []OkMeansServing
  <1>1. IInv => OkMeansServing
    BY DEF IInv, KeepInv, OkMeansServing
  <1> QED BY <1>1, Invariance, PTL

\* run() of a server that keeps its connection ends only on request.
THEOREM RunEndsIfAsked == Spec => []EndsOnlyIfAsked
  <1>1. IInv => EndsOnlyIfAsked
    BY DEF IInv, KeepInv, Working, EndsOnlyIfAsked
  <1> QED BY <1>1, Invariance, PTL

\* However run() reconnects: one listener, a true OK, no end unless asked.
THEOREM ListenerAlwaysServes == Spec => []ListenerServes
  BY ListenerIsSingle, OkServes, RunEndsIfAsked, PTL DEF ListenerServes

\* The server implements the lossy FIFO: every step maps to a step of the buffer
\* or to a stutter.
THEOREM ServerImplementsLossyFifo == Spec => ImplementsLossyFifo
  <1>1. Init => Abstract!Init
    BY DEF Init, Abstract!Init
  <1>2. ASSUME IInv, [Next]_vars PROVE [Abstract!Next]_(Abstract!vars)
    <2> USE DEF Abstract!vars, Abstract!Next
    <2>1. CASE UNCHANGED <<msgInDeque, inHand, handled, accepted, capacityMsgDeque>>
      BY <2>1
    <2>2. CASE AddLock
      <3>1. CASE IsFull
        BY <2>2, <3>1 DEF AddLock, IsFull, histVars, Abstract!DropOldest
      <3>2. CASE ~IsFull
        BY <2>1, <2>2, <3>2 DEF AddLock, histVars
      <3> QED BY <3>1, <3>2
    <2>3. CASE AddPush
      BY <1>2, <2>3 DEF IInv, AddInv, AddPush, Abstract!Accept
    <2>4. ASSUME NEW c \in Capacities, SetInDeqCapacity(c)
          PROVE  [Abstract!Next]_(Abstract!vars)
      BY <2>4 DEF SetInDeqCapacity, histVars, Abstract!Resize
    <2>5. CASE RunTake
      BY <1>2, <2>1, <2>5 DEF IInv, TakeInv, RunTake, Goto, histVars, Abstract!Take
    <2>6. CASE RunCallback
      BY <1>2, <2>6 DEF IInv, TakeInv, RunCallback, Goto, queueVars, Abstract!Deliver
    <2>7. CASE QuietStep
      BY <2>1, <2>7, Zenon
      DEF QuietStep, StopLocal, StopGlobal, LinkBreak, LinkReady, RunStart, RunWhile,
          RunEnd, RunNeed, RunCheck, RunStatus, RunEmpty, RunAfter, RunCreate,
          queueVars, histVars
    <2>8. CASE UNCHANGED vars
      BY <2>1, <2>8 DEF vars, queueVars, histVars
    <2> QED BY <1>2, <2>2, <2>3, <2>4, <2>5, <2>6, <2>7, <2>8 DEF Next, RunStep, QuietStep
  <1>3. IInv /\ [Next]_vars => [Abstract!Next]_(Abstract!vars)
    BY <1>2
  <1> QED BY <1>1, <1>3, Invariance, PTL DEF Spec, ImplementsLossyFifo, Abstract!Spec

================================================================================
