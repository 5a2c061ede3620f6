------------------------------ MODULE LogRotation ------------------------------
(***************************************************************************)
(* LoggerPP::run() and one of its three log files, which it treats alike:  *)
(* at a new day the file is copied to an archive named after the day       *)
(* before and emptied, and old archives are removed, while other threads   *)
(* log and the process may be started again.  The file stays below the     *)
(* size at which easylogging++ empties it and can always be opened; a copy *)
(* may fail.                                                               *)
(***************************************************************************)
EXTENDS Naturals

CONSTANTS
    TimeLiveDays,   \* m_timeLiveDays
    MaxDays,        \* bound: the last day
    MaxLines,       \* bound: lines that are logged
    MaxBacks,       \* bound: times the clock is set back by a day
    MaxStarts       \* bound: starts of the process

VARIABLES
    today,
    lastTimeStamp, oldLastTimeStamp,
    turn,           \* where run() is
    live,           \* the lines in the log file, each <<number, day>>
    kept,           \* the archives, by day: their lines and the day they were made
    logged,         \* number of lines logged
    expected,       \* history: lines the code does not give up (see LinesKept)
    backs, starts

clockVars == <<today, backs>>
stampVars == <<lastTimeStamp, oldLastTimeStamp>>
rotVars == <<clockVars, stampVars, turn, live, kept, logged, expected, starts>>

RotInit ==
    /\ today = 1 /\ backs = 0 /\ starts = 1
    /\ lastTimeStamp = 1 /\ oldLastTimeStamp = 1
    /\ turn = "loop"
    /\ live = {} /\ kept = <<>>
    /\ logged = 0 /\ expected = {}

--------------------------------------------------------------------------------
(* run()                                                                       *)

\* A version that does not store the new day's date.
MutCheckNewDay ==
    /\ turn = "loop"
    /\ turn' = IF lastTimeStamp # today THEN "copy" ELSE "clean"
    /\ oldLastTimeStamp' = lastTimeStamp
    /\ UNCHANGED <<clockVars, lastTimeStamp, live, kept, logged, expected, starts>>

CheckNewDay ==
    /\ turn = "loop"
    /\ turn' = IF lastTimeStamp # today THEN "copy" ELSE "clean"
    /\ oldLastTimeStamp' = lastTimeStamp
    /\ lastTimeStamp' = today
    /\ UNCHANGED <<clockVars, live, kept, logged, expected, starts>>

ArchiveName == oldLastTimeStamp

Archive(content) ==
    kept' = [d \in DOMAIN kept \cup {ArchiveName} |->
                IF d = ArchiveName THEN [lines |-> content, made |-> today] ELSE kept[d]]

\* Files::copyFile() without override: it copies all or, when a write fails, a part;
\* it cannot open a file; or it refuses a name that is taken.  Nobody looks at its
\* result.
Copy ==
    /\ turn = "copy"
    /\ \/ /\ ArchiveName \notin DOMAIN kept
          /\ \E copied \in SUBSET live :
                Archive(copied) /\ expected' = expected \ (live \ copied)
       \/ /\ ArchiveName \notin DOMAIN kept
          /\ UNCHANGED kept /\ expected' = expected \ live
       \/ /\ ArchiveName \in DOMAIN kept
          /\ UNCHANGED <<kept, expected>>
    /\ turn' = "truncate"
    /\ UNCHANGED <<clockVars, stampVars, live, logged, starts>>

\* fopen("w") and recreateLogger().
Truncate ==
    /\ turn = "truncate"
    /\ live' = {}
    /\ turn' = "clean"
    /\ UNCHANGED <<clockVars, stampVars, kept, logged, expected, starts>>

\* remove_files_older_than(): archives older than TimeLiveDays, counted in hours;
\* a removal may fail, and with an exception the ones after it are left.
Clean ==
    /\ turn = "clean"
    /\ \E old \in SUBSET {d \in DOMAIN kept : today >= kept[d].made + TimeLiveDays} :
        /\ kept' = [d \in DOMAIN kept \ old |-> kept[d]]
        /\ expected' = expected \ UNION {kept[d].lines : d \in old}
    /\ turn' = "loop"
    /\ oldLastTimeStamp' = lastTimeStamp
    /\ UNCHANGED <<clockVars, lastTimeStamp, live, logged, starts>>

--------------------------------------------------------------------------------
(* The other threads, the clock and the process                                *)

\* A line that comes between the copy and the truncation is given up.
Log ==
    LET line == <<logged + 1, today>>
    IN  /\ logged < MaxLines
        /\ logged' = logged + 1
        /\ live' = live \cup {line}
        /\ expected' = IF turn = "truncate" THEN expected ELSE expected \cup {line}
        /\ UNCHANGED <<clockVars, stampVars, turn, kept, starts>>

\* A day is long: run(), which sleeps for half a second, is done with its beginning.
Midnight ==
    /\ today < MaxDays
    /\ lastTimeStamp = today /\ turn \in {"loop", "clean"}
    /\ today' = today + 1
    /\ UNCHANGED <<backs, stampVars, turn, live, kept, logged, expected, starts>>

SetBack ==
    /\ today > 1 /\ backs < MaxBacks
    /\ today' = today - 1 /\ backs' = backs + 1
    /\ UNCHANGED <<stampVars, turn, live, kept, logged, expected, starts>>

\* The process ends at any point and run() begins again.
StartAgain ==
    /\ starts < MaxStarts
    /\ starts' = starts + 1
    /\ turn' = "loop"
    /\ lastTimeStamp' = today /\ oldLastTimeStamp' = today
    /\ UNCHANGED <<clockVars, live, kept, logged, expected>>

RotNext ==
    \/ CheckNewDay \/ Copy \/ Truncate \/ Clean
    \/ Log \/ Midnight \/ SetBack \/ StartAgain

RotSpec == RotInit /\ [][RotNext]_rotVars

--------------------------------------------------------------------------------
\* Whatever day changes, clean-ups and restarts there are, a line stays in the log
\* file or in an archive, except a line written between the copy of the file and its
\* truncation, the lines of a file whose copy failed, and those of archives past
\* their time -- as long as the clock is not set back: then the archive's name may be
\* taken, the copy is refused, and the file is emptied all the same (run(),
\* Files::copyFile()).
LinesKept ==
    backs = 0 => expected \subseteq live \cup UNION {kept[d].lines : d \in DOMAIN kept}

\* An archive holds lines of its day, and of the next one before run() saw it; lines
\* of earlier days only if the process was started again, which leaves the file of
\* the day before as it is (checkNewDay(), run()).
FiledByDay ==
    backs = 0 => \A d \in DOMAIN kept : \A line \in kept[d].lines :
                    line[2] <= d + 1 /\ (starts = 1 => line[2] >= d)

\* run() keeps every line it can, under the day it belongs to.
LinesAreFiled == LinesKept /\ FiledByDay
================================================================================
