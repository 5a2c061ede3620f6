--------------------------- MODULE ConfigManager ----------------------------
(***************************************************************************)
(* ConfigManager with its ConfigMonitor (a FileMonitor) and the verdicts   *)
(* of its ConfigValidator.  One thread runs loadInputConfig() and then     *)
(* stays in startMonitor(); meanwhile an editor rewrites the input file,   *)
(* and the application sets parameters and asks the monitor to stop.       *)
(* A configuration is a flat object: every parameter has a value of which  *)
(* only the validator's verdict matters.                                   *)
(***************************************************************************)
EXTENDS Naturals

CONSTANTS
    Params,         \* parameters described by the constraint file
    Docs,           \* texts the editor may write, see DocType
    NoTree,         \* a JSON value that was never assigned; no JSON at all
    Ruined,         \* a JSON value that is not an object
    Partial,        \* a file cut short
    Absent,         \* there is no file
    AppKeys,        \* keys the application gives to setParamValue()
    Flags,          \* subset of {"given", "null"}: startMonitor's pIsWorking
    Delays,         \* subset of {500, 1000}: m_delayCheckUpdMs
    EarlyStop,      \* may stopMonitor() precede the monitor's loop?
    NsPerSec,       \* different nanosecond stamps the file system makes
    MaxTime,        \* bound: changes of the input file
    MaxLoads,       \* bound: calls of loadInputConfig()
    MaxSets,        \* bound: calls of setParamValue()
    MaxFaults,      \* bound: calls on the output file that fail
    MaxCrashes      \* bound: deaths of the process

\* The verdict of the constraint file on a value: within it ("a", "b"),
\* outside Min..Max or of another type ("wide"), not in Enum ("alien"), or
\* not in the file at all ("lost").
Values == {"a", "b", "wide", "alien", "lost"}
InRange == {"a", "b"}
Settable == Values \ {"lost"}
Trees == [Params -> Values]

DocType == [tree: Trees \cup {NoTree}, style: Nat, size: Nat]
Truncated == [tree |-> NoTree, style |-> 0, size |-> 0]

ASSUME ConstantsAssumption ==
    /\ Docs \subseteq DocType
    /\ Flags \subseteq {"given", "null"}
    /\ Delays \subseteq {500, 1000}
    /\ EarlyStop \in BOOLEAN
    /\ NsPerSec \in Nat \ {0}
    /\ {MaxTime, MaxLoads, MaxSets, MaxFaults, MaxCrashes} \subseteq Nat

\* What stands for something other than a configuration is none.
ASSUME ModelValuesAssumption ==
    /\ {NoTree, Ruined, Partial, Absent} \cap Trees = {}
    /\ NoTree \notin {Ruined, Absent}
    /\ Partial \notin {NoTree, Ruined, Absent}

VARIABLES
    file,           \* the input file: its text and st_mtim
    now,            \* the clock that stamps it
    out, temp,      \* the files m_outConfigPath and m_outConfigPath~
    retOK,          \* what the last saveOutConfig() returned, FALSE if there is none
    failed,         \* history: a call of this save's saveJson() has failed
    kept,           \* history: what was last renamed to m_outConfigPath
    spoiled,        \* history: saveJson() had failed then
    lastStat,       \* m_lastFileStat, NoTree until a file was recorded
    lastDump,       \* m_lastFileDump
    lastTree,       \* m_lastConfigContent
    current,        \* m_currentConfig
    previous,       \* m_previousConfig
    setting,        \* key and value of the setParamValue() that holds
                    \* m_mutexOnConfAccess, NoTree if there is none
    misset,         \* history: keys set against the constraint, set without a
                    \* configuration that has them, or set during a getConfig()
    delay,          \* m_delayCheckUpdMs
    flag,           \* whether startMonitor() was given a pIsWorking
    pIsWorking,     \* the application's flag
    isWorks,        \* m_isWorks
    pc,             \* where the thread is
    caller,         \* in which function: "load", "save" or "monitor"
    newStat,        \* newFileStat
    newDump,        \* newFileDump
    newIn,          \* newInJson, then outJson
    stopAsked,      \* history: stopMonitor() was called
    seen,           \* history: the last tree handed to the callback
    loads, sets, faults, crashes

fileVars   == <<file, now>>
outVars    == <<out, temp, retOK, failed, kept, spoiled, faults>>
lastVars   == <<lastStat, lastDump, lastTree>>
confVars   == <<current, previous, setting, misset>>
flagVars   == <<delay, flag, pIsWorking, isWorks, stopAsked>>
newVars    == <<newStat, newDump, newIn>>
countVars  == <<loads, sets, crashes>>
vars == <<fileVars, outVars, lastVars, confVars, flagVars, pc, caller,
          newVars, seen, countVars>>

\* ConfigValidator::getDefaultConfig(): a Default lies within Min..Max.
Default == [p \in Params |-> "a"]

\* A new ConfigMonitor: memset of the stat, empty dump, null JSON.
NewMonitor ==
    /\ lastStat' = NoTree
    /\ lastDump' = Truncated
    /\ lastTree' = NoTree

\* m_isWorks is not initialised by the constructor, nor read before start() sets it.
Constructed ==
    /\ current = NoTree
    /\ previous = Default
    /\ setting = NoTree
    /\ misset = {}
    /\ retOK = FALSE
    /\ failed = FALSE
    /\ lastStat = NoTree
    /\ lastDump = Truncated
    /\ lastTree = NoTree
    /\ delay \in Delays
    /\ flag \in Flags
    /\ pIsWorking = TRUE
    /\ isWorks = FALSE
    /\ pc = "idle"
    /\ caller = "load"
    /\ newStat = NoTree
    /\ newDump = Truncated
    /\ newIn = NoTree
    /\ stopAsked = FALSE
    /\ seen = NoTree

\* checkExistConfig() wants the input file to exist.
Init ==
    /\ file \in [doc: Docs, mtime: {0}]
    /\ now = 0
    /\ out = Absent
    /\ temp = Absent
    /\ kept = Absent
    /\ spoiled = FALSE
    /\ Constructed
    /\ loads = 0
    /\ sets = 0
    /\ faults = 0
    /\ crashes = 0

-----------------------------------------------------------------------------
(* ConfigValidator                                                         *)

\* validateForOne(): a value is good, to be replaced, or ends in config_error.
Verdict(v) ==
    CASE v \in InRange        -> "ok"
      [] v = "wide"           -> "replace"
      [] v \in {"alien", "lost"} -> "throw"

\* A value to be replaced throws too when the old configuration lacks it.
Throws(tree, old) ==
    \/ \E p \in Params : Verdict(tree[p]) = "throw"
    \/ old \notin Trees /\ \E p \in Params : Verdict(tree[p]) = "replace"

\* A version that keeps the values it has refused.
MutValidateAndReplace(tree, old) == tree

ValidateAndReplace(tree, old) ==
    [p \in Params |-> IF Verdict(tree[p]) = "replace" THEN old[p] ELSE tree[p]]

-----------------------------------------------------------------------------
(* checkConfigNow(), the body of loadInputConfig() and of the monitor      *)

\* The local variables of a function that has returned are gone.
NoLocals ==
    /\ newStat' = NoTree
    /\ newDump' = Truncated
    /\ newIn' = NoTree

\* Where checkConfigNow() returns to.
Return == IF caller = "load" THEN "idle" ELSE "while"

NotNow == UNCHANGED <<fileVars, flagVars, caller, countVars>>

\* The file's nanoseconds and size are what the monitor recorded.
SameStat(f) ==
    /\ lastStat # NoTree
    /\ f.mtime % NsPerSec = lastStat.mtime % NsPerSec
    /\ f.doc.size = lastStat.size

\* checkFileChange() up to the comparison of the two stats.
CheckStat ==
    /\ pc = "stat"
    /\ IF file.doc = Absent \/ SameStat(file)
         THEN pc' = Return /\ UNCHANGED newStat
         ELSE /\ pc' = "dump"
              /\ newStat' = [mtime |-> file.mtime, size |-> file.doc.size]
    /\ UNCHANGED <<newDump, newIn, lastVars, outVars, confVars, seen>>
    /\ NotNow

\* rewriteLastDump() of what was just read.
RewriteLastDump(doc) ==
    /\ lastStat' = newStat
    /\ lastDump' = doc

\* Files::dumpFile(), the comparison with the last dump, JSON::parse() and
\* the comparison of the trees.  A text that is no JSON is not recorded.
CheckDump ==
    /\ pc = "dump"
    /\ \/ /\ file.doc = Absent
          /\ pc' = Return
          /\ UNCHANGED lastVars
       \/ /\ file.doc # Absent
          /\ lastStat # NoTree /\ file.doc = lastDump
          /\ pc' = Return
          /\ RewriteLastDump(file.doc)
          /\ UNCHANGED lastTree
       \/ /\ file.doc # Absent
          /\ lastStat = NoTree \/ file.doc # lastDump
          /\ IF file.doc.tree # NoTree /\ file.doc.tree = lastTree
               THEN pc' = Return /\ RewriteLastDump(file.doc)
               ELSE /\ pc' = IF file.doc.tree = NoTree THEN Return
                             ELSE "validate"
                    /\ UNCHANGED <<lastStat, lastDump>>
          /\ UNCHANGED lastTree
    /\ IF pc' = "validate" THEN newDump' = file.doc /\ UNCHANGED newStat
                           ELSE newDump' = Truncated /\ newStat' = NoTree
    /\ UNCHANGED <<newIn, outVars, confVars, seen>>
    /\ NotNow

\* The callback as far as validateAndReplaceConfig() against the previous
\* configuration.  An exception ends loading, or clears the application's
\* flag through the pointer given to startMonitor(), null or not.
Validate ==
    /\ pc = "validate"
    /\ seen' = newDump.tree
    /\ IF Throws(newDump.tree, previous)
         THEN /\ pc' = IF caller = "monitor" /\ flag = "null" THEN "crashed"
                       ELSE "record"
              /\ pIsWorking' = (pIsWorking /\ caller = "load")
              /\ UNCHANGED newIn
         ELSE /\ pc' = "set"
              /\ newIn' = ValidateAndReplace(newDump.tree, previous)
              /\ UNCHANGED pIsWorking
    /\ UNCHANGED <<newStat, newDump, lastVars, outVars, confVars, fileVars,
                   caller, countVars, delay, flag, isWorks, stopAsked>>

\* setCurrentConfig(), then saveOutConfig() or userCallbackUpd().
SetCurrent ==
    /\ pc = "set"
    /\ setting = NoTree
    /\ current' = newIn
    /\ pc' = IF caller = "load" THEN "save" ELSE "user"
    /\ UNCHANGED <<previous, setting, misset, newVars, lastVars, outVars, seen>>
    /\ NotNow

\* The application's callback may save the configuration.
UserCallback ==
    /\ pc = "user"
    /\ pc' \in {"save", "record"}
    /\ UNCHANGED <<newVars, lastVars, outVars, confVars, seen>>
    /\ NotNow

\* setParamValueToJson() assigns before it knows whether the key exists, so that an
\* unknown key replaces the object that was to hold it.
Assigned(conf, k, v) ==
    IF conf \in Trees /\ k \in Params THEN [conf EXCEPT ![k] = v] ELSE Ruined

\* getConfig() takes no lock: of a value that is being assigned the copy may have
\* the old one, the new one or anything else.
Copies ==
    IF setting = NoTree THEN {current}
    ELSE {current} \cup {Assigned(current, setting.key, v) : v \in Settable}

\* saveOutConfig(): getConfig() and setPreviousConfig().
SaveSnapshot ==
    /\ pc = "save"
    /\ pc' = "open"
    /\ newIn' \in Copies
    /\ previous' = newIn'
    /\ misset' = misset \cup (IF setting = NoTree THEN {} ELSE {setting.key})
    /\ retOK' = FALSE
    /\ UNCHANGED <<current, setting, newStat, newDump, lastVars, out, temp, failed,
                   kept, spoiled, faults, seen>>
    /\ NotNow

\* A call on the output file fails.
Fails == faults < MaxFaults /\ faults' = faults + 1

\* A version that writes the output file in place.
MutSaveOpenInPlace ==
    /\ pc = "open"
    /\ pc' = "write"
    /\ temp' = Partial
    /\ out' = Partial
    /\ UNCHANGED <<retOK, failed, kept, spoiled, faults, newVars, lastVars, confVars,
                   seen>>
    /\ NotNow

\* saveJson(): fopen(), which empties what an earlier save has left, or fails.
SaveOpen ==
    /\ pc = "open"
    /\ \/ pc' = "write" /\ temp' = Partial /\ UNCHANGED <<failed, faults>>
       \/ Fails /\ pc' = "rename" /\ failed' = TRUE /\ UNCHANGED temp
    /\ UNCHANGED <<out, retOK, kept, spoiled, newVars, lastVars, confVars, seen>>
    /\ NotNow

\* saveJson(): fwrite() and fclose() write all or a part; the result of fclose() is
\* not looked at, and what saveJson() returns is overwritten after the rename().
SaveWrite ==
    /\ pc = "write"
    /\ pc' = "rename"
    /\ \/ temp' = newIn /\ UNCHANGED <<failed, faults>>
       \/ Fails /\ temp' = Partial /\ failed' = TRUE
    /\ UNCHANGED <<out, retOK, kept, spoiled, newVars, lastVars, confVars, seen>>
    /\ NotNow

\* rename(), whatever saveJson() returned; then retOK is what chmod() says.
SaveRename ==
    /\ pc = "rename"
    /\ pc' = IF caller = "save" THEN "idle" ELSE "record"
    /\ \/ /\ temp # Absent
          /\ out' = temp
          /\ temp' = Absent
          /\ kept' = newIn
          /\ spoiled' = failed
          /\ \/ retOK' = TRUE /\ UNCHANGED faults
             \/ retOK' = FALSE /\ Fails
       \/ /\ IF temp = Absent THEN UNCHANGED faults ELSE Fails
          /\ retOK' = FALSE
          /\ UNCHANGED <<out, temp, kept, spoiled>>
    /\ failed' = FALSE
    /\ newIn' = NoTree
    /\ UNCHANGED <<newStat, newDump, lastVars, confVars, seen>>
    /\ NotNow

\* A version that reads the file's stat only when it records the file.
MutRecordLateStat ==
    /\ pc = "record"
    /\ pc' = Return
    /\ lastStat' = IF file.doc = Absent THEN newStat
                   ELSE [mtime |-> file.mtime, size |-> file.doc.size]
    /\ lastDump' = newDump
    /\ lastTree' = newDump.tree
    /\ NoLocals
    /\ UNCHANGED <<outVars, confVars, seen>>
    /\ NotNow

\* The end of checkConfigNow(): m_lastConfigContent and rewriteLastDump().
Record ==
    /\ pc = "record"
    /\ pc' = Return
    /\ lastTree' = newDump.tree
    /\ RewriteLastDump(newDump)
    /\ NoLocals
    /\ UNCHANGED <<outVars, confVars, seen>>
    /\ NotNow

-----------------------------------------------------------------------------
(* the functions of ConfigManager the thread calls                         *)

LoadInputConfig ==
    /\ pc = "idle"
    /\ loads < MaxLoads
    /\ loads' = loads + 1
    /\ pc' = "stat"
    /\ caller' = "load"
    /\ UNCHANGED <<fileVars, outVars, lastVars, confVars, flagVars, newVars,
                   seen, sets, crashes>>

\* The application saves the configuration, loaded or not, outside the monitor.
SaveOutConfig ==
    /\ pc = "idle"
    /\ pc' = "save"
    /\ caller' = "save"
    /\ UNCHANGED <<fileVars, outVars, lastVars, confVars, flagVars, newVars,
                   seen, countVars>>

\* The destructor's deleteOutConfig(), which may fail.
DeleteOutConfig ==
    /\ pc \in {"idle", "ended"}
    /\ pc' = "gone"
    /\ \/ out' = Absent /\ kept' = Absent /\ spoiled' = FALSE /\ UNCHANGED faults
       \/ Fails /\ UNCHANGED <<out, kept, spoiled>>
    /\ retOK' = FALSE
    /\ UNCHANGED <<temp, failed, fileVars, lastVars, confVars, flagVars, caller, newVars,
                   seen, countVars>>

\* startMonitor() sleeps for two seconds first.
StartMonitor ==
    /\ pc = "idle"
    /\ pc' = "begin"
    /\ caller' = "monitor"
    /\ UNCHANGED <<fileVars, outVars, lastVars, confVars, flagVars, newVars,
                   seen, countVars>>

\* With another interval the monitor is made anew; then ConfigMonitor::start().
MonitorBegin ==
    /\ pc = "begin"
    /\ IF delay # 500 THEN NewMonitor ELSE UNCHANGED lastVars
    /\ isWorks' = TRUE
    /\ pc' = "while"
    /\ UNCHANGED <<fileVars, outVars, confVars, delay, flag, pIsWorking,
                   stopAsked, caller, newVars, seen, countVars>>

\* A version that ignores the internal flag.
MutWorks == flag = "null" \/ pIsWorking

Works == isWorks /\ (flag = "null" \/ pIsWorking)

\* The condition of the loop; the sleep precedes it.
MonitorWhile ==
    /\ pc = "while"
    /\ pc' = IF Works THEN "stat" ELSE "ended"
    /\ UNCHANGED <<outVars, lastVars, confVars, newVars, seen>>
    /\ NotNow

Thread ==
    \/ MonitorBegin
    \/ MonitorWhile
    \/ CheckStat
    \/ CheckDump
    \/ Validate
    \/ SetCurrent
    \/ UserCallback
    \/ SaveSnapshot
    \/ SaveOpen
    \/ SaveWrite
    \/ SaveRename
    \/ Record

-----------------------------------------------------------------------------
(* the application's other threads, the editor, the machine                *)

\* The object exists and its process lives.
Alive == pc \notin {"crashed", "gone"}

\* setParamValue(), which validates nothing, locks m_mutexOnConfAccess ...
SetParamValue(k, v) ==
    /\ Alive
    /\ setting = NoTree
    /\ sets < MaxSets
    /\ sets' = sets + 1
    /\ setting' = [key |-> k, value |-> v]
    /\ misset' = IF current \in Trees /\ k \in Params /\ v \in InRange
                   THEN misset ELSE misset \cup {k}
    /\ UNCHANGED <<fileVars, outVars, lastVars, current, previous, flagVars, pc,
                   caller, newVars, seen, loads, crashes>>

\* ... and assigns.
SetParamDone ==
    /\ Alive
    /\ setting # NoTree
    /\ setting' = NoTree
    /\ current' = Assigned(current, setting.key, setting.value)
    /\ UNCHANGED <<fileVars, outVars, lastVars, previous, misset, flagVars, pc,
                   caller, newVars, seen, countVars>>

StopMonitor ==
    /\ Alive
    /\ EarlyStop \/ (pc \notin {"idle", "begin"} /\ caller = "monitor")
    /\ isWorks' = FALSE
    /\ stopAsked' = TRUE
    /\ UNCHANGED <<fileVars, outVars, lastVars, confVars, delay, flag,
                   pIsWorking, pc, caller, newVars, seen, countVars>>

Stamp(doc) ==
    /\ now < MaxTime
    /\ now' = now + 1
    /\ file' = [doc |-> doc, mtime |-> now']
    /\ UNCHANGED <<outVars, lastVars, confVars, flagVars, pc, caller, newVars,
                   seen, countVars>>

\* An editor that empties or removes the file and writes it afterwards.
WriteBegin == file.doc \notin {Truncated, Absent}
              /\ (Stamp(Truncated) \/ Stamp(Absent))
WriteEnd == file.doc \in {Truncated, Absent} /\ \E d \in Docs : Stamp(d)

\* An editor that renames a finished file over it.
Replace == \E d \in Docs : Stamp(d)

\* The process dies and is started again; the files stay.
Crash ==
    /\ crashes < MaxCrashes
    /\ crashes' = crashes + 1
    /\ current' = NoTree
    /\ previous' = Default
    /\ setting' = NoTree
    /\ misset' = {}
    /\ retOK' = FALSE
    /\ failed' = FALSE
    /\ NewMonitor
    /\ pIsWorking' = TRUE
    /\ isWorks' = FALSE
    /\ pc' = "idle"
    /\ caller' = "load"
    /\ NoLocals
    /\ stopAsked' = FALSE
    /\ seen' = NoTree
    /\ UNCHANGED <<fileVars, out, temp, kept, spoiled, faults, delay, flag, loads, sets>>

Next ==
    \/ LoadInputConfig
    \/ SaveOutConfig
    \/ DeleteOutConfig
    \/ StartMonitor
    \/ Thread
    \/ \E k \in AppKeys, v \in Settable : SetParamValue(k, v)
    \/ SetParamDone
    \/ StopMonitor
    \/ WriteBegin
    \/ WriteEnd
    \/ Replace
    \/ Crash

\* The threads run, and the application reaches startMonitor(), however often it
\* saves before.
Spec ==
    /\ Init /\ [][Next]_vars
    /\ WF_vars(Thread) /\ WF_vars(SetParamDone) /\ SF_vars(StartMonitor)

-----------------------------------------------------------------------------
(* properties                                                              *)

TypeOK ==
    /\ file \in [doc: Docs \cup {Truncated, Absent}, mtime: 0..MaxTime]
    /\ now = file.mtime
    /\ {out, temp, kept} \subseteq Trees \cup {Absent, Partial, Ruined, NoTree}
    /\ {retOK, failed, spoiled} \subseteq BOOLEAN
    /\ {lastTree, seen} \subseteq Trees \cup {NoTree}
    /\ {current, previous, newIn} \subseteq Trees \cup {NoTree, Ruined}
    /\ setting \in [key: AppKeys, value: Settable] \cup {NoTree}
    /\ misset \subseteq AppKeys
    /\ {lastDump, newDump} \subseteq Docs \cup {Truncated}
    /\ pc \in {"idle", "begin", "while", "stat", "dump", "validate", "set",
               "user", "save", "open", "write", "rename", "record", "ended",
               "crashed", "gone"}

\* validateAndReplaceConfig(), setParamValue(), saveOutConfig(): what the application
\* spoils stays where it was.  A parameter of the configuration in force, or of the
\* one that replaces bad values, violates the constraint only if this very parameter
\* was set wrongly or during a save, however loading, setting and saving interleave;
\* and a configuration that is no object comes from such a call only.
ConfigInRange ==
    \A conf \in {current, previous} :
        /\ conf \in Trees => \A p \in Params \ misset : conf[p] \in InRange
        /\ conf = Ruined => misset # {}

\* The variables have their types and the configuration its range.
ConfigIsSound == TypeOK /\ ConfigInRange

\* checkFileChange(): a file the monitor takes for unchanged is unchanged.
\* Its stat is read before its text, so an edit in between is seen later.  (As
\* long as no two changes have the same nanoseconds.)
UnchangedIsSeen ==
    /\ MaxTime < NsPerSec
    /\ pc \in {"idle", "while"} /\ file.doc # Absent /\ SameStat(file)
    => file.doc = lastDump

\* checkConfigNow(): the callback runs only when the tree of the file differs
\* from the one it was called for before -- with the interval of 500 ms: another
\* one makes startMonitor() build a monitor that knows no tree.
OnlyOnChange ==
    [][delay = 500 /\ pc = "validate" /\ pc' \in {"set", "record", "crashed"}
         => seen' # seen]_vars

\* saveOutConfig() between the snapshot and the rename.
Saving == {"open", "write", "rename"}

\* saveOutConfig(): wherever the process dies or rename() fails, the output file
\* holds the whole of a saved configuration, the last one that was renamed, and after
\* a save that returned true the one that replaces bad values -- unless saveJson()
\* had failed, which does not keep saveOutConfig() from renaming what there is.
OutputIsWhole ==
    ~spoiled =>
        /\ out = kept /\ out # Partial
        /\ retOK => out = previous

\* The tree of the input file, NoTree if it is no JSON.
FileTree == IF file.doc = Absent THEN NoTree ELSE file.doc.tree

\* startMonitor(): the last text of the file, if it is JSON, reaches the
\* callback unless the monitor stops.
LastTextArrives ==
    \A t \in {d.tree : d \in Docs} \ {NoTree} :
        now = MaxTime /\ FileTree = t
            ~> seen = t \/ pc \in {"ended", "crashed", "gone"}

\* The callback follows the file: it runs for a new tree only, and for the last one.
CallbackFollowsFile == OnlyOnChange /\ LastTextArrives

\* stopMonitor() called when the loop runs ends it.
StopEnds == stopAsked ~> ~stopAsked \/ pc \in {"ended", "crashed", "gone"}
=============================================================================
