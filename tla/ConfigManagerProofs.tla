-------------------------- MODULE ConfigManagerProofs --------------------------
(* ConfigManager and its monitor for any parameters, texts and bounds: the
   configuration in force, the file taken for unchanged, the output file, and the
   callback.                                                                      *)
EXTENDS ConfigManager, TLAPS

Texts == Docs \cup {Truncated}
Stats == [mtime : Nat, size : Nat]
Validating == {"validate", "set", "user", "save", "open", "write", "rename", "record"}

\* checkConfigNow() has a new text in hand.
Checking == pc \in Validating /\ caller # "save"

-----------------------------------------------------------------------------
(* Types                                                                     *)

\* TypeOK, and the variables it leaves out.
Types ==
    /\ TypeOK
    /\ lastStat \in Stats \cup {NoTree}
    /\ newStat \in Stats \cup {NoTree}
    /\ pc = "dump" \/ Checking => newStat \in Stats
    /\ pc = "validate" => newDump.tree # NoTree
    /\ caller = "save" => pc \in {"save", "idle", "gone"} \cup Saving

\* saveOutConfig() by itself validates and records nothing.
LEMMA OnlySaving == Types /\ pc \in {"validate", "set", "user", "record"} => caller # "save"
BY DEF Types, Saving

\* The texts of the input file are documents.
LEMMA TextTypes == Texts \subseteq DocType /\ \A d \in Texts : d.size \in Nat
BY ConstantsAssumption DEF Texts, Truncated, DocType

\* validateAndReplaceConfig() that does not throw gives a configuration, with a value
\* within the constraint wherever the old configuration has one.
LEMMA Replaced ==
    ASSUME NEW tree \in Trees, NEW old, ~Throws(tree, old)
    PROVE  /\ ValidateAndReplace(tree, old) \in Trees
           /\ \A p \in Params : \/ ValidateAndReplace(tree, old)[p] \in InRange
                               \/ /\ old \in Trees
                                  /\ ValidateAndReplace(tree, old)[p] = old[p]
<1>1. \A v \in Values : Verdict(v) = "throw" \/ v \in InRange \/ Verdict(v) = "replace"
  BY DEF Values, Verdict, InRange
<1>2. \A p \in Params : tree[p] \in InRange \/ Verdict(tree[p]) = "replace"
  BY <1>1, Zenon DEF Throws, Trees
<1>3. \A p \in Params : Verdict(tree[p]) = "replace" => old \in Trees
  BY Zenon DEF Throws
<1>4. \A p \in Params : old \in Trees => old[p] \in Values
  BY DEF Trees
<1>5. \A p \in Params : tree[p] \in Values
  BY DEF Trees
<1> DEFINE new == ValidateAndReplace(tree, old)
<1>6. new = [p \in Params |-> IF Verdict(tree[p]) = "replace" THEN old[p] ELSE tree[p]]
  BY DEF ValidateAndReplace
<1>7. new \in Trees
  BY <1>3, <1>4, <1>5, <1>6, Zenon DEF Trees
<1>8. \A p \in Params : new[p] \in InRange \/ (old \in Trees /\ new[p] = old[p])
  BY <1>2, <1>3, <1>6, Zenon
<1> QED BY <1>7, <1>8

\* What setParamValueToJson() leaves behind.
LEMMA AssignedType ==
    ASSUME NEW conf, NEW k, NEW v \in Settable
    PROVE  /\ Assigned(conf, k, v) \in Trees \cup {Ruined}
           /\ Assigned(conf, k, v) # Ruined =>
                 /\ conf \in Trees /\ k \in Params
                 /\ Assigned(conf, k, v) = [conf EXCEPT ![k] = v]
<1>1. CASE conf \in Trees /\ k \in Params
  <2>1. [conf EXCEPT ![k] = v] \in Trees
    BY <1>1 DEF Trees, Settable
  <2> QED BY <1>1, <2>1 DEF Assigned
<1>2. CASE ~(conf \in Trees /\ k \in Params)
  BY <1>2 DEF Assigned
<1> QED BY <1>1, <1>2

\* The constructor gives the variables their types.
LEMMA InitTypes == Init => Types
<1> SUFFICES ASSUME Init PROVE Types
  OBVIOUS
<1>1. Default \in Trees
  BY DEF Default, Trees, Values
<1>2. file \in [doc: Docs \cup {Truncated, Absent}, mtime: 0..MaxTime] /\ now = file.mtime
  BY ConstantsAssumption DEF Init
<1>3. TypeOK
  BY <1>1, <1>2, Zenon DEF Init, Constructed, TypeOK
<1> QED BY <1>3 DEF Init, Constructed, Types, Checking, Validating

\* A step of checkConfigNow() up to the validation keeps the types.
LEMMA CheckKeepsTypes ==
    ASSUME Types, CheckStat \/ CheckDump
    PROVE  Types'
<1> USE DEF Types, TypeOK, NotNow, Return, fileVars, outVars, confVars, lastVars, flagVars,
        countVars, Checking, Validating, Saving
<1>1. CASE CheckStat
  <2>1. file.doc # Absent => file.doc.size \in Nat
    BY TextTypes DEF Texts
  <2> QED BY <1>1, <2>1 DEF CheckStat, Stats
<1>2. CASE CheckDump
  <2>1. file.doc # Absent => file.doc \in Docs \cup {Truncated}
    OBVIOUS
  <2>2. /\ newDump' \in Docs \cup {Truncated} /\ UNCHANGED <<lastTree, newIn, caller>>
        /\ newStat' \in Stats \cup {NoTree}
        /\ pc' = "validate" => newStat' \in Stats
    BY <1>2, <2>1 DEF CheckDump
  <2>3. /\ lastStat' \in Stats \cup {NoTree} /\ lastDump' \in Docs \cup {Truncated}
        /\ pc' \in {"idle", "while", "validate"}
        /\ pc' = "validate" => newDump'.tree # NoTree
    BY <1>2, <2>1 DEF CheckDump, RewriteLastDump
  <2> QED BY <1>2, <2>2, <2>3 DEF CheckDump
<1> QED BY <1>1, <1>2

\* Validation and the callback keep the types.
LEMMA ValidateKeepsTypes ==
    ASSUME Types, Validate
    PROVE  Types'
<1> USE DEF Types
<1>1. newDump.tree \in Trees
  BY TextTypes DEF Validate, TypeOK, Texts, DocType
<1>2. ~Throws(newDump.tree, previous) => newIn' \in Trees
  BY <1>1, Replaced DEF Validate
<1>3. newIn' \in Trees \cup {NoTree, Ruined} /\ pc' \in {"crashed", "record", "set"}
  BY <1>2 DEF Validate, TypeOK
<1> QED BY <1>1, <1>3 DEF Validate, TypeOK, fileVars, outVars, confVars, lastVars, countVars,
        Checking, Validating, Saving

\* The output file holds what was written: a configuration or a part of it.
LEMMA SaveKeepsTypes ==
    ASSUME Types, SetCurrent \/ UserCallback \/ SaveSnapshot \/ SaveOpen \/ SaveWrite
                  \/ SaveRename \/ Record
    PROVE  Types'
<1> USE DEF Types, TypeOK, NotNow, Return, fileVars, outVars, confVars, lastVars, flagVars,
        newVars, countVars, Checking, Validating, Saving
<1>1. CASE SetCurrent \/ UserCallback
  BY <1>1 DEF SetCurrent, UserCallback
<1>2. CASE SaveSnapshot
  <2>1. \A conf \in Copies : conf \in Trees \cup {NoTree, Ruined}
    BY AssignedType DEF Copies
  <2>2. previous' = newIn' /\ newIn' \in Trees \cup {NoTree, Ruined}
    BY <1>2, <2>1 DEF SaveSnapshot
  <2>3. misset' \subseteq AppKeys
    BY <1>2 DEF SaveSnapshot
  <2> QED BY <1>2, <2>2, <2>3, Zenon DEF SaveSnapshot
<1>3. CASE SaveOpen
  BY <1>3, Zenon DEF SaveOpen
<1>4. CASE SaveWrite
  BY <1>4, Zenon DEF SaveWrite
<1>5. CASE SaveRename
  BY <1>5, Zenon DEF SaveRename
<1>6. CASE Record
  <2>1. newDump.tree \in Trees \cup {NoTree}
    BY TextTypes DEF Texts, DocType
  <2> QED BY <1>6, <2>1 DEF Record, RewriteLastDump, NoLocals
<1> QED BY <1>1, <1>2, <1>3, <1>4, <1>5, <1>6

\* The editor's texts are documents, and each has a stamp of its own.
LEMMA StampKeepsTypes ==
    ASSUME Types, NEW doc \in Docs \cup {Truncated, Absent}, Stamp(doc)
    PROVE  Types'
<1>1. file' \in [doc : Docs \cup {Truncated, Absent}, mtime : 0..MaxTime]
      /\ now' = file'.mtime
  BY ConstantsAssumption DEF Stamp, Types, TypeOK
<1> QED BY <1>1 DEF Stamp, Types, TypeOK, outVars, lastVars, confVars, flagVars, newVars,
        countVars, Checking, Validating, Saving

\* The application's calls, the monitor's loop and a new process keep the types.
LEMMA OtherKeepsTypes ==
    ASSUME Types,
           \/ LoadInputConfig \/ StartMonitor \/ MonitorBegin \/ MonitorWhile
           \/ StopMonitor \/ SaveOutConfig \/ DeleteOutConfig \/ Crash \/ SetParamDone
           \/ \E k \in AppKeys, v \in Settable : SetParamValue(k, v)
    PROVE  Types'
<1> USE DEF Types, TypeOK, NotNow, fileVars, outVars, confVars, lastVars, flagVars,
        newVars, countVars, Checking, Validating, Saving
<1>1. CASE LoadInputConfig \/ StartMonitor \/ StopMonitor \/ SaveOutConfig
  BY <1>1 DEF LoadInputConfig, StartMonitor, StopMonitor, SaveOutConfig
<1>2. CASE MonitorBegin
  BY <1>2 DEF MonitorBegin, NewMonitor
<1>3. CASE MonitorWhile
  BY <1>3 DEF MonitorWhile
<1>4. CASE Crash
  <2>1. Default \in Trees
    BY DEF Default, Trees, Values
  <2> QED BY <1>4, <2>1, Zenon DEF Crash, NewMonitor, NoLocals
<1>5. CASE DeleteOutConfig
  BY <1>5, Zenon DEF DeleteOutConfig
<1>6. ASSUME NEW k \in AppKeys, NEW v \in Settable, SetParamValue(k, v) PROVE Types'
  BY <1>6 DEF SetParamValue
<1>7. CASE SetParamDone
  <2>1. current' \in Trees \cup {Ruined}
    BY <1>7, AssignedType DEF SetParamDone
  <2> QED BY <1>7, <2>1 DEF SetParamDone
<1> QED BY <1>1, <1>2, <1>3, <1>4, <1>5, <1>6, <1>7

\* Every step keeps the types.
LEMMA StepTypes == Types /\ [Next]_vars => Types'
<1> SUFFICES ASSUME Types, [Next]_vars PROVE Types'
  OBVIOUS
<1>1. CASE UNCHANGED vars
  BY <1>1 DEF vars, fileVars, outVars, lastVars, confVars, flagVars, newVars, countVars,
      Types, TypeOK, Checking
<1>2. CASE WriteBegin \/ WriteEnd \/ Replace
  BY <1>2, StampKeepsTypes DEF WriteBegin, WriteEnd, Replace
<1>3. CASE Thread
  BY <1>3, CheckKeepsTypes, ValidateKeepsTypes, SaveKeepsTypes, OtherKeepsTypes DEF Thread
<1> QED BY <1>1, <1>2, <1>3, OtherKeepsTypes DEF Next

\* The variables of ConfigManager always have their types.
LEMMA AlwaysTyped == Spec => []Types
BY InitTypes, StepTypes, PTL DEF Spec

-----------------------------------------------------------------------------
(* The configuration in force                                                *)

\* A configuration that the application has spoilt at most in the parameters m.
Sound(conf, m) ==
    /\ conf \in Trees => \A p \in Params \ m : conf[p] \in InRange
    /\ conf = Ruined => m # {}

\* What is in force, what replaces bad values and what validation has passed is spoilt
\* in the recorded parameters only, and the value that is being set spoils no other.
RangeInv ==
    /\ Sound(current, misset)
    /\ Sound(previous, misset)
    /\ pc = "set" => Sound(newIn, misset)
    /\ setting # NoTree => \/ setting.key \in misset
                           \/ /\ current \in Trees
                              /\ setting.key \in Params /\ setting.value \in InRange

\* More spoilt parameters do not harm.
LEMMA SoundGrows ==
    ASSUME NEW conf, NEW m, NEW n, m \subseteq n, Sound(conf, m)
    PROVE  Sound(conf, n)
BY DEF Sound

\* An assignment spoils at most the parameter that is assigned.
LEMMA AssignedSound ==
    ASSUME NEW conf, NEW m, NEW k, NEW v \in Settable, Sound(conf, m),
           k \in m \/ (conf \in Trees /\ k \in Params /\ v \in InRange)
    PROVE  Sound(Assigned(conf, k, v), m)
<1>1. CASE conf \in Trees /\ k \in Params
  <2>1. Assigned(conf, k, v) = [conf EXCEPT ![k] = v]
    BY <1>1 DEF Assigned
  <2>2. [conf EXCEPT ![k] = v] \in Trees
    BY <1>1 DEF Trees, Settable
  <2>3. Ruined \notin Trees
    BY ModelValuesAssumption
  <2>4. ASSUME NEW p \in Params \ m PROVE [conf EXCEPT ![k] = v][p] \in InRange
    <3>1. CASE p = k
      BY <1>1, <2>4, <3>1 DEF Trees
    <3>2. CASE p # k
      BY <1>1, <2>4, <3>2 DEF Trees, Sound
    <3> QED BY <3>1, <3>2
  <2> QED BY <2>1, <2>2, <2>3, <2>4, Zenon DEF Sound
<1>2. CASE ~(conf \in Trees /\ k \in Params)
  <2>1. Assigned(conf, k, v) = Ruined /\ Ruined \notin Trees
    BY <1>2, ModelValuesAssumption DEF Assigned
  <2> QED BY <1>2, <2>1 DEF Sound
<1> QED BY <1>1, <1>2

\* Validation takes over no value that the old configuration was not spoilt in.
LEMMA ValidateRange ==
    ASSUME Types, RangeInv, Validate
    PROVE  RangeInv'
<1>1. newDump.tree \in Trees
  BY TextTypes DEF Validate, Types, TypeOK, Texts, DocType
<1>2. ASSUME ~Throws(newDump.tree, previous) PROVE Sound(newIn', misset)
  <2>1. /\ newIn' \in Trees
        /\ \A p \in Params : newIn'[p] \in InRange
                              \/ (previous \in Trees /\ newIn'[p] = previous[p])
    BY <1>1, <1>2, Replaced DEF Validate
  <2>2. Ruined \notin Trees
    BY ModelValuesAssumption
  <2> QED BY <2>1, <2>2 DEF Sound, RangeInv
<1> QED BY <1>2 DEF Validate, RangeInv, confVars

\* The copy that is saved, and that replaces bad values from then on.
LEMMA SnapshotRange ==
    ASSUME Types, RangeInv, SaveSnapshot
    PROVE  RangeInv'
<1>1. misset \subseteq misset' /\ (setting # NoTree => setting.key \in misset')
  BY DEF SaveSnapshot
<1>2. Sound(current, misset')
  BY <1>1, SoundGrows DEF RangeInv
<1>3. ASSUME setting # NoTree, NEW v \in Settable
      PROVE  Sound(Assigned(current, setting.key, v), misset')
  BY <1>1, <1>2, <1>3, AssignedSound
<1>4. Sound(newIn', misset')
  BY <1>2, <1>3 DEF SaveSnapshot, Copies
<1> QED BY <1>1, <1>2, <1>4 DEF SaveSnapshot, RangeInv

\* setParamValue().
LEMMA SetRange ==
    ASSUME Types, RangeInv,
           SetParamDone \/ \E k \in AppKeys, v \in Settable : SetParamValue(k, v)
    PROVE  RangeInv'
<1>1. ASSUME NEW k \in AppKeys, NEW v \in Settable, SetParamValue(k, v) PROVE RangeInv'
  <2>1. misset \subseteq misset' /\ UNCHANGED <<current, previous, newIn, pc>>
    BY <1>1 DEF SetParamValue, newVars
  <2>2. /\ Sound(current', misset') /\ Sound(previous', misset')
        /\ pc' = "set" => Sound(newIn', misset')
    BY <2>1, SoundGrows DEF RangeInv
  <2> QED BY <1>1, <2>2 DEF SetParamValue, RangeInv
<1>2. CASE SetParamDone
  <2>1. setting.value \in Settable /\ setting # NoTree
    BY <1>2 DEF SetParamDone, Types, TypeOK
  <2>2. Sound(Assigned(current, setting.key, setting.value), misset)
    BY <2>1, AssignedSound DEF RangeInv
  <2> QED BY <1>2, <2>2 DEF SetParamDone, RangeInv, newVars
<1> QED BY <1>1, <1>2

\* Every step keeps it.
LEMMA StepRange == Types /\ RangeInv /\ [Next]_vars => RangeInv'
<1> SUFFICES ASSUME Types, RangeInv, [Next]_vars PROVE RangeInv'
  OBVIOUS
<1> USE DEF NotNow, confVars, newVars
<1>1. ASSUME UNCHANGED confVars, pc' = "set" => pc = "set" /\ UNCHANGED newIn
      PROVE  RangeInv'
  BY <1>1 DEF RangeInv
<1>2. CASE CheckStat \/ CheckDump \/ UserCallback \/ SaveOpen \/ SaveWrite \/ SaveRename
           \/ Record \/ MonitorBegin \/ MonitorWhile \/ LoadInputConfig \/ StartMonitor
           \/ SaveOutConfig \/ DeleteOutConfig
  <2>1. UNCHANGED confVars /\ pc' # "set"
    BY <1>2 DEF CheckStat, CheckDump, UserCallback, SaveOpen, SaveWrite, SaveRename, Record,
        MonitorBegin, MonitorWhile, LoadInputConfig, StartMonitor, SaveOutConfig,
        DeleteOutConfig, Return
  <2> QED BY <1>1, <2>1
<1>3. CASE SetCurrent
  BY <1>3 DEF SetCurrent, RangeInv
<1>4. CASE StopMonitor \/ WriteBegin \/ WriteEnd \/ Replace
  <2>1. UNCHANGED <<confVars, newIn, pc>>
    BY <1>4 DEF StopMonitor, WriteBegin, WriteEnd, Replace, Stamp
  <2> QED BY <1>1, <2>1
<1>5. CASE Crash
  <2>1. \A m : Sound(Default, m) /\ Sound(NoTree, m)
    BY ModelValuesAssumption DEF Sound, Default, Trees, InRange, Values
  <2> QED BY <1>5, <2>1, Zenon DEF Crash, RangeInv
<1>6. CASE UNCHANGED vars
  BY <1>1, <1>6 DEF vars
<1> QED BY <1>2, <1>3, <1>4, <1>5, <1>6, ValidateRange, SnapshotRange, SetRange
    DEF Next, Thread

\* validateAndReplaceConfig(), setParamValue(), saveOutConfig(): for any parameters,
\* texts and keys and however the threads interleave, what is in force and what replaces
\* bad values violates the constraint only in parameters the application has set wrongly
\* or during a save.
THEOREM ConfigAlwaysSound == Spec => []ConfigIsSound
<1>1. Init => RangeInv
  BY ModelValuesAssumption
  DEF Init, Constructed, RangeInv, Sound, Default, Trees, InRange, Values
<1>2. Types /\ RangeInv => ConfigIsSound
  BY DEF Types, RangeInv, Sound, ConfigInRange, ConfigIsSound
<1> QED BY <1>1, <1>2, AlwaysTyped, StepRange, PTL DEF Spec

-----------------------------------------------------------------------------
(* The file that is taken for unchanged                                      *)

\* A stat that carries the stamp of the file as it is belongs to its text: the
\* text was read after the stat, and the file has not been stamped since.
StampInv ==
    /\ lastStat # NoTree => /\ lastStat.mtime <= now
                            /\ lastStat.mtime = now => file.doc = lastDump
    /\ pc = "dump" => /\ newStat.mtime <= now
                      /\ newStat.mtime = now => file.doc # Absent
    /\ Checking => /\ newStat.mtime <= now
                   /\ newStat.mtime = now => file.doc = newDump

\* The steps of the editor: a newer stamp than any that was recorded.
LEMMA StampKeepsStampInv ==
    ASSUME Types, StampInv, NEW doc, Stamp(doc)
    PROVE  StampInv'
<1>1. now \in Nat /\ now' = now + 1
  BY ConstantsAssumption DEF Stamp, Types, TypeOK
<1>2. lastStat # NoTree => lastStat.mtime \in Nat
  BY DEF Types, Stats
<1>3. pc = "dump" \/ Checking => newStat.mtime \in Nat
  BY DEF Types, Stats
<1> QED BY <1>1, <1>2, <1>3 DEF Stamp, StampInv, lastVars, newVars, Checking

\* Every step keeps it.
LEMMA StepStamps == Types /\ StampInv /\ [Next]_vars => StampInv'
<1> SUFFICES ASSUME Types, StampInv, [Next]_vars PROVE StampInv'
  OBVIOUS
<1> USE DEF StampInv, NotNow, fileVars, lastVars, newVars, Checking, Validating
<1>0. now = file.mtime /\ now \in Nat
  BY ConstantsAssumption DEF Types, TypeOK
<1>1. CASE CheckStat
  BY <1>0, <1>1 DEF CheckStat, Return
<1>2. CASE CheckDump
  BY <1>2 DEF CheckDump, RewriteLastDump, Return, Types
<1>3. CASE Validate \/ SetCurrent \/ UserCallback \/ SaveSnapshot \/ SaveOpen
           \/ SaveWrite \/ SaveRename
  BY <1>3 DEF Validate, SetCurrent, UserCallback, SaveSnapshot, SaveOpen, SaveWrite,
      SaveRename
<1>4. CASE Record
  BY <1>4, OnlySaving DEF Record, RewriteLastDump, NoLocals, Return
<1>5. CASE MonitorBegin \/ Crash
  BY <1>5 DEF MonitorBegin, Crash, NewMonitor, NoLocals
<1>6. CASE MonitorWhile \/ LoadInputConfig \/ StartMonitor \/ StopMonitor \/ SaveOutConfig
           \/ DeleteOutConfig
  BY <1>6 DEF MonitorWhile, LoadInputConfig, StartMonitor, StopMonitor, SaveOutConfig,
      DeleteOutConfig
<1>7. ASSUME SetParamDone \/ \E k \in AppKeys, v \in Settable : SetParamValue(k, v)
      PROVE  StampInv'
  BY <1>7, Zenon DEF SetParamDone, SetParamValue
<1>8. CASE WriteBegin \/ WriteEnd \/ Replace
  BY <1>8, StampKeepsStampInv DEF WriteBegin, WriteEnd, Replace
<1>9. CASE UNCHANGED vars
  BY <1>9 DEF vars
<1> QED BY <1>1, <1>2, <1>3, <1>4, <1>5, <1>6, <1>7, <1>8, <1>9 DEF Next, Thread

\* Nanoseconds tell stamps below one second's number of them apart.
LEMMA SmallStamps ==
    ASSUME NEW n \in Nat \ {0}, NEW i \in Nat, NEW j \in Nat, i < n, j < n, i % n = j % n
    PROVE  i = j
<1>1. i % n = i /\ j % n = j
  OBVIOUS
<1> QED BY <1>1

\* checkFileChange(): however edits interleave with the monitor's reading of the stat
\* and of the text, a file whose stat it knows has the text it knows.
THEOREM UnchangedIsAlwaysSeen == Spec => []UnchangedIsSeen
<1>1. Init => StampInv
  BY DEF Init, Constructed, StampInv, Checking, Validating
<1>2. Types /\ StampInv => UnchangedIsSeen
  <2> SUFFICES ASSUME Types, StampInv, MaxTime < NsPerSec, file.doc # Absent, SameStat(file)
               PROVE  file.doc = lastDump
    BY DEF UnchangedIsSeen
  <2>1. /\ lastStat # NoTree /\ lastStat.mtime \in Nat /\ lastStat.mtime <= now
        /\ now = file.mtime /\ now \in 0..MaxTime
    BY DEF Types, TypeOK, Stats, StampInv, SameStat
  <2>2. NsPerSec \in Nat \ {0} /\ MaxTime \in Nat
    BY ConstantsAssumption
  <2>3. lastStat.mtime < NsPerSec /\ now < NsPerSec
    BY <2>1, <2>2
  <2>4. lastStat.mtime = now
    BY <2>1, <2>2, <2>3, SmallStamps DEF SameStat
  <2> QED BY <2>1, <2>4 DEF StampInv
<1> QED BY <1>1, <1>2, AlwaysTyped, StepStamps, PTL DEF Spec

-----------------------------------------------------------------------------
(* The output file                                                           *)

\* What is being written is the configuration that replaces bad values, and if
\* saveJson() succeeds the temporary file holds all of it before it takes the output
\* file's name.
OutInv ==
    /\ pc \in Saving => newIn = previous /\ ~retOK
    /\ pc = "rename" /\ ~failed => temp = newIn
    /\ OutputIsWhole

\* Every step keeps it.
LEMMA StepOut == Types /\ OutInv /\ [Next]_vars => OutInv'
<1> SUFFICES ASSUME Types, OutInv, [Next]_vars PROVE OutInv'
  OBVIOUS
<1> USE DEF OutInv, OutputIsWhole, NotNow, outVars, confVars, newVars, Saving
<1>1. CASE UNCHANGED <<outVars, previous, newIn>>
           /\ (pc' \in Saving \/ pc \in Saving => pc' = pc)
  BY <1>1
<1>2. CASE CheckStat \/ CheckDump \/ SetCurrent \/ UserCallback \/ MonitorBegin
           \/ MonitorWhile \/ LoadInputConfig \/ StartMonitor \/ StopMonitor
           \/ SaveOutConfig
  <2>1. UNCHANGED <<outVars, previous, newIn>>
        /\ (pc' \in Saving \/ pc \in Saving => pc' = pc)
    BY <1>2, Zenon DEF CheckStat, CheckDump, SetCurrent, UserCallback, MonitorBegin,
        MonitorWhile, LoadInputConfig, StartMonitor, StopMonitor, SaveOutConfig, Return
  <2> QED BY <1>1, <2>1
<1>3. CASE Validate \/ Record
  BY <1>3 DEF Validate, Record, Return
<1>4. CASE SaveSnapshot
  BY <1>4 DEF SaveSnapshot
<1>5. CASE SaveOpen
  BY <1>5 DEF SaveOpen
<1>6. CASE SaveWrite
  BY <1>6 DEF SaveWrite
<1>7. CASE SaveRename
  <2>1. newIn # Partial
    BY ModelValuesAssumption DEF Types, TypeOK
  <2>2. pc' \notin Saving
    BY <1>7 DEF SaveRename
  <2>3. CASE UNCHANGED <<out, temp, kept, spoiled>> /\ retOK' = FALSE
    BY <2>2, <2>3
  <2>4. CASE out' = temp /\ kept' = newIn /\ spoiled' = failed
    BY <1>7, <2>1, <2>2, <2>4, Zenon DEF SaveRename
  <2> QED BY <1>7, <2>3, <2>4 DEF SaveRename
<1>8. ASSUME SetParamDone \/ \E k \in AppKeys, v \in Settable : SetParamValue(k, v)
      PROVE  OutInv'
  BY <1>1, <1>8 DEF SetParamDone, SetParamValue
<1>9. CASE WriteBegin \/ WriteEnd \/ Replace
  BY <1>1, <1>9 DEF WriteBegin, WriteEnd, Replace, Stamp
<1>10. CASE DeleteOutConfig
  <2>1. Absent # Partial
    BY ModelValuesAssumption
  <2> QED BY <1>10, <2>1 DEF DeleteOutConfig
<1>11. CASE Crash
  BY <1>11 DEF Crash
<1>12. CASE UNCHANGED vars
  BY <1>1, <1>12 DEF vars
<1> QED
  BY <1>2, <1>3, <1>4, <1>5, <1>6, <1>7, <1>8, <1>9, <1>10, <1>11, <1>12 DEF Next, Thread

\* saveOutConfig(), saveJson(): wherever the process dies and whichever rename() fails,
\* the output file is the last one that was written and renamed, whole, unless
\* saveJson() failed before that rename().
THEOREM OutputIsAlwaysWhole == Spec => []OutputIsWhole
<1>1. Init => OutInv
  BY ModelValuesAssumption DEF Init, Constructed, OutInv, OutputIsWhole, Saving
<1>2. OutInv => OutputIsWhole
  BY DEF OutInv
<1> QED BY <1>1, <1>2, AlwaysTyped, StepOut, PTL DEF Spec

-----------------------------------------------------------------------------
(* The callback                                                              *)

\* m_lastConfigContent is the tree the callback was last called for, but while the
\* callback runs and after a crash of it; a tree to be validated is another one.
SeenInv ==
    delay = 500 =>
        /\ pc = "validate" => newDump.tree # lastTree
        /\ (Checking => pc = "validate") /\ pc # "crashed" => seen = lastTree
        /\ Checking /\ pc # "validate" => seen = newDump.tree

\* Every step keeps it.
LEMMA StepSeen == Types /\ SeenInv /\ [Next]_vars => SeenInv'
<1> SUFFICES ASSUME Types, SeenInv, [Next]_vars PROVE SeenInv'
  OBVIOUS
<1> USE DEF SeenInv, NotNow, lastVars, flagVars, newVars, Checking, Validating
<1>0. CASE UNCHANGED <<delay, pc, caller, newDump, lastTree, seen>>
  BY <1>0
<1>1. CASE CheckStat
  BY <1>1 DEF CheckStat, Return
<1>2. CASE CheckDump
  BY <1>2 DEF CheckDump, Return
<1>3. CASE Validate
  BY <1>3, OnlySaving DEF Validate
<1>4. CASE SetCurrent \/ UserCallback \/ SaveSnapshot \/ SaveOpen \/ SaveWrite \/ SaveRename
  BY <1>4 DEF SetCurrent, UserCallback, SaveSnapshot, SaveOpen, SaveWrite, SaveRename
<1>5. CASE Record
  BY <1>5, OnlySaving, Zenon DEF Record, Return, NoLocals
<1>6. CASE MonitorBegin
  BY <1>6 DEF MonitorBegin, NewMonitor
<1>7. CASE Crash
  BY <1>7 DEF Crash, NewMonitor, NoLocals
<1>8. CASE MonitorWhile \/ LoadInputConfig \/ StartMonitor \/ StopMonitor \/ SaveOutConfig
           \/ DeleteOutConfig
  BY <1>8 DEF MonitorWhile, LoadInputConfig, StartMonitor, StopMonitor, SaveOutConfig,
      DeleteOutConfig
<1>9. ASSUME SetParamDone \/ \E k \in AppKeys, v \in Settable : SetParamValue(k, v)
      PROVE  SeenInv'
  BY <1>0, <1>9 DEF SetParamDone, SetParamValue
<1>10. CASE WriteBegin \/ WriteEnd \/ Replace
  <2>1. UNCHANGED <<delay, pc, caller, newDump, lastTree, seen>>
    BY <1>10 DEF WriteBegin, WriteEnd, Replace, Stamp
  <2> QED BY <1>0, <2>1
<1>11. CASE UNCHANGED vars
  BY <1>0, <1>11 DEF vars
<1> QED
  BY <1>1, <1>2, <1>3, <1>4, <1>5, <1>6, <1>7, <1>8, <1>9, <1>10, <1>11 DEF Next, Thread

\* checkConfigNow(): with the interval of 500 ms the callback is never called twice
\* in a row for the same tree, whatever is edited, loaded and set in between.
THEOREM CalledOnlyOnChange == Spec => OnlyOnChange
<1>1. Init => SeenInv
  BY DEF Init, Constructed, SeenInv, Checking, Validating
<1>2. SeenInv /\ [Next]_vars =>
        [delay = 500 /\ pc = "validate" /\ pc' \in {"set", "record", "crashed"}
            => seen' # seen]_vars
  <2> SUFFICES ASSUME SeenInv, Next, delay = 500, pc = "validate",
                      pc' \in {"set", "record", "crashed"}
               PROVE  seen' # seen
    OBVIOUS
  <2>1. Validate
    <3> USE DEF NotNow
    <3>1. ~(CheckStat \/ CheckDump \/ SetCurrent \/ UserCallback \/ SaveSnapshot \/ SaveOpen
            \/ SaveWrite \/ SaveRename \/ Record \/ MonitorBegin \/ MonitorWhile
            \/ LoadInputConfig \/ StartMonitor \/ SaveOutConfig \/ DeleteOutConfig \/ Crash)
      BY Zenon DEF CheckStat, CheckDump, SetCurrent, UserCallback, SaveSnapshot, SaveOpen,
          SaveWrite, SaveRename, Record, MonitorBegin, MonitorWhile, LoadInputConfig,
          StartMonitor, SaveOutConfig, DeleteOutConfig, Crash
    <3>2. ~(StopMonitor \/ WriteBegin \/ WriteEnd \/ Replace)
      BY Zenon DEF StopMonitor, WriteBegin, WriteEnd, Replace, Stamp
    <3>3. ~(SetParamDone \/ \E k \in AppKeys, v \in Settable : SetParamValue(k, v))
      BY DEF SetParamDone, SetParamValue
    <3> QED BY <3>1, <3>2, <3>3 DEF Next, Thread
  <2> QED BY <2>1 DEF Validate, SeenInv, Checking, Validating
<1> QED BY <1>1, <1>2, AlwaysTyped, StepSeen, PTL DEF Spec, OnlyOnChange

================================================================================
