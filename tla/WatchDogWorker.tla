--------------------------- MODULE WatchDogWorker ---------------------------
(***************************************************************************)
(* WatchDogWorker: a thread that tells a dispatcher (systemd or the module *)
(* monitor) at a fixed interval how the module is doing.  Three threads    *)
(* meet in it: the owner, who calls start() and stop(); the module, which  *)
(* calls notify(); and worker().  They share four unlocked variables.      *)
(***************************************************************************)
EXTENDS Naturals

CONSTANTS
    Clients,        \* subset of {"systemd", "modmon"}
    Statuses,       \* values the module gives to notify(), and that are reported
    Delays,         \* values of wdSets.delaySendMessageMs in the configuration
    TimerMs,        \* WatchdogSec of the systemd unit, in milliseconds
    MaxSessions     \* bound: calls of start()

ASSUME ConstantsAssumption ==
    /\ Clients \subseteq {"systemd", "modmon"}
    /\ {"none", "Status_ErrAsyncTimeOut", "Status_Off", "Status_Startup"}
          \cap Statuses = {}
    /\ "Status_OK" \in Statuses
    /\ Delays \subseteq Nat
    /\ {TimerMs, MaxSessions} \subseteq Nat

VARIABLES
    client,         \* the IWatchDogClient behind p_Cli
    wdDelay,        \* its m_wdSets.delaySendMessageMs
    messageStatus,  \* its m_messageStatus, "" when there is none
    delay,          \* m_delay
    isWorking,      \* p_isWorking: "null", "local" or "global"
    globalWorks,    \* the application's flag
    localWorks,     \* m_localWorks
    sendOne,        \* m_sendOne
    outputStatus,   \* m_outputStatus
    late,           \* elapsed() > 2 * m_delay
    ownerPc,        \* the owner: "off", "on", "join", "send"; "terminated"
    modulePc,       \* the module in notify(): "out", "flag", "time"
    workerPc,       \* the thread m_worker; "none" when it is not joinable
    lastSent,       \* history: the last report the dispatcher got
    owed,           \* history: a notified status not yet reported, or "none"
    overwritten,    \* history: worker() stored the time-out over a notify() that
                    \* was not late, or not finished
    sessions        \* calls of start()

clientVars == <<client, wdDelay, messageStatus, lastSent, owed>>
flagVars   == <<isWorking, globalWorks, localWorks, sendOne>>
statusVars == <<outputStatus, overwritten, late, delay>>
vars == <<clientVars, flagVars, statusVars, ownerPc, modulePc, workerPc,
          sessions>>

\* The statuses that worker() makes no message of (line 80).
Unreported == {"Status_Off", "Status_Startup"}
AllStatuses == Statuses \cup Unreported \cup {"Status_ErrAsyncTimeOut"}
Reports == AllStatuses \cup {"Module Start", "Module Stop"}

\* m_localWorks and m_sendOne are not initialised by the constructor.
Init ==
    /\ client \in Clients
    /\ wdDelay \in Delays
    /\ messageStatus = ""
    /\ delay = wdDelay
    /\ isWorking \in {"null", "global"}
    /\ globalWorks = TRUE
    /\ localWorks \in BOOLEAN
    /\ sendOne \in BOOLEAN
    /\ outputStatus = "Status_Off"
    /\ late = FALSE
    /\ ownerPc = "off"
    /\ modulePc = "out"
    /\ workerPc = "none"
    /\ lastSent = "none"
    /\ owed = "none"
    /\ overwritten = FALSE
    /\ sessions = 0

-----------------------------------------------------------------------------
(* the client                                                              *)

\* SystemdClient::open() reduces the interval to half the unit's timer.
OpenSystemd ==
    /\ client = "systemd"
    /\ wdDelay' = IF wdDelay > TimerMs \div 2 THEN TimerMs \div 2 ELSE wdDelay

\* ModMonClient::open() leaves it alone.  Nothing ends the transport thread of a
\* session, so that it succeeds only once.
OpenModMon ==
    /\ client = "modmon"
    /\ sessions = 0
    /\ UNCHANGED wdDelay

\* sendMsg() of report msg.  Without a message it does nothing.  A failing
\* sd_notify() keeps the message; the module monitor's client always queues it.
SendMsg(msg, ok) ==
    /\ ~ok => client = "systemd" /\ msg # ""
    /\ messageStatus' = IF ok THEN "" ELSE msg
    /\ lastSent' = IF ok /\ msg # "" THEN msg ELSE lastSent

-----------------------------------------------------------------------------
(* the owner: start() and stop()                                           *)

\* start(), lines 162-163: the dispatcher cannot be reached.
StartFails ==
    /\ ownerPc = "off"
    /\ late' = FALSE
    /\ UNCHANGED <<clientVars, flagVars, outputStatus, overwritten, delay, ownerPc,
                   modulePc, workerPc, sessions>>

\* A second open() assigns to the joinable m_transClientThr: std::terminate().
StartTerminates ==
    /\ ownerPc = "off"
    /\ client = "modmon"
    /\ sessions > 0
    /\ ownerPc' = "terminated"
    /\ UNCHANGED <<clientVars, flagVars, statusVars, modulePc, workerPc, sessions>>

\* start(), lines 162-171.  Nobody else is active yet, so the calls up to the
\* creation of the thread are one step.
Start(ok) ==
    /\ ownerPc = "off"
    /\ sessions < MaxSessions
    /\ sessions' = sessions + 1
    /\ OpenSystemd \/ OpenModMon
    /\ SendMsg("Module Start", ok)
    /\ delay' = wdDelay'
    /\ outputStatus' = "Status_OK"
    /\ sendOne' = TRUE
    /\ late' = FALSE
    /\ owed' = "Status_OK"
    /\ overwritten' = FALSE
    /\ workerPc' = "begin"
    /\ ownerPc' = "on"
    /\ UNCHANGED <<client, isWorking, globalWorks, localWorks, modulePc>>

\* stop(), line 186.
StopFlag ==
    /\ ownerPc = "on"
    /\ ownerPc' = "join"
    /\ localWorks' = FALSE
    /\ UNCHANGED <<clientVars, isWorking, globalWorks, sendOne, statusVars,
                   modulePc, workerPc, sessions>>

\* A version that does not wait for worker() to end.
MutStopNoJoin ==
    /\ ownerPc = "join"
    /\ ownerPc' = "send"
    /\ UNCHANGED <<clientVars, flagVars, statusVars, modulePc, workerPc,
                   sessions>>

\* stop(), lines 188-189.
StopJoin ==
    /\ ownerPc = "join"
    /\ workerPc = "ended"
    /\ ownerPc' = "send"
    /\ workerPc' = "none"
    /\ UNCHANGED <<clientVars, flagVars, statusVars, modulePc, sessions>>

\* stop(), lines 191-209.
StopSend(ok) ==
    /\ ownerPc = "send"
    /\ ownerPc' = "off"
    /\ SendMsg("Module Stop", ok)
    /\ UNCHANGED <<client, wdDelay, owed, flagVars, statusVars, modulePc,
                   workerPc, sessions>>

-----------------------------------------------------------------------------
(* the module: notify(), and the application's own flag and time           *)

\* Lines 145-148.
Notify(s) ==
    /\ ownerPc \notin {"off", "terminated"}
    /\ modulePc = "out"
    /\ delay' = wdDelay
    /\ outputStatus' = s
    /\ owed' = IF s \in Unreported THEN "none" ELSE s
    /\ overwritten' = FALSE
    /\ modulePc' = "flag"
    /\ UNCHANGED <<client, wdDelay, messageStatus, lastSent, flagVars, late,
                   ownerPc, workerPc, sessions>>

\* Line 149.
NotifyFlag ==
    /\ ownerPc # "terminated"
    /\ modulePc = "flag"
    /\ modulePc' = "time"
    /\ sendOne' = TRUE
    /\ UNCHANGED <<clientVars, isWorking, globalWorks, localWorks, statusVars,
                   ownerPc, workerPc, sessions>>

\* Line 150.
NotifyTime ==
    /\ ownerPc # "terminated"
    /\ modulePc = "time"
    /\ modulePc' = "out"
    /\ late' = FALSE
    /\ UNCHANGED <<clientVars, flagVars, outputStatus, overwritten, delay, ownerPc,
                   workerPc, sessions>>

StopGlobal ==
    /\ ownerPc # "terminated"
    /\ globalWorks
    /\ globalWorks' = FALSE
    /\ UNCHANGED <<clientVars, isWorking, localWorks, sendOne, statusVars,
                   ownerPc, modulePc, workerPc, sessions>>

\* Two intervals pass without a call of notify().
Late ==
    /\ ownerPc # "terminated"
    /\ ~late
    /\ late' = TRUE
    /\ UNCHANGED <<clientVars, flagVars, outputStatus, overwritten, delay, ownerPc,
                   modulePc, workerPc, sessions>>

-----------------------------------------------------------------------------
(* worker()                                                                *)

Goto(from, to) == workerPc = from /\ workerPc' = to

\* *p_isWorking && m_localWorks
Works == localWorks /\ (isWorking = "global" => globalWorks)

\* Line 23.
WorkerBegin ==
    /\ Goto("begin", "begun")
    /\ localWorks' = TRUE
    /\ UNCHANGED <<clientVars, isWorking, globalWorks, sendOne, statusVars,
                   ownerPc, modulePc, sessions>>

\* Lines 24-27.
WorkerBegun ==
    /\ Goto("begun", "while")
    /\ sendOne' = FALSE
    /\ isWorking' = IF isWorking = "null" THEN "local" ELSE isWorking
    /\ UNCHANGED <<clientVars, globalWorks, localWorks, statusVars, ownerPc,
                   modulePc, sessions>>

\* A version that looks at the application's flag only.
MutWorkerWhileFlagOnly ==
    /\ Goto("while", IF sendOne \/ globalWorks THEN "switch" ELSE "ended")
    /\ UNCHANGED <<clientVars, flagVars, statusVars, ownerPc, modulePc,
                   sessions>>

\* Line 29.
WorkerWhile ==
    /\ Goto("while", IF Works \/ sendOne THEN "switch" ELSE "ended")
    /\ UNCHANGED <<clientVars, flagVars, statusVars, ownerPc, modulePc,
                   sessions>>

\* Lines 31-81.
WorkerSwitch ==
    /\ Goto("switch", "clear")
    /\ messageStatus' = IF outputStatus \in Unreported THEN messageStatus
                                                       ELSE outputStatus
    /\ UNCHANGED <<client, wdDelay, lastSent, owed, flagVars, statusVars,
                   ownerPc, modulePc, sessions>>

\* Line 83.
WorkerClear ==
    /\ Goto("clear", "send")
    /\ sendOne' = FALSE
    /\ UNCHANGED <<clientVars, isWorking, globalWorks, localWorks, statusVars,
                   ownerPc, modulePc, sessions>>

\* A version that empties the message and does not send it.
MutWorkerSendForgets(ok) ==
    /\ Goto("send", "late")
    /\ messageStatus' = ""
    /\ UNCHANGED <<client, wdDelay, lastSent, owed, flagVars, statusVars,
                   ownerPc, modulePc, sessions>>

\* Lines 84-108: the report, and the pause after it.
WorkerSend(ok) ==
    /\ Goto("send", "late")
    /\ SendMsg(messageStatus, ok)
    /\ owed' = IF ok /\ messageStatus = owed THEN "none" ELSE owed
    /\ UNCHANGED <<client, wdDelay, flagVars, statusVars, ownerPc, modulePc,
                   sessions>>

\* Line 111.
WorkerLate ==
    /\ Goto("late", IF outputStatus # "Status_Off" /\ late THEN "store"
                                                           ELSE "while")
    /\ UNCHANGED <<clientVars, flagVars, statusVars, ownerPc, modulePc,
                   sessions>>

\* Line 113, whatever notify() stored since the test.
WorkerStore ==
    /\ Goto("store", "while")
    /\ outputStatus' = "Status_ErrAsyncTimeOut"
    /\ overwritten' = (~late \/ modulePc # "out")
    /\ UNCHANGED <<clientVars, flagVars, late, delay, ownerPc, modulePc,
                   sessions>>

WorkerStep ==
    \/ WorkerBegin \/ WorkerBegun \/ WorkerWhile \/ WorkerSwitch \/ WorkerClear
    \/ WorkerLate \/ WorkerStore
    \/ \E ok \in BOOLEAN : WorkerSend(ok)

OwnerStep ==
    \/ StopJoin
    \/ \E ok \in BOOLEAN : StopSend(ok)

Next ==
    \/ WorkerStep \/ OwnerStep
    \/ \E ok \in BOOLEAN : Start(ok)
    \/ StartFails \/ StartTerminates \/ StopFlag
    \/ \E s \in Statuses \cup Unreported : Notify(s)
    \/ NotifyFlag \/ NotifyTime \/ StopGlobal \/ Late

Spec == Init /\ [][Next]_vars

\* The worker runs, stop() once begun goes on, notify() once begun goes on, and
\* sd_notify() does not fail for ever.
Fairness ==
    /\ WF_vars(WorkerStep) /\ WF_vars(OwnerStep)
    /\ WF_vars(NotifyFlag) /\ WF_vars(NotifyTime)
    /\ SF_vars(WorkerSend(TRUE))

LiveSpec == Spec /\ Fairness

-----------------------------------------------------------------------------
(* Properties                                                              *)

TypeOK ==
    /\ client \in Clients
    /\ wdDelay \in Nat
    /\ messageStatus \in Reports \cup {""}
    /\ delay \in Nat
    /\ isWorking \in {"null", "local", "global"}
    /\ {globalWorks, localWorks, sendOne, late, overwritten} \subseteq BOOLEAN
    /\ outputStatus \in AllStatuses
    /\ ownerPc \in {"off", "on", "join", "send", "terminated"}
    /\ modulePc \in {"out", "flag", "time"}
    /\ workerPc \in {"none", "begin", "begun", "while", "switch", "clear",
                     "send", "late", "store", "ended"}
    /\ workerPc = "none" <=> ownerPc \in {"off", "send", "terminated"}
    /\ lastSent \in Reports \cup {"none"}
    /\ owed \in AllStatuses \cup {"none"}
    /\ sessions \in 0..MaxSessions

\* The interval worker() sleeps never exceeds half of systemd's timer, although
\* open() reduces it in the client only and m_delay is copied by notify().
PeriodFits ==
    (client = "systemd" /\ workerPc # "none") => 2 * delay <= TimerMs

\* "Module Stop" is the last report of a session: once stop() has joined the
\* thread nothing is sent until the next start().
SilentWhenOff ==
    [][ownerPc = "off" /\ ownerPc' = "off" => lastSent' = lastSent]_vars

\* m_sendOne: a notified status reaches the dispatcher before worker() ends
\* ("guarantee that the message arrives even if termination is requested",
\* WatchDogWorker.h:60).
NotifiedIsSent == (workerPc = "ended" /\ modulePc = "out") => owed = "none"

\* stop() returns once the module is silent, unless worker() had not yet executed
\* line 23, which sets the flag that stop() has cleared.  A module that goes on
\* calling notify() can set m_sendOne again before each test of line 29.
StopReturns ==
    <>[](modulePc = "out") =>
        ((ownerPc = "join" /\ ~localWorks /\ workerPc # "begin")
            ~> ownerPc = "off")

\* While the worker runs a notified status is reported, unless the module
\* notifies again, has been late since ("no updates for more than two
\* intervals", line 110), or called notify() around the test of line 111, so that
\* line 113 overwrote it unreported.
NotifyIsReported ==
    \A s \in Statuses :
        (owed = s /\ Works /\ modulePc = "out")
            ~> \/ owed # s
               \/ ~Works
               \/ outputStatus = "Status_ErrAsyncTimeOut" /\ (late \/ overwritten)

\* A module that has stopped calling notify() is reported as timed out.
HangIsReported ==
    (late /\ outputStatus # "Status_Off" /\ Works /\ ownerPc = "on")
        ~> (lastSent = "Status_ErrAsyncTimeOut" \/ ~late \/ ~Works
              \/ outputStatus = "Status_Off")

\* What a module says to notify(), and that it says nothing more, is reported, and
\* often enough for systemd.
StatusIsReported == [](TypeOK /\ PeriodFits) /\ NotifyIsReported /\ HangIsReported
=============================================================================
