----------------------------- MODULE ModMonClient ------------------------------
(* The module's warnings on their way to the monitor: ModMonClient::open() has the
   logger hand every message from WARNING upwards to BaseTransportClient::send(),
   whose queue run() empties into the broker.  send() and run() log in turn.

   Threads: one of the module that logs, the watchdog's worker that sends its
   status, and run().  at[t] is where a thread is in its own code, call[t] where it
   is in a LOG or send() it has called, depth[t] how many LOGs it is inside of.
   The lock of the logger and the dispatcher's lock, both recursive and always
   taken together, are one: `logger`.                                            *)
EXTENDS Naturals

CONSTANTS
    Capacity,     \* capacityMsgDeque()
    StackDepth    \* how many LOGs inside one another the stack has room for

VARIABLES
    at, call, depth,
    logger,       \* the thread that is inside of LOG
    m_mtxDeque,   \* the thread that holds the lock of the queue
    size,         \* m_msgOutDeque.size()
    broker,       \* "up", "down" or "hung": a call of its library does not return
    died          \* the stack is exhausted

Threads == {"module", "worker", "run"}
nobody == "nobody"

monVars == <<at, call, depth, logger, m_mtxDeque, size, broker, died>>

MonInit ==
    /\ at = [t \in Threads |-> IF t = "run" THEN "check" ELSE "idle"]
    /\ call = [t \in Threads |-> "none"]
    /\ depth = [t \in Threads |-> 0]
    /\ logger = nobody /\ m_mtxDeque = nobody
    /\ size = 0 /\ broker = "up" /\ died = FALSE

Goto(t, place, calls) == at' = [at EXCEPT ![t] = place] /\ call' = [call EXCEPT ![t] = calls]
Calls(t, place) == call' = [call EXCEPT ![t] = place] /\ UNCHANGED at

--------------------------------------------------------------------------------
(* LOG, the callback of open() and send() *)

\* LOG waits for the logger.  Below WARNING the callback does nothing.
LogLocks(t) ==
    /\ call[t] \in {"log", "debug"} /\ logger \in {nobody, t}
    /\ logger' = t
    /\ IF depth[t] < StackDepth
       THEN /\ depth' = [depth EXCEPT ![t] = @ + 1]
            /\ Calls(t, IF call[t] = "log" THEN "send" ELSE "leave")
            /\ UNCHANGED died
       ELSE died' = TRUE /\ UNCHANGED <<at, call, depth>>
    /\ UNCHANGED <<m_mtxDeque, size, broker>>

SendLocks(t) ==
    /\ call[t] = "send" /\ m_mtxDeque = nobody
    /\ m_mtxDeque' = t
    /\ Calls(t, "push")
    /\ UNCHANGED <<depth, logger, size, broker, died>>

Returns(t) == IF depth[t] > 0 THEN "leave" ELSE "none"

\* A version that logs the warning before it unlocks.
MutPushes(t) ==
    /\ call[t] = "push"
    /\ IF size > Capacity
       THEN Calls(t, "log") /\ UNCHANGED <<size, m_mtxDeque>>
       ELSE Calls(t, Returns(t)) /\ size' = size + 1 /\ m_mtxDeque' = nobody
    /\ UNCHANGED <<depth, logger, broker, died>>

\* A full queue loses its first message; the warning is logged after unlocking.
Pushes(t) ==
    /\ call[t] = "push"
    /\ m_mtxDeque' = nobody
    /\ IF size > Capacity
       THEN Calls(t, "log") /\ UNCHANGED size
       ELSE Calls(t, Returns(t)) /\ size' = size + 1
    /\ UNCHANGED <<depth, logger, broker, died>>

LogReturnsOne(t) ==
    /\ call[t] = "leave"
    /\ depth' = [depth EXCEPT ![t] = @ - 1]
    /\ logger' = IF depth[t] = 1 THEN nobody ELSE t
    /\ Calls(t, IF depth[t] = 1 THEN "none" ELSE "leave")
    /\ UNCHANGED <<m_mtxDeque, size, broker, died>>

--------------------------------------------------------------------------------
(* The threads *)

\* A thread of the module logs a warning.
ModuleLogs ==
    /\ call["module"] = "none"
    /\ Goto("module", "idle", "log")
    /\ UNCHANGED <<depth, logger, m_mtxDeque, size, broker, died>>

\* sendMsg() of the worker logs at DEBUG, then sends.
WorkerSends ==
    /\ call["worker"] = "none"
    /\ IF at["worker"] = "idle" THEN Goto("worker", "sends", "debug")
                                ELSE Goto("worker", "idle", "send")
    /\ UNCHANGED <<depth, logger, m_mtxDeque, size, broker, died>>

\* run() with needKeepConnect.  A call of the broker's library returns unless the
\* broker hangs; it may fail while the broker is up and may succeed no more when it
\* is down.  Each way of not being connected logs its own errors.
RunChecks ==
    /\ call["run"] = "none" /\ at["run"] = "check" /\ broker # "hung"
    /\ IF broker = "up" THEN Goto("run", "queue", "none") ELSE Goto("run", "reconnect", "log")
    /\ UNCHANGED <<depth, logger, m_mtxDeque, size, broker, died>>

RunReconnects ==
    /\ call["run"] = "none" /\ at["run"] = "reconnect" /\ broker # "hung"
    /\ \/ broker = "up" /\ Goto("run", "queue", "debug")
       \/ Goto("run", "again", "log")
       \/ Goto("run", "again", "none")
    /\ UNCHANGED <<depth, logger, m_mtxDeque, size, broker, died>>

\* "Something is wrong, we wait and try again", and the sleep.
RunWaits ==
    /\ call["run"] = "none" /\ at["run"] = "again"
    /\ Goto("run", "check", "log")
    /\ UNCHANGED <<depth, logger, m_mtxDeque, size, broker, died>>

RunLooks ==
    /\ call["run"] = "none" /\ at["run"] = "queue"
    /\ IF size = 0 THEN Goto("run", "check", "none") ELSE Goto("run", "take", "debug")
    /\ UNCHANGED <<depth, logger, m_mtxDeque, size, broker, died>>

RunLocks ==
    /\ call["run"] = "none" /\ at["run"] = "take" /\ m_mtxDeque = nobody
    /\ m_mtxDeque' = "run"
    /\ Goto("run", "pop", "none")
    /\ UNCHANGED <<depth, logger, size, broker, died>>

RunPops ==
    /\ call["run"] = "none" /\ at["run"] = "pop"
    /\ size' = size - 1 /\ m_mtxDeque' = nobody
    /\ Goto("run", "stream", "none")
    /\ UNCHANGED <<depth, logger, broker, died>>

\* sendToStream() and doAfter()
RunSends ==
    /\ call["run"] = "none" /\ at["run"] = "stream" /\ broker # "hung"
    /\ Goto("run", "check", "none")
    /\ UNCHANGED <<depth, logger, m_mtxDeque, size, broker, died>>

BrokerTurns ==
    /\ broker' \in {"up", "down", "hung"} \ {broker}
    /\ UNCHANGED <<at, call, depth, logger, m_mtxDeque, size, died>>

Run == RunChecks \/ RunReconnects \/ RunWaits \/ RunLooks \/ RunLocks \/ RunPops \/ RunSends
Returning(t) == Pushes(t) \/ LogReturnsOne(t)
Calling(t) == LogLocks(t) \/ SendLocks(t) \/ Returning(t)

MonNext ==
    \/ /\ ~died
       /\ \/ \E t \in Threads : Calling(t)
          \/ ModuleLogs \/ WorkerSends \/ Run \/ BrokerTurns
    \/ died /\ UNCHANGED monVars

\* Threads that can go on do, and a thread that waits for a lock which is free
\* again and again gets it.
MonFairness ==
    /\ \A t \in Threads :
          /\ SF_monVars(~died /\ LogLocks(t)) /\ SF_monVars(~died /\ SendLocks(t))
          /\ WF_monVars(~died /\ Returning(t))
    /\ SF_monVars(~died /\ Run)

MonSpec == MonInit /\ [][MonNext]_monVars /\ MonFairness

--------------------------------------------------------------------------------
(* Properties *)

\* A LOG or send() that a thread has called returns to it, however the other
\* threads' LOGs, sends and pops interleave with it and though the broker hangs:
\* the locks of the logger and of the queue are never waited for in a circle, and
\* none is held across a call of the broker.  The exception is a full queue, whose
\* warning is sent to the full queue again: the process dies of its stack.
LogReturns == \A t \in Threads : call[t] # "none" ~> (call[t] = "none" \/ died)

\* What the comment in run() says: when something is wrong with the connection it
\* waits and tries again.
WaitsAndTriesAgain == at["run"] = "again" ~> (at["run"] = "check" /\ call["run"] = "none")

================================================================================
