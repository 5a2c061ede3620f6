--------------------------- MODULE TransportServer ---------------------------
(***************************************************************************)
(* BaseTransportServer over one of its three brokers.  The thread in which *)
(* the broker receives (the listener) puts requests into a bounded deque   *)
(* with addToIncoming(); the thread executing run() keeps the connection,  *)
(* takes one request per iteration and gives it to the callback of the     *)
(* application.                                                            *)
(*                                                                         *)
(* The brokers differ in what checkConnection(), createConnection() and    *)
(* releaseConnection() do to the link and to the std::thread m_thrListen;  *)
(* assigning to a joinable std::thread calls std::terminate().             *)
(***************************************************************************)
EXTENDS Naturals, Sequences

CONSTANTS
    Brokers,            \* subset of {"pipe", "rabbitmq", "websocket"}
    Capacities,         \* values given to setInDeqCapacity()
    KeepModes,          \* values given to setIsKeepConnect() before run()
    CallbackModes,      \* is m_fCallBackResponse set?
    MaxMsgs,            \* bound: number of requests received
    MaxBreaks           \* bound: number of times the peer breaks the link

ASSUME ConstantsAssumption ==
    /\ Brokers \subseteq {"pipe", "rabbitmq", "websocket"}
    /\ Capacities \subseteq Nat
    /\ KeepModes \subseteq BOOLEAN
    /\ CallbackModes \subseteq BOOLEAN
    /\ MaxMsgs \in Nat
    /\ MaxBreaks \in Nat

VARIABLES
    broker,             \* the class of the server object
    msgInDeque,         \* m_msgInDeque: numbers of the queued requests
    capacityMsgDeque,   \* m_capacityMsgDeque
    adding,             \* the listener is inside addToIncoming(), with m_mtxDeque
    localIsWork,        \* m_localIsWork
    globalIsWork,       \* the flag of the application behind p_GlobalIsWork
    stopAsked,          \* history: did anybody outside run() ask to stop?
    isKeepConnect,      \* m_isKeepConnect
    hasCallback,        \* m_fCallBackResponse is set
    status,             \* m_currStatus.status
    conn,               \* what checkConnection() sees: "open", "pending", "closed"
    thrListen,          \* m_thrListen: "none" or "joinable"
    breaks,             \* how often the peer broke the link
    pc,                 \* where the thread executing run() is
    inHand,             \* ptrMsg of the iteration, 0 when there is none
    accepted,           \* history: number of requests accepted
    handled             \* history: requests given to the callback, in order

queueVars == <<msgInDeque, capacityMsgDeque, adding>>
flagVars  == <<localIsWork, globalIsWork, stopAsked>>
modeVars  == <<broker, isKeepConnect, hasCallback>>
linkVars  == <<conn, thrListen, breaks>>
histVars  == <<accepted, handled>>
vars == <<queueVars, flagVars, modeVars, status, linkVars, pc, inHand, histVars>>

MsgIds == 1..MaxMsgs

RunPcs == {"idle", "while", "need", "check", "create", "status", "empty",
           "take", "callback", "after", "ended", "undefined", "terminated"}

\* The object as createBroker() returns it.  The constructors have called
\* createConnection(): a PipeServer only logs a failure, the other two throw
\* and there is no object.  A RabbitMQ connection becomes ready later.
Init ==
    /\ broker \in Brokers
    /\ msgInDeque = <<>>
    /\ capacityMsgDeque \in Capacities
    /\ adding = FALSE
    /\ localIsWork = TRUE
    /\ globalIsWork = TRUE
    /\ stopAsked = FALSE
    /\ isKeepConnect \in KeepModes
    /\ hasCallback \in CallbackModes
    /\ status = "ERROR_MESSAGE"
    /\ \/ broker = "pipe" /\ conn = "closed" /\ thrListen = "none"
       \/ broker = "rabbitmq" /\ conn = "pending" /\ thrListen = "joinable"
       \/ broker # "rabbitmq" /\ conn = "open" /\ thrListen = "joinable"
    /\ breaks = 0
    /\ pc = "idle"
    /\ inHand = 0
    /\ accepted = 0
    /\ handled = <<>>

\* *p_GlobalIsWork && m_localIsWork; a null pointer is replaced by a pointer
\* to m_localIsWork, which is the same as a global flag that is never cleared.
Working == globalIsWork /\ localIsWork

-----------------------------------------------------------------------------
(* addToIncoming(), called by the listener                                 *)

\* PipeServer::startListen() runs while the server works; the event loops of
\* the other two deliver as long as the link is up.
Listening ==
    /\ conn = "open"
    /\ thrListen = "joinable"
    /\ broker = "pipe" => Working

IsFull == Len(msgInDeque) > capacityMsgDeque

\* Lines 182-187.
AddLock ==
    /\ Listening
    /\ ~adding
    /\ accepted < MaxMsgs
    /\ adding' = TRUE
    /\ msgInDeque' = IF IsFull THEN Tail(msgInDeque) ELSE msgInDeque
    /\ UNCHANGED <<capacityMsgDeque, flagVars, modeVars, status, linkVars, pc,
                   inHand, histVars>>

\* Line 191 and the end of the critical section.
AddPush ==
    /\ adding
    /\ adding' = FALSE
    /\ accepted' = accepted + 1
    /\ msgInDeque' = Append(msgInDeque, accepted')
    /\ UNCHANGED <<capacityMsgDeque, flagVars, modeVars, status, linkVars, pc,
                   inHand, handled>>

\* Called by the constructors and, once the listener may already be adding, by
\* createBroker(); never after run() has begun.
SetInDeqCapacity(newCapacity) ==
    /\ pc = "idle"
    /\ ~adding
    /\ msgInDeque' = <<>>
    /\ capacityMsgDeque' = newCapacity
    /\ UNCHANGED <<adding, flagVars, modeVars, status, linkVars, pc, inHand,
                   histVars>>

-----------------------------------------------------------------------------
(* the environment                                                         *)

StopLocal ==
    /\ localIsWork
    /\ localIsWork' = FALSE
    /\ stopAsked' = TRUE
    /\ UNCHANGED <<queueVars, globalIsWork, modeVars, status, linkVars, pc,
                   inHand, histVars>>

StopGlobal ==
    /\ globalIsWork
    /\ globalIsWork' = FALSE
    /\ stopAsked' = TRUE
    /\ UNCHANGED <<queueVars, localIsWork, modeVars, status, linkVars, pc,
                   inHand, histVars>>

\* Only the RabbitMQ link can go away under the server: the pipes are files
\* the server itself holds open, and checkConnection() of the WebSocket server
\* looks at the listening socket.
LinkBreak ==
    /\ broker = "rabbitmq"
    /\ conn # "closed"
    /\ breaks < MaxBreaks
    /\ conn' = "closed"
    /\ breaks' = breaks + 1
    /\ UNCHANGED <<queueVars, flagVars, modeVars, status, thrListen, pc,
                   inHand, histVars>>

\* The event loop finishes the handshake that createConnection() began.
LinkReady ==
    /\ conn = "pending"
    /\ conn' = "open"
    /\ UNCHANGED <<queueVars, flagVars, modeVars, status, thrListen, breaks, pc,
                   inHand, histVars>>

-----------------------------------------------------------------------------
(* run()                                                                   *)

Goto(from, to) == pc = from /\ pc' = to

RunStart ==
    /\ Goto("idle", "while")
    /\ UNCHANGED <<queueVars, flagVars, modeVars, status, linkVars, inHand,
                   histVars>>

RunWhile ==
    /\ Working
    /\ Goto("while", "need")
    /\ UNCHANGED <<queueVars, flagVars, modeVars, status, linkVars, inHand,
                   histVars>>

\* Lines 73 and 150.
RunEnd ==
    /\ ~Working
    /\ Goto("while", "ended")
    /\ localIsWork' = FALSE
    /\ UNCHANGED <<queueVars, globalIsWork, stopAsked, modeVars, status,
                   linkVars, inHand, histVars>>

\* Line 75, without the mutex.
RunNeed ==
    /\ Goto("need", IF isKeepConnect \/ msgInDeque # <<>> THEN "check"
                                                          ELSE "status")
    /\ UNCHANGED <<queueVars, flagVars, modeVars, status, linkVars, inHand,
                   histVars>>

\* A version that takes every connection for closed.
MutRunCheckAlwaysClosed ==
    /\ Goto("check", "create")
    /\ status' = "ERROR_CONNECT"
    /\ UNCHANGED <<queueVars, flagVars, modeVars, linkVars, inHand, histVars>>

\* Lines 78-81.
RunCheck ==
    /\ Goto("check", IF conn = "open" THEN "status" ELSE "create")
    /\ status' = IF conn = "open" THEN status ELSE "ERROR_CONNECT"
    /\ UNCHANGED <<queueVars, flagVars, modeVars, linkVars, inHand, histVars>>

\* m_thrListen = std::thread(...): std::terminate() if it is still joinable.
AssignThrListen ==
    /\ thrListen' = "joinable"
    /\ pc' = IF thrListen = "joinable" THEN "terminated" ELSE "status"

\* createConnection() of the pipe server: both files are created and opened,
\* or it returns before it assigns m_thrListen.
CreatePipe(ok) ==
    /\ broker = "pipe"
    /\ IF ok THEN conn' = "open" /\ AssignThrListen
             ELSE pc' = "while" /\ UNCHANGED <<conn, thrListen>>

\* The RabbitMQ server discards connection and channel and builds new ones,
\* which are not ready yet.  Only a lack of resources makes it fail.
CreateRabbitMQ ==
    /\ broker = "rabbitmq"
    /\ conn' = "pending"
    /\ AssignThrListen

\* Lines 85-102: createConnection() without a releaseConnection() before it.
\* The WebSocket server does not get here: an object whose listen() failed was
\* never constructed.
RunCreate(ok) ==
    /\ pc = "create"
    /\ CreatePipe(ok) \/ (ok /\ CreateRabbitMQ)
    /\ UNCHANGED <<queueVars, flagVars, modeVars, status, breaks, inHand,
                   histVars>>

\* Line 105.
RunStatus ==
    /\ Goto("status", "empty")
    /\ status' = "OK"
    /\ UNCHANGED <<queueVars, flagVars, modeVars, linkVars, inHand, histVars>>

\* A version that does not test for emptiness.
MutRunEmptyNoTest ==
    /\ Goto("empty", "take")
    /\ UNCHANGED <<queueVars, flagVars, modeVars, status, linkVars, inHand,
                   histVars>>

\* A version that tests for the callback the wrong way round.
MutRunEmptyCallbackInverted ==
    /\ Goto("empty", IF msgInDeque = <<>> THEN "while"
                     ELSE IF hasCallback THEN "after" ELSE "take")
    /\ UNCHANGED <<queueVars, flagVars, modeVars, status, linkVars, inHand,
                   histVars>>

\* Lines 107-118.  Without a callback the request stays where it is.
RunEmpty ==
    /\ Goto("empty", IF msgInDeque = <<>> THEN "while"
                     ELSE IF hasCallback THEN "take" ELSE "after")
    /\ UNCHANGED <<queueVars, flagVars, modeVars, status, linkVars, inHand,
                   histVars>>

\* Lines 127-133; front() and pop_front() of an empty deque are undefined.
RunTake ==
    /\ ~adding
    /\ \/ /\ msgInDeque # <<>>
          /\ Goto("take", "callback")
          /\ inHand' = Head(msgInDeque)
          /\ msgInDeque' = Tail(msgInDeque)
       \/ /\ msgInDeque = <<>>
          /\ Goto("take", "undefined")
          /\ UNCHANGED <<inHand, msgInDeque>>
    /\ UNCHANGED <<capacityMsgDeque, adding, flagVars, modeVars, status,
                   linkVars, histVars>>

\* A version that calls the callback twice.
MutRunCallbackTwice ==
    /\ Goto("callback", "after")
    /\ handled' = handled \o <<inHand, inHand>>
    /\ inHand' = 0
    /\ UNCHANGED <<queueVars, flagVars, modeVars, status, linkVars, accepted>>

\* Line 134, outside the critical section.
RunCallback ==
    /\ Goto("callback", "after")
    /\ handled' = Append(handled, inHand)
    /\ inHand' = 0
    /\ UNCHANGED <<queueVars, flagVars, modeVars, status, linkVars, accepted>>

\* releaseConnection() of each broker stops the whole server first, then joins
\* m_thrListen; for pipe and WebSocket that is the thread that calls
\* addToIncoming().
ReleasePipe ==
    /\ broker = "pipe"
    /\ ~adding
    /\ localIsWork' = FALSE
    /\ thrListen' = "none"
    /\ conn' = "closed"

ReleaseRabbitMQ ==
    /\ broker = "rabbitmq"
    /\ localIsWork' = FALSE
    /\ thrListen' = "none"
    /\ conn' = "closed"

\* checkConnection() of the WebSocket server does not notice the release.
ReleaseWebSocket ==
    /\ broker = "websocket"
    /\ ~adding
    /\ localIsWork' = FALSE
    /\ thrListen' = "none"
    /\ UNCHANGED conn

\* Lines 140-148.
RunAfter ==
    /\ Goto("after", "while")
    /\ IF isKeepConnect
       THEN UNCHANGED <<localIsWork, conn, thrListen>>
       ELSE ReleasePipe \/ ReleaseRabbitMQ \/ ReleaseWebSocket
    /\ UNCHANGED <<queueVars, globalIsWork, stopAsked, modeVars, status, breaks,
                   inHand, histVars>>

RunStep ==
    \/ RunStart \/ RunWhile \/ RunEnd \/ RunNeed \/ RunCheck \/ RunStatus
    \/ RunEmpty \/ RunTake \/ RunCallback \/ RunAfter
    \/ \E ok \in BOOLEAN : RunCreate(ok)

Next ==
    \/ AddLock \/ AddPush
    \/ \E c \in Capacities : SetInDeqCapacity(c)
    \/ StopLocal \/ StopGlobal \/ LinkBreak \/ LinkReady
    \/ RunStep

Spec == Init /\ [][Next]_vars

\* The thread of run() and the listener inside its critical section are
\* scheduled, and a createConnection() tried for ever succeeds once.
Fairness ==
    /\ WF_vars(RunStep)
    /\ WF_vars(AddPush)
    /\ SF_vars(RunCreate(TRUE))

LiveSpec == Spec /\ Fairness

-----------------------------------------------------------------------------
(* Properties                                                              *)

TypeOK ==
    /\ broker \in Brokers
    /\ msgInDeque \in Seq(MsgIds)
    /\ capacityMsgDeque \in Capacities
    /\ adding \in BOOLEAN
    /\ localIsWork \in BOOLEAN
    /\ globalIsWork \in BOOLEAN
    /\ stopAsked \in BOOLEAN
    /\ isKeepConnect \in KeepModes
    /\ hasCallback \in CallbackModes
    /\ status \in {"OK", "ERROR_CONNECT", "ERROR_MESSAGE"}
    /\ conn \in {"open", "pending", "closed"}
    /\ thrListen \in {"none", "joinable"}
    /\ breaks \in 0..MaxBreaks
    /\ pc \in RunPcs
    /\ inHand \in 0..MaxMsgs
    /\ accepted \in 0..MaxMsgs
    /\ handled \in Seq(MsgIds)

\* Requests that nobody takes (no callback, a slow callback, a broken link)
\* never make the deque exceed its capacity by more than one.
QueueBound == Len(msgInDeque) <= capacityMsgDeque + 1

\* The callback sees every request at most once and in the order in which the
\* listener received them; what still waits is newer than all it has seen.
HandledInOrder ==
    /\ \A i, j \in 1..Len(handled) : i < j => handled[i] < handled[j]
    /\ \A i \in 1..Len(handled), j \in 1..Len(msgInDeque) :
          handled[i] < msgInDeque[j]
    /\ inHand # 0 => /\ \A i \in 1..Len(handled) : handled[i] < inHand
                     /\ \A j \in 1..Len(msgInDeque) : inHand < msgInDeque[j]

\* run() never calls front() on an empty deque, although it tests for
\* emptiness without the mutex and the listener evicts under it.
NoPopFromEmpty == pc # "undefined"

\* The deque of the listener and run() is sound: bounded, handed over once and in
\* order, and never popped when empty.
QueueIsSound == TypeOK /\ QueueBound /\ HandledInOrder /\ NoPopFromEmpty

\* run() of the pipe and the WebSocket server does not assign a second listener to
\* m_thrListen while the first is joinable, which would terminate the process,
\* whatever checkConnection() answers and however often createConnection() is
\* called.  (RabbitMQ's does when it reconnects.)
OneListener == broker # "rabbitmq" => pc # "terminated"

\* While a server that keeps its connection reports OK its listener has been
\* started, and its link is up unless the RabbitMQ broker has just closed it.
OkMeansServing ==
    (status = "OK" /\ isKeepConnect)
        => /\ thrListen = "joinable"
           /\ conn = "open" \/ broker = "rabbitmq"

\* run() of a server that keeps its connection returns only if somebody outside
\* it asked the server to stop: reconnecting never clears a work flag.
EndsOnlyIfAsked == isKeepConnect /\ pc = "ended" => stopAsked

\* Reconnecting in run() leaves one listener, an OK that can be relied on, and the
\* work flags to those who stop the server.
ListenerServes == OneListener /\ OkMeansServing /\ EndsOnlyIfAsked

\* The server is a lossy FIFO between listener and callback.
Abstract == INSTANCE LossyFifo WITH
    pending <- msgInDeque, transit <- inHand, delivered <- handled,
    accepted <- accepted, capacity <- capacityMsgDeque

\* Every step of the server is a step of the abstract buffer or changes none
\* of its variables.
ImplementsLossyFifo == Abstract!Spec

\* Once either work flag is cleared run() returns, from whichever step, unless a
\* second listener has ended the process.
StopsWhenAsked == (~Working /\ pc # "idle") ~> pc \in {"ended", "terminated"}

\* No request waits for ever while a server with a callback works, even if the
\* listener keeps evicting and createConnection() fails for a while.
RequestsLeave ==
    \A m \in MsgIds :
        (hasCallback /\ \E i \in 1..Len(msgInDeque) : msgInDeque[i] = m)
            ~> (~Working \/ pc = "terminated"
                  \/ \A i \in 1..Len(msgInDeque) : msgInDeque[i] # m)

\* run() serves its deque until it is asked to stop, and then returns.
RunServes == StopsWhenAsked /\ RequestsLeave
=============================================================================
