----------------------------- MODULE WsClientAsync -----------------------------
(***************************************************************************)
(* TWebSocketClientAsync: one io_context that the application's thread     *)
(* (the constructor, write(), loopRead(), close()) and the ping() thread   *)
(* stop, reset, give an operation to and run in turn.  Whoever runs it     *)
(* executes the handlers of both.  Each of these four steps is atomic, and *)
(* so is a handler; the stream itself, which both threads use without a    *)
(* lock, is taken as atomic too.                                           *)
(***************************************************************************)
EXTENDS Naturals

CONSTANTS MaxDrops      \* bound: outages of the server

Threads == {"app", "ping"}
Attempt == {"resolve", "connect", "timer", "handshake"}
Transfers == {"write", "ask", "read", "loop", "close"}
Ops == Attempt \cup Transfers \cup {"failed"}

VARIABLES
    stage,          \* where each thread is
    wanted,         \* the operation the application's call starts
    jobs,           \* jobs[op]: operations whose handler has not run
    stopped,        \* m_ioc is stopped
    m_isConnected,
    link,           \* the stream is "down" or "up"
    server,         \* the server can be reached
    drops,
    gaveUp,         \* the last attempt ended without a connection
    robbed          \* m_ioc ran out of work between a thread's reset and run

linkVars == <<m_isConnected, link, gaveUp>>
peerVars == <<server, drops>>
asyncVars == <<stage, wanted, jobs, stopped, linkVars, peerVars, robbed>>

Issue(op, j) == [j EXCEPT ![op] = @ + 1]
End(op, j) == [j EXCEPT ![op] = @ - 1]
Idle(j) == \A op \in Ops : j[op] = 0

\* An operation on the stream fails at once when there is no connection.
Transfer(op, j) == Issue(IF link = "up" THEN op ELSE "failed", j)

GoTo(t, place) == stage' = [stage EXCEPT ![t] = place]

\* The constructor: connect() and m_ioc.run().
AsyncInit ==
    /\ stage = [t \in Threads |-> IF t = "app" THEN "run" ELSE "none"]
    /\ wanted = "write"
    /\ jobs = [op \in Ops |-> IF op = "resolve" THEN 1 ELSE 0]
    /\ stopped = FALSE
    /\ m_isConnected = FALSE /\ link = "down" /\ gaveUp = FALSE
    /\ server = TRUE /\ drops = 0
    /\ robbed = FALSE

--------------------------------------------------------------------------------
(* The four steps of write(), loopRead(), close() and of the catch in ping()   *)

\* write() with or without an answer, loopRead() or close().
AppCall(op) ==
    /\ stage["app"] = "idle"
    /\ wanted' = op
    /\ GoTo("app", "stop")
    /\ UNCHANGED <<jobs, stopped, linkVars, peerVars, robbed>>

\* ping() of a connection that is gone throws.
Ping ==
    /\ stage["ping"] = "idle"
    /\ m_isConnected /\ link = "down"
    /\ m_isConnected' = FALSE
    /\ GoTo("ping", "stop")
    /\ UNCHANGED <<wanted, jobs, stopped, link, gaveUp, peerVars, robbed>>

Stop(t) ==
    /\ stage[t] = "stop"
    /\ stopped' = TRUE
    /\ GoTo(t, "reset")
    /\ UNCHANGED <<wanted, jobs, linkVars, peerVars, robbed>>

\* A version without m_ioc.reset().
MutReset(t) ==
    /\ stage[t] = "reset"
    /\ robbed' = (robbed /\ ~Idle(jobs))
    /\ GoTo(t, "start")
    /\ UNCHANGED <<wanted, jobs, stopped, linkVars, peerVars>>

Reset(t) ==
    /\ stage[t] = "reset"
    /\ stopped' = FALSE
    /\ robbed' = (robbed /\ ~Idle(jobs))
    /\ GoTo(t, "start")
    /\ UNCHANGED <<wanted, jobs, linkVars, peerVars>>

Begin(t) ==
    /\ stage[t] = "start"
    /\ jobs' = IF t = "ping" THEN Issue("resolve", jobs) ELSE Transfer(wanted, jobs)
    /\ gaveUp' = (gaveUp /\ t = "app")
    /\ GoTo(t, "enter")
    /\ UNCHANGED <<wanted, stopped, m_isConnected, link, peerVars, robbed>>

\* The end of run(); the constructor starts the ping() thread after it.
Leaves(t) ==
    stage' = [stage EXCEPT ![t] = "idle",
                     !["ping"] = IF @ = "none" \/ t = "ping" THEN "idle" ELSE @]

\* m_ioc runs out of work in run() of thread t while another is about to run it.
Robbing(t, out) ==
    robbed' = (robbed \/ (out /\ \E u \in Threads \ {t} : stage[u] \in {"start", "enter"}))

Run(t) ==
    /\ stage[t] = "enter"
    /\ IF stopped \/ Idle(jobs) THEN Leaves(t) ELSE GoTo(t, "run")
    /\ stopped' = (stopped \/ Idle(jobs))
    /\ Robbing(t, ~stopped /\ Idle(jobs))
    /\ UNCHANGED <<wanted, jobs, linkVars, peerVars>>

LeaveRun(t) ==
    /\ stage[t] = "run" /\ stopped
    /\ Leaves(t)
    /\ UNCHANGED <<wanted, jobs, stopped, linkVars, peerVars, robbed>>

--------------------------------------------------------------------------------
(* The handlers                                                                *)

\* A handler of op has run and left j behind; without work m_ioc stops itself.
Handled(t, op, j) ==
    /\ stage[t] = "run" /\ ~stopped
    /\ jobs[op] > 0
    /\ jobs' = j
    /\ stopped' = Idle(j)
    /\ Robbing(t, Idle(j))
    /\ UNCHANGED <<stage, wanted, peerVars>>

\* on_resolve(): a name that is not found ends the attempt.
OnResolve(t) ==
    /\ \/ /\ Handled(t, "resolve", Issue("connect", End("resolve", jobs)))
          /\ UNCHANGED gaveUp
       \/ /\ ~server
          /\ Handled(t, "resolve", End("resolve", jobs))
          /\ gaveUp' = TRUE
    /\ UNCHANGED <<m_isConnected, link>>

\* A version that does not try again.
MutOnConnect(t) ==
    /\ Handled(t, "connect", IF server THEN Issue("handshake", End("connect", jobs))
                                       ELSE End("connect", jobs))
    /\ m_isConnected' = (m_isConnected /\ server)
    /\ UNCHANGED <<link, gaveUp>>

\* on_connect(): tried again after two seconds.
OnConnect(t) ==
    /\ Handled(t, "connect", Issue(IF server THEN "handshake" ELSE "timer",
                                   End("connect", jobs)))
    /\ m_isConnected' = (m_isConnected /\ server)
    /\ UNCHANGED <<link, gaveUp>>

OnReadyToReconnect(t) ==
    /\ Handled(t, "timer", Issue("resolve", End("timer", jobs)))
    /\ UNCHANGED linkVars

\* on_handshake(): a failure ends the attempt.
OnHandshake(t) ==
    /\ Handled(t, "handshake", End("handshake", jobs))
    /\ \/ server /\ m_isConnected' = TRUE /\ link' = "up" /\ UNCHANGED gaveUp
       \/ m_isConnected' = FALSE /\ gaveUp' = TRUE /\ UNCHANGED link

\* on_write(), which may ask for an answer.
OnWrite(t) ==
    /\ \/ Handled(t, "write", End("write", jobs))
       \/ Handled(t, "ask", Transfer("read", End("ask", jobs)))
    /\ UNCHANGED linkVars

\* on_read(), in loopRead() again and again.
OnRead(t) ==
    /\ \/ Handled(t, "read", End("read", jobs))
       \/ Handled(t, "loop", jobs)
    /\ UNCHANGED linkVars

\* Any handler of the stream that is given an error.
OnFailed(t) ==
    /\ Handled(t, "failed", End("failed", jobs))
    /\ UNCHANGED linkVars

\* The operations under way on a connection that is gone will fail.
FailAll(j) == [op \in Ops |-> IF op \in Transfers THEN 0
                           ELSE IF op = "failed"
                                THEN j[op] + j["write"] + j["ask"] + j["read"] + j["loop"] + j["close"]
                                ELSE j[op]]

\* on_close(); m_isConnected stays, so that ping() connects again.
OnClose(t) ==
    /\ Handled(t, "close", FailAll(End("close", jobs)))
    /\ link' = "down"
    /\ UNCHANGED <<m_isConnected, gaveUp>>

--------------------------------------------------------------------------------
(* The server                                                                  *)

Drop ==
    /\ server /\ drops < MaxDrops
    /\ server' = FALSE /\ drops' = drops + 1
    /\ link' = "down"
    /\ jobs' = FailAll(jobs)
    /\ UNCHANGED <<stage, wanted, stopped, m_isConnected, gaveUp, robbed>>

Rise ==
    /\ ~server /\ server' = TRUE
    /\ UNCHANGED <<stage, wanted, jobs, stopped, linkVars, drops, robbed>>

Steps(t) == Stop(t) \/ Reset(t) \/ Begin(t) \/ Run(t)
Connecting(t) == OnResolve(t) \/ OnConnect(t) \/ OnReadyToReconnect(t) \/ OnHandshake(t)
Ending(t) == OnWrite(t) \/ OnFailed(t) \/ OnClose(t)

AsyncNext ==
    \/ \E op \in {"write", "ask", "loop", "close"} : AppCall(op)
    \/ Ping
    \/ \E t \in Threads :
        \/ Steps(t) \/ LeaveRun(t) \/ Connecting(t)
        \/ OnRead(t) \/ Ending(t)
    \/ Drop \/ Rise

\* Both threads are scheduled, attempts, writes and failed operations complete, and
\* a thread in run() notices a stop that comes again and again.  Messages need not
\* arrive, and the application need not call anything.
AsyncFairness ==
    /\ WF_asyncVars(Ping)
    /\ \A t \in Threads : WF_asyncVars(Steps(t)) /\ SF_asyncVars(LeaveRun(t))
    /\ WF_asyncVars(\E t \in Threads : Connecting(t))
    /\ WF_asyncVars(\E t \in Threads : Ending(t))

AsyncSpec == AsyncInit /\ [][AsyncNext]_asyncVars /\ AsyncFairness

--------------------------------------------------------------------------------
\* One attempt to connect and one read at a time: the two threads never give the
\* stream an operation of which it has another one under way (connect(), write(),
\* loopRead(), on_write(), ping()).
NoOverlap ==
    /\ jobs["resolve"] + jobs["connect"] + jobs["timer"] + jobs["handshake"] <= 1
    /\ robbed \/ /\ jobs["read"] + jobs["ask"] + jobs["loop"] <= 1
                 /\ jobs["write"] + jobs["ask"] + jobs["close"] <= 1

\* Whichever thread stops m_ioc under the other one, somebody runs it or is about
\* to run it while handlers wait -- unless it ran out of work, and so stopped,
\* between a thread's reset() and its run() (write(), loopRead(), close(), ping()).
WorkIsRun ==
    \/ Idle(jobs) \/ robbed
    \/ \E t \in Threads : stage[t] \in {"stop", "reset"}
                          \/ (stage[t] \in {"start", "enter", "run"} /\ ~stopped)

\* When the server stays up the client ends up connected, whatever outages, calls
\* of close() and interruptions there were before -- unless an attempt ended at a
\* name that was not found or a failed handshake, which nobody repeats, or its
\* handlers were left without a run() (on_connect(), ping()).  close() only
\* interrupts the connection.
ComesBack == (<>[]server) => []<>(link = "up" \/ gaveUp \/ robbed)

\* The two threads that share m_ioc neither start an operation twice nor leave one
\* without a run() (write(), loopRead(), close(), ping()).
HandlersAreSafe == NoOverlap /\ WorkIsRun
================================================================================
