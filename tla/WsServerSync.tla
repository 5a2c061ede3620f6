----------------------------- MODULE WsServerSync -----------------------------
(***************************************************************************)
(* TWebSocketServerSync: startListen() accepts a connection and starts     *)
(* do_session() in a thread of its own, which keeps the stream in          *)
(* m_wsClients for as long as recvAndAnswer() runs; sendAll() of another   *)
(* thread writes to every stream of the table.  A client stands for its    *)
(* host:port and connects once.  Unlocked look-ups in the table, and two   *)
(* threads writing to one stream, are taken as atomic.                     *)
(***************************************************************************)
CONSTANTS WsClients

VARIABLES
    peer,           \* peer[c]: "new", "on", "stuck" (does not read), "off"
    listening,      \* the loop of startListen() runs
    session,        \* where do_session() of each client is
    m_wsClients,    \* clients with an entry
    alive,          \* clients whose stream is allocated
    m_mtx,          \* "none" or "sender"; a session locks for one step
    sender,         \* sendAll() is "idle" or in its loop, "send"
    rest,           \* clients the loop has still to visit
    unsent,         \* history: connected clients the message has not reached
    terminated      \* an exception left a thread

sendVars == <<sender, rest, unsent>>
wsVars == <<peer, listening, session, m_wsClients, alive, m_mtx, sendVars, terminated>>

WsInit ==
    /\ peer = [c \in WsClients |-> "new"]
    /\ listening = TRUE
    /\ session = [c \in WsClients |-> "none"]
    /\ m_wsClients = {} /\ alive = {}
    /\ m_mtx = "none"
    /\ sender = "idle" /\ rest = {} /\ unsent = {}
    /\ terminated = FALSE

Moves(c, place) == session' = [session EXCEPT ![c] = place]
Blocked(c) == session[c] \in {"read", "answer"} /\ peer[c] = "stuck"
Connected(c) == session[c] \in {"read", "answer"} /\ peer[c] # "off"

-------------------------------------------------------------------------------
(* startListen(), do_session() and recvAndAnswer()                            *)

\* remote_endpoint() of a connection that was reset throws, which ends the loop.
Accept(c) ==
    /\ listening
    /\ peer[c] # "new" /\ session[c] = "none"
    /\ \/ Moves(c, "enter") /\ UNCHANGED listening
       \/ peer[c] = "off" /\ listening' = FALSE /\ Moves(c, "over")
    /\ UNCHANGED <<peer, m_wsClients, alive, m_mtx, sendVars, terminated>>

\* Here it only ends the session.  Otherwise the stream enters the table.
EnterSession(c) ==
    /\ session[c] = "enter"
    /\ \/ /\ peer[c] = "off"
          /\ Moves(c, "over")
          /\ UNCHANGED <<m_wsClients, alive>>
       \/ /\ m_mtx = "none"
          /\ Moves(c, "accept")
          /\ m_wsClients' = m_wsClients \cup {c}
          /\ alive' = alive \cup {c}
    /\ UNCHANGED <<peer, listening, m_mtx, sendVars, terminated>>

\* A handshake that fails ends the session and leaves the entry behind.
Handshake(c) ==
    /\ session[c] = "accept"
    /\ \/ peer[c] # "off" /\ Moves(c, "read")
       \/ Moves(c, "over")
    /\ UNCHANGED <<peer, listening, m_wsClients, alive, m_mtx, sendVars, terminated>>

\* A request that is answered; or the end of the connection.
Read(c) ==
    /\ session[c] = "read"
    /\ \/ peer[c] # "off" /\ Moves(c, "answer")
       \/ peer[c] = "off" /\ Moves(c, "leave")
    /\ UNCHANGED <<peer, listening, m_wsClients, alive, m_mtx, sendVars, terminated>>

\* write() without an error code: its exception leaves the thread.
Answer(c) ==
    /\ session[c] = "answer"
    /\ peer[c] # "stuck"
    /\ Moves(c, "read")
    /\ \/ UNCHANGED terminated
       \/ peer[c] = "off" /\ terminated' = TRUE
    /\ UNCHANGED <<peer, listening, m_wsClients, alive, m_mtx, sendVars>>

\* A version that deletes the stream before it locks.
MutLeave(c) ==
    /\ session[c] = "leave"
    /\ \/ /\ c \in alive
          /\ alive' = alive \ {c}
          /\ UNCHANGED <<session, m_wsClients>>
       \/ /\ c \notin alive /\ m_mtx = "none"
          /\ m_wsClients' = m_wsClients \ {c}
          /\ Moves(c, "over")
          /\ UNCHANGED alive
    /\ UNCHANGED <<peer, listening, m_mtx, sendVars, terminated>>

\* A version that does not wait for the mutex.
MutLeaveTries(c) ==
    /\ session[c] = "leave"
    /\ alive' = IF m_mtx = "none" THEN alive \ {c} ELSE alive
    /\ m_wsClients' = IF m_mtx = "none" THEN m_wsClients \ {c} ELSE m_wsClients
    /\ Moves(c, "over")
    /\ UNCHANGED <<peer, listening, m_mtx, sendVars, terminated>>

\* The end of do_session().
Leave(c) ==
    /\ session[c] = "leave"
    /\ m_mtx = "none"
    /\ alive' = alive \ {c}
    /\ m_wsClients' = m_wsClients \ {c}
    /\ Moves(c, "over")
    /\ UNCHANGED <<peer, listening, m_mtx, sendVars, terminated>>

-------------------------------------------------------------------------------
(* sendAll()                                                                  *)

SendAll ==
    /\ sender = "idle"
    /\ m_mtx = "none"
    /\ m_mtx' = "sender"
    /\ sender' = "send"
    /\ rest' = m_wsClients
    /\ unsent' = {c \in m_wsClients : Connected(c)}
    /\ UNCHANGED <<peer, listening, session, m_wsClients, alive, terminated>>

\* sendOne(): a blocking write(), whose errors are caught here.
SendOne(c) ==
    /\ sender = "send" /\ c \in rest
    /\ ~Blocked(c)
    /\ rest' = rest \ {c}
    /\ unsent' = unsent \ {c}
    /\ UNCHANGED <<peer, listening, session, m_wsClients, alive, m_mtx, sender, terminated>>

SendEnd ==
    /\ sender = "send" /\ rest = {}
    /\ sender' = "idle"
    /\ m_mtx' = "none"
    /\ UNCHANGED <<peer, listening, session, m_wsClients, alive, rest, unsent, terminated>>

-------------------------------------------------------------------------------
(* The clients                                                                *)

Turn(c, to) == peer' = [peer EXCEPT ![c] = to]

Connect(c) == /\ peer[c] = "new" /\ Turn(c, "on")
              /\ UNCHANGED <<listening, session, m_wsClients, alive, m_mtx,
                             sendVars, terminated>>

\* The client stops reading, reads again, or is gone.
Wedge(c) == /\ peer[c] = "on" /\ Turn(c, "stuck")
            /\ UNCHANGED <<listening, session, m_wsClients, alive, m_mtx,
                           sendVars, terminated>>

Unwedge(c) == /\ peer[c] = "stuck" /\ Turn(c, "on")
              /\ UNCHANGED <<listening, session, m_wsClients, alive, m_mtx,
                             sendVars, terminated>>

Vanish(c) == /\ peer[c] \in {"on", "stuck"} /\ Turn(c, "off")
             /\ unsent' = unsent \ {c}
             /\ UNCHANGED <<listening, session, m_wsClients, alive, m_mtx,
                            sender, rest, terminated>>

ReadsOrGoes(c) == Unwedge(c) \/ Vanish(c)
Session(c) == EnterSession(c) \/ Handshake(c) \/ Read(c) \/ Answer(c) \/ Leave(c)

\* After std::terminate() nothing happens any more.
WsNext ==
    \/ /\ ~terminated
       /\ \/ \E c \in WsClients :
               \/ Accept(c) \/ Session(c) \/ SendOne(c)
               \/ Connect(c) \/ Wedge(c) \/ ReadsOrGoes(c)
          \/ SendAll \/ SendEnd
    \/ terminated /\ UNCHANGED wsVars

WsSpec == WsInit /\ [][WsNext]_wsVars

\* Threads are scheduled, the mutex is granted to a thread that asks for it often
\* enough, and a client that does not read reads again or goes away one day.
WsFairness ==
    /\ WF_wsVars(~terminated /\ SendEnd)
    /\ \A c \in WsClients :
        /\ SF_wsVars(~terminated /\ SendOne(c))
        /\ SF_wsVars(~terminated /\ Leave(c))
        /\ WF_wsVars(~terminated /\ peer[c] = "stuck" /\ ReadsOrGoes(c))

-------------------------------------------------------------------------------
\* Whatever clients come and go, the table holds streams that exist, and sendAll()
\* goes over streams of the table: none is deleted under its loop (do_session(),
\* sendAll()).
StreamsExist == m_wsClients \subseteq alive /\ rest \subseteq m_wsClients

\* A client that has gone, or is still shaking hands, does not keep the message of
\* sendAll() from the clients that are connected (sendOne(), sendAll()).
ReachesEveryone == sender = "idle" => unsent = {}

\* The entry of a client that left is removed, even if sendAll() was writing to
\* clients that do not read at that moment (do_session(), sendAll()).
LeaversAreRemoved ==
    \A c \in WsClients : session[c] = "leave" ~> c \notin m_wsClients \/ terminated

\* sendAll() writes to streams that exist, and a lost client does not keep the
\* message from the others (do_session(), sendAll(), sendOne()).
SendAllIsSafe == StreamsExist /\ ReachesEveryone
===============================================================================
