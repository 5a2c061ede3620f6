----------------------------- MODULE WebSocketLink -----------------------------
(* The websocket brokers: WebSocketClient and WebSocketServer over websocketpp.

   The client has two threads that share m_isOpenned and m_conHandle: run() of
   BaseTransportClient, which checks, releases and creates connections and sends
   requests, and the asio thread, which calls on_open(), on_close() and
   on_message().  The server has two threads that share m_endPointList: its asio
   thread, and the thread that answers requests through sendAnswer().

   A connection is the number of its createConnection() call.  Its number is also
   its name in m_endPointList (address, port and resource: never used twice),
   name 0 is the "Unknown" that get_remote_endpoint() answers once the socket is
   no longer connected, and handle 0 is the empty handle.                        *)
EXTENDS Integers, Sequences

CONSTANTS
    MaxSlow,     \* handshakes that outlast the 2 s checkConnection() waits
    MaxFaults,   \* refused handshakes, broken connections and server restarts
    MaxReqs,     \* requests the client sends
    MaskedReqs   \* the requests the application answers by a mask ("*...")

ASSUME WebSocketAssumption ==
    /\ MaxSlow \in Nat /\ MaxFaults \in Nat /\ MaxReqs \in Nat
    /\ MaskedReqs \subseteq 1..MaxReqs

MaxConns == 1 + MaxSlow + MaxFaults
Conns == 1..MaxConns
Requests == 1..MaxReqs
ZeroFilled == -1     \* the slot after resize() without the copy

VARIABLES
    runPc,            \* client run(): "check", "release", "create", "recheck", "send"
    m_isOpenned,
    m_conHandle,
    m_received,       \* the one-answer slot: 0, an answer, or ZeroFilled
    m_fCallBackResponse,
    handed,           \* the answer given to the application last
    clientBusy,       \* the connection whose on_close() is due, 0 if none
    conn,             \* the client's end of each connection
    requests,         \* in flight to the server, by connection
    via,              \* the connection each request was sent on
    slow, faults,     \* how often MaxSlow and MaxFaults were drawn on
    broken,           \* the connections reset by the network or a dead peer
    peer,             \* the server's end of each connection
    serverBusy,       \* the connection whose on_close() is due at the server
    m_endPointList,
    incoming,         \* requests taken by on_message(), with the sender's name
    answerPc,         \* sendAnswer(): "find", "index", "send"
    answers           \* in flight to the client, by connection

runVars == <<runPc, slow>>
slotVars == <<m_received, m_fCallBackResponse, handed>>
openVars == <<m_isOpenned, m_conHandle>>
netVars == <<faults, broken>>
serverVars == <<peer, serverBusy, m_endPointList, incoming, answerPc>>
vars == <<runVars, openVars, slotVars, clientBusy, conn, requests, via, netVars,
          serverVars, answers>>

Connecting == {c \in Conns : conn[c] = "connecting"}
Last == CHOOSE n \in Conns : \A c \in Conns : conn[c] # "none" <=> c <= n

Init ==
    /\ runPc = "check" /\ slow = 0 /\ faults = 0 /\ broken = {}
    /\ m_isOpenned = FALSE /\ m_conHandle = 0
    /\ m_received = 0 /\ m_fCallBackResponse = FALSE /\ handed = 0
    /\ clientBusy = 0 /\ serverBusy = 0
    /\ conn = [c \in Conns |-> IF c = 1 THEN "connecting" ELSE "none"]
    /\ peer = [c \in Conns |-> "none"]
    /\ requests = [c \in Conns |-> <<>>] /\ answers = [c \in Conns |-> <<>>]
    /\ via = <<>>
    /\ m_endPointList = <<>> /\ incoming = <<>>
    /\ answerPc = [at |-> "find"]

--------------------------------------------------------------------------------
(* The client's run() *)

HandleIsOpen == m_conHandle # 0 /\ conn[m_conHandle] = "open"

\* A version that never waits for on_open().
MutCheckConnection ==
    /\ runPc \in {"check", "recheck"}
    /\ runPc' = IF HandleIsOpen THEN "send"
                ELSE IF runPc = "check" THEN "release" ELSE "check"
    /\ UNCHANGED <<slow, openVars, slotVars, clientBusy, conn, requests, via, netVars,
                   serverVars, answers>>

\* checkConnection() waits for on_open() up to two seconds.  It gives up at will
\* when no handshake is under way, MaxSlow times when one is; either way the
\* state of m_conHandle's connection decides, not m_isOpenned.
CheckConnection ==
    /\ runPc \in {"check", "recheck"}
    /\ IF m_isOpenned \/ Connecting = {}
       THEN slow' = slow
       ELSE slow < MaxSlow /\ slow' = slow + 1
    /\ runPc' = IF HandleIsOpen THEN "send"
                ELSE IF runPc = "check" THEN "release" ELSE "check"
    /\ UNCHANGED <<openVars, slotVars, clientBusy, conn, requests, via, netVars,
                   serverVars, answers>>

\* A version that calls close() whatever m_isOpenned says.
MutReleaseConnection ==
    /\ runPc = "release"
    /\ runPc' = IF ~HandleIsOpen THEN "check" ELSE "create"
    /\ conn' = IF HandleIsOpen
               THEN [conn EXCEPT ![m_conHandle] = "closing"] ELSE conn
    /\ UNCHANGED <<slow, openVars, slotVars, clientBusy, requests, via, netVars,
                   serverVars, answers>>

\* close() throws unless the connection is open: run() then starts over.
ReleaseConnection ==
    /\ runPc = "release"
    /\ runPc' = IF m_isOpenned /\ ~HandleIsOpen THEN "check" ELSE "create"
    /\ conn' = IF m_isOpenned /\ HandleIsOpen
               THEN [conn EXCEPT ![m_conHandle] = "closing"] ELSE conn
    /\ UNCHANGED <<slow, openVars, slotVars, clientBusy, requests, via, netVars,
                   serverVars, answers>>

\* m_isOpenned is cleared without m_mutexOpen; the connection is only started.
CreateConnection ==
    /\ runPc = "create" /\ Last < MaxConns
    /\ m_isOpenned' = FALSE
    /\ conn' = [conn EXCEPT ![Last + 1] = "connecting"]
    /\ runPc' = "recheck"
    /\ UNCHANGED <<slow, m_conHandle, slotVars, clientBusy, requests, via, netVars,
                   serverVars, answers>>

\* With an empty queue run() goes back to the check.  A request sent on a
\* connection that has closed since the check is lost.
SendToStream ==
    /\ runPc = "send"
    /\ runPc' = "check"
    /\ \/ UNCHANGED <<requests, via>>
       \/ /\ Len(via) < MaxReqs
          /\ via' = Append(via, m_conHandle)
          /\ requests' = IF HandleIsOpen
                         THEN [requests EXCEPT ![m_conHandle] = Append(@, Len(via) + 1)]
                         ELSE requests
    /\ UNCHANGED <<slow, openVars, slotVars, clientBusy, conn, netVars, serverVars,
                   answers>>

--------------------------------------------------------------------------------
(* The client's asio thread *)

OnOpen(c) ==
    /\ clientBusy = 0
    /\ conn[c] = "connecting" /\ peer[c] = "open" /\ c \notin broken
    /\ conn' = [conn EXCEPT ![c] = "open"]
    /\ m_conHandle' = c
    /\ m_isOpenned' = TRUE
    /\ UNCHANGED <<runVars, slotVars, clientBusy, requests, via, netVars, serverVars,
                   answers>>

\* A handshake that fails: there is no fail handler, nobody is told.
OnFail(c) ==
    /\ clientBusy = 0
    /\ conn[c] = "connecting" /\ c \in broken
    /\ conn' = [conn EXCEPT ![c] = "closed"]
    /\ UNCHANGED <<runVars, openVars, slotVars, clientBusy, requests, via, netVars,
                   serverVars, answers>>

\* terminate(): the state changes first, the close handler runs after.
Terminate(c) ==
    /\ clientBusy = 0
    /\ \/ conn[c] = "closing"
       \/ conn[c] = "open" /\ (c \in broken \/ peer[c] = "closed")
    /\ conn' = [conn EXCEPT ![c] = "closed"]
    /\ answers' = [answers EXCEPT ![c] = <<>>]
    /\ clientBusy' = c
    /\ UNCHANGED <<runVars, openVars, slotVars, requests, via, netVars, serverVars>>

OnClose ==
    /\ clientBusy # 0
    /\ m_isOpenned' = FALSE
    /\ clientBusy' = 0
    /\ UNCHANGED <<runVars, m_conHandle, slotVars, conn, requests, via, netVars,
                   serverVars, answers>>

\* The slot holds one answer: a newer one takes its place.  With a callback the
\* slot is resized and marked full, but the answer is not copied into it.
OnMessage(c) ==
    /\ clientBusy = 0
    /\ conn[c] = "open" /\ answers[c] # <<>>
    /\ answers' = [answers EXCEPT ![c] = Tail(@)]
    /\ IF m_fCallBackResponse
       THEN m_received' = ZeroFilled /\ handed' = Head(answers[c])
       ELSE m_received' = Head(answers[c]) /\ UNCHANGED handed
    /\ UNCHANGED <<runVars, openVars, m_fCallBackResponse, clientBusy, conn, requests,
                   via, netVars, serverVars>>

(* The application: readAnswer() takes the slot when the buffer has room for it
   (otherwise, and with a callback, it changes nothing).                         *)
ReadAnswer ==
    /\ ~m_fCallBackResponse /\ m_received # 0
    /\ handed' = m_received
    /\ m_received' = 0
    /\ UNCHANGED <<runVars, openVars, m_fCallBackResponse, clientBusy, conn, requests,
                   via, netVars, serverVars, answers>>

SetFCallBackResponse ==
    /\ ~m_fCallBackResponse
    /\ m_fCallBackResponse' = TRUE
    /\ UNCHANGED <<runVars, openVars, m_received, handed, clientBusy, conn, requests,
                   via, netVars, serverVars, answers>>

--------------------------------------------------------------------------------
(* The server's asio thread *)

\* get_remote_endpoint() fails, with the name "Unknown", on a socket whose peer is
\* gone.  When on_close() runs the socket has been shut down: it may fail always.
Endpoints(c) == IF c \in broken \/ conn[c] = "closed" THEN {c, 0} ELSE {c}

Entered(table, name, hdl) ==
    [n \in DOMAIN table \cup {name} |-> IF n = name THEN hdl ELSE table[n]]

ServerOnOpen(c) ==
    /\ serverBusy = 0
    /\ conn[c] = "connecting" /\ peer[c] = "none"
    /\ peer' = [peer EXCEPT ![c] = "open"]
    /\ \E name \in Endpoints(c) : m_endPointList' = Entered(m_endPointList, name, c)
    /\ UNCHANGED <<runVars, openVars, slotVars, clientBusy, conn, requests, via,
                   netVars, serverBusy, incoming, answerPc, answers>>

ServerTerminate(c) ==
    /\ serverBusy = 0
    /\ peer[c] = "open" /\ (c \in broken \/ conn[c] \in {"closing", "closed"})
    /\ peer' = [peer EXCEPT ![c] = "closed"]
    /\ requests' = [requests EXCEPT ![c] = <<>>]
    /\ serverBusy' = c
    /\ UNCHANGED <<runVars, openVars, slotVars, clientBusy, conn, via, netVars,
                   m_endPointList, incoming, answerPc, answers>>

ServerOnClose ==
    /\ serverBusy # 0
    /\ \E name \in {serverBusy, 0} :
          m_endPointList' = [n \in DOMAIN m_endPointList \ {name} |-> m_endPointList[n]]
    /\ serverBusy' = 0
    /\ UNCHANGED <<runVars, openVars, slotVars, clientBusy, conn, requests, via,
                   netVars, peer, incoming, answerPc, answers>>

\* A version that does not record the sender's name.
MutServerOnMessageName(c) ==
    /\ serverBusy = 0
    /\ peer[c] = "open" /\ requests[c] # <<>>
    /\ requests' = [requests EXCEPT ![c] = Tail(@)]
    /\ incoming' = Append(incoming, [from |-> 0, req |-> Head(requests[c])])
    /\ UNCHANGED <<runVars, openVars, slotVars, clientBusy, conn, via, netVars, peer,
                   serverBusy, m_endPointList, answerPc, answers>>

ServerOnMessage(c) ==
    /\ serverBusy = 0
    /\ peer[c] = "open" /\ requests[c] # <<>>
    /\ requests' = [requests EXCEPT ![c] = Tail(@)]
    /\ \E name \in Endpoints(c) :
          incoming' = Append(incoming, [from |-> name, req |-> Head(requests[c])])
    /\ UNCHANGED <<runVars, openVars, slotVars, clientBusy, conn, via, netVars, peer,
                   serverBusy, m_endPointList, answerPc, answers>>

--------------------------------------------------------------------------------
(* The server's answering thread: sendAnswer() with the sender's name or a mask.
   m_endPointList has no lock; its operations are taken as atomic.               *)

AnswerReturns ==
    /\ answerPc' = [at |-> "find"]
    /\ incoming' = Tail(incoming)

\* A version that takes any entry of the table.
MutSendAnswerFind ==
    /\ answerPc.at = "find" /\ incoming # <<>>
    /\ IF DOMAIN m_endPointList = {}
       THEN AnswerReturns
       ELSE /\ \E name \in DOMAIN m_endPointList :
                  answerPc' = [at |-> "send", hdl |-> m_endPointList[name]]
            /\ UNCHANGED incoming
    /\ UNCHANGED <<runVars, openVars, slotVars, clientBusy, conn, requests, via,
                   netVars, peer, serverBusy, m_endPointList, answers>>

\* A mask takes the handle of the first match, in the order of the names.
SendAnswerFind ==
    /\ answerPc.at = "find" /\ incoming # <<>>
    /\ IF Head(incoming).req \in MaskedReqs
       THEN IF DOMAIN m_endPointList = {}
            THEN AnswerReturns
            ELSE /\ \E name \in DOMAIN m_endPointList :
                       answerPc' = [at |-> "send", hdl |-> m_endPointList[name]]
                 /\ UNCHANGED incoming
       ELSE IF Head(incoming).from \notin DOMAIN m_endPointList
            THEN AnswerReturns
            ELSE answerPc' = [at |-> "index"] /\ UNCHANGED incoming
    /\ UNCHANGED <<runVars, openVars, slotVars, clientBusy, conn, requests, via,
                   netVars, peer, serverBusy, m_endPointList, answers>>

\* operator[] enters an empty handle when the name has been erased meanwhile.
SendAnswerIndex ==
    /\ answerPc.at = "index"
    /\ m_endPointList' = IF Head(incoming).from \in DOMAIN m_endPointList
                         THEN m_endPointList
                         ELSE Entered(m_endPointList, Head(incoming).from, 0)
    /\ answerPc' = [at |-> "send", hdl |-> m_endPointList'[Head(incoming).from]]
    /\ UNCHANGED <<runVars, openVars, slotVars, clientBusy, conn, requests, via,
                   netVars, peer, serverBusy, incoming, answers>>

\* get_con_from_hdl() throws for an empty handle, send() refuses a closed connection.
SendAnswerSend ==
    /\ answerPc.at = "send"
    /\ answers' = IF answerPc.hdl # 0 /\ peer[answerPc.hdl] = "open"
                  THEN [answers EXCEPT ![answerPc.hdl] = Append(@, Head(incoming).req)]
                  ELSE answers
    /\ AnswerReturns
    /\ UNCHANGED <<runVars, openVars, slotVars, clientBusy, conn, requests, via,
                   netVars, peer, serverBusy, m_endPointList>>

--------------------------------------------------------------------------------
(* Faults: a connection is refused or reset; the server's process is restarted.  *)

Break(c) ==
    /\ faults < MaxFaults
    /\ conn[c] \in {"connecting", "open"} /\ c \notin broken
    /\ broken' = broken \cup {c}
    /\ faults' = faults + 1
    /\ UNCHANGED <<runVars, openVars, slotVars, clientBusy, conn, requests, via,
                   serverVars, answers>>

ServerRestart ==
    /\ faults < MaxFaults
    /\ \E c \in Conns : peer[c] # "none"
    /\ faults' = faults + 1
    /\ broken' = broken \cup {c \in Conns : peer[c] = "open"}
    /\ peer' = [c \in Conns |-> IF peer[c] = "open" THEN "closed" ELSE peer[c]]
    /\ requests' = [c \in Conns |-> <<>>]
    /\ serverBusy' = 0 /\ m_endPointList' = <<>> /\ incoming' = <<>>
    /\ answerPc' = [at |-> "find"]
    /\ UNCHANGED <<runVars, openVars, slotVars, clientBusy, conn, via, answers>>

ClientRun == CheckConnection \/ ReleaseConnection \/ CreateConnection \/ SendToStream
Handler(c) == OnOpen(c) \/ OnFail(c) \/ Terminate(c) \/ OnMessage(c)
ServerHandler(c) == ServerOnOpen(c) \/ ServerTerminate(c) \/ ServerOnMessage(c)
Answering == SendAnswerFind \/ SendAnswerIndex \/ SendAnswerSend

Next ==
    \/ ClientRun \/ OnClose \/ ReadAnswer \/ SetFCallBackResponse
    \/ ServerOnClose \/ Answering \/ ServerRestart
    \/ \E c \in Conns : Handler(c) \/ ServerHandler(c) \/ Break(c)

Spec == Init /\ [][Next]_vars

\* run(), the two asio loops and the answering thread are scheduled; websocketpp
\* gives up a handshake after its time-out, so none stays under way for ever.
Fairness ==
    /\ WF_vars(ClientRun) /\ WF_vars(Answering)
    /\ WF_vars(OnClose) /\ WF_vars(ServerOnClose)
    /\ \A c \in Conns : WF_vars(Handler(c)) /\ WF_vars(ServerHandler(c))

LiveSpec == Spec /\ Fairness

--------------------------------------------------------------------------------
(* Properties *)

TypeOK ==
    /\ runPc \in {"check", "release", "create", "recheck", "send"}
    /\ m_isOpenned \in BOOLEAN /\ m_conHandle \in 0..MaxConns
    /\ m_received \in Requests \cup {0, ZeroFilled} /\ handed \in Requests \cup {0}
    /\ m_fCallBackResponse \in BOOLEAN
    /\ clientBusy \in 0..MaxConns /\ serverBusy \in 0..MaxConns
    /\ conn \in [Conns -> {"none", "connecting", "open", "closing", "closed"}]
    /\ peer \in [Conns -> {"none", "open", "closed"}]
    /\ requests \in [Conns -> Seq(Requests)] /\ answers \in [Conns -> Seq(Requests)]
    /\ via \in Seq(Conns) /\ slow \in 0..MaxSlow /\ faults \in 0..MaxFaults
    /\ broken \subseteq Conns
    /\ DOMAIN m_endPointList \subseteq 0..MaxConns
    /\ \A n \in DOMAIN m_endPointList : m_endPointList[n] \in 0..MaxConns
    /\ incoming \in Seq([from : 0..MaxConns, req : Requests])
    /\ answerPc.at \in {"find", "index", "send"}

\* m_isOpenned promises that on_close() of m_conHandle's connection has not run:
\* only then does releaseConnection() close it, and only a flag that on_close()
\* takes back lets a release that throws be followed by one that does not.
OpennedIsLive ==
    m_isOpenned => \/ HandleIsOpen
                   \/ m_conHandle # 0 /\ conn[m_conHandle] = "closing"
                   \/ clientBusy = m_conHandle

\* As long as no handshake outlasts the wait of checkConnection() the client has
\* one connection at most: run() never starts one beside an open one.
OneConnection ==
    slow = 0 => \A c, d \in Conns :
        {conn[c], conn[d]} \subseteq {"connecting", "open"} => c = d

\* run() knows the connection it has: the flag is true of the handle, and there is
\* no second connection beside it.
ConnectionIsHeld == TypeOK /\ OpennedIsLive /\ OneConnection

\* The application never gets an older answer after a newer one, over reconnections
\* too, as long as OneConnection's condition holds.  (An answer by a mask may take
\* another connection than its request, and come late.)
InOrder ==
    handed' # handed => handed' > handed \/ slow' > 0 \/ handed' \in MaskedReqs

AnswersInOrder == [][InOrder]_vars

\* An answer by the sender's name travels to the client on the connection the
\* request came by, whatever entries m_endPointList has gained or lost meanwhile.
AnswersRouted ==
    \A c \in Conns : conn[c] = "open" =>
        \A i \in DOMAIN answers[c] :
            answers[c][i] \notin MaskedReqs => via[answers[c][i]] = c

\* A client that both ends hold open can be answered: m_endPointList has its handle
\* under its name, until its on_close() runs.
TableComplete ==
    \A c \in Conns : conn[c] = "open" /\ peer[c] = "open" /\ c \notin broken =>
        c \in DOMAIN m_endPointList /\ m_endPointList[c] = c

\* m_endPointList leads an answer to the connection of its request, and has the
\* entry that takes it there.
AnswersFindTheirWay == AnswersRouted /\ TableComplete

\* However handshakes, faults and give-ups fall, once they end the client has an
\* open connection in m_conHandle for good.
Reconnects == <>[]HandleIsOpen

\* Unless an attempt was given up, m_isOpenned ends up true as well, and
\* checkConnection() no longer waits two seconds before every message.  (The late
\* on_close() of a given-up connection takes the flag from the one in use.)
ChecksAtOnce == <>[](m_isOpenned \/ slow > 0)

\* The link comes back for good, and its flag with it.
Recovers == Reconnects /\ ChecksAtOnce

\* A request on the wire, answered by the sender's name, reaches the client's
\* on_message(), unless its connection goes down first.
Answered ==
    \A r \in Requests \ MaskedReqs :
        (\E c \in Conns : \E i \in DOMAIN requests[c] : requests[c][i] = r)
            ~> /\ r \in DOMAIN via
               /\ r \in {m_received, handed} \/ via[r] \in broken \/ conn[via[r]] # "open"

\* Answers arrive, once each and in order.
AnswersArrive == AnswersInOrder /\ Answered

================================================================================
