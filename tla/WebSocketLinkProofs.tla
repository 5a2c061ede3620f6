-------------------------- MODULE WebSocketLinkProofs --------------------------
(* What the websocket brokers keep for every number of connections, faults, slow
   handshakes and requests: the client knows the connection it has, an answer takes
   the connection of its request, and answers come in the order of the requests.
   LinkInv is the inductive invariant.

   OneInv and OrderInv, two parts of it, are about executions in which no handshake
   has outlasted checkConnection() so far (slow = 0): after one that has, the client
   may hold two connections at a time.                                            *)
EXTENDS WebSocketLink, TLAPS

--------------------------------------------------------------------------------
(* The invariant *)

Up(c) == conn[c] \in {"connecting", "open"}

\* A connection the client will never hold open (again).
Lost(c) == c \in broken /\ conn[c] # "open"

\* What TypeOK leaves open: connections are numbered in the order of their creation,
\* and the answering thread is at work on the first request that waits.
Types ==
    /\ TypeOK
    /\ Last \in Conns /\ \A c \in Conns : conn[c] # "none" <=> c <= Last
    /\ \A c \in Conns : conn[c] = "none" => peer[c] = "none"
    /\ answerPc.at # "find" => incoming # <<>>
    /\ answerPc.at = "send" => answerPc.hdl \in 0..MaxConns
    /\ m_received = ZeroFilled => m_fCallBackResponse
    /\ m_conHandle # 0 => conn[m_conHandle] \notin {"none", "connecting"}
    /\ runPc = "send" => m_conHandle # 0

\* Without a slow handshake run() creates a connection only when it has none.
OneInv ==
    slow = 0 => /\ \A c \in Conns : Up(c) => c = Last
                /\ \A c \in Conns : conn[c] = "open" => c = m_conHandle
                /\ m_isOpenned => Connecting = {}
                /\ runPc \in {"release", "create"} => \A c \in Conns : ~Up(c)

\* On its way a request stays with its connection, or with one that is lost.
RouteInv ==
    /\ \A c \in Conns : \A i \in DOMAIN requests[c] :
          requests[c][i] \in DOMAIN via /\ via[requests[c][i]] = c
    /\ \A i \in DOMAIN incoming :
          incoming[i].req \in DOMAIN via /\ incoming[i].from \in {0, via[incoming[i].req]}
    /\ answerPc.at = "send" /\ Head(incoming).req \notin MaskedReqs =>
          answerPc.hdl = 0 \/ answerPc.hdl = via[Head(incoming).req] \/ Lost(answerPc.hdl)
    /\ \A c \in Conns : \A i \in DOMAIN answers[c] :
          /\ answers[c][i] \in DOMAIN via
          /\ answers[c][i] \in MaskedReqs \/ via[answers[c][i]] = c \/ Lost(c)

\* Requests are sent over later and later connections, and those of one connection
\* stay in order until the client has their answers.
SentInOrder ==
    /\ \A i, j \in DOMAIN via : i < j => via[i] <= via[j]
    /\ \A i \in DOMAIN via : via[i] <= m_conHandle
    /\ \A c \in Conns : \A i, j \in DOMAIN requests[c] : i < j => requests[c][i] < requests[c][j]
    /\ \A i, j \in DOMAIN incoming : i < j /\ via[incoming[i].req] = via[incoming[j].req] =>
          incoming[i].req < incoming[j].req
    /\ \A i \in DOMAIN incoming, c \in Conns : \A j \in DOMAIN requests[c] :
          via[incoming[i].req] = c => incoming[i].req < requests[c][j]

\* r was given out before any request of connection c that is still on its way.
Ahead(r, c) ==
    /\ \A i \in DOMAIN requests[c] : r < requests[c][i]
    /\ \A i \in DOMAIN incoming : via[incoming[i].req] = c => r < incoming[i].req

AnsweredInOrder ==
    /\ \A c \in Conns : Up(c) =>
          /\ \A i \in DOMAIN answers[c] : Ahead(answers[c][i], c)
          /\ \A i, j \in DOMAIN answers[c] :
                i < j /\ via[answers[c][j]] = c => answers[c][i] < answers[c][j]
          /\ \A r \in {handed, m_received} :
                /\ Ahead(r, c)
                /\ \A i \in DOMAIN answers[c] : via[answers[c][i]] = c => r < answers[c][i]
    /\ \A r \in {handed, m_received} : r <= Len(via)
    /\ m_received > 0 /\ m_received \notin MaskedReqs => handed < m_received

OrderInv == slow = 0 => SentInOrder /\ AnsweredInOrder

\* The flag is taken back by on_close() of the connection it was set for.
FlagInv == m_isOpenned => m_conHandle # 0 /\ OpennedIsLive

\* What m_endPointList says of a connection, and of "Unknown".
TableInv ==
    /\ serverBusy # 0 => peer[serverBusy] = "closed"
    /\ \A c \in Conns : peer[c] = "open" /\ c \notin broken /\ conn[c] # "closed" =>
          c \in DOMAIN m_endPointList /\ m_endPointList[c] = c
    /\ \A n \in DOMAIN m_endPointList :
          \/ m_endPointList[n] = 0
          \/ n # 0 /\ m_endPointList[n] = n
          \/ n = 0 /\ Lost(m_endPointList[n])

LinkInv == Types /\ FlagInv /\ OneInv /\ TableInv /\ RouteInv /\ OrderInv

--------------------------------------------------------------------------------
(* Numbers and queues *)

\* The numbers of connections and of requests.
LEMMA Numbers == MaxConns \in Nat \ {0} /\ Conns \subseteq Nat \ {0} /\ 1 \in Conns
                 /\ Requests \subseteq Nat \ {0} /\ (\A c \in Conns : c \in 0..MaxConns)
BY WebSocketAssumption DEF MaxConns, Conns, Requests

\* What the types say of the queues.
LEMMA Queues ==
    ASSUME NEW S, NEW s \in Seq(S), s # <<>>
    PROVE  Head(s) \in S /\ Tail(s) \in Seq(S) /\ Head(s) = s[1] /\ 1 \in DOMAIN s /\ Len(s) \in Nat \ {0}
           /\ Len(Tail(s)) = Len(s) - 1 /\ \A i \in DOMAIN Tail(s) : i + 1 \in DOMAIN s /\ Tail(s)[i] = s[i + 1]
OBVIOUS

\* What Append() leaves in place.
LEMMA Appended ==
    ASSUME NEW S, NEW s \in Seq(S), NEW e \in S
    PROVE  /\ Append(s, e) \in Seq(S) /\ Len(Append(s, e)) = Len(s) + 1 /\ Len(s) \in Nat
           /\ DOMAIN Append(s, e) = DOMAIN s \cup {Len(s) + 1}
           /\ DOMAIN s = 1..Len(s)
           /\ Append(s, e)[Len(s) + 1] = e
           /\ \A i \in DOMAIN s : Append(s, e)[i] = s[i] /\ i < Len(s) + 1
OBVIOUS

\* A connection that is changed and stays, and one that is new.
LEMMA StaysStarted ==
    ASSUME Types, NEW c \in Conns, NEW v, conn[c] # "none", v # "none",
           conn' = [conn EXCEPT ![c] = v]
    PROVE  Last' = Last
<1>1. \A d \in Conns : conn'[d] # "none" <=> conn[d] # "none"
  BY DEF Types, TypeOK
<1> QED BY <1>1 DEF Last

\* createConnection() takes the next number.
LEMMA OneMoreStarted ==
    ASSUME Types, Last < MaxConns, conn' = [conn EXCEPT ![Last + 1] = "connecting"]
    PROVE  Last' = Last + 1 /\ Last + 1 \in Conns /\ conn[Last + 1] = "none"
<1>1. Last \in Nat /\ Last + 1 \in Conns /\ MaxConns \in Nat
  BY Numbers DEF Types, Conns
<1>2. conn[Last + 1] = "none"
  BY <1>1 DEF Types
<1>3. \A c \in Conns : conn'[c] # "none" <=> c <= Last + 1
  BY <1>1 DEF Types, TypeOK, Conns
<1>4. \A n \in Conns : (\A c \in Conns : conn'[c] # "none" <=> c <= n) => n = Last + 1
  BY <1>1, <1>3, Numbers
<1>5. Last' = Last + 1
  BY <1>1, <1>3, <1>4 DEF Last
<1> QED BY <1>1, <1>2, <1>5

\* The count of slow handshakes only grows.
LEMMA NeverSlow ==
    ASSUME Types, [Next]_vars, slow' = 0 PROVE slow = 0
<1>1. CASE CheckConnection
  <2>1. slow \in Nat
    BY WebSocketAssumption DEF Types, TypeOK
  <2> QED BY <1>1, <2>1 DEF CheckConnection
<1>2. CASE ~CheckConnection
  BY <1>2 DEF runVars, Next, vars, ClientRun, Handler, ReleaseConnection, CreateConnection,
              SendToStream, OnOpen, OnFail, Terminate, OnClose, ReadAnswer, SetFCallBackResponse,
              ServerOnClose, Answering, SendAnswerFind, SendAnswerIndex, SendAnswerSend,
              ServerRestart, OnMessage, ServerHandler, ServerOnOpen, ServerTerminate,
              ServerOnMessage, Break
<1> QED BY <1>1, <1>2

--------------------------------------------------------------------------------
(* The order of the answers *)

\* Requests leave in order over later and later connections, and each queue is first in
\* first out: what is still on its way is newer than what has been answered.
LEMMA StepOrder == Types /\ OneInv /\ RouteInv /\ OrderInv /\ [Next]_vars => OrderInv'
<1> SUFFICES ASSUME Types, OneInv, RouteInv, OrderInv, [Next]_vars, slow' = 0
             PROVE  SentInOrder' /\ AnsweredInOrder'
  BY DEF OrderInv
<1> USE DEF runVars, openVars, slotVars, netVars, serverVars
<1>s. slow = 0 /\ SentInOrder /\ AnsweredInOrder
  BY NeverSlow DEF OrderInv
<1>0. /\ conn \in [Conns -> {"none", "connecting", "open", "closing", "closed"}]
      /\ requests \in [Conns -> Seq(Requests)] /\ answers \in [Conns -> Seq(Requests)]
      /\ via \in Seq(Conns) /\ incoming \in Seq([from : 0..MaxConns, req : Requests])
      /\ Conns \subseteq Nat \ {0} /\ Requests \subseteq Nat \ {0}
      /\ m_conHandle \in Nat /\ (m_conHandle # 0 => m_conHandle \in Conns)
      /\ handed \in Requests \cup {0} /\ m_received \in Requests \cup {0, ZeroFilled}
      /\ answerPc.at # "find" => incoming # <<>>
  <2>1. TypeOK /\ (answerPc.at # "find" => incoming # <<>>)
    BY Zenon DEF Types
  <2>2. m_conHandle \in Nat /\ (m_conHandle # 0 => m_conHandle \in Conns)
    <3>1. m_conHandle \in 0..MaxConns
      BY <2>1 DEF TypeOK
    <3> QED BY <3>1, Numbers DEF Conns
  <2> QED BY <2>1, <2>2, Numbers, Zenon DEF TypeOK
<1>v. DOMAIN via = 1..Len(via) /\ Len(via) \in Nat /\ (\A i \in DOMAIN via : via[i] \in Conns)
  BY <1>0
<1>r. /\ \A c \in Conns : \A i \in DOMAIN requests[c] : requests[c][i] \in DOMAIN via /\ via[requests[c][i]] = c
      /\ \A i \in DOMAIN incoming : incoming[i].req \in DOMAIN via
      /\ \A c \in Conns : \A i \in DOMAIN answers[c] : answers[c][i] \in DOMAIN via
      /\ \A c \in Conns : conn[c] = "open" => \A i \in DOMAIN answers[c] :
            answers[c][i] \in MaskedReqs \/ via[answers[c][i]] = c
  BY DEF RouteInv, Lost
<1>u. /\ \A c \in Conns : Up(c) => c = Last
      /\ Last \in Nat /\ m_conHandle <= Last
      /\ \A i \in DOMAIN via : via[i] <= Last
  <2>1. \A c \in Conns : Up(c) => c = Last
    BY <1>s DEF OneInv
  <2>2. Last \in Nat /\ (m_conHandle # 0 => m_conHandle <= Last)
    BY <1>0 DEF Types
  <2>3. m_conHandle <= Last
    BY <1>0, <2>2
  <2>4. ASSUME NEW i \in DOMAIN via PROVE via[i] <= Last
    <3>1. via[i] <= m_conHandle /\ via[i] \in Nat
      BY <1>s, <1>0, <1>v, Zenon DEF SentInOrder
    <3> QED BY <3>1, <2>2, <2>3, <1>0
  <2> QED BY <2>1, <2>2, <2>3, <2>4
<1>1. ASSUME UNCHANGED <<requests, incoming, via, answers, handed, m_received>>,
             \A c \in Conns : Up(c)' => Up(c), UNCHANGED m_conHandle
      PROVE  SentInOrder' /\ AnsweredInOrder'
  BY <1>s, <1>1 DEF SentInOrder, AnsweredInOrder, Ahead
<1>2. ASSUME NEW c \in Conns, OnOpen(c) PROVE SentInOrder' /\ AnsweredInOrder'
  <2>1. /\ conn[c] = "connecting" /\ conn' = [conn EXCEPT ![c] = "open"] /\ m_conHandle' = c
        /\ UNCHANGED <<requests, incoming, via, answers, handed, m_received>>
    BY <1>2 DEF OnOpen
  <2>2. c = Last /\ \A d \in Conns : Up(d)' <=> Up(d)
    BY <1>0, <1>u, <2>1 DEF Up
  <2>3. SentInOrder'
    BY <1>s, <1>u, <2>1, <2>2 DEF SentInOrder
  <2>4. AnsweredInOrder'
    BY <1>s, <2>1, <2>2 DEF AnsweredInOrder, Ahead
  <2> QED BY <2>3, <2>4
<1>3. CASE CreateConnection
  <2>1. /\ Last < MaxConns /\ conn' = [conn EXCEPT ![Last + 1] = "connecting"]
        /\ UNCHANGED <<requests, incoming, via, answers, handed, m_received, m_conHandle>>
    BY <1>3 DEF CreateConnection
  <2>2. Last + 1 \in Conns /\ \A d \in Conns \ {Last + 1} : Up(d)' <=> Up(d)
    BY <1>0, <2>1, OneMoreStarted DEF Up
  <2>3. \A i \in DOMAIN via : via[i] # Last + 1
    BY <1>u, <1>v, <1>0
  <2>4. SentInOrder'
    BY <1>s, <2>1 DEF SentInOrder
  <2>5. \A i \in DOMAIN requests[Last + 1] : FALSE
    BY <1>r, <2>2, <2>3
  <2>6. AnsweredInOrder'
    BY <1>s, <1>r, <2>1, <2>2, <2>3, <2>5 DEF AnsweredInOrder, Ahead
  <2> QED BY <2>4, <2>6
<1>4. CASE SendToStream
  <2>1. /\ runPc = "send"
        /\ UNCHANGED <<incoming, conn, answers, handed, m_received, m_conHandle>>
    BY <1>4 DEF SendToStream
  <2>2. CASE UNCHANGED <<requests, via>>
    BY <1>1, <2>1, <2>2 DEF Up
  <2>3. CASE /\ Len(via) < MaxReqs
             /\ via' = Append(via, m_conHandle)
             /\ requests' = IF HandleIsOpen
                            THEN [requests EXCEPT ![m_conHandle] = Append(@, Len(via) + 1)]
                            ELSE requests
    <3> DEFINE new == Len(via) + 1
    <3>1. m_conHandle \in Conns /\ new \in Nat /\ new \notin DOMAIN via
      BY <1>0, <1>v, <2>1 DEF Types
    <3>n. new \in Requests
      BY <1>v, <2>3, WebSocketAssumption DEF Requests
    <3>2. /\ DOMAIN via' = DOMAIN via \cup {new} /\ Len(via') = new /\ via'[new] = m_conHandle
          /\ \A i \in DOMAIN via : via'[i] = via[i] /\ i < new /\ i \in Nat
      BY <1>0, <1>v, <2>3, <3>1, Appended
    <3>3. \A c \in Conns : \A i \in DOMAIN requests'[c] :
            \/ i \in DOMAIN requests[c] /\ requests'[c][i] = requests[c][i]
            \/ requests'[c][i] = new /\ i = Len(requests[c]) + 1
      <4>1. CASE HandleIsOpen
        <5>1. ASSUME NEW c \in Conns, NEW i \in DOMAIN requests'[c], c = m_conHandle
              PROVE  \/ i \in DOMAIN requests[c] /\ requests'[c][i] = requests[c][i]
                     \/ requests'[c][i] = new /\ i = Len(requests[c]) + 1
          <6>1. requests'[c] = Append(requests[c], new) /\ requests[c] \in Seq(Requests)
            BY <1>0, <2>3, <4>1, <5>1
          <6> QED BY <6>1, <5>1, <3>n, Appended
        <5> QED BY <1>0, <2>3, <4>1, <5>1
      <4> QED BY <2>3, <4>1
    <3> HIDE DEF new
    <3>q. \A c \in Conns : DOMAIN requests[c] \subseteq Nat /\ DOMAIN requests'[c] \subseteq Nat
                           /\ DOMAIN requests[c] = 1..Len(requests[c]) /\ Len(requests[c]) \in Nat
      <4>1. requests' \in [Conns -> Seq(Requests)]
        BY <1>0, <2>3, <3>1, <3>n, Appended DEF new
      <4> QED BY <1>0, <4>1
    <3>4. \A c \in Conns : \A i, j \in DOMAIN requests'[c] :
             i < j /\ j \in DOMAIN requests[c] => i \in DOMAIN requests[c]
      BY <3>3, <3>q
    <3>5. SentInOrder'
      <4>1. \A i, j \in DOMAIN via' : i < j => via'[i] <= via'[j]
        BY <1>s, <1>0, <1>v, <3>1, <3>2 DEF SentInOrder
      <4>2. \A i \in DOMAIN via' : via'[i] <= m_conHandle'
        BY <1>s, <1>0, <1>v, <2>1, <3>1, <3>2 DEF SentInOrder
      <4>3. ASSUME NEW c \in Conns, NEW i \in DOMAIN requests'[c], NEW j \in DOMAIN requests'[c], i < j
            PROVE  requests'[c][i] < requests'[c][j]
        <5>1. i \in DOMAIN requests[c] /\ requests'[c][i] = requests[c][i]
          <6>1. CASE j \in DOMAIN requests[c]
            BY <3>3, <3>4, <3>q, <4>3, <6>1
          <6>2. CASE j \notin DOMAIN requests[c]
            BY <3>3, <3>q, <4>3, <6>2
          <6> QED BY <6>1, <6>2
        <5>2. CASE j \in DOMAIN requests[c] /\ requests'[c][j] = requests[c][j]
          BY <1>s, <4>3, <5>1, <5>2 DEF SentInOrder
        <5>3. CASE requests'[c][j] = new
          BY <1>r, <3>2, <5>1, <5>3
        <5> QED BY <3>3, <5>2, <5>3
      <4>4. \A i \in DOMAIN incoming : via'[incoming[i].req] = via[incoming[i].req] /\ incoming[i].req < new
        BY <1>r, <3>2
      <4>5. \A i \in DOMAIN incoming, c \in Conns : \A j \in DOMAIN requests'[c] :
              via[incoming[i].req] = c => incoming[i].req < requests'[c][j]
        BY <1>s, <3>3, <4>4 DEF SentInOrder
      <4> QED BY <1>s, <2>1, <4>1, <4>2, <4>3, <4>4, <4>5 DEF SentInOrder
    <3>6. ASSUME NEW r, NEW c \in Conns, r < new, Ahead(r, c) PROVE Ahead(r, c)'
      BY <1>r, <2>1, <3>2, <3>3, <3>6 DEF Ahead
    <3>7. AnsweredInOrder'
      <4>1. \A r \in {handed, m_received} : r <= Len(via) /\ r < new /\ r <= new
        BY <1>s, <1>0, <1>v DEF AnsweredInOrder, ZeroFilled, new
      <4>2. \A c \in Conns : \A i \in DOMAIN answers[c] :
               via'[answers[c][i]] = via[answers[c][i]] /\ answers[c][i] < new
        BY <1>r, <3>2
      <4>3. ASSUME NEW c \in Conns, Up(c)
            PROVE  /\ \A i \in DOMAIN answers[c] : Ahead(answers[c][i], c)'
                   /\ \A r \in {handed, m_received} : Ahead(r, c)'
        BY <1>s, <3>6, <4>1, <4>2, <4>3, <2>1 DEF AnsweredInOrder, Ahead
      <4> QED BY <1>s, <2>1, <3>2, <4>1, <4>2, <4>3 DEF AnsweredInOrder, Up
    <3> QED BY <3>5, <3>7
  <2> QED BY <1>4, <2>2, <2>3 DEF SendToStream
<1>5. ASSUME NEW c \in Conns, OnMessage(c) PROVE SentInOrder' /\ AnsweredInOrder'
  <2>1. /\ conn[c] = "open" /\ answers[c] # <<>> /\ answers' = [answers EXCEPT ![c] = Tail(@)]
        /\ IF m_fCallBackResponse
           THEN m_received' = ZeroFilled /\ handed' = Head(answers[c])
           ELSE m_received' = Head(answers[c]) /\ handed' = handed
        /\ UNCHANGED <<requests, incoming, via, conn, m_conHandle>>
    BY <1>5 DEF OnMessage
  <2>2. SentInOrder'
    BY <1>s, <2>1 DEF SentInOrder
  <2>3. c = Last /\ Up(c) /\ \A d \in Conns : Up(d)' => d = c
    BY <1>u, <2>1 DEF Up
  <2> DEFINE a == answers[c][1]
  <2>t. answers[c] \in Seq(Requests) /\ answers'[c] = Tail(answers[c])
    BY <1>0, <2>1
  <2>4. /\ Head(answers[c]) = a /\ 1 \in DOMAIN answers[c]
        /\ \A i \in DOMAIN answers'[c] : i + 1 \in DOMAIN answers[c] /\ answers'[c][i] = answers[c][i + 1]
    BY <2>t, <2>1, Queues
  <2>n. a \in Nat /\ DOMAIN answers'[c] \subseteq Nat \ {0}
    <3>1. a \in Requests
      BY <2>t, <2>1, <2>4, Queues
    <3>2. Tail(answers[c]) \in Seq(Requests)
      BY <2>t, <2>1, Queues
    <3>3. a \in Nat
      BY <1>0, <3>1, Zenon
    <3>4. answers'[c] \in Seq(Requests)
      BY <2>t, <3>2
    <3>5. DOMAIN answers'[c] \subseteq Nat \ {0}
      BY <3>4
    <3> QED BY <3>3, <3>5
  <2>o. /\ \A i \in DOMAIN answers[c] : Ahead(answers[c][i], c)
        /\ \A i, j \in DOMAIN answers[c] :
              i < j /\ via[answers[c][j]] = c => answers[c][i] < answers[c][j]
        /\ \A r \in {handed, m_received} :
              Ahead(r, c) /\ \A i \in DOMAIN answers[c] : via[answers[c][i]] = c => r < answers[c][i]
    BY <1>s, <2>3 DEF AnsweredInOrder
  <2>5. /\ a \in DOMAIN via /\ a <= Len(via) /\ Ahead(a, c) /\ (a \in MaskedReqs \/ via[a] = c)
        /\ \A i \in DOMAIN answers'[c] : via[answers'[c][i]] = c => a < answers'[c][i]
    <3>1. a \in DOMAIN via /\ Ahead(a, c) /\ (a \in MaskedReqs \/ via[a] = c)
      BY <1>r, <2>1, <2>4, <2>o
    <3>2. ASSUME NEW i \in DOMAIN answers'[c], via[answers'[c][i]] = c PROVE a < answers'[c][i]
      BY <2>4, <2>n, <2>o, <3>2
    <3> QED BY <1>v, <3>1, <3>2
  <2>6. /\ \A i \in DOMAIN answers'[c] : Ahead(answers'[c][i], c)
        /\ \A i, j \in DOMAIN answers'[c] :
              i < j /\ via[answers'[c][j]] = c => answers'[c][i] < answers'[c][j]
        /\ \A r \in {handed, m_received} :
              Ahead(r, c) /\ \A i \in DOMAIN answers'[c] : via[answers'[c][i]] = c => r < answers'[c][i]
    BY <2>4, <2>n, <2>o
  <2>7. /\ Ahead(ZeroFilled, c) /\ ZeroFilled <= Len(via)
        /\ \A i \in DOMAIN answers'[c] : ZeroFilled < answers'[c][i]
    <3>1. \A x \in DOMAIN via : ZeroFilled < x
      BY <1>v DEF ZeroFilled
    <3> QED BY <1>r, <1>v, <2>4, <3>1 DEF Ahead, ZeroFilled
  <2>8. m_received' > 0 /\ m_received' \notin MaskedReqs => handed' < m_received'
    BY <2>1, <2>4, <2>5, <2>o DEF ZeroFilled
  <2>9. \A r \in {handed', m_received'} :
           /\ Ahead(r, c) /\ r <= Len(via)
           /\ \A i \in DOMAIN answers'[c] : via[answers'[c][i]] = c => r < answers'[c][i]
    <3>1. handed <= Len(via)
      BY <1>s DEF AnsweredInOrder
    <3>2. \A r \in {handed', m_received'} : r \in {a, ZeroFilled, handed}
      BY <2>1, <2>4
    <3> QED BY <2>5, <2>6, <2>7, <3>1, <3>2
  <2>10. AnsweredInOrder'
    <3>1. \A r : Ahead(r, c)' <=> Ahead(r, c)
      BY <2>1 DEF Ahead
    <3> QED BY <2>1, <2>3, <2>6, <2>8, <2>9 DEF AnsweredInOrder, Ahead
  <2> QED BY <2>2, <2>10
<1>6. CASE ReadAnswer
  <2>1. /\ handed' = m_received /\ m_received' = 0
        /\ UNCHANGED <<requests, incoming, via, answers, conn, m_conHandle>>
    BY <1>6 DEF ReadAnswer
  <2>2. SentInOrder'
    BY <1>s, <2>1 DEF SentInOrder
  <2>3. \A x \in DOMAIN via : 0 < x
    BY <1>v
  <2>4. AnsweredInOrder'
    BY <1>s, <1>r, <1>v, <2>1, <2>3 DEF AnsweredInOrder, Ahead, Up
  <2> QED BY <2>2, <2>4
<1>7. CASE (\E c \in Conns : ServerTerminate(c)) \/ ServerRestart
  <2>1. UNCHANGED <<via, answers, conn, handed, m_received, m_conHandle>>
    BY <1>7 DEF ServerTerminate, ServerRestart
  <2>2. /\ incoming' = incoming \/ incoming' = <<>>
        /\ \A c \in Conns : requests'[c] = requests[c] \/ requests'[c] = <<>>
    BY <1>0, <1>7 DEF ServerTerminate, ServerRestart
  <2>3. SentInOrder'
    BY <1>s, <2>1, <2>2 DEF SentInOrder
  <2>4. \A c \in Conns : \A r : Ahead(r, c) => Ahead(r, c)'
    BY <2>1, <2>2 DEF Ahead
  <2>5. AnsweredInOrder'
    BY <1>s, <2>1, <2>4 DEF AnsweredInOrder, Up
  <2> QED BY <2>3, <2>5
<1>8. ASSUME NEW c \in Conns, ServerOnMessage(c) PROVE SentInOrder' /\ AnsweredInOrder'
  <2>1. /\ requests[c] # <<>> /\ requests' = [requests EXCEPT ![c] = Tail(@)]
        /\ UNCHANGED <<via, answers, conn, handed, m_received, m_conHandle>>
    BY <1>8 DEF ServerOnMessage
  <2> DEFINE q == requests[c][1]
             k == Len(incoming) + 1
  <2>2. PICK name \in 0..MaxConns : incoming' = Append(incoming, [from |-> name, req |-> Head(requests[c])])
    BY <1>8, Numbers DEF ServerOnMessage, Endpoints
  <2>t. requests[c] \in Seq(Requests) /\ requests'[c] = Tail(requests[c])
    BY <1>0, <2>1
  <2>3. /\ Head(requests[c]) = q /\ 1 \in DOMAIN requests[c] /\ q \in Requests
        /\ \A i \in DOMAIN requests'[c] : i + 1 \in DOMAIN requests[c] /\ requests'[c][i] = requests[c][i + 1]
    BY <2>t, <2>1, Queues
  <2>n. \A i \in DOMAIN requests'[c] : i \in Nat \ {0}
    <3>1. requests'[c] \in Seq(Requests)
      BY <2>t, <2>1, Queues
    <3> QED BY <3>1
  <2>4. /\ \A i \in DOMAIN incoming' : i \in DOMAIN incoming \/ i = k
        /\ \A i \in DOMAIN incoming : incoming'[i] = incoming[i] /\ i < k /\ i \in Nat
        /\ incoming'[k].req = q /\ k \in Nat
    <3> DEFINE e == [from |-> name, req |-> q]
               E == [from : 0..MaxConns, req : Requests]
    <3>1. e \in E /\ e.req = q /\ incoming \in Seq(E)
      BY <1>0, <2>3
    <3>2. incoming' = Append(incoming, e)
      BY <2>2, <2>3
    <3> HIDE DEF e, E
    <3>3. /\ DOMAIN incoming' = DOMAIN incoming \cup {k} /\ incoming'[k] = e /\ k \in Nat
          /\ DOMAIN incoming = 1..Len(incoming) /\ Len(incoming) \in Nat
          /\ \A i \in DOMAIN incoming : incoming'[i] = incoming[i]
      BY <3>1, <3>2, Appended
    <3> QED BY <3>1, <3>3
  <2>5. q \in DOMAIN via /\ via[q] = c
    BY <1>r, <2>3
  <2>6. \A d \in Conns : d # c => requests'[d] = requests[d]
    BY <1>0, <2>1
  <2> HIDE DEF q, k
  <2>o. /\ \A i, j \in DOMAIN requests[c] : i < j => requests[c][i] < requests[c][j]
        /\ \A i \in DOMAIN incoming : \A j \in DOMAIN requests[c] :
              via[incoming[i].req] = c => incoming[i].req < requests[c][j]
    BY <1>s DEF SentInOrder
  <2>7. \A i \in DOMAIN requests'[c] : q < requests'[c][i]
    BY <2>3, <2>n, <2>o DEF q
  <2>8. SentInOrder'
    <3>1. \A i, j \in DOMAIN requests'[c] : i < j => requests'[c][i] < requests'[c][j]
      BY <2>3, <2>n, <2>o
    <3>2. \A d \in Conns : \A i, j \in DOMAIN requests'[d] : i < j => requests'[d][i] < requests'[d][j]
      BY <1>s, <2>6, <3>1 DEF SentInOrder
    <3>3. \A i \in DOMAIN incoming : via[incoming[i].req] = c => incoming[i].req < q
      BY <2>3, <2>o DEF q
    <3>4. \A i, j \in DOMAIN incoming' : i < j /\ via[incoming'[i].req] = via[incoming'[j].req] =>
             incoming'[i].req < incoming'[j].req
      BY <1>s, <2>4, <2>5, <3>3 DEF SentInOrder
    <3>5. ASSUME NEW i \in DOMAIN incoming', NEW d \in Conns, NEW j \in DOMAIN requests'[d],
                 via[incoming'[i].req] = d
          PROVE  incoming'[i].req < requests'[d][j]
      <4>1. CASE i = k
        BY <2>4, <2>5, <2>7, <3>5, <4>1
      <4>2. CASE i \in DOMAIN incoming /\ d = c
        BY <2>3, <2>4, <2>o, <3>5, <4>2
      <4>3. CASE i \in DOMAIN incoming /\ d # c
        BY <1>s, <2>4, <2>6, <3>5, <4>3 DEF SentInOrder
      <4> QED BY <2>4, <4>1, <4>2, <4>3
    <3> QED BY <1>s, <2>1, <3>2, <3>4, <3>5 DEF SentInOrder
  <2>9. ASSUME NEW r, NEW d \in Conns, Ahead(r, d) PROVE Ahead(r, d)'
    <3>1. \A i \in DOMAIN requests'[d] : r < requests'[d][i]
      BY <2>3, <2>6, <2>9 DEF Ahead
    <3>2. \A i \in DOMAIN incoming' : via[incoming'[i].req] = d => r < incoming'[i].req
      <4>1. d = c => r < q
        BY <2>3, <2>9 DEF Ahead, q
      <4> QED BY <2>4, <2>5, <2>9, <4>1 DEF Ahead
    <3> QED BY <2>1, <3>1, <3>2 DEF Ahead
  <2>10. AnsweredInOrder'
    BY <1>s, <2>1, <2>9 DEF AnsweredInOrder, Up
  <2> QED BY <2>8, <2>10
<1>9. ASSUME AnswerReturns, incoming # <<>>, UNCHANGED <<via, requests, m_conHandle>>
      PROVE  /\ SentInOrder'
             /\ \A r : \A d \in Conns : Ahead(r, d) => Ahead(r, d)'
             /\ 1 \in DOMAIN incoming /\ Head(incoming) = incoming[1]
             /\ \A i \in DOMAIN incoming' : /\ i + 1 \in DOMAIN incoming /\ i \in Nat \ {0}
                                            /\ incoming'[i] = incoming[i + 1]
  <2> DEFINE E == [from : 0..MaxConns, req : Requests]
  <2>1. incoming \in Seq(E) /\ incoming' = Tail(incoming)
    BY <1>0, <1>9 DEF AnswerReturns
  <2> HIDE DEF E
  <2>2. /\ 1 \in DOMAIN incoming /\ Head(incoming) = incoming[1]
        /\ incoming' \in Seq(E)
        /\ \A i \in DOMAIN incoming' : i + 1 \in DOMAIN incoming /\ incoming'[i] = incoming[i + 1]
    BY <1>9, <2>1, Queues
  <2>3. \A i \in DOMAIN incoming' : i \in Nat \ {0}
    BY <2>2
  <2>4. SentInOrder'
    <3>1. \A i, j \in DOMAIN incoming' : i < j /\ via[incoming'[i].req] = via[incoming'[j].req] =>
             incoming'[i].req < incoming'[j].req
      BY <1>s, <2>2, <2>3 DEF SentInOrder
    <3>2. \A i \in DOMAIN incoming', c \in Conns : \A j \in DOMAIN requests[c] :
             via[incoming'[i].req] = c => incoming'[i].req < requests[c][j]
      BY <1>s, <2>2 DEF SentInOrder
    <3> QED BY <1>s, <1>9, <3>1, <3>2 DEF SentInOrder
  <2>5. \A r : \A d \in Conns : Ahead(r, d) => Ahead(r, d)'
    BY <1>9, <2>2 DEF Ahead
  <2> QED BY <2>2, <2>3, <2>4, <2>5
<1>10. CASE SendAnswerFind
  <2>1. /\ incoming # <<>>
        /\ AnswerReturns \/ UNCHANGED incoming
        /\ UNCHANGED <<requests, via, answers, conn, handed, m_received, m_conHandle>>
    BY <1>10 DEF SendAnswerFind
  <2>2. CASE AnswerReturns
    <3>1. AnsweredInOrder'
      BY <1>s, <1>9, <2>1, <2>2 DEF AnsweredInOrder, Up
    <3> QED BY <1>9, <2>1, <2>2, <3>1
  <2>3. CASE UNCHANGED incoming
    BY <1>1, <2>1, <2>3 DEF Up
  <2> QED BY <2>1, <2>2, <2>3
<1>11. CASE SendAnswerSend
  <2> DEFINE h == answerPc.hdl
             q == incoming[1].req
             k == Len(answers[h]) + 1
             Still(r, c) == /\ \A i \in DOMAIN requests[c] : r < requests[c][i]
                            /\ \A i \in DOMAIN incoming' : via[incoming'[i].req] = c => r < incoming'[i].req
  <2>1. /\ incoming # <<>> /\ AnswerReturns
        /\ UNCHANGED <<requests, via, conn, handed, m_received, m_conHandle>>
        /\ h \in 0..MaxConns
    BY <1>0, <1>11 DEF SendAnswerSend, Types
  <2>2. SentInOrder'
    BY <1>9, <2>1
  <2>i. /\ 1 \in DOMAIN incoming /\ Head(incoming).req = q
        /\ \A i \in DOMAIN incoming' : i + 1 \in DOMAIN incoming /\ i \in Nat \ {0} /\ incoming'[i] = incoming[i + 1]
    BY <1>9, <2>1
  <2>a. \A r : \A d \in Conns : Ahead(r, d) => Still(r, d)
    BY <2>i DEF Ahead
  <2>3. CASE answers' = answers
    <3>1. AnsweredInOrder'
      BY <1>s, <1>9, <2>1, <2>3 DEF AnsweredInOrder, Up
    <3> QED BY <2>2, <3>1
  <2>4. CASE h # 0 /\ answers' = [answers EXCEPT ![h] = Append(@, Head(incoming).req)]
    <3>1. /\ h \in Conns /\ answers'[h] = Append(answers[h], q) /\ answers[h] \in Seq(Requests)
          /\ q \in DOMAIN via /\ q \in Requests
          /\ \A d \in Conns : d # h => answers'[d] = answers[d]
      <4>1. h \in Conns
        BY <2>1, <2>4, Numbers DEF Conns
      <4>2. q \in DOMAIN via
        BY <1>r, <2>i
      <4>3. q \in Requests
        <5> DEFINE E == [from : 0..MaxConns, req : Requests]
        <5>1. incoming \in Seq(E) /\ 1 \in DOMAIN incoming
          BY <1>0, <2>i
        <5> HIDE DEF E
        <5>2. incoming[1] \in E
          BY <5>1
        <5> QED BY <5>2 DEF E
      <4> QED BY <1>0, <2>4, <2>i, <4>1, <4>2, <4>3, Zenon
    <3>2. /\ \A i \in DOMAIN answers'[h] : i \in DOMAIN answers[h] \/ i = k
          /\ \A i \in DOMAIN answers[h] : answers'[h][i] = answers[h][i] /\ i < k /\ i \in Nat
          /\ answers'[h][k] = q /\ k \in Nat
      BY <3>1, Appended
    <3> HIDE DEF h, q, k
    <3>3. ASSUME NEW c \in Conns, Up(c)
          PROVE  /\ \A i \in DOMAIN answers'[c] : Still(answers'[c][i], c)
                 /\ \A i, j \in DOMAIN answers'[c] :
                       i < j /\ via[answers'[c][j]] = c => answers'[c][i] < answers'[c][j]
                 /\ \A r \in {handed, m_received} :
                       /\ Still(r, c)
                       /\ \A i \in DOMAIN answers'[c] : via[answers'[c][i]] = c => r < answers'[c][i]
      <4>o. /\ \A i \in DOMAIN answers[c] : Ahead(answers[c][i], c)
            /\ \A i, j \in DOMAIN answers[c] :
                  i < j /\ via[answers[c][j]] = c => answers[c][i] < answers[c][j]
            /\ \A r \in {handed, m_received} :
                  Ahead(r, c) /\ \A i \in DOMAIN answers[c] : via[answers[c][i]] = c => r < answers[c][i]
        BY <1>s, <3>3 DEF AnsweredInOrder
      <4>1. CASE c # h
        BY <2>a, <3>1, <4>o, <4>1
      <4>2. CASE c = h
        <5>0. via[q] \in Nat /\ c \in Nat
          BY <1>0, <1>v, <3>1, Zenon
        <5>1. via[q] <= c /\ \A x \in DOMAIN via : via[q] < c /\ via[x] = c => q < x
          <6>1. via[q] <= c
            BY <1>u, <3>1, <3>3
          <6>2. ASSUME NEW x \in DOMAIN via, via[q] < c, via[x] = c PROVE q < x
            <7>1. x < q => via[x] <= via[q]
              BY <1>s, <3>1 DEF SentInOrder
            <7>2. q \in Nat /\ x \in Nat
              BY <1>v, <3>1
            <7> QED BY <5>0, <6>2, <7>1, <7>2
          <6> QED BY <6>1, <6>2
        <5>2. Still(q, c)
          <6>1. \A i \in DOMAIN requests[c] : q < requests[c][i]
            <7>1. via[q] = c => \A i \in DOMAIN requests[c] : q < requests[c][i]
              BY <1>s, <2>i DEF SentInOrder, q
            <7> QED BY <1>r, <5>0, <5>1, <7>1
          <6>2. \A i \in DOMAIN incoming' : via[incoming'[i].req] = c => q < incoming'[i].req
            <7>1. ASSUME NEW i \in DOMAIN incoming', via[incoming'[i].req] = c, via[q] = c
                  PROVE  q < incoming'[i].req
              BY <1>s, <2>i, <7>1 DEF SentInOrder, q
            <7>2. \A i \in DOMAIN incoming' : incoming'[i].req \in DOMAIN via
              BY <1>r, <2>i
            <7> QED BY <5>0, <5>1, <7>1, <7>2
          <6> QED BY <6>1, <6>2
        <5>3. \A r : Ahead(r, c) /\ via[q] = c => r < q
          BY <2>i DEF Ahead, q
        <5>5. \A i \in DOMAIN answers'[c] : Still(answers'[c][i], c)
          <6>1. \A i \in DOMAIN answers[c] : Still(answers[c][i], c)
            BY <2>a, <4>o
          <6> HIDE DEF Still
          <6> QED BY <3>2, <4>2, <5>2, <6>1
        <5>6. \A i, j \in DOMAIN answers'[c] :
                 i < j /\ via[answers'[c][j]] = c => answers'[c][i] < answers'[c][j]
          BY <3>2, <4>2, <4>o, <5>3
        <5>7. \A r \in {handed, m_received} :
                 /\ Still(r, c)
                 /\ \A i \in DOMAIN answers'[c] : via[answers'[c][i]] = c => r < answers'[c][i]
          BY <3>2, <4>2, <4>o, <5>3, <2>a
        <5> QED BY <5>5, <5>6, <5>7
      <4> QED BY <4>1, <4>2
    <3>4. AnsweredInOrder'
      BY <1>s, <2>1, <3>3, Zenon DEF AnsweredInOrder, Up, Ahead
    <3> QED BY <2>2, <3>4
  <2> QED BY <1>11, <2>3, <2>4 DEF SendAnswerSend
<1>12. CASE ReleaseConnection
  BY <1>0, <1>1, <1>12 DEF ReleaseConnection, Up
<1>13. ASSUME NEW c \in Conns, OnFail(c) PROVE SentInOrder' /\ AnsweredInOrder'
  BY <1>0, <1>1, <1>13 DEF OnFail, Up
<1>14. ASSUME NEW c \in Conns, Terminate(c) PROVE SentInOrder' /\ AnsweredInOrder'
  <2>1. /\ UNCHANGED <<requests, incoming, via, handed, m_received, m_conHandle>>
        /\ ~Up(c)'
        /\ \A d \in Conns : d # c => answers'[d] = answers[d] /\ (Up(d)' <=> Up(d))
    BY <1>0, <1>14 DEF Terminate, Up
  <2>u. \A d \in Conns : Up(d)' => answers'[d] = answers[d] /\ Up(d)
    BY <2>1, Zenon
  <2>2. SentInOrder'
    BY <1>s, <2>1 DEF SentInOrder
  <2>3. AnsweredInOrder'
    <3>1. \A d \in Conns : \A r : Ahead(r, d) => Ahead(r, d)'
      BY <2>1, Zenon DEF Ahead
    <3> QED BY <1>s, <2>1, <2>u, <3>1, SMTT(20) DEF AnsweredInOrder, Ahead
  <2> QED BY <2>2, <2>3
<1>15. CASE \/ CheckConnection \/ OnClose \/ SetFCallBackResponse \/ ServerOnClose \/ SendAnswerIndex
            \/ UNCHANGED vars \/ \E c \in Conns : ServerOnOpen(c) \/ Break(c)
  BY <1>1, <1>15 DEF CheckConnection, OnClose, SetFCallBackResponse, ServerOnClose, SendAnswerIndex,
                     vars, ServerOnOpen, Break, Up
<1> QED BY <1>2, <1>3, <1>4, <1>5, <1>6, <1>7, <1>8, <1>10, <1>11, <1>12, <1>13, <1>14, <1>15
        DEF Next, ClientRun, Handler, Answering, ServerHandler

--------------------------------------------------------------------------------
(* The types *)

\* Every handler keeps its variables in their types and the numbers in order.
LEMMA StepTypes == Types /\ [Next]_vars => Types'
<1> SUFFICES ASSUME Types, [Next]_vars PROVE Types'
  OBVIOUS
<1> USE DEF runVars, openVars, slotVars, netVars, serverVars
<1>0. MaxConns \in Nat \ {0} /\ Conns \subseteq Nat \ {0} /\ 1 \in Conns /\ Conns \subseteq 0..MaxConns
      /\ Requests \subseteq Nat \ {0} /\ MaxSlow \in Nat /\ MaxFaults \in Nat /\ MaxReqs \in Nat
  BY Numbers, WebSocketAssumption
<1>1. CASE UNCHANGED vars
  <2>1. UNCHANGED Last
    BY <1>1 DEF vars, Last
  <2> QED BY <1>1, <2>1 DEF vars, Types, TypeOK
<1>2. CASE CheckConnection
  <2>1. /\ runPc' \in {"check", "release", "create", "recheck", "send"} /\ slow' \in 0..MaxSlow
        /\ UNCHANGED <<openVars, slotVars, clientBusy, conn, requests, via, netVars, serverVars, answers>>
    BY <1>0, <1>2 DEF CheckConnection, Types, TypeOK
  <2>2. UNCHANGED Last /\ (runPc' = "send" => m_conHandle # 0)
    BY <1>2, <2>1 DEF Last, CheckConnection, HandleIsOpen
  <2> QED BY <2>1, <2>2 DEF Types, TypeOK
<1>3. CASE ReleaseConnection
  <2>1. /\ runPc' \in {"check", "create"}
        /\ conn' = IF m_isOpenned /\ HandleIsOpen THEN [conn EXCEPT ![m_conHandle] = "closing"] ELSE conn
        /\ UNCHANGED <<slow, openVars, slotVars, clientBusy, requests, via, netVars, serverVars, answers>>
    BY <1>3 DEF ReleaseConnection
  <2>2. CASE m_isOpenned /\ HandleIsOpen
    <3>1. m_conHandle \in Conns /\ conn[m_conHandle] = "open"
      BY <1>0, <2>2 DEF HandleIsOpen, Types, TypeOK, Conns
    <3>2. UNCHANGED Last
      BY <2>1, <2>2, <3>1, StaysStarted, Zenon
    <3> QED BY <2>1, <2>2, <3>1, <3>2, Zenon DEF Types, TypeOK
  <2>3. CASE ~(m_isOpenned /\ HandleIsOpen)
    <3>1. UNCHANGED Last /\ UNCHANGED conn
      BY <2>1, <2>3 DEF Last
    <3> QED BY <2>1, <3>1, Zenon DEF Types, TypeOK
  <2> QED BY <2>2, <2>3
<1>4. CASE CreateConnection
  <2>1. /\ Last < MaxConns /\ conn' = [conn EXCEPT ![Last + 1] = "connecting"]
        /\ m_isOpenned' = FALSE /\ runPc' = "recheck"
        /\ UNCHANGED <<slow, m_conHandle, slotVars, clientBusy, requests, via, netVars, serverVars, answers>>
    BY <1>4 DEF CreateConnection
  <2>2. Last' = Last + 1 /\ Last + 1 \in Conns /\ conn[Last + 1] = "none" /\ Last \in Nat
    BY <1>0, <2>1, OneMoreStarted DEF Types
  <2>3. TypeOK'
    BY <2>1, <2>2, Zenon DEF Types, TypeOK
  <2>4. \A c \in Conns : conn'[c] # "none" <=> c <= Last + 1
    BY <1>0, <2>1, <2>2 DEF Types, TypeOK
  <2>5. m_conHandle # 0 => conn'[m_conHandle] \notin {"none", "connecting"}
    BY <2>1, <2>2 DEF Types, TypeOK, Conns
  <2>6. \A c \in Conns : conn'[c] = "none" => peer'[c] = "none"
    BY <2>1, <2>2 DEF Types, TypeOK
  <2> QED BY <2>1, <2>2, <2>3, <2>4, <2>5, <2>6 DEF Types
<1>5. CASE SendToStream
  <2>1. /\ runPc' = "check"
        /\ UNCHANGED <<slow, openVars, slotVars, clientBusy, conn, netVars, serverVars, answers>>
        /\ UNCHANGED Last
    BY <1>5 DEF SendToStream, Last
  <2>2. CASE UNCHANGED <<requests, via>>
    BY <2>1, <2>2 DEF Types, TypeOK
  <2>3. CASE /\ Len(via) < MaxReqs
             /\ via' = Append(via, m_conHandle)
             /\ requests' = IF HandleIsOpen
                            THEN [requests EXCEPT ![m_conHandle] = Append(@, Len(via) + 1)]
                            ELSE requests
    <3>1. m_conHandle \in Conns /\ via \in Seq(Conns) /\ Len(via) + 1 \in Requests
      BY <1>0, <1>5, <2>3 DEF SendToStream, Types, TypeOK, Conns, Requests
    <3>2. via' \in Seq(Conns)
      BY <2>3, <3>1, Appended
    <3>3. requests' \in [Conns -> Seq(Requests)]
      BY <2>3, <3>1 DEF Types, TypeOK
    <3> QED BY <2>1, <3>2, <3>3 DEF Types, TypeOK
  <2>4. \/ UNCHANGED <<requests, via>>
        \/ /\ Len(via) < MaxReqs
           /\ via' = Append(via, m_conHandle)
           /\ requests' = IF HandleIsOpen
                          THEN [requests EXCEPT ![m_conHandle] = Append(@, Len(via) + 1)]
                          ELSE requests
    BY <1>5 DEF SendToStream
  <2> QED BY <2>2, <2>3, <2>4
<1>6. ASSUME NEW c \in Conns, OnOpen(c) PROVE Types'
  <2>1. /\ conn[c] = "connecting" /\ conn' = [conn EXCEPT ![c] = "open"]
        /\ m_conHandle' = c /\ m_isOpenned' = TRUE
        /\ UNCHANGED <<runVars, slotVars, clientBusy, requests, via, netVars, serverVars, answers>>
    BY <1>6 DEF OnOpen
  <2>2. UNCHANGED Last /\ c \in 0..MaxConns /\ c # 0
    BY <1>0, <2>1, StaysStarted, Zenon
  <2> QED BY <2>1, <2>2, Zenon DEF Types, TypeOK
<1>7. ASSUME NEW c \in Conns, OnFail(c) PROVE Types'
  <2>1. /\ conn[c] = "connecting" /\ conn' = [conn EXCEPT ![c] = "closed"]
        /\ UNCHANGED <<runVars, openVars, slotVars, clientBusy, requests, via, netVars, serverVars, answers>>
    BY <1>7 DEF OnFail
  <2>2. UNCHANGED Last
    BY <2>1, StaysStarted, Zenon
  <2>3. TypeOK'
    BY <2>1 DEF Types, TypeOK
  <2>4. \A d \in Conns : conn'[d] # "none" <=> conn[d] # "none"
    BY <2>1 DEF Types, TypeOK
  <2> QED BY <2>1, <2>2, <2>3, <2>4 DEF Types, TypeOK
<1>8. ASSUME NEW c \in Conns, Terminate(c) PROVE Types'
  <2>1. /\ conn[c] \in {"closing", "open"} /\ conn' = [conn EXCEPT ![c] = "closed"]
        /\ answers' = [answers EXCEPT ![c] = <<>>] /\ clientBusy' = c
        /\ UNCHANGED <<runVars, openVars, slotVars, requests, via, netVars, serverVars>>
    BY <1>8, Zenon DEF Terminate
  <2>2. UNCHANGED Last /\ c \in 0..MaxConns
    BY <1>0, <2>1, StaysStarted, Zenon
  <2>3. answers' \in [Conns -> Seq(Requests)]
    BY <2>1 DEF Types, TypeOK
  <2>4. conn' \in [Conns -> {"none", "connecting", "open", "closing", "closed"}]
    BY <2>1 DEF Types, TypeOK
  <2>5. TypeOK'
    BY <2>1, <2>2, <2>3, <2>4, Zenon DEF Types, TypeOK
  <2>6. /\ \A d \in Conns : conn'[d] # "none" <=> conn[d] # "none"
        /\ m_conHandle # 0 => conn'[m_conHandle] \notin {"none", "connecting"}
    BY <2>1 DEF Types, TypeOK
  <2> QED BY <2>1, <2>2, <2>5, <2>6 DEF Types
<1>9. CASE OnClose
  <2>1. UNCHANGED Last
    BY <1>9 DEF OnClose, Last
  <2>2. 0 \in 0..MaxConns
    BY <1>0
  <2> QED BY <1>9, <2>1, <2>2, Zenon DEF OnClose, Types, TypeOK
<1>10. ASSUME NEW c \in Conns, OnMessage(c) PROVE Types'
  <2>1. /\ answers[c] # <<>> /\ answers' = [answers EXCEPT ![c] = Tail(@)]
        /\ IF m_fCallBackResponse
           THEN m_received' = ZeroFilled /\ handed' = Head(answers[c])
           ELSE m_received' = Head(answers[c]) /\ UNCHANGED handed
        /\ UNCHANGED <<runVars, openVars, m_fCallBackResponse, clientBusy, conn, requests,
                       via, netVars, serverVars>>
        /\ UNCHANGED Last
    BY <1>10, Zenon DEF OnMessage, Last
  <2>2. Head(answers[c]) \in Requests /\ Tail(answers[c]) \in Seq(Requests)
    BY <2>1, Queues DEF Types, TypeOK
  <2>3. answers' \in [Conns -> Seq(Requests)]
    BY <2>1, <2>2 DEF Types, TypeOK
  <2>4. Head(answers[c]) # ZeroFilled
    BY <1>0, <2>2 DEF ZeroFilled
  <2> QED BY <2>1, <2>2, <2>3, <2>4, SMTT(20) DEF Types, TypeOK
<1>11. CASE ReadAnswer
  <2>1. UNCHANGED Last /\ ZeroFilled # 0
    BY <1>11 DEF ReadAnswer, Last, ZeroFilled
  <2> QED BY <1>11, <2>1 DEF ReadAnswer, Types, TypeOK
<1>12. CASE SetFCallBackResponse
  <2>1. UNCHANGED Last
    BY <1>12 DEF SetFCallBackResponse, Last
  <2> QED BY <1>12, <2>1 DEF SetFCallBackResponse, Types, TypeOK
<1>13. ASSUME NEW c \in Conns, ServerOnOpen(c) PROVE Types'
  <2>1. /\ conn[c] = "connecting" /\ peer' = [peer EXCEPT ![c] = "open"]
        /\ UNCHANGED <<runVars, openVars, slotVars, clientBusy, conn, requests, via,
                       netVars, serverBusy, incoming, answerPc, answers>>
        /\ UNCHANGED Last
    BY <1>13 DEF ServerOnOpen, Last
  <2>2. PICK name \in {c, 0} : m_endPointList' = Entered(m_endPointList, name, c)
    BY <1>13 DEF ServerOnOpen, Endpoints
  <2>3. /\ DOMAIN m_endPointList' = DOMAIN m_endPointList \cup {name}
        /\ m_endPointList'[name] = c
        /\ \A n \in DOMAIN m_endPointList \ {name} : m_endPointList'[n] = m_endPointList[n]
    BY <2>2 DEF Entered
  <2>4. DOMAIN m_endPointList' \subseteq 0..MaxConns
        /\ \A n \in DOMAIN m_endPointList' : m_endPointList'[n] \in 0..MaxConns
    <3>1. DOMAIN m_endPointList \subseteq 0..MaxConns
          /\ \A n \in DOMAIN m_endPointList : m_endPointList[n] \in 0..MaxConns
      BY Zenon DEF Types, TypeOK
    <3>2. c \in 0..MaxConns /\ 0 \in 0..MaxConns
      BY Numbers
    <3> QED BY <2>2, <2>3, <3>1, <3>2, Zenon
  <2> QED BY <2>1, <2>4, SMTT(20) DEF Types, TypeOK
<1>14. ASSUME NEW c \in Conns, ServerTerminate(c) PROVE Types'
  <2>1. /\ peer[c] = "open" /\ peer' = [peer EXCEPT ![c] = "closed"]
        /\ requests' = [requests EXCEPT ![c] = <<>>] /\ serverBusy' = c
        /\ UNCHANGED <<runVars, openVars, slotVars, clientBusy, conn, via, netVars,
                       m_endPointList, incoming, answerPc, answers>>
        /\ UNCHANGED Last
    BY <1>14 DEF ServerTerminate, Last
  <2>2. c \in 0..MaxConns /\ requests' \in [Conns -> Seq(Requests)]
    <3>1. requests \in [Conns -> Seq(Requests)]
      BY Zenon DEF Types, TypeOK
    <3> QED BY <1>0, <2>1, <3>1
  <2> QED BY <2>1, <2>2, ZenonT(30) DEF Types, TypeOK
<1>15. CASE ServerOnClose
  <2>1. /\ serverBusy' = 0
        /\ UNCHANGED <<runVars, openVars, slotVars, clientBusy, conn, requests, via,
                       netVars, peer, incoming, answerPc, answers>>
        /\ UNCHANGED Last
    BY <1>15 DEF ServerOnClose, Last
  <2>2. DOMAIN m_endPointList' \subseteq DOMAIN m_endPointList
        /\ \A n \in DOMAIN m_endPointList' : m_endPointList'[n] = m_endPointList[n]
    BY <1>15 DEF ServerOnClose
  <2> QED BY <1>0, <2>1, <2>2 DEF Types, TypeOK
<1>16. ASSUME NEW c \in Conns, ServerOnMessage(c) PROVE Types'
  <2>1. /\ requests[c] # <<>> /\ requests' = [requests EXCEPT ![c] = Tail(@)]
        /\ UNCHANGED <<runVars, openVars, slotVars, clientBusy, conn, via, netVars, peer,
                       serverBusy, m_endPointList, answerPc, answers>>
        /\ UNCHANGED Last
    BY <1>16 DEF ServerOnMessage, Last
  <2>2. PICK name \in {c, 0} : incoming' = Append(incoming, [from |-> name, req |-> Head(requests[c])])
    BY <1>16 DEF ServerOnMessage, Endpoints
  <2>3. Head(requests[c]) \in Requests /\ Tail(requests[c]) \in Seq(Requests)
    BY <2>1, Queues DEF Types, TypeOK
  <2>4. requests' \in [Conns -> Seq(Requests)]
    BY <2>1, <2>3 DEF Types, TypeOK
  <2>5. [from |-> name, req |-> Head(requests[c])] \in [from : 0..MaxConns, req : Requests]
    BY <1>0, <2>3
  <2>6. incoming' \in Seq([from : 0..MaxConns, req : Requests]) /\ incoming' # <<>>
    BY <2>2, <2>5, Appended DEF Types, TypeOK
  <2> QED BY <2>1, <2>4, <2>6, SMTT(20) DEF Types, TypeOK
<1>17. CASE SendAnswerFind
  <2>1. /\ incoming # <<>>
        /\ UNCHANGED <<runVars, openVars, slotVars, clientBusy, conn, requests, via,
                       netVars, peer, serverBusy, m_endPointList, answers>>
        /\ UNCHANGED Last
    BY <1>17 DEF SendAnswerFind, Last
  <2>2. CASE AnswerReturns
    <3>1. incoming' \in Seq([from : 0..MaxConns, req : Requests])
      BY <2>1, <2>2, Queues DEF AnswerReturns, Types, TypeOK
    <3> QED BY <2>1, <2>2, <3>1 DEF AnswerReturns, Types, TypeOK
  <2>3. CASE UNCHANGED incoming /\ \E name \in DOMAIN m_endPointList :
                  answerPc' = [at |-> "send", hdl |-> m_endPointList[name]]
    BY <2>1, <2>3 DEF Types, TypeOK
  <2>4. CASE UNCHANGED incoming /\ answerPc' = [at |-> "index"]
    BY <2>1, <2>4 DEF Types, TypeOK
  <2> QED BY <1>17, <2>2, <2>3, <2>4 DEF SendAnswerFind
<1>18. CASE SendAnswerIndex
  <2>1. /\ answerPc.at = "index"
        /\ m_endPointList' = IF Head(incoming).from \in DOMAIN m_endPointList
                             THEN m_endPointList
                             ELSE Entered(m_endPointList, Head(incoming).from, 0)
        /\ answerPc' = [at |-> "send", hdl |-> m_endPointList'[Head(incoming).from]]
        /\ UNCHANGED <<runVars, openVars, slotVars, clientBusy, conn, requests, via,
                       netVars, peer, serverBusy, incoming, answers>>
        /\ UNCHANGED Last
    BY <1>18, Zenon DEF SendAnswerIndex, Last
  <2>2. Head(incoming) \in [from : 0..MaxConns, req : Requests] /\ incoming # <<>>
    BY <2>1, Queues, Zenon DEF Types, TypeOK
  <2>3. /\ DOMAIN m_endPointList' = DOMAIN m_endPointList \cup {Head(incoming).from}
        /\ \A n \in DOMAIN m_endPointList : m_endPointList'[n] = m_endPointList[n]
        /\ \A n \in DOMAIN m_endPointList' \ DOMAIN m_endPointList : m_endPointList'[n] = 0
    BY <2>1 DEF Entered
  <2>4. DOMAIN m_endPointList' \subseteq 0..MaxConns /\ Head(incoming).from \in DOMAIN m_endPointList'
        /\ \A n \in DOMAIN m_endPointList' : m_endPointList'[n] \in 0..MaxConns
    BY <1>0, <2>2, <2>3 DEF Types, TypeOK
  <2>5. answerPc'.at = "send" /\ answerPc'.hdl \in 0..MaxConns
    BY <2>1, <2>4
  <2> QED BY <2>1, <2>2, <2>4, <2>5 DEF Types, TypeOK
<1>19. CASE SendAnswerSend
  <2>1. /\ answerPc.at = "send" /\ answerPc' = [at |-> "find"] /\ incoming' = Tail(incoming)
        /\ answers' = IF answerPc.hdl # 0 /\ peer[answerPc.hdl] = "open"
                      THEN [answers EXCEPT ![answerPc.hdl] = Append(@, Head(incoming).req)]
                      ELSE answers
        /\ UNCHANGED <<runVars, openVars, slotVars, clientBusy, conn, requests, via,
                       netVars, peer, serverBusy, m_endPointList>>
        /\ UNCHANGED Last
    BY <1>19 DEF SendAnswerSend, AnswerReturns, Last
  <2>2. Head(incoming) \in [from : 0..MaxConns, req : Requests]
        /\ incoming' \in Seq([from : 0..MaxConns, req : Requests])
    BY <2>1, Queues, Zenon DEF Types, TypeOK
  <2>3. Head(incoming).req \in Requests /\ answers \in [Conns -> Seq(Requests)]
    BY <2>2 DEF Types, TypeOK
  <2>4. \A s \in Seq(Requests) : Append(s, Head(incoming).req) \in Seq(Requests)
    BY <2>3, Appended
  <2>5. answers' \in [Conns -> Seq(Requests)]
    BY <2>1, <2>3, <2>4, Zenon
  <2> QED BY <2>1, <2>2, <2>5, Zenon DEF Types, TypeOK
<1>20. ASSUME NEW c \in Conns, Break(c) PROVE Types'
  <2>1. /\ faults < MaxFaults /\ broken' = broken \cup {c} /\ faults' = faults + 1
        /\ UNCHANGED <<runVars, openVars, slotVars, clientBusy, conn, requests, via, serverVars, answers>>
        /\ UNCHANGED Last
    BY <1>20 DEF Break, Last
  <2>2. faults' \in 0..MaxFaults /\ broken' \subseteq Conns
    BY <1>0, <2>1 DEF Types, TypeOK
  <2> QED BY <2>1, <2>2, SMTT(20) DEF Types, TypeOK
<1>21. CASE ServerRestart
  <2>1. /\ faults < MaxFaults /\ faults' = faults + 1
        /\ broken' = broken \cup {c \in Conns : peer[c] = "open"}
        /\ peer' = [c \in Conns |-> IF peer[c] = "open" THEN "closed" ELSE peer[c]]
        /\ requests' = [c \in Conns |-> <<>>]
        /\ serverBusy' = 0 /\ m_endPointList' = <<>> /\ incoming' = <<>>
        /\ answerPc' = [at |-> "find"]
        /\ UNCHANGED <<runVars, openVars, slotVars, clientBusy, conn, via, answers>>
        /\ UNCHANGED Last
    BY <1>21 DEF ServerRestart, Last
  <2>2. requests' \in [Conns -> Seq(Requests)] /\ incoming' \in Seq([from : 0..MaxConns, req : Requests])
        /\ DOMAIN m_endPointList' = {}
    BY <2>1
  <2>3. faults' \in 0..MaxFaults /\ 0 \in 0..MaxConns /\ broken' \subseteq Conns
    <3>1. faults \in 0..MaxFaults /\ broken \subseteq Conns
      BY DEF Types, TypeOK
    <3>2. faults' \in 0..MaxFaults /\ 0 \in 0..MaxConns
      BY <1>0, <2>1, <3>1
    <3> QED BY <2>1, <3>1, <3>2
  <2>4. peer' \in [Conns -> {"none", "open", "closed"}]
        /\ \A c \in Conns : peer[c] = "none" => peer'[c] = "none"
    BY <2>1 DEF Types, TypeOK
  <2> QED BY <2>1, <2>2, <2>3, <2>4 DEF Types, TypeOK
<1> QED
  BY <1>1, <1>2, <1>3, <1>4, <1>5, <1>6, <1>7, <1>8, <1>9, <1>10, <1>11, <1>12, <1>13, <1>14,
     <1>15, <1>16, <1>17, <1>18, <1>19, <1>20, <1>21
  DEF Next, ClientRun, Handler, ServerHandler, Answering

--------------------------------------------------------------------------------
(* The flag and the connection *)

\* m_isOpenned: on_open() sets it for the handle it stores, and terminate() is followed
\* by the on_close() that takes it back.
LEMMA StepFlag == Types /\ FlagInv /\ [Next]_vars => FlagInv'
<1> SUFFICES ASSUME Types, FlagInv, [Next]_vars PROVE FlagInv'
  OBVIOUS
<1> USE DEF runVars, openVars, slotVars, netVars, serverVars
<1>0. conn \in [Conns -> {"none", "connecting", "open", "closing", "closed"}]
      /\ (m_conHandle # 0 => m_conHandle \in Conns)
  BY Numbers DEF Types, TypeOK, Conns
<1>1. CASE UNCHANGED <<m_isOpenned, m_conHandle, conn, clientBusy>>
  BY <1>1 DEF FlagInv, OpennedIsLive, HandleIsOpen
<1>2. CASE m_isOpenned' = FALSE
  BY <1>2 DEF FlagInv
<1>3. CASE ReleaseConnection
  BY <1>0, <1>3 DEF ReleaseConnection, FlagInv, OpennedIsLive, HandleIsOpen
<1>4. ASSUME NEW c \in Conns, OnOpen(c) PROVE FlagInv'
  BY <1>0, <1>4, Numbers DEF OnOpen, FlagInv, OpennedIsLive, HandleIsOpen
<1>5. ASSUME NEW c \in Conns, OnFail(c) PROVE FlagInv'
  BY <1>0, <1>5 DEF OnFail, FlagInv, OpennedIsLive, HandleIsOpen
<1>6. ASSUME NEW c \in Conns, Terminate(c) PROVE FlagInv'
  BY <1>0, <1>6 DEF Terminate, FlagInv, OpennedIsLive, HandleIsOpen
<1>7. CASE CreateConnection \/ OnClose
  BY <1>2, <1>7, Zenon DEF CreateConnection, OnClose
<1>8. CASE \/ UNCHANGED vars \/ CheckConnection \/ SendToStream \/ ReadAnswer \/ SetFCallBackResponse
           \/ ServerOnClose \/ Answering \/ ServerRestart
           \/ \E c \in Conns : OnMessage(c) \/ ServerHandler(c) \/ Break(c)
  <2>1. UNCHANGED <<m_isOpenned, m_conHandle, conn, clientBusy>>
    BY <1>8, Zenon DEF vars, CheckConnection, SendToStream, ReadAnswer, SetFCallBackResponse, ServerOnClose,
                Answering, SendAnswerFind, SendAnswerIndex, SendAnswerSend, ServerRestart, OnMessage,
                ServerHandler, ServerOnOpen, ServerTerminate, ServerOnMessage, Break
  <2> QED BY <1>1, <2>1
<1> QED BY <1>3, <1>4, <1>5, <1>6, <1>7, <1>8 DEF Next, ClientRun, Handler

\* Without a slow handshake createConnection() is reached only with no connection
\* open or under way.
LEMMA StepOne == Types /\ OneInv /\ [Next]_vars => OneInv'
<1> SUFFICES ASSUME Types, OneInv, [Next]_vars, slow' = 0 PROVE OneInv'
  BY DEF OneInv
<1> USE DEF runVars, openVars, slotVars, netVars, serverVars
<1>0. conn \in [Conns -> {"none", "connecting", "open", "closing", "closed"}]
      /\ (m_conHandle # 0 => m_conHandle \in Conns) /\ slow \in Nat
  BY Numbers, WebSocketAssumption DEF Types, TypeOK, Conns
<1>s. slow = 0
  BY NeverSlow
<1>i. /\ \A c \in Conns : Up(c) => c = Last
      /\ \A c \in Conns : conn[c] = "open" => c = m_conHandle
      /\ m_isOpenned => Connecting = {}
      /\ runPc \in {"release", "create"} => \A c \in Conns : ~Up(c)
  BY <1>s DEF OneInv
<1>1. CASE UNCHANGED <<m_isOpenned, m_conHandle, conn, runPc>>
  BY <1>1, <1>i DEF OneInv, Up, Connecting, Last
<1>2. CASE CheckConnection
  <2>1. UNCHANGED <<m_isOpenned, m_conHandle, conn>> /\ UNCHANGED Last /\ (m_isOpenned \/ Connecting = {})
    BY <1>0, <1>2, <1>s DEF CheckConnection, Last
  <2>2. runPc' \in {"release", "create"} => \A c \in Conns : ~Up(c)
    <3>1. runPc' \in {"release", "create"} => ~HandleIsOpen
      BY <1>2 DEF CheckConnection
    <3>2. Connecting = {}
      BY <1>i, <2>1
    <3>3. ~HandleIsOpen => \A c \in Conns : conn[c] # "open"
      BY <1>i, Numbers DEF HandleIsOpen
    <3> QED BY <3>1, <3>2, <3>3 DEF Up, Connecting
  <2> QED BY <1>i, <2>1, <2>2 DEF OneInv, Up, Connecting
<1>3. CASE ReleaseConnection
  <2>1. (\A c \in Conns : ~Up(c)) /\ UNCHANGED <<m_isOpenned, m_conHandle>>
    BY <1>3, <1>i DEF ReleaseConnection
  <2>2. conn' = conn
    BY <1>0, <1>3, <2>1 DEF ReleaseConnection, HandleIsOpen, Up
  <2> QED BY <2>1, <2>2 DEF OneInv, Up, Connecting, Last
<1>4. CASE CreateConnection
  <2>1. /\ Last < MaxConns /\ conn' = [conn EXCEPT ![Last + 1] = "connecting"]
        /\ m_isOpenned' = FALSE /\ runPc' = "recheck" /\ \A c \in Conns : ~Up(c)
    BY <1>4, <1>i DEF CreateConnection
  <2>2. Last' = Last + 1
    BY <2>1, OneMoreStarted
  <2>3. \A c \in Conns : c # Last + 1 => conn'[c] = conn[c]
    BY <1>0, <2>1
  <2>4. \A c \in Conns : c # Last + 1 => conn'[c] \notin {"connecting", "open"}
    BY <2>1, <2>3 DEF Up
  <2>5. \A c \in Conns : conn'[c] # "open"
    BY <1>0, <2>1, <2>4
  <2> QED BY <2>1, <2>2, <2>4, <2>5 DEF OneInv, Up
<1>5. CASE SendToStream \/ OnClose
  <2>1. UNCHANGED <<m_conHandle, conn>> /\ (m_isOpenned' => m_isOpenned)
        /\ (runPc' = runPc \/ runPc' = "check")
    BY <1>5 DEF SendToStream, OnClose
  <2> QED BY <1>i, <2>1 DEF OneInv, Up, Connecting, Last
<1>6. ASSUME NEW c \in Conns, OnOpen(c) PROVE OneInv'
  <2>1. /\ conn[c] = "connecting" /\ conn' = [conn EXCEPT ![c] = "open"] /\ m_conHandle' = c
        /\ UNCHANGED runPc
    BY <1>6 DEF OnOpen
  <2>2. c = Last /\ Last' = Last /\ \A d \in Conns \ {c} : ~Up(d)
    BY <1>i, <2>1, StaysStarted, Zenon DEF Up
  <2>3. \A d \in Conns \ {c} : conn'[d] \notin {"connecting", "open"}
    BY <1>0, <2>1, <2>2 DEF Up
  <2>4. Up(c) /\ conn'[c] = "open"
    BY <1>0, <2>1 DEF Up
  <2>5. runPc \notin {"release", "create"}
    BY <1>i, <2>4
  <2> QED BY <2>1, <2>2, <2>3, <2>4, <2>5 DEF OneInv, Up, Connecting
<1>7. ASSUME NEW c \in Conns, OnFail(c) \/ Terminate(c) PROVE OneInv'
  <2>1. /\ conn[c] # "none" /\ conn' = [conn EXCEPT ![c] = "closed"]
        /\ UNCHANGED <<m_conHandle, m_isOpenned, runPc>>
    BY <1>7 DEF OnFail, Terminate
  <2>2. Last' = Last
    BY <2>1, StaysStarted, Zenon
  <2>3. \A d \in Conns : conn'[d] = "closed" \/ conn'[d] = conn[d]
    BY <1>0, <2>1
  <2> QED BY <1>i, <2>1, <2>2, <2>3 DEF OneInv, Up, Connecting
<1>8. CASE \/ UNCHANGED vars \/ ReadAnswer \/ SetFCallBackResponse
           \/ ServerOnClose \/ Answering \/ ServerRestart
           \/ \E c \in Conns : OnMessage(c) \/ ServerHandler(c) \/ Break(c)
  <2>1. UNCHANGED <<m_isOpenned, m_conHandle, conn, runPc>>
    BY <1>8, Zenon DEF vars, ReadAnswer, SetFCallBackResponse, ServerOnClose,
                Answering, SendAnswerFind, SendAnswerIndex, SendAnswerSend, ServerRestart, OnMessage,
                ServerHandler, ServerOnOpen, ServerTerminate, ServerOnMessage, Break
  <2> QED BY <1>1, <2>1
<1> QED BY <1>2, <1>3, <1>4, <1>5, <1>6, <1>7, <1>8 DEF Next, ClientRun, Handler

--------------------------------------------------------------------------------
(* m_endPointList *)

\* Once lost a connection stays lost, and no closed or unused one is taken up again.
LEMMA StaysLost ==
    ASSUME Types, [Next]_vars
    PROVE  /\ \A c \in Conns : Lost(c) => Lost(c)'
           /\ broken \subseteq broken'
           /\ \A c \in Conns : conn'[c] # "closed" => conn[c] # "closed"
<1> USE DEF runVars, openVars, slotVars, netVars, serverVars
<1>0. conn \in [Conns -> {"none", "connecting", "open", "closing", "closed"}]
  BY DEF Types, TypeOK
<1>1. CASE UNCHANGED conn /\ broken \subseteq broken'
  BY <1>1 DEF Lost
<1>2. CASE ReleaseConnection
  BY <1>0, <1>2 DEF ReleaseConnection, Lost, HandleIsOpen
<1>3. CASE CreateConnection
  <2>1. Last < MaxConns /\ conn' = [conn EXCEPT ![Last + 1] = "connecting"] /\ UNCHANGED broken
    BY <1>3 DEF CreateConnection
  <2>2. Last + 1 \in Conns /\ conn[Last + 1] = "none"
    BY <2>1, OneMoreStarted
  <2> QED BY <1>0, <2>1, <2>2 DEF Lost
<1>4. ASSUME NEW c \in Conns, OnOpen(c) \/ OnFail(c) \/ Terminate(c)
      PROVE  /\ \A d \in Conns : Lost(d) => Lost(d)'
             /\ broken \subseteq broken'
             /\ \A d \in Conns : conn'[d] # "closed" => conn[d] # "closed"
  BY <1>0, <1>4 DEF OnOpen, OnFail, Terminate, Lost
<1>5. CASE \/ UNCHANGED vars \/ CheckConnection \/ SendToStream \/ OnClose \/ ReadAnswer
           \/ SetFCallBackResponse \/ ServerOnClose \/ Answering \/ ServerRestart
           \/ \E c \in Conns : OnMessage(c) \/ ServerHandler(c) \/ Break(c)
  <2>1. UNCHANGED conn /\ broken \subseteq broken'
    BY <1>5, Zenon DEF vars, CheckConnection, SendToStream, OnClose, ReadAnswer, SetFCallBackResponse,
                ServerOnClose, Answering, SendAnswerFind, SendAnswerIndex, SendAnswerSend,
                ServerRestart, OnMessage, ServerHandler, ServerOnOpen, ServerTerminate,
                ServerOnMessage, Break
  <2> QED BY <1>1, <2>1
<1> QED BY <1>2, <1>3, <1>4, <1>5, Zenon DEF Next, ClientRun, Handler

\* m_endPointList: on_open() enters a connection, only its own on_close() takes the
\* entry out, and "Unknown" never leads to a connection the client holds open.
LEMMA StepTable == Types /\ TableInv /\ [Next]_vars => TableInv'
<1> SUFFICES ASSUME Types, TableInv, [Next]_vars PROVE TableInv'
  OBVIOUS
<1> USE DEF runVars, openVars, slotVars, netVars, serverVars
<1>0. /\ peer \in [Conns -> {"none", "open", "closed"}]
      /\ serverBusy # 0 => serverBusy \in Conns
      /\ \A n \in DOMAIN m_endPointList : n # 0 => n \in Conns
      /\ \A n \in DOMAIN m_endPointList : m_endPointList[n] # 0 => m_endPointList[n] \in Conns
      /\ Conns \subseteq Nat \ {0}
  BY Numbers DEF Types, TypeOK, Conns
<1>l. /\ \A c \in Conns : Lost(c) => Lost(c)'
      /\ broken \subseteq broken'
      /\ \A c \in Conns : conn'[c] # "closed" => conn[c] # "closed"
  BY StaysLost
<1>1. CASE UNCHANGED <<serverBusy, peer, m_endPointList>>
  BY <1>0, <1>1, <1>l, Zenon DEF TableInv
<1>2. ASSUME NEW c \in Conns, ServerOnOpen(c) PROVE TableInv'
  <2>1. PICK name \in Endpoints(c) : m_endPointList' = Entered(m_endPointList, name, c)
    BY <1>2 DEF ServerOnOpen
  <2>2. /\ serverBusy = 0 /\ serverBusy' = 0 /\ conn[c] = "connecting" /\ UNCHANGED <<conn, broken>>
        /\ peer' = [peer EXCEPT ![c] = "open"]
    BY <1>2 DEF ServerOnOpen
  <2>3. name = c \/ (name = 0 /\ Lost(c))
    BY <2>1, <2>2 DEF Endpoints, Lost
  <2>4. /\ DOMAIN m_endPointList' = DOMAIN m_endPointList \cup {name} /\ m_endPointList'[name] = c
        /\ \A n \in DOMAIN m_endPointList \ {name} : m_endPointList'[n] = m_endPointList[n]
    BY <2>1 DEF Entered
  <2>5. ASSUME NEW d \in Conns, peer'[d] = "open", d \notin broken', conn'[d] # "closed"
        PROVE  d \in DOMAIN m_endPointList' /\ m_endPointList'[d] = d
    <3>1. CASE d = c
      BY <2>2, <2>3, <2>4, <2>5, <3>1 DEF Lost
    <3>2. CASE d # c
      <4>1. d \in DOMAIN m_endPointList /\ m_endPointList[d] = d /\ d # name
        BY <1>0, <2>2, <2>3, <2>5, <3>2 DEF TableInv
      <4> QED BY <2>4, <4>1
    <3> QED BY <3>1, <3>2
  <2>6. ASSUME NEW n \in DOMAIN m_endPointList'
        PROVE  \/ m_endPointList'[n] = 0
               \/ n # 0 /\ m_endPointList'[n] = n
               \/ n = 0 /\ Lost(m_endPointList[n])'
    <3>1. CASE n = name
      BY <1>0, <1>l, <2>3, <2>4, <3>1 DEF Lost
    <3>2. CASE n # name
      BY <1>0, <1>l, <2>2, <2>4, <3>2 DEF TableInv, Lost
    <3> QED BY <3>1, <3>2
  <2> QED BY <2>2, <2>5, <2>6 DEF TableInv
<1>3. ASSUME NEW c \in Conns, ServerTerminate(c) PROVE TableInv'
  <2>1. /\ peer' = [peer EXCEPT ![c] = "closed"] /\ serverBusy' = c
        /\ UNCHANGED <<m_endPointList, conn, broken>>
    BY <1>3 DEF ServerTerminate
  <2> QED BY <1>0, <2>1 DEF TableInv, Lost
<1>4. CASE ServerOnClose
  <2>1. PICK name \in {serverBusy, 0} :
              m_endPointList' = [n \in DOMAIN m_endPointList \ {name} |-> m_endPointList[n]]
    BY <1>4 DEF ServerOnClose
  <2>2. serverBusy # 0 /\ serverBusy' = 0 /\ UNCHANGED <<conn, broken, peer>>
    BY <1>4 DEF ServerOnClose
  <2>3. DOMAIN m_endPointList' = DOMAIN m_endPointList \ {name}
        /\ \A n \in DOMAIN m_endPointList' : m_endPointList'[n] = m_endPointList[n]
    BY <2>1
  <2>4. peer[serverBusy] = "closed"
    BY <2>2 DEF TableInv
  <2>5. \A d \in Conns : peer[d] = "open" => d # name
    BY <1>0, <2>4
  <2> QED BY <2>2, <2>3, <2>5 DEF TableInv, Lost
<1>5. CASE SendAnswerIndex
  <2>1. /\ UNCHANGED <<conn, broken, peer, serverBusy>>
        /\ m_endPointList' = IF Head(incoming).from \in DOMAIN m_endPointList
                             THEN m_endPointList
                             ELSE Entered(m_endPointList, Head(incoming).from, 0)
    BY <1>5 DEF SendAnswerIndex
  <2>2. /\ DOMAIN m_endPointList \subseteq DOMAIN m_endPointList'
        /\ \A n \in DOMAIN m_endPointList : m_endPointList'[n] = m_endPointList[n]
        /\ \A n \in DOMAIN m_endPointList' \ DOMAIN m_endPointList : m_endPointList'[n] = 0
    BY <2>1 DEF Entered
  <2> QED BY <2>1, <2>2 DEF TableInv, Lost
<1>6. CASE ServerRestart
  <2>1. /\ peer' = [c \in Conns |-> IF peer[c] = "open" THEN "closed" ELSE peer[c]]
        /\ serverBusy' = 0 /\ m_endPointList' = <<>>
    BY <1>6 DEF ServerRestart
  <2>2. DOMAIN m_endPointList' = {} /\ \A c \in Conns : peer'[c] # "open"
    BY <2>1
  <2> QED BY <2>1, <2>2 DEF TableInv
<1>7. CASE \/ UNCHANGED vars \/ ClientRun \/ OnClose \/ ReadAnswer \/ SetFCallBackResponse
           \/ SendAnswerFind \/ SendAnswerSend
           \/ \E c \in Conns : Handler(c) \/ ServerOnMessage(c) \/ Break(c)
  <2>1. UNCHANGED <<serverBusy, peer, m_endPointList>>
    BY <1>7, Zenon DEF vars, ClientRun, CheckConnection, ReleaseConnection, CreateConnection, SendToStream,
                Handler, OnOpen, OnFail, Terminate, OnMessage, OnClose, ReadAnswer,
                SetFCallBackResponse, SendAnswerFind, SendAnswerSend, AnswerReturns, ServerOnMessage,
                Break
  <2> QED BY <1>1, <2>1
<1> QED BY <1>2, <1>3, <1>4, <1>5, <1>6, <1>7 DEF Next, ServerHandler, Answering

--------------------------------------------------------------------------------
(* The way of a request *)

\* on_message() and sendAnswer() keep a request, and its answer, with its connection.
LEMMA StepRoute == Types /\ TableInv /\ RouteInv /\ [Next]_vars => RouteInv'
<1> SUFFICES ASSUME Types, TableInv, RouteInv, [Next]_vars PROVE RouteInv'
  OBVIOUS
<1> USE DEF runVars, openVars, slotVars, netVars, serverVars
<1> DEFINE Req(s, v) == \A c \in Conns : \A i \in DOMAIN s[c] : s[c][i] \in DOMAIN v /\ v[s[c][i]] = c
           Inc(s, v) == \A i \in DOMAIN s : s[i].req \in DOMAIN v /\ s[i].from \in {0, v[s[i].req]}
           Ans(s, v) == \A c \in Conns : \A i \in DOMAIN s[c] :
                            /\ s[c][i] \in DOMAIN v
                            /\ s[c][i] \in MaskedReqs \/ v[s[c][i]] = c \/ Lost(c)
           Hdl == answerPc.at = "send" /\ Head(incoming).req \notin MaskedReqs =>
                      answerPc.hdl = 0 \/ answerPc.hdl = via[Head(incoming).req] \/ Lost(answerPc.hdl)
<1>d. /\ RouteInv <=> Req(requests, via) /\ Inc(incoming, via) /\ Hdl /\ Ans(answers, via)
      /\ RouteInv' <=> /\ Req(requests', via') /\ Inc(incoming', via')
                       /\ Hdl' /\ Ans(answers, via)'
  BY Zenon DEF RouteInv
<1>i. Req(requests, via) /\ Inc(incoming, via) /\ Hdl /\ Ans(answers, via)
  BY <1>d, Zenon
<1>0. /\ requests \in [Conns -> Seq(Requests)] /\ answers \in [Conns -> Seq(Requests)]
      /\ via \in Seq(Conns) /\ incoming \in Seq([from : 0..MaxConns, req : Requests])
      /\ answerPc.at = "send" => answerPc.hdl = 0 \/ answerPc.hdl \in Conns
      /\ answerPc.at # "find" => incoming # <<>>
      /\ Conns \subseteq Nat \ {0}
  BY Numbers DEF Types, TypeOK, Conns
<1>l. \A c \in Conns : Lost(c) => Lost(c)'
  BY StaysLost
<1>h. ASSUME UNCHANGED <<via, answerPc>>, answerPc.at = "send" => Head(incoming)' = Head(incoming) PROVE Hdl'
  BY <1>i, <1>0, <1>l, <1>h, Zenon
<1>a. ASSUME UNCHANGED <<via, answers>> PROVE Ans(answers, via)'
  BY <1>i, <1>l, <1>a
<1> HIDE DEF Req, Inc, Ans, Hdl
<1>1. CASE UNCHANGED <<requests, via, incoming, answerPc, answers>>
  BY <1>d, <1>i, <1>h, <1>a, <1>1
<1>2. CASE SendToStream
  <2>1. UNCHANGED <<incoming, answerPc, answers>>
    BY <1>2 DEF SendToStream
  <2>2. CASE UNCHANGED <<requests, via>>
    BY <1>1, <2>1, <2>2
  <2>3. CASE /\ via' = Append(via, m_conHandle)
             /\ requests' = IF HandleIsOpen
                            THEN [requests EXCEPT ![m_conHandle] = Append(@, Len(via) + 1)]
                            ELSE requests
    <3>1. m_conHandle \in Conns
      BY <1>2, Numbers DEF SendToStream, Types, TypeOK, Conns
    <3>2. /\ \A r \in DOMAIN via : r \in DOMAIN via' /\ via'[r] = via[r]
          /\ Len(via) + 1 \in DOMAIN via' /\ via'[Len(via) + 1] = m_conHandle
      BY <1>0, <2>3, <3>1, Appended
    <3>3. Inc(incoming', via') /\ Ans(answers, via)'
      BY <1>i, <1>l, <2>1, <3>2 DEF Inc, Ans
    <3>4. Hdl'
      <4>1. answerPc.at = "send" => Head(incoming).req \in DOMAIN via
        BY <1>0, <1>i, Queues DEF Inc
      <4> QED BY <1>i, <1>0, <1>l, <2>1, <3>2, <4>1, Zenon DEF Hdl
    <3>5. Req(requests', via')
      <4>1. CASE HandleIsOpen
        <5>1. \A c \in Conns \ {m_conHandle} : requests'[c] = requests[c]
          BY <1>0, <2>3, <3>1, <4>1
        <5>2. requests'[m_conHandle] = Append(requests[m_conHandle], Len(via) + 1)
          BY <1>0, <2>3, <3>1, <4>1
        <5>3. \A i \in DOMAIN requests'[m_conHandle] :
                  \/ requests'[m_conHandle][i] = Len(via) + 1
                  \/ i \in DOMAIN requests[m_conHandle] /\ requests'[m_conHandle][i] = requests[m_conHandle][i]
          BY <1>0, <3>1, <5>2
        <5> QED BY <1>i, <3>1, <3>2, <5>1, <5>3 DEF Req
      <4>2. CASE ~HandleIsOpen
        BY <1>i, <2>3, <3>2, <4>2 DEF Req
      <4> QED BY <4>1, <4>2
    <3> QED BY <1>d, <3>3, <3>4, <3>5
  <2>4. \/ UNCHANGED <<requests, via>>
        \/ /\ via' = Append(via, m_conHandle)
           /\ requests' = IF HandleIsOpen
                          THEN [requests EXCEPT ![m_conHandle] = Append(@, Len(via) + 1)]
                          ELSE requests
    BY <1>2 DEF SendToStream
  <2> QED BY <2>2, <2>3, <2>4
<1>3. ASSUME NEW c \in Conns, Terminate(c) \/ OnMessage(c) PROVE RouteInv'
  <2>1. UNCHANGED <<requests, via, incoming, answerPc>>
    BY <1>3 DEF Terminate, OnMessage
  <2>2. \A d \in Conns : \A i \in DOMAIN answers'[d] : \E j \in DOMAIN answers[d] : answers'[d][i] = answers[d][j]
    <3>1. CASE Terminate(c)
      BY <1>0, <3>1 DEF Terminate
    <3>2. CASE OnMessage(c)
      <4>1. answers[c] # <<>> /\ answers' = [answers EXCEPT ![c] = Tail(@)]
        BY <3>2 DEF OnMessage
      <4>2. \A i \in DOMAIN Tail(answers[c]) : i + 1 \in DOMAIN answers[c] /\ Tail(answers[c])[i] = answers[c][i + 1]
        BY <1>0, <4>1, Queues
      <4> QED BY <1>0, <4>1, <4>2
    <3> QED BY <1>3, <3>1, <3>2
  <2>3. Ans(answers, via)'
    <3> SUFFICES ASSUME NEW d \in Conns, NEW i \in DOMAIN answers'[d]
                 PROVE  /\ answers'[d][i] \in DOMAIN via
                        /\ answers'[d][i] \in MaskedReqs \/ via[answers'[d][i]] = d \/ Lost(d)'
      BY <2>1, Zenon DEF Ans
    <3>1. PICK j \in DOMAIN answers[d] : answers'[d][i] = answers[d][j]
      BY <2>2
    <3> QED BY <1>i, <1>l, <3>1, Zenon DEF Ans
  <2> QED BY <1>d, <1>i, <1>h, <2>1, <2>3
<1>4. ASSUME NEW c \in Conns, ServerTerminate(c) PROVE RouteInv'
  <2>1. UNCHANGED <<answers, via, incoming, answerPc>> /\ requests' = [requests EXCEPT ![c] = <<>>]
    BY <1>4 DEF ServerTerminate
  <2>2. Req(requests', via')
    BY <1>0, <1>i, <2>1 DEF Req
  <2> QED BY <1>d, <1>i, <1>h, <1>a, <2>1, <2>2
<1>5. ASSUME NEW c \in Conns, ServerOnMessage(c) PROVE RouteInv'
  <2>1. /\ requests[c] # <<>> /\ requests' = [requests EXCEPT ![c] = Tail(@)]
        /\ UNCHANGED <<answers, via, answerPc>>
    BY <1>5 DEF ServerOnMessage
  <2>2. PICK name \in {c, 0} : incoming' = Append(incoming, [from |-> name, req |-> Head(requests[c])])
    BY <1>5 DEF ServerOnMessage, Endpoints
  <2>3. /\ Head(requests[c]) \in Requests /\ Head(requests[c]) \in DOMAIN via /\ via[Head(requests[c])] = c
        /\ \A i \in DOMAIN Tail(requests[c]) : i + 1 \in DOMAIN requests[c] /\ Tail(requests[c])[i] = requests[c][i + 1]
    BY <1>0, <1>i, <2>1, Queues DEF Req
  <2>4. Req(requests', via')
    BY <1>0, <1>i, <2>1, <2>3 DEF Req
  <2> DEFINE e == [from |-> name, req |-> Head(requests[c])]
  <2>5. e \in [from : 0..MaxConns, req : Requests] /\ e.req = Head(requests[c]) /\ e.from \in {c, 0}
    BY <2>2, <2>3, Numbers
  <2> HIDE DEF e
  <2>6. \A i \in DOMAIN incoming' : incoming'[i] = e \/ (i \in DOMAIN incoming /\ incoming'[i] = incoming[i])
    BY <1>0, <2>2, <2>5, Appended DEF e
  <2>7. Inc(incoming', via')
    BY <1>i, <2>1, <2>3, <2>5, <2>6 DEF Inc
  <2>8. answerPc.at = "send" => Head(incoming)' = Head(incoming)
    <3>1. ASSUME incoming # <<>> PROVE incoming'[1] = incoming[1] /\ incoming' # <<>>
      BY <1>0, <2>2, <2>5, <3>1, Appended DEF e
    <3> QED BY <1>0, <3>1
  <2> QED BY <1>d, <1>a, <1>h, <2>1, <2>4, <2>7, <2>8
<1>6. ASSUME AnswerReturns, incoming # <<>>, UNCHANGED <<via, requests>>, Ans(answers, via)' PROVE RouteInv'
  <2>1. answerPc'.at = "find" /\ incoming' = Tail(incoming)
    BY <1>6 DEF AnswerReturns
  <2>2. \A i \in DOMAIN incoming' : i + 1 \in DOMAIN incoming /\ incoming'[i] = incoming[i + 1]
    BY <1>0, <1>6, <2>1, Queues
  <2>3. Inc(incoming', via')
    BY <1>i, <1>6, <2>2 DEF Inc
  <2>4. Hdl'
    BY <2>1 DEF Hdl
  <2> QED BY <1>d, <1>i, <1>6, <2>3, <2>4
<1>7. CASE SendAnswerFind
  <2>1. UNCHANGED <<requests, via, answers>> /\ incoming # <<>>
    BY <1>7 DEF SendAnswerFind
  <2>2. CASE AnswerReturns
    BY <1>6, <1>a, <2>1, <2>2
  <2>3. CASE ~AnswerReturns
    <3>1. UNCHANGED incoming /\ (Head(incoming).req \in MaskedReqs \/ answerPc' = [at |-> "index"])
      BY <1>7, <2>3 DEF SendAnswerFind
    <3>2. Hdl'
      BY <3>1 DEF Hdl
    <3> QED BY <1>d, <1>i, <1>a, <2>1, <3>1, <3>2
  <2> QED BY <2>2, <2>3
<1>8. CASE SendAnswerIndex
  <2>1. UNCHANGED <<requests, via, answers, incoming>> /\ incoming # <<>>
    BY <1>0, <1>8 DEF SendAnswerIndex
  <2> DEFINE n == Head(incoming).from
  <2>2. n \in {0, via[Head(incoming).req]}
    BY <1>0, <1>i, <2>1, Queues DEF Inc
  <2>3. answerPc' = [at |-> "send", hdl |-> m_endPointList'[n]]
        /\ m_endPointList' = IF n \in DOMAIN m_endPointList THEN m_endPointList
                             ELSE Entered(m_endPointList, n, 0)
    BY <1>8 DEF SendAnswerIndex
  <2> HIDE DEF n
  <2>4. m_endPointList'[n] = 0 \/ (n \in DOMAIN m_endPointList /\ m_endPointList'[n] = m_endPointList[n])
    BY <2>3 DEF Entered
  <2>5. m_endPointList'[n] = 0 \/ m_endPointList'[n] = via[Head(incoming).req]
        \/ (m_endPointList'[n] \in Conns /\ Lost(m_endPointList'[n]))
    <3>1. n \in DOMAIN m_endPointList => m_endPointList[n] = 0 \/ m_endPointList[n] \in Conns
      BY Numbers DEF Types, TypeOK, Conns
    <3> QED BY <2>2, <2>4, <3>1 DEF TableInv
  <2>6. answerPc'.hdl = m_endPointList'[n] /\ UNCHANGED <<conn, broken>>
    <3>1. /\ answerPc' = [at |-> "send", hdl |-> m_endPointList'[n]]
          /\ UNCHANGED <<conn, broken>>
      BY <1>8 DEF SendAnswerIndex, n
    <3> QED BY <3>1
  <2>7. Hdl'
    BY <2>1, <2>5, <2>6 DEF Hdl, Lost
  <2> QED BY <1>d, <1>i, <1>a, <2>1, <2>7
<1>9. CASE SendAnswerSend
  <2>1. /\ AnswerReturns /\ UNCHANGED <<requests, via, conn, broken>> /\ answerPc.at = "send"
        /\ answers' = IF answerPc.hdl # 0 /\ peer[answerPc.hdl] = "open"
                      THEN [answers EXCEPT ![answerPc.hdl] = Append(@, Head(incoming).req)]
                      ELSE answers
    BY <1>9 DEF SendAnswerSend
  <2> DEFINE h == answerPc.hdl
             r == Head(incoming).req
  <2>2. incoming # <<>> /\ r \in Requests /\ r \in DOMAIN via
    <3>1. incoming # <<>>
      BY <1>0, <2>1
    <3>2. Head(incoming) \in [from : 0..MaxConns, req : Requests] /\ Head(incoming) = incoming[1]
          /\ 1 \in DOMAIN incoming
      BY <1>0, <3>1, Queues, Zenon
    <3> QED BY <1>i, <3>1, <3>2 DEF Inc
  <2>3. CASE h # 0 /\ peer[h] = "open"
    <3>1. h \in Conns /\ (r \in MaskedReqs \/ via[r] = h \/ Lost(h))
      BY <1>0, <1>i, <2>1, <2>3 DEF Hdl
    <3> HIDE DEF h, r
    <3>2. answers' = [answers EXCEPT ![h] = Append(@, r)]
      BY <2>1, <2>3 DEF h, r
    <3>3. \A c \in Conns \ {h} : answers'[c] = answers[c]
      BY <1>0, <3>1, <3>2
    <3>4. answers'[h] = Append(answers[h], r) /\ answers[h] \in Seq(Requests)
      BY <1>0, <3>1, <3>2
    <3>5. \A i \in DOMAIN answers'[h] : answers'[h][i] = r \/ (i \in DOMAIN answers[h] /\ answers'[h][i] = answers[h][i])
      BY <2>2, <3>4, Appended
    <3>6. \A c \in Conns : Lost(c)' <=> Lost(c)
      BY <2>1 DEF Lost
    <3>7. Ans(answers, via)'
      <4>1. ASSUME NEW c \in Conns, NEW i \in DOMAIN answers'[c]
            PROVE  /\ answers'[c][i] \in DOMAIN via
                   /\ answers'[c][i] \in MaskedReqs \/ via[answers'[c][i]] = c \/ Lost(c)
        <5>1. CASE c = h /\ answers'[c][i] = r
          BY <2>2, <3>1, <5>1, Zenon DEF r
        <5>2. CASE i \in DOMAIN answers[c] /\ answers'[c][i] = answers[c][i]
          BY <1>i, <5>2, Zenon DEF Ans
        <5> QED BY <3>3, <3>5, <5>1, <5>2
      <4> QED BY <2>1, <3>6, <4>1 DEF Ans
    <3> QED BY <1>6, <2>1, <2>2, <3>7
  <2>4. CASE ~(h # 0 /\ peer[h] = "open")
    <3>1. answers' = answers
      BY <2>1, <2>4
    <3> QED BY <1>6, <1>a, <2>1, <2>2, <3>1, Zenon
  <2> QED BY <2>3, <2>4
<1>10. CASE ServerRestart
  <2>1. /\ requests' = [c \in Conns |-> <<>>] /\ incoming' = <<>> /\ answerPc' = [at |-> "find"]
        /\ UNCHANGED <<via, answers>>
    BY <1>10 DEF ServerRestart
  <2>2. Req(requests', via') /\ Inc(incoming', via') /\ Hdl'
    BY <2>1 DEF Req, Inc, Hdl
  <2> QED BY <1>d, <1>a, <2>1, <2>2
<1>11. CASE \/ UNCHANGED vars \/ CheckConnection \/ ReleaseConnection \/ CreateConnection
            \/ OnClose \/ ReadAnswer \/ SetFCallBackResponse \/ ServerOnClose
            \/ \E c \in Conns : OnOpen(c) \/ OnFail(c) \/ ServerOnOpen(c) \/ Break(c)
  <2>1. UNCHANGED <<requests, via, incoming, answerPc, answers>>
    BY <1>11, Zenon DEF vars, CheckConnection, ReleaseConnection, CreateConnection, OnOpen, OnFail, OnClose,
                 ReadAnswer, SetFCallBackResponse, ServerOnClose, ServerOnOpen, Break
  <2> QED BY <1>1, <2>1
<1> QED BY <1>2, <1>3, <1>4, <1>5, <1>7, <1>8, <1>9, <1>10, <1>11
    DEF Next, ClientRun, Handler, ServerHandler, Answering

--------------------------------------------------------------------------------
(* The theorems *)

\* The invariant holds at the start: one connection under way, nothing sent.
LEMMA Initially == Init => LinkInv
<1> SUFFICES ASSUME Init PROVE LinkInv
  OBVIOUS
<1>0. MaxConns \in Nat \ {0} /\ Conns = 1..MaxConns /\ 1 \in Conns
  BY Numbers DEF Conns
<1>1. TypeOK
  <2>1. /\ requests \in [Conns -> Seq(Requests)] /\ answers \in [Conns -> Seq(Requests)]
        /\ via \in Seq(Conns) /\ incoming \in Seq([from : 0..MaxConns, req : Requests])
    BY DEF Init
  <2>2. DOMAIN m_endPointList = {} /\ answerPc.at = "find"
    BY DEF Init
  <2>3. /\ conn \in [Conns -> {"none", "connecting", "open", "closing", "closed"}]
        /\ peer \in [Conns -> {"none", "open", "closed"}] /\ broken \subseteq Conns
    BY DEF Init
  <2>4. slow \in 0..MaxSlow /\ faults \in 0..MaxFaults /\ 0 \in 0..MaxConns
    BY <1>0, WebSocketAssumption DEF Init
  <2> QED BY <2>1, <2>2, <2>3, <2>4, Zenon DEF Init, TypeOK
<1>2. Last = 1
  <2>1. \A c \in Conns : conn[c] # "none" <=> c <= 1
    BY <1>0 DEF Init
  <2>2. \A n \in Conns : (\A c \in Conns : conn[c] # "none" <=> c <= n) => n = 1
    BY <1>0, <2>1
  <2> QED BY <1>0, <2>1, <2>2 DEF Last
<1>3. Types
  BY <1>0, <1>1, <1>2, SMTT(20) DEF Init, Types, ZeroFilled
<1>4. FlagInv /\ OneInv /\ TableInv
  BY <1>0, <1>2 DEF Init, FlagInv, OneInv, TableInv, Up, OpennedIsLive
<1>5. RouteInv
  BY DEF Init, RouteInv
<1>6. OrderInv
  BY DEF Init, OrderInv, SentInOrder, AnsweredInOrder, Ahead
<1> QED BY <1>3, <1>4, <1>5, <1>6 DEF LinkInv

\* The invariant holds in every reachable state, for every number of connections,
\* faults, slow handshakes and requests.
THEOREM LinkInvariance == Spec => []LinkInv
<1>1. LinkInv /\ [Next]_vars => LinkInv'
  BY StepTypes, StepFlag, StepOne, StepTable, StepRoute, StepOrder DEF LinkInv
<1> QED BY Initially, <1>1, PTL DEF Spec

\* run() knows the connection it has (ConnectionIsHeld): m_isOpenned is true of
\* m_conHandle, and without slow handshakes there is no second connection.
THEOREM ConnectionAlwaysHeld == Spec => []ConnectionIsHeld
<1>1. LinkInv => ConnectionIsHeld
  <2> SUFFICES ASSUME LinkInv PROVE ConnectionIsHeld
    OBVIOUS
  <2>1. OpennedIsLive
    BY DEF LinkInv, FlagInv, OpennedIsLive
  <2>2. OneConnection
    BY DEF LinkInv, OneInv, OneConnection, Up
  <2> QED BY <2>1, <2>2 DEF LinkInv, Types, ConnectionIsHeld
<1> QED BY LinkInvariance, <1>1, PTL

\* sendAnswer() reaches the connection its request came by, and m_endPointList has the
\* entry of every connection both ends hold open (AnswersFindTheirWay).
THEOREM AnswersAlwaysFindTheirWay == Spec => []AnswersFindTheirWay
<1>1. LinkInv => AnswersFindTheirWay
  <2> SUFFICES ASSUME LinkInv PROVE AnswersFindTheirWay
    OBVIOUS
  <2>1. AnswersRouted
    BY DEF LinkInv, RouteInv, Lost, AnswersRouted
  <2>2. TableComplete
    BY DEF LinkInv, TableInv, TableComplete
  <2> QED BY <2>1, <2>2 DEF AnswersFindTheirWay
<1> QED BY LinkInvariance, <1>1, PTL

\* No step of on_message() or readAnswer() hands an older answer after a newer one, over
\* any number of reconnections (AnswersInOrder; masked answers and slow handshakes
\* excepted, as stated there).
THEOREM AnswersAlwaysInOrder == Spec => AnswersInOrder
<1>1. LinkInv /\ [Next]_vars => [InOrder]_vars
  <2> SUFFICES ASSUME LinkInv, [Next]_vars, handed' # handed, slow' = 0, handed' \notin MaskedReqs
               PROVE  handed' > handed
    <3>1. ASSUME [Next]_vars, LinkInv PROVE slow' \in Nat
      <4>1. TypeOK'
        BY <3>1, StepTypes, Zenon DEF LinkInv, Types
      <4>2. slow' \in 0..MaxSlow
        BY <4>1, Zenon DEF TypeOK
      <4> QED BY <4>2, WebSocketAssumption
    <3> QED BY <3>1 DEF InOrder
  <2>0. slow = 0 /\ AnsweredInOrder /\ Types
    BY NeverSlow DEF LinkInv, OrderInv
  <2>1. ASSUME NEW c \in Conns, OnMessage(c) PROVE handed' > handed
    <3>1. /\ conn[c] = "open" /\ answers[c] # <<>> /\ handed' = Head(answers[c])
      BY <2>1 DEF OnMessage
    <3>2. Head(answers[c]) = answers[c][1] /\ 1 \in DOMAIN answers[c] /\ handed' \in Requests
      <4>1. answers \in [Conns -> Seq(Requests)]
        BY <2>0, Zenon DEF Types, TypeOK
      <4> QED BY <3>1, <4>1, Queues
    <3>3. via[handed'] = c
      <4>1. answers[c][1] \in MaskedReqs \/ via[answers[c][1]] = c \/ Lost(c)
        BY <3>2, Zenon DEF LinkInv, RouteInv
      <4> QED BY <3>1, <3>2, <4>1 DEF Lost
    <3>4. handed < handed'
      BY <2>0, <3>1, <3>2, <3>3 DEF AnsweredInOrder, Up
    <3> QED BY <3>4, <3>2, <2>0, Numbers DEF Types, TypeOK
  <2>2. CASE ReadAnswer
    <3>1. handed' = m_received /\ m_received # 0 /\ ~m_fCallBackResponse
      BY <2>2 DEF ReadAnswer
    <3>2. m_received \in Requests
      BY <2>0, <3>1 DEF Types, TypeOK
    <3> QED BY <2>0, <3>1, <3>2, Numbers DEF AnsweredInOrder, Types, TypeOK
  <2> QED
    BY <2>1, <2>2, Zenon
       DEF runVars, openVars, slotVars, netVars, serverVars, Next, vars, ClientRun, Handler,
           ServerHandler, Answering, CheckConnection, ReleaseConnection, CreateConnection,
           SendToStream, OnOpen, OnFail, Terminate, OnClose, SetFCallBackResponse, ServerOnOpen,
           ServerTerminate, ServerOnClose, ServerOnMessage, SendAnswerFind, SendAnswerIndex,
           SendAnswerSend, Break, ServerRestart
<1> QED BY LinkInvariance, <1>1, PTL DEF Spec, AnswersInOrder

================================================================================
