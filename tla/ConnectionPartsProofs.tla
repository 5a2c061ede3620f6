------------------------- MODULE ConnectionPartsProofs -------------------------
(* The promises of the components that talk to another process: the asynchronous
   websocket client, the serial port, the connection pool, the synchronous websocket
   server and the watchdog's thread.  Each is proved for every value of its constants. *)
EXTENDS WsClientAsync, ComPort, ConnectionPool, WsServerSync, WatchDogWorker,
        FiniteSetTheorems, TLAPS

--------------------------------------------------------------------------------
(* WsClientAsync *)

Stages == {"none", "idle", "stop", "reset", "start", "enter", "run"}
Ready == {"stop", "reset", "start"}

\* The operations of an attempt to connect, and those on the connection.
Attempts(j) == j["resolve"] + j["connect"] + j["timer"] + j["handshake"]
Moving(j) == j["write"] + j["ask"] + j["read"] + j["loop"] + j["close"]

AsyncTypes ==
    /\ stage \in [Threads -> Stages]
    /\ wanted \in {"write", "ask", "loop", "close"}
    /\ jobs \in [Ops -> Nat]
    /\ stopped \in BOOLEAN /\ m_isConnected \in BOOLEAN /\ robbed \in BOOLEAN
    /\ link \in {"up", "down"}

\* One attempt at a time: ping() starts one only when the connection was lost, which
\* ended the attempt before it.
OneAttempt ==
    /\ Attempts(jobs) <= 1
    /\ Attempts(jobs) # 0 => ~m_isConnected
    /\ stage["ping"] \in Ready => Attempts(jobs) = 0 /\ ~m_isConnected /\ link = "down"
    /\ link = "down" => Moving(jobs) = 0

\* One operation on the connection at a time, none outlives a stop, and a thread
\* finds m_ioc stopped under it only if the other is about to reset it.
Orderly ==
    /\ stage["app"] \in {"idle"} \cup Ready => Moving(jobs) = 0
    /\ stopped => Moving(jobs) = 0
    /\ Moving(jobs) <= 1
    /\ stopped /\ (\E t \in Threads : stage[t] \in {"start", "enter"})
          => \E u \in Threads : stage[u] = "reset"

AsyncInv == AsyncTypes /\ OneAttempt /\ (robbed \/ Orderly) /\ WorkIsRun

\* What starting, ending and losing operations does to the counts.
LEMMA JobCounts ==
    ASSUME NEW j \in [Ops -> Nat]
    PROVE  /\ Attempts(j) \in Nat /\ Moving(j) \in Nat
           /\ Idle(j) => Attempts(j) = 0 /\ Moving(j) = 0
           /\ \A op \in Ops :
                 /\ Issue(op, j) \in [Ops -> Nat] /\ ~Idle(Issue(op, j))
                 /\ Attempts(Issue(op, j)) = IF op \in Attempt THEN Attempts(j) + 1 ELSE Attempts(j)
                 /\ Moving(Issue(op, j)) = IF op \in Transfers THEN Moving(j) + 1 ELSE Moving(j)
           /\ \A op \in Ops : j[op] > 0 =>
                 /\ End(op, j) \in [Ops -> Nat]
                 /\ Attempts(End(op, j)) = IF op \in Attempt THEN Attempts(j) - 1 ELSE Attempts(j)
                 /\ Moving(End(op, j)) = IF op \in Transfers THEN Moving(j) - 1 ELSE Moving(j)
           /\ FailAll(j) \in [Ops -> Nat] /\ Moving(FailAll(j)) = 0
           /\ Attempts(FailAll(j)) = Attempts(j)
           /\ Idle(j) => Idle(FailAll(j))
<1>0. Ops = {"resolve", "connect", "timer", "handshake", "write", "ask", "read", "loop", "close", "failed"}
  BY DEF Ops, Attempt, Transfers
<1>1. \A op \in Ops : j[op] \in Nat
  OBVIOUS
<1>2. /\ Attempts(j) \in Nat /\ Moving(j) \in Nat
      /\ Idle(j) => Attempts(j) = 0 /\ Moving(j) = 0
  BY <1>0, <1>1 DEF Attempts, Moving, Idle
<1>3. ASSUME NEW op \in Ops
      PROVE  /\ Issue(op, j) \in [Ops -> Nat] /\ ~Idle(Issue(op, j))
             /\ Attempts(Issue(op, j)) = IF op \in Attempt THEN Attempts(j) + 1 ELSE Attempts(j)
             /\ Moving(Issue(op, j)) = IF op \in Transfers THEN Moving(j) + 1 ELSE Moving(j)
  <2>1. Issue(op, j) \in [Ops -> Nat] /\ Issue(op, j)[op] # 0
    BY DEF Issue
  <2>2. \A x \in Ops : Issue(op, j)[x] = IF x = op THEN j[x] + 1 ELSE j[x]
    BY DEF Issue
  <2>3. Attempts(Issue(op, j)) = IF op \in Attempt THEN Attempts(j) + 1 ELSE Attempts(j)
    BY <1>0, <1>1, <2>2 DEF Attempts, Attempt
  <2>4. Moving(Issue(op, j)) = IF op \in Transfers THEN Moving(j) + 1 ELSE Moving(j)
    BY <1>0, <1>1, <2>2 DEF Moving, Transfers
  <2> QED BY <2>1, <2>3, <2>4 DEF Idle
<1>4. ASSUME NEW op \in Ops, j[op] > 0
      PROVE  /\ End(op, j) \in [Ops -> Nat]
             /\ Attempts(End(op, j)) = IF op \in Attempt THEN Attempts(j) - 1 ELSE Attempts(j)
             /\ Moving(End(op, j)) = IF op \in Transfers THEN Moving(j) - 1 ELSE Moving(j)
  <2>1. End(op, j) \in [Ops -> Nat]
    BY <1>4 DEF End
  <2>2. \A x \in Ops : End(op, j)[x] = IF x = op THEN j[x] - 1 ELSE j[x]
    BY DEF End
  <2>3. Attempts(End(op, j)) = IF op \in Attempt THEN Attempts(j) - 1 ELSE Attempts(j)
    BY <1>0, <1>1, <2>2 DEF Attempts, Attempt
  <2>4. Moving(End(op, j)) = IF op \in Transfers THEN Moving(j) - 1 ELSE Moving(j)
    BY <1>0, <1>1, <2>2 DEF Moving, Transfers
  <2> QED BY <2>1, <2>3, <2>4
<1>5. /\ FailAll(j) \in [Ops -> Nat] /\ Moving(FailAll(j)) = 0
      /\ Attempts(FailAll(j)) = Attempts(j)
      /\ Idle(j) => Idle(FailAll(j))
  <2>1. FailAll(j) \in [Ops -> Nat]
    BY <1>0, <1>1 DEF FailAll
  <2>2. \A x \in {"write", "ask", "read", "loop", "close"} : FailAll(j)[x] = 0
    BY <1>0 DEF FailAll, Transfers
  <2>3. \A x \in {"resolve", "connect", "timer", "handshake"} : FailAll(j)[x] = j[x]
    BY <1>0 DEF FailAll, Transfers
  <2>4. Idle(j) => FailAll(j)["failed"] = 0
    BY <1>0 DEF FailAll, Transfers, Idle
  <2> QED BY <1>0, <2>1, <2>2, <2>3, <2>4 DEF Moving, Attempts, Idle
<1> QED BY <1>2, <1>3, <1>4, <1>5

\* Somebody runs what a handler leaves behind, and stops m_ioc only without work.
LEMMA HandlerStep ==
    ASSUME AsyncInv, NEW t \in Threads, NEW op \in Ops, NEW j \in [Ops -> Nat],
           Handled(t, op, j), Moving(j) <= Moving(jobs),
           m_isConnected' \in BOOLEAN, link' \in {"up", "down"}, OneAttempt'
    PROVE  AsyncInv'
<1>1. /\ stage[t] = "run" /\ ~stopped /\ jobs' = j /\ stopped' = Idle(j)
      /\ stage' = stage /\ wanted' = wanted
      /\ robbed' = (robbed \/ (Idle(j) /\ \E u \in Threads \ {t} : stage[u] \in {"start", "enter"}))
  BY DEF Handled, Robbing
<1>2. AsyncTypes'
  BY <1>1 DEF AsyncInv, AsyncTypes, Idle
<1>3. Moving(jobs) \in Nat /\ Moving(j) \in Nat /\ (Idle(j) => Moving(j) = 0)
  BY JobCounts DEF AsyncInv, AsyncTypes
<1>4. ASSUME ~robbed' PROVE Orderly'
  <2>1. ~robbed /\ (Idle(j) => \A u \in Threads : stage[u] \notin {"start", "enter"})
    BY <1>1, <1>4, Zenon
  <2>2. Orderly
    BY <2>1 DEF AsyncInv
  <2>3. Moving(jobs)' = Moving(j)
    BY <1>1 DEF Moving
  <2> QED BY <1>1, <1>3, <2>1, <2>2, <2>3 DEF Orderly
<1>5. WorkIsRun'
  BY <1>1 DEF WorkIsRun
<1> QED BY <1>2, <1>4, <1>5 DEF AsyncInv

LEMMA AsyncStep == AsyncInv /\ [AsyncNext]_asyncVars => AsyncInv'
<1> SUFFICES ASSUME AsyncInv, [AsyncNext]_asyncVars PROVE AsyncInv'
  OBVIOUS
<1> USE DEF linkVars, peerVars
<1>t. AsyncTypes /\ OneAttempt /\ (robbed \/ Orderly) /\ WorkIsRun
  BY DEF AsyncInv
<1>j. jobs \in [Ops -> Nat] /\ Attempts(jobs) \in Nat /\ Moving(jobs) \in Nat
      /\ (Idle(jobs) => Attempts(jobs) = 0 /\ Moving(jobs) = 0)
  BY <1>t, JobCounts DEF AsyncTypes
<1>0. CASE UNCHANGED asyncVars
  BY <1>0, <1>t DEF asyncVars, AsyncInv, AsyncTypes, OneAttempt, Orderly, WorkIsRun, Attempts, Moving, Idle
<1>1. ASSUME NEW op \in {"write", "ask", "loop", "close"}, AppCall(op) PROVE AsyncInv'
  <2>1. /\ stage["app"] = "idle" /\ wanted' = op /\ stage' = [stage EXCEPT !["app"] = "stop"]
        /\ UNCHANGED <<jobs, stopped, m_isConnected, link, robbed>>
    BY <1>1 DEF AppCall, GoTo
  <2>2. stage'["app"] = "stop" /\ stage'["ping"] = stage["ping"] /\ AsyncTypes'
    BY <1>t, <2>1 DEF AsyncTypes, Threads, Stages
  <2>3. OneAttempt'
    BY <1>t, <2>1, <2>2 DEF OneAttempt
  <2>4. robbed' \/ Orderly'
    BY <1>t, <2>1, <2>2 DEF Orderly, Ready, Threads
  <2>5. WorkIsRun'
    BY <2>2 DEF WorkIsRun, Threads
  <2> QED BY <2>2, <2>3, <2>4, <2>5 DEF AsyncInv
<1>2. CASE Ping
  <2>1. /\ stage["ping"] = "idle" /\ stage' = [stage EXCEPT !["ping"] = "stop"]
        /\ m_isConnected /\ link = "down" /\ m_isConnected' = FALSE
        /\ UNCHANGED <<wanted, jobs, stopped, link, robbed>>
    BY <1>2 DEF Ping, GoTo
  <2>2. stage'["ping"] = "stop" /\ stage'["app"] = stage["app"] /\ AsyncTypes'
    BY <1>t, <2>1, Zenon DEF AsyncTypes, Threads, Stages
  <2>3. OneAttempt'
    BY <1>t, <2>1, <2>2 DEF OneAttempt
  <2>4. robbed' \/ Orderly'
    BY <1>t, <2>1, <2>2 DEF Orderly, Ready, Threads
  <2>5. WorkIsRun'
    BY <2>2 DEF WorkIsRun, Threads
  <2> QED BY <2>2, <2>3, <2>4, <2>5 DEF AsyncInv
<1>3. ASSUME NEW t \in Threads, Stop(t) PROVE AsyncInv'
  <2>1. /\ stage[t] = "stop" /\ stage' = [stage EXCEPT ![t] = "reset"] /\ stopped' = TRUE
        /\ UNCHANGED <<wanted, jobs, m_isConnected, link, robbed>>
    BY <1>3 DEF Stop, GoTo
  <2>2. stage'[t] = "reset" /\ (\A u \in Threads \ {t} : stage'[u] = stage[u]) /\ AsyncTypes'
    BY <1>t, <2>1 DEF AsyncTypes, Stages
  <2>3. OneAttempt'
    BY <1>t, <2>1, <2>2 DEF OneAttempt, Ready, Threads
  <2>4. robbed' \/ Orderly'
    BY <1>t, <2>1, <2>2 DEF OneAttempt, Orderly, Ready, Threads
  <2>5. WorkIsRun'
    BY <2>2 DEF WorkIsRun
  <2> QED BY <2>2, <2>3, <2>4, <2>5 DEF AsyncInv
<1>4. ASSUME NEW t \in Threads, Reset(t) PROVE AsyncInv'
  <2>1. /\ stage[t] = "reset" /\ stage' = [stage EXCEPT ![t] = "start"] /\ stopped' = FALSE
        /\ robbed' = (robbed /\ ~Idle(jobs))
        /\ UNCHANGED <<wanted, jobs, m_isConnected, link>>
    BY <1>4 DEF Reset, GoTo
  <2>2. stage'[t] = "start" /\ (\A u \in Threads \ {t} : stage'[u] = stage[u]) /\ AsyncTypes'
    BY <1>t, <2>1, Zenon DEF AsyncTypes, Stages, Idle
  <2>3. OneAttempt'
    BY <1>t, <2>1, <2>2 DEF OneAttempt, Ready, Threads
  <2>4. ASSUME ~robbed' PROVE Orderly'
    <3>1. Moving(jobs)' = Moving(jobs)
      BY <2>1 DEF Moving
    <3>2. CASE robbed
      <4>1. Idle(jobs)
        BY <2>1, <2>4, <3>2, Zenon
      <4> QED BY <1>j, <2>1, <3>1, <4>1 DEF Orderly
    <3>3. CASE ~robbed
      BY <1>t, <2>1, <2>2, <3>1, <3>3 DEF Orderly, Ready, Threads
    <3> QED BY <3>2, <3>3
  <2>5. WorkIsRun'
    BY <2>1, <2>2 DEF WorkIsRun
  <2> QED BY <2>2, <2>3, <2>4, <2>5 DEF AsyncInv
<1>5. ASSUME NEW t \in Threads, Begin(t) PROVE AsyncInv'
  <2>1. /\ stage[t] = "start" /\ stage' = [stage EXCEPT ![t] = "enter"]
        /\ jobs' = IF t = "ping" THEN Issue("resolve", jobs) ELSE Transfer(wanted, jobs)
        /\ UNCHANGED <<wanted, stopped, m_isConnected, link, robbed>>
    BY <1>5 DEF Begin, GoTo
  <2> DEFINE op == IF t = "ping" THEN "resolve" ELSE IF link = "up" THEN wanted ELSE "failed"
  <2>2. /\ op \in Ops /\ jobs' = Issue(op, jobs)
        /\ op \in Attempt <=> t = "ping"
        /\ op \in Transfers <=> t = "app" /\ link = "up"
    BY <1>t, <2>1 DEF Transfer, AsyncTypes, Ops, Attempt, Transfers, Threads
  <2> HIDE DEF op
  <2>3. /\ jobs' \in [Ops -> Nat]
        /\ Attempts(jobs') = IF t = "ping" THEN Attempts(jobs) + 1 ELSE Attempts(jobs)
        /\ Moving(jobs') = IF t = "app" /\ link = "up" THEN Moving(jobs) + 1 ELSE Moving(jobs)
    BY <1>j, <2>2, JobCounts
  <2>4. stage'[t] = "enter" /\ (\A u \in Threads \ {t} : stage'[u] = stage[u]) /\ AsyncTypes'
    BY <1>t, <2>1, <2>3 DEF AsyncTypes, Stages
  <2>5. Attempts(jobs)' = Attempts(jobs') /\ Moving(jobs)' = Moving(jobs')
    BY DEF Attempts, Moving
  <2>6. OneAttempt'
    BY <1>t, <1>j, <2>1, <2>3, <2>4, <2>5 DEF OneAttempt, Ready, Threads
  <2>7. ASSUME ~robbed PROVE Orderly'
    <3>1. stopped => \E u \in Threads \ {t} : stage[u] = "reset"
      BY <1>t, <2>1, <2>7 DEF Orderly
    <3>2. stopped /\ t = "app" => stage["ping"] = "reset" /\ link = "down"
      BY <1>t, <3>1 DEF Threads, OneAttempt, Ready
    <3>3. t = "app" => Moving(jobs) = 0
      BY <1>t, <2>1, <2>7 DEF Orderly, Ready
    <3> QED BY <1>t, <1>j, <2>1, <2>3, <2>4, <2>5, <2>7, <3>1, <3>2, <3>3 DEF Orderly, Ready, Threads
  <2>8. WorkIsRun'
    <3>1. CASE robbed
      BY <3>1, <2>1 DEF WorkIsRun
    <3>2. CASE ~robbed /\ stopped
      BY <1>t, <2>1, <2>4, <3>2 DEF WorkIsRun, Orderly
    <3>3. CASE ~stopped
      BY <2>1, <2>4, <3>3 DEF WorkIsRun
    <3> QED BY <3>1, <3>2, <3>3
  <2> QED BY <2>1, <2>4, <2>6, <2>7, <2>8 DEF AsyncInv
<1>6. ASSUME NEW t \in Threads, Leaves(t), stage[t] \in {"enter", "run"}, stopped \/ Idle(jobs),
             stopped' = TRUE, UNCHANGED <<wanted, jobs, m_isConnected, link>>,
             robbed' = (robbed \/ (~stopped /\ \E u \in Threads \ {t} : stage[u] \in {"start", "enter"}))
      PROVE  AsyncInv'
  <2>1. stage'[t] = "idle" /\ (\A u \in Threads \ {t} : stage'[u] = stage[u] \/ (stage[u] = "none" /\ stage'[u] = "idle"))
    BY <1>t, <1>6 DEF Leaves, AsyncTypes, Threads
  <2>2. AsyncTypes'
    <3>1. stage' \in [Threads -> Stages]
      BY <1>t, <1>6 DEF Leaves, AsyncTypes, Threads, Stages
    <3> QED BY <1>t, <1>6, <3>1 DEF AsyncTypes
  <2>3. OneAttempt'
    BY <1>t, <1>6, <2>1 DEF OneAttempt, Ready, Threads
  <2>4. robbed' \/ Orderly'
    BY <1>t, <1>j, <1>6, <2>1, Zenon DEF Orderly, Ready, Threads
  <2>5. WorkIsRun'
    BY <1>t, <1>6, <2>1, Zenon DEF WorkIsRun, Idle
  <2> QED BY <2>2, <2>3, <2>4, <2>5 DEF AsyncInv
<1>7. ASSUME NEW t \in Threads, Run(t) PROVE AsyncInv'
  <2>1. /\ stage[t] = "enter" /\ UNCHANGED <<wanted, jobs, m_isConnected, link>>
        /\ stopped' = (stopped \/ Idle(jobs))
        /\ robbed' = (robbed \/ ((~stopped /\ Idle(jobs)) /\ \E u \in Threads \ {t} : stage[u] \in {"start", "enter"}))
        /\ IF stopped \/ Idle(jobs) THEN Leaves(t) ELSE stage' = [stage EXCEPT ![t] = "run"]
    BY <1>7 DEF Run, Robbing, GoTo
  <2>2. CASE stopped \/ Idle(jobs)
    <3>1. stopped' = TRUE /\ Leaves(t)
      BY <1>t, <2>1, <2>2, Zenon DEF AsyncTypes
    <3>2. robbed' = (robbed \/ (~stopped /\ \E u \in Threads \ {t} : stage[u] \in {"start", "enter"}))
      BY <2>1, <2>2
    <3> QED BY <1>6, <2>1, <2>2, <3>1, <3>2, Zenon
  <2>3. CASE ~stopped /\ ~Idle(jobs)
    <3>1. /\ stage' = [stage EXCEPT ![t] = "run"] /\ stopped' = FALSE /\ robbed' = robbed
      BY <1>t, <2>1, <2>3 DEF AsyncTypes
    <3>2. stage'[t] = "run" /\ (\A u \in Threads \ {t} : stage'[u] = stage[u]) /\ AsyncTypes'
      BY <1>t, <2>1, <3>1 DEF AsyncTypes, Stages
    <3>3. OneAttempt'
      BY <1>t, <2>1, <3>2 DEF OneAttempt, Ready, Threads
    <3>4. robbed' \/ Orderly'
      BY <1>t, <2>1, <3>1, <3>2 DEF Orderly, Ready, Threads
    <3>5. WorkIsRun'
      BY <3>1, <3>2 DEF WorkIsRun
    <3> QED BY <3>2, <3>3, <3>4, <3>5 DEF AsyncInv
  <2> QED BY <2>2, <2>3
<1>8. ASSUME NEW t \in Threads, LeaveRun(t) PROVE AsyncInv'
  <2>1. /\ stage[t] = "run" /\ stopped /\ Leaves(t)
        /\ UNCHANGED <<wanted, jobs, stopped, m_isConnected, link, robbed>>
    BY <1>8 DEF LeaveRun
  <2>2. stopped' = TRUE /\ robbed' = (robbed \/ (~stopped /\ \E u \in Threads \ {t} : stage[u] \in {"start", "enter"}))
    BY <1>t, <2>1 DEF AsyncTypes
  <2> QED BY <1>6, <2>1, <2>2, Zenon
<1>9. ASSUME NEW t \in Threads, NEW op \in Ops, NEW j \in [Ops -> Nat], Handled(t, op, j),
             Moving(j) <= Moving(jobs), Attempts(j) <= Attempts(jobs),
             UNCHANGED link, m_isConnected' \in BOOLEAN, m_isConnected' => m_isConnected
      PROVE  AsyncInv'
  <2>1. jobs' = j /\ stage' = stage
    BY <1>9 DEF Handled
  <2>2. Attempts(j) \in Nat /\ Moving(j) \in Nat /\ Attempts(jobs)' = Attempts(j) /\ Moving(jobs)' = Moving(j)
    BY <2>1, JobCounts DEF Attempts, Moving
  <2>3. OneAttempt'
    BY <1>t, <1>j, <1>9, <2>1, <2>2 DEF OneAttempt
  <2> QED BY <1>t, <1>9, <2>3, HandlerStep DEF AsyncTypes
<1>10. ASSUME NEW t \in Threads, OnResolve(t) PROVE AsyncInv'
  <2>1. PICK j \in {Issue("connect", End("resolve", jobs)), End("resolve", jobs)} :
              Handled(t, "resolve", j)
    BY <1>10 DEF OnResolve
  <2>2. UNCHANGED <<link, m_isConnected>> /\ jobs["resolve"] > 0
    BY <1>10, <2>1 DEF OnResolve, Handled
  <2>3. "resolve" \in Ops /\ "connect" \in Ops /\ "resolve" \in Attempt /\ "connect" \in Attempt
        /\ "resolve" \notin Transfers /\ "connect" \notin Transfers
    BY DEF Ops, Attempt, Transfers
  <2>4. /\ End("resolve", jobs) \in [Ops -> Nat] /\ Moving(End("resolve", jobs)) = Moving(jobs)
        /\ Attempts(End("resolve", jobs)) = Attempts(jobs) - 1
    BY <1>j, <2>2, <2>3, JobCounts
  <2>5. /\ Issue("connect", End("resolve", jobs)) \in [Ops -> Nat]
        /\ Moving(Issue("connect", End("resolve", jobs))) = Moving(jobs)
        /\ Attempts(Issue("connect", End("resolve", jobs))) = Attempts(jobs)
    <3> DEFINE e == End("resolve", jobs)
    <3>1. e \in [Ops -> Nat]
      BY <2>4
    <3> HIDE DEF e
    <3>2. /\ Issue("connect", e) \in [Ops -> Nat] /\ Moving(Issue("connect", e)) = Moving(e)
          /\ Attempts(Issue("connect", e)) = Attempts(e) + 1
      BY <2>3, <3>1, JobCounts
    <3> QED BY <1>j, <2>4, <3>2 DEF e
  <2>6. j \in [Ops -> Nat] /\ Moving(j) <= Moving(jobs) /\ Attempts(j) <= Attempts(jobs)
    BY <1>j, <2>4, <2>5
  <2> QED BY <1>9, <1>t, <2>1, <2>2, <2>3, <2>6 DEF AsyncTypes
<1>11. ASSUME NEW t \in Threads, NEW op \in Attempt, NEW next \in Attempt,
              Handled(t, op, Issue(next, End(op, jobs))), UNCHANGED link,
              m_isConnected' \in BOOLEAN, m_isConnected' => m_isConnected
       PROVE  AsyncInv'
  <2>1. op \in Ops /\ next \in Ops /\ op \notin Transfers /\ next \notin Transfers /\ jobs[op] > 0
    BY <1>11 DEF Ops, Attempt, Transfers, Handled
  <2>2. /\ End(op, jobs) \in [Ops -> Nat] /\ Moving(End(op, jobs)) = Moving(jobs)
        /\ Attempts(End(op, jobs)) = Attempts(jobs) - 1
    BY <1>j, <2>1, JobCounts
  <2>3. /\ Issue(next, End(op, jobs)) \in [Ops -> Nat]
        /\ Moving(Issue(next, End(op, jobs))) = Moving(jobs)
        /\ Attempts(Issue(next, End(op, jobs))) = Attempts(jobs)
    BY <1>j, <2>1, <2>2, JobCounts
  <2> QED BY <1>9, <1>11, <1>j, <2>1, <2>3
<1>12. ASSUME NEW t \in Threads, OnConnect(t) PROVE AsyncInv'
  <2>1. PICK next \in Attempt : Handled(t, "connect", Issue(next, End("connect", jobs)))
    BY <1>12 DEF OnConnect, Attempt
  <2>2. "connect" \in Attempt /\ UNCHANGED link
        /\ m_isConnected' \in BOOLEAN /\ (m_isConnected' => m_isConnected)
    BY <1>12, Zenon DEF OnConnect, Attempt
  <2> QED BY <1>11, <2>1, <2>2
<1>13. ASSUME NEW t \in Threads, OnReadyToReconnect(t) PROVE AsyncInv'
  <2>1. Handled(t, "timer", Issue("resolve", End("timer", jobs))) /\ UNCHANGED <<link, m_isConnected>>
    BY <1>13 DEF OnReadyToReconnect
  <2>2. "timer" \in Attempt /\ "resolve" \in Attempt /\ m_isConnected \in BOOLEAN
    BY <1>t DEF Attempt, AsyncTypes
  <2> QED BY <1>11, <2>1, <2>2
<1>14. ASSUME NEW t \in Threads, OnHandshake(t) PROVE AsyncInv'
  <2> DEFINE j == End("handshake", jobs)
  <2>1. /\ Handled(t, "handshake", j) /\ jobs["handshake"] > 0 /\ jobs' = j /\ stage' = stage
        /\ m_isConnected' \in BOOLEAN /\ link' \in {"up", link}
    BY <1>14, Zenon DEF OnHandshake, Handled
  <2>2. "handshake" \in Ops /\ "handshake" \in Attempt /\ "handshake" \notin Transfers
    BY DEF Ops, Attempt, Transfers
  <2>3. j \in [Ops -> Nat] /\ Moving(j) = Moving(jobs) /\ Attempts(j) = Attempts(jobs) - 1
    BY <1>j, <2>1, <2>2, JobCounts
  <2>4. Attempts(j) \in Nat
    BY <2>3, JobCounts
  <2>5. Attempts(jobs) = 1 /\ Attempts(j) = 0 /\ stage["ping"] \notin Ready
    BY <1>t, <1>j, <2>3, <2>4 DEF OneAttempt
  <2>6. Attempts(jobs)' = Attempts(j) /\ Moving(jobs)' = Moving(j)
    BY <2>1 DEF Attempts, Moving
  <2> HIDE DEF j
  <2>7. OneAttempt'
    BY <1>t, <2>1, <2>3, <2>5, <2>6 DEF OneAttempt
  <2>8. link' \in {"up", "down"} /\ Moving(j) <= Moving(jobs)
    BY <1>t, <1>j, <2>1, <2>3 DEF AsyncTypes
  <2> QED BY <2>1, <2>2, <2>3, <2>7, <2>8, HandlerStep
<1>15. ASSUME NEW t \in Threads, NEW op \in Ops \ Attempt, Handled(t, op, End(op, jobs)),
              UNCHANGED <<m_isConnected, link>>
       PROVE  AsyncInv'
  <2>1. jobs[op] > 0
    BY <1>15 DEF Handled
  <2>2. End(op, jobs) \in [Ops -> Nat] /\ Moving(End(op, jobs)) <= Moving(jobs)
        /\ Attempts(End(op, jobs)) = Attempts(jobs)
    BY <1>j, <2>1, JobCounts
  <2> QED BY <1>9, <1>15, <1>t, <1>j, <2>2 DEF AsyncTypes
<1>16. ASSUME NEW t \in Threads, OnWrite(t) PROVE AsyncInv'
  <2>0. UNCHANGED <<m_isConnected, link>>
    BY <1>16 DEF OnWrite
  <2>1. CASE Handled(t, "write", End("write", jobs))
    <3>1. "write" \in Ops \ Attempt
      BY DEF Ops, Attempt, Transfers
    <3> QED BY <1>15, <2>0, <2>1, <3>1
  <2>2. CASE Handled(t, "ask", Transfer("read", End("ask", jobs)))
    <3> DEFINE next == IF link = "up" THEN "read" ELSE "failed"
               j == Issue(next, End("ask", jobs))
    <3>1. jobs["ask"] > 0 /\ Handled(t, "ask", j)
      BY <2>2 DEF Handled, Transfer
    <3>2. /\ "ask" \in Ops /\ "ask" \in Transfers /\ "ask" \notin Attempt
          /\ next \in Ops /\ next \notin Attempt
      BY DEF Ops, Attempt, Transfers
    <3>3. End("ask", jobs) \in [Ops -> Nat] /\ Moving(End("ask", jobs)) = Moving(jobs) - 1
          /\ Attempts(End("ask", jobs)) = Attempts(jobs)
      BY <1>j, <3>1, <3>2, JobCounts
    <3> HIDE DEF next
    <3>4. j \in [Ops -> Nat] /\ Moving(j) <= Moving(jobs) /\ Attempts(j) = Attempts(jobs)
      BY <1>j, <3>2, <3>3, JobCounts
    <3> HIDE DEF j
    <3> QED BY <1>9, <1>t, <1>j, <2>0, <3>1, <3>2, <3>4 DEF AsyncTypes
  <2> QED BY <1>16, <2>1, <2>2 DEF OnWrite
<1>17. ASSUME NEW t \in Threads, OnRead(t) PROVE AsyncInv'
  <2>0. UNCHANGED <<m_isConnected, link>> /\ "read" \in Ops \ Attempt /\ "loop" \in Ops
    BY <1>17 DEF OnRead, Ops, Attempt, Transfers
  <2>1. CASE Handled(t, "read", End("read", jobs))
    BY <1>15, <2>0, <2>1
  <2>2. CASE Handled(t, "loop", jobs)
    BY <1>9, <1>t, <1>j, <2>0, <2>2 DEF AsyncTypes
  <2> QED BY <1>17, <2>1, <2>2 DEF OnRead
<1>18. ASSUME NEW t \in Threads, OnFailed(t) PROVE AsyncInv'
  <2>1. "failed" \in Ops \ Attempt
    BY DEF Ops, Attempt
  <2> QED BY <1>15, <1>18, <2>1 DEF OnFailed
<1>19. ASSUME NEW t \in Threads, OnClose(t) PROVE AsyncInv'
  <2> DEFINE j == FailAll(End("close", jobs))
  <2>1. /\ Handled(t, "close", j) /\ jobs["close"] > 0 /\ jobs' = j /\ stage' = stage
        /\ m_isConnected' = m_isConnected /\ link' = "down"
    BY <1>19 DEF OnClose, Handled
  <2>2. "close" \in Ops /\ "close" \notin Attempt
    BY DEF Ops, Attempt, Transfers
  <2>3. End("close", jobs) \in [Ops -> Nat] /\ Attempts(End("close", jobs)) = Attempts(jobs)
    BY <1>j, <2>1, <2>2, JobCounts
  <2>4. j \in [Ops -> Nat] /\ Moving(j) = 0 /\ Attempts(j) = Attempts(jobs)
    BY <2>3, JobCounts
  <2>5. Attempts(jobs)' = Attempts(j) /\ Moving(jobs)' = Moving(j)
    BY <2>1 DEF Attempts, Moving
  <2> HIDE DEF j
  <2>6. OneAttempt'
    BY <1>t, <2>1, <2>4, <2>5 DEF OneAttempt
  <2> QED BY <1>t, <1>j, <2>1, <2>2, <2>4, <2>6, HandlerStep DEF AsyncTypes
<1>20. CASE Drop
  <2>1. /\ link' = "down" /\ jobs' = FailAll(jobs)
        /\ UNCHANGED <<stage, wanted, stopped, m_isConnected, robbed>>
    BY <1>20 DEF Drop
  <2>2. /\ jobs' \in [Ops -> Nat] /\ Moving(jobs') = 0 /\ Attempts(jobs') = Attempts(jobs)
        /\ (Idle(jobs) => Idle(jobs'))
    BY <1>j, <2>1, JobCounts
  <2>3. Attempts(jobs)' = Attempts(jobs') /\ Moving(jobs)' = Moving(jobs') /\ Idle(jobs)' = Idle(jobs')
    BY DEF Attempts, Moving, Idle
  <2>4. AsyncTypes'
    BY <1>t, <2>1, <2>2 DEF AsyncTypes
  <2>5. OneAttempt'
    BY <1>t, <2>1, <2>2, <2>3 DEF OneAttempt
  <2>6. robbed' \/ Orderly'
    BY <1>t, <2>1, <2>2, <2>3 DEF Orderly
  <2>7. WorkIsRun'
    BY <1>t, <2>1, <2>2, <2>3 DEF WorkIsRun
  <2> QED BY <2>4, <2>5, <2>6, <2>7 DEF AsyncInv
<1>21. CASE Rise
  BY <1>21, <1>t, Zenon DEF Rise, AsyncInv, AsyncTypes, OneAttempt, Orderly, WorkIsRun, Attempts, Moving, Idle
<1> QED
  BY <1>0, <1>1, <1>2, <1>3, <1>4, <1>5, <1>7, <1>8, <1>10, <1>12, <1>13, <1>14, <1>16, <1>17,
     <1>18, <1>19, <1>20, <1>21 DEF AsyncNext, Steps, Connecting, Ending

\* The two threads that share m_ioc neither start an operation twice nor leave one
\* without a run(), however often the server is lost.
THEOREM HandlersAreAlwaysSafe == AsyncSpec => []HandlersAreSafe
<1>1. ASSUME AsyncInit PROVE AsyncInv
  <2>1. stage["app"] = "run" /\ stage["ping"] = "none" /\ Threads = {"app", "ping"}
    BY <1>1 DEF AsyncInit, Threads
  <2>2. /\ jobs \in [Ops -> Nat]
        /\ jobs["resolve"] = 1 /\ jobs["connect"] = 0 /\ jobs["timer"] = 0 /\ jobs["handshake"] = 0
        /\ jobs["write"] = 0 /\ jobs["ask"] = 0 /\ jobs["read"] = 0 /\ jobs["loop"] = 0
        /\ jobs["close"] = 0
    BY <1>1 DEF AsyncInit, Ops, Attempt, Transfers
  <2>3. AsyncTypes
    BY <1>1, <2>2, Zenon DEF AsyncInit, AsyncTypes, Stages
  <2>4. Attempts(jobs) = 1 /\ Moving(jobs) = 0
    BY <2>2 DEF Attempts, Moving
  <2>5. OneAttempt /\ Orderly
    BY <1>1, <2>1, <2>4 DEF AsyncInit, OneAttempt, Orderly, Ready
  <2>6. WorkIsRun
    BY <1>1, <2>1 DEF AsyncInit, WorkIsRun
  <2> QED BY <2>3, <2>5, <2>6 DEF AsyncInv
<1>2. ASSUME AsyncInv PROVE HandlersAreSafe
  <2>1. \A op \in Transfers : jobs[op] \in Nat
    BY <1>2 DEF AsyncInv, AsyncTypes, Ops
  <2>2. jobs["write"] \in Nat /\ jobs["ask"] \in Nat /\ jobs["read"] \in Nat
        /\ jobs["loop"] \in Nat /\ jobs["close"] \in Nat
    BY <2>1 DEF Transfers
  <2>3. NoOverlap
    BY <1>2, <2>2 DEF AsyncInv, OneAttempt, Orderly, Attempts, Moving, NoOverlap
  <2> QED BY <1>2, <2>3 DEF AsyncInv, HandlersAreSafe
<1> QED BY <1>1, <1>2, AsyncStep, PTL DEF AsyncSpec

--------------------------------------------------------------------------------
(* ComPort *)

\* StatusTells is inductive but for the types.
PortInv ==
    /\ held \in Nat /\ fd \in Int
    /\ StatusTells

\* openPort() that got a descriptor: one is held, and the status is ON or, when
\* the options were refused, ERROR.
LEMMA OpenedIsRight ==
    ASSUME held' = 0 + 1, fd' = 0, status' \in {"ON", "ERROR"} PROVE PortInv'
BY DEF PortInv, StatusTells

\* openPort() that got none: the status is EMPTY or OFF.
LEMMA NotOpenedIsRight ==
    ASSUME held' = 0 + 0, fd' = -1, status' \in {"EMPTY", "OFF"} PROVE PortInv'
BY DEF PortInv, StatusTells

\* openPort(), on a closed or an open port, in each of its four outcomes: the
\* old descriptor is given back before the new one is taken.
LEMMA OpenKeepsPort ==
    PortInv => \A outcome \in {"no path", "fails", "options", "ok"} : OpenPort(outcome) => PortInv'
<1>1. PortInv => held - (IF fd >= 0 THEN 1 ELSE 0) = 0
  BY DEF PortInv, StatusTells
<1> SUFFICES ASSUME PortInv, NEW outcome \in {"no path", "fails", "options", "ok"},
                    OpenPort(outcome)
             PROVE  PortInv'
  BY Zenon
<1>2. CASE outcome \in {"ok", "options"}
  <2>1. held' = 0 + 1 /\ fd' = 0
    BY <1>1, <1>2, Zenon DEF OpenPort
  <2>2. status' \in {"ON", "ERROR"}
    BY <1>2, Zenon DEF OpenPort
  <2> QED BY <2>1, <2>2, OpenedIsRight, Zenon
<1>3. CASE outcome \in {"no path", "fails"}
  <2>1. held' = 0 + 0 /\ fd' = -1
    BY <1>1, <1>3, Zenon DEF OpenPort
  <2>2. status' \in {"EMPTY", "OFF"}
    BY <1>3, Zenon DEF OpenPort
  <2> QED BY <2>1, <2>2, NotOpenedIsRight, Zenon
<1> QED BY <1>2, <1>3, Zenon

LEMMA ClosesKeepsPort == ASSUME PortInv, Closes PROVE PortInv'
BY DEF Closes, PortInv, StatusTells

LEMMA PortStep == PortInv /\ [PortNext]_portVars => PortInv'
<1> SUFFICES ASSUME PortInv, [PortNext]_portVars PROVE PortInv'
  OBVIOUS
<1>1. CASE ClosePort \/ CheckAlivePort
  BY <1>1, ClosesKeepsPort DEF ClosePort, CheckAlivePort
<1>2. CASE Tick \/ DeviceTurns \/ UNCHANGED portVars
  BY <1>2 DEF Tick, DeviceTurns, portVars, PortInv, StatusTells
<1>3. ASSUME NEW outcome \in {"no path", "fails", "options", "ok"}, OpenPort(outcome)
      PROVE  PortInv'
  BY <1>3, OpenKeepsPort, Zenon
<1>4. ASSUME NEW result \in {"full", "short", "error"}, ReadBytes(result)
      PROVE  PortInv'
  BY <1>4 DEF ReadBytes, PortInv, StatusTells
<1>5. ASSUME NEW result \in {"full", "short", "error"}, WriteBytes(result)
      PROVE  PortInv'
  <2>1. CASE result = "error"
    BY <1>5, <2>1, ClosesKeepsPort DEF WriteBytes
  <2>2. CASE result # "error"
    BY <1>5, <2>2 DEF WriteBytes, PortInv, StatusTells
  <2> QED BY <2>1, <2>2
<1> QED BY <1>1, <1>2, <1>3, <1>4, <1>5, Zenon DEF PortNext

\* Whatever the limits, the device and the order of the calls: the status agrees
\* with the descriptor, and openPort(), writeBytes(), checkAlivePort() and
\* closePort() neither lose a descriptor nor close one twice.
THEOREM StatusAlwaysTells == PortSpec => []StatusTells
<1>1. PortInit => PortInv
  BY DEF PortInit, PortInv, StatusTells
<1>2. PortInv => StatusTells
  BY DEF PortInv
<1> QED BY <1>1, <1>2, PortStep, PTL DEF PortSpec

--------------------------------------------------------------------------------
(* ConnectionPool *)

Places == {"idle", "lock", "find", "wait", "woken", "mark", "use", "fail",
           "release", "signal", "error"}
Locked == {"find", "mark", "fail", "release"}

PoolTypes ==
    /\ free \in [Positions -> BOOLEAN]
    /\ where \in [Callers -> Places]
    /\ pos \in [Callers -> Positions \cup {0}]

\* mtx_ is held by the threads inside the two functions, of which there is one.
MutexHolds ==
    /\ mtx = {t \in Callers : where[t] \in Locked}
    /\ \A t, u \in mtx : t = u

\* A thread has the position of the entry it has found, free until it is marked,
\* or uses, taken until it is given back.
PositionsFit ==
    \A t \in Callers :
        /\ where[t] = "mark" => pos[t] \in Positions /\ free[pos[t]]
        /\ Holds(t) => pos[t] \in Positions /\ ~free[pos[t]]
        /\ where[t] # "error"

OneUser == \A t, u \in Callers : Holds(t) /\ Holds(u) /\ pos[t] = pos[u] => t = u

NoneLost == \A i \in Positions : ~free[i] => \E t \in Callers : Holds(t) /\ pos[t] = i

PoolInv == PoolTypes /\ MutexHolds /\ PositionsFit /\ OneUser /\ NoneLost

\* The constructor of connection_pool establishes the invariant.
LEMMA PoolInitInv == PoolInit => PoolInv
BY DEF PoolInit, PoolInv, PoolTypes, MutexHolds, PositionsFit, OneUser, NoneLost, Holds,
       Places, Locked

\* The steps that touch neither an entry nor a position and move threads between
\* places where none is held: they keep the invariant if they keep the mutex.
LEMMA QuietSteps ==
    ASSUME PoolInv, UNCHANGED <<free, pos>>, where' \in [Callers -> Places], MutexHolds',
           \A t \in Callers : /\ Holds(t)' <=> Holds(t)
                              /\ where'[t] \notin {"mark", "error"}
                                 \/ where'[t] = where[t]
    PROVE  PoolInv'
<1>1. PoolTypes' /\ OneUser' /\ NoneLost'
  BY DEF PoolInv, PoolTypes, OneUser, NoneLost
<1>2. PositionsFit'
  BY DEF PoolInv, PositionsFit
<1> QED BY <1>1, <1>2 DEF PoolInv

\* Every step of try_lease() and give_back() keeps the invariant.
LEMMA PoolStep == PoolInv /\ [PoolNext]_poolVars => PoolInv'
<1> SUFFICES ASSUME PoolInv, [PoolNext]_poolVars PROVE PoolInv'
  OBVIOUS
<1> USE DEF PoolInv
<1>0. CASE UNCHANGED poolVars
  BY <1>0 DEF poolVars, PoolTypes, MutexHolds, PositionsFit, OneUser, NoneLost, Holds
<1>1. ASSUME NEW t \in Callers, NEW hasTimeout \in BOOLEAN, TryLease(t, hasTimeout)
      PROVE  PoolInv'
  <2>1. where' \in [Callers -> Places] /\ MutexHolds'
    BY <1>1 DEF TryLease, Go, PoolTypes, MutexHolds, Places, Locked
  <2> QED BY <1>1, <2>1, QuietSteps DEF TryLease, Go, PoolTypes, Holds
<1>2. ASSUME NEW t \in Callers, Enter(t) \/ TimedOut(t) PROVE PoolInv'
  <2>1. where' \in [Callers -> Places]
    BY <1>2 DEF Enter, TimedOut, Go, PoolTypes, Places
  <2>2. MutexHolds'
    BY <1>2 DEF Enter, TimedOut, Lock, Go, PoolTypes, MutexHolds, Locked
  <2> QED BY <1>2, <2>1, <2>2, QuietSteps DEF Enter, TimedOut, Go, PoolTypes, Holds
<1>3. ASSUME NEW t \in Callers, Expire(t) PROVE PoolInv'
  BY <1>3 DEF Expire, PoolTypes, MutexHolds, PositionsFit, OneUser, NoneLost, Holds
<1>4. ASSUME NEW t \in Callers, Spurious(t) PROVE PoolInv'
  <2>1. where' \in [Callers -> Places] /\ MutexHolds'
    BY <1>4 DEF Spurious, Go, PoolTypes, MutexHolds, Places, Locked
  <2> QED BY <1>4, <2>1, QuietSteps DEF Spurious, Go, PoolTypes, Holds
<1>5. ASSUME NEW t \in Callers, Fail(t) PROVE PoolInv'
  <2>1. where' \in [Callers -> Places] /\ MutexHolds'
    BY <1>5 DEF Fail, Return, Unlock, Go, PoolTypes, MutexHolds, Places, Locked
  <2> QED BY <1>5, <2>1, QuietSteps, Zenon DEF Fail, Go, PoolTypes, Holds
<1>6. ASSUME NEW t \in Callers, Signal(t) PROVE PoolInv'
  <2>1. where' \in [Callers -> Places] /\ MutexHolds'
    BY <1>6 DEF Signal, Go, PoolTypes, MutexHolds, Places, Locked
  <2> QED BY <1>6, <2>1, QuietSteps DEF Signal, Go, PoolTypes, Holds
<1>7. ASSUME NEW t \in Callers, Find(t) PROVE PoolInv'
  <2>1. CASE \A i \in Positions : ~free[i]
    <3>1. where' = [where EXCEPT ![t] = "wait"] /\ mtx' = {} /\ UNCHANGED <<free, pos>>
      BY <1>7, <2>1 DEF Find, Go, Unlock
    <3>2. where' \in [Callers -> Places] /\ MutexHolds'
      BY <1>7, <3>1 DEF Find, PoolTypes, MutexHolds, Places, Locked
    <3> QED BY <1>7, <3>1, <3>2, QuietSteps, Zenon DEF Find, PoolTypes, Holds
  <2>2. CASE \E i \in Positions : free[i]
    <3>1. PICK i \in Positions : /\ free[i] /\ pos' = [pos EXCEPT ![t] = i]
                                 /\ where' = [where EXCEPT ![t] = "mark"]
                                 /\ UNCHANGED <<mtx, free>>
      BY <1>7, <2>2 DEF Find, Go
    <3>2. PoolTypes' /\ MutexHolds'
      BY <1>7, <3>1 DEF Find, PoolTypes, MutexHolds, Places, Locked
    <3>3. ~Holds(t) /\ ~Holds(t)'
      BY <1>7, <3>1 DEF Find, PoolTypes, Holds
    <3>4. \A u \in Callers \ {t} : where'[u] = where[u] /\ pos'[u] = pos[u]
      BY <3>1 DEF PoolTypes
    <3>5. PositionsFit'
      BY <3>1, <3>3, <3>4 DEF PoolTypes, PositionsFit, Holds
    <3>6. OneUser' /\ NoneLost'
      BY <3>1, <3>3, <3>4 DEF OneUser, NoneLost, Holds
    <3> QED BY <3>2, <3>5, <3>6
  <2> QED BY <2>1, <2>2
<1>8. ASSUME NEW t \in Callers, Mark(t) PROVE PoolInv'
  <2>1. /\ where[t] = "mark" /\ where' = [where EXCEPT ![t] = "use"]
        /\ free' = [free EXCEPT ![pos[t]] = FALSE] /\ mtx' = {} /\ pos' = pos
    BY <1>8 DEF Mark, Return, Unlock, Go
  <2>2. pos[t] \in Positions /\ free[pos[t]]
    BY <2>1 DEF PositionsFit
  <2>3. PoolTypes'
    BY <2>1, <2>2 DEF PoolTypes, Places
  <2>9. MutexHolds'
    BY <2>1 DEF PoolTypes, MutexHolds, Locked
  <2>4. Holds(t)' /\ \A u \in Callers \ {t} : where'[u] = where[u] /\ where[u] # "mark"
    BY <2>1 DEF PoolTypes, MutexHolds, Locked, Holds
  <2>5. \A u \in Callers \ {t} : Holds(u) => pos[u] # pos[t]
    BY <2>2 DEF PositionsFit
  <2>6. PositionsFit'
    BY <2>1, <2>2, <2>4 DEF PoolTypes, PositionsFit, Holds
  <2>7. OneUser'
    BY <2>1, <2>4, <2>5 DEF OneUser, Holds
  <2>8. NoneLost'
    BY <2>1, <2>2, <2>4 DEF PoolTypes, NoneLost, Holds
  <2> QED BY <2>3, <2>6, <2>7, <2>8, <2>9
<1>9. ASSUME NEW t \in Callers, GiveBack(t) PROVE PoolInv'
  <2>1. where' \in [Callers -> Places] /\ MutexHolds'
    BY <1>9 DEF GiveBack, Lock, Go, PoolTypes, MutexHolds, Places, Locked
  <2> QED BY <1>9, <2>1, QuietSteps, Zenon DEF GiveBack, Go, PoolTypes, Holds
<1>10. ASSUME NEW t \in Callers, Release(t) PROVE PoolInv'
  <2>1. where[t] = "release" /\ pos[t] \in Positions /\ ~free[pos[t]]
    BY <1>10 DEF Release, PositionsFit, Holds
  <2>2. /\ where' = [where EXCEPT ![t] = "signal"] /\ pos' = [pos EXCEPT ![t] = 0]
        /\ free' = [free EXCEPT ![pos[t]] = TRUE] /\ mtx' = {}
    BY <1>10, <2>1 DEF Release, Unlock, Go
  <2>3. PoolTypes' /\ MutexHolds'
    BY <2>1, <2>2 DEF PoolTypes, MutexHolds, Places, Locked
  <2>4. Holds(t) /\ ~Holds(t)' /\ where'[t] = "signal"
    BY <2>1, <2>2 DEF PoolTypes, Holds
  <2>5. \A u \in Callers \ {t} : /\ where'[u] = where[u] /\ pos'[u] = pos[u]
                                 /\ where[u] # "mark"
    BY <2>1, <2>2 DEF PoolTypes, MutexHolds, Locked
  <2>6. \A u \in Callers \ {t} : Holds(u) => pos[u] # pos[t]
    BY <2>4, Zenon DEF OneUser
  <2>7. PositionsFit'
    BY <2>2, <2>4, <2>5, <2>6 DEF PoolTypes, PositionsFit, Holds
  <2>8. OneUser'
    BY <2>4, <2>5 DEF OneUser, Holds
  <2>9. NoneLost'
    BY <2>1, <2>2, <2>5 DEF PoolTypes, NoneLost, Holds
  <2> QED BY <2>3, <2>7, <2>8, <2>9
<1> QED
  BY <1>0, <1>1, <1>2, <1>3, <1>4, <1>5, <1>6, <1>7, <1>8, <1>9, <1>10
  DEF PoolNext, Inside

\* "the connection pool guarantees that its session objects are never used by more
\* than one thread at a time": for every pool and any threads, and no entry is lost
\* (try_lease(), give_back()).
THEOREM EntriesAreExclusive == PoolSpec => []Exclusive
<1>1. PoolInv => Exclusive
  BY Zenon DEF PoolInv, PositionsFit, OneUser, NoneLost, Exclusive
<1> QED BY <1>1, PoolInitInv, PoolStep, PTL DEF PoolSpec

\* The threads that are at one of the places S.
In(f, S) == {t \in Callers : f[t] \in S}

\* The threads that will look for a free entry or wake one that will.
Stirring(f) == Cardinality(In(f, {"signal"})) + Cardinality(In(f, {"woken"}))
               + Cardinality(In(f, {"find", "mark"}))

\* One if place q is in S.
Bit(q, S) == IF q \in S THEN 1 ELSE 0

\* From f to g one thread goes from q to p, as far as the places S are concerned.
Shifted(f, g, q, p, S) ==
    /\ Cardinality(In(f, S)) \in Nat /\ Cardinality(In(g, S)) \in Nat
    /\ Cardinality(In(g, S)) = (Cardinality(In(f, S)) + Bit(p, S)) - Bit(q, S)

\* A thread that moves is counted where it goes and no longer where it was.
LEMMA OneMoves ==
    ASSUME NEW f \in [Callers -> Places], NEW t \in Callers, NEW p \in Places, NEW g,
           g = [f EXCEPT ![t] = p], NEW S
    PROVE  Shifted(f, g, f[t], p, S)
<1>1. IsFiniteSet(In(f, S)) /\ IsFiniteSet(In(g, S))
  <2>1. In(f, S) \in SUBSET Callers /\ In(g, S) \in SUBSET Callers
    BY Zenon DEF In
  <2> QED BY <2>1, PoolAssumption, FS_Subset, Zenon
<1>2. Cardinality(In(f, S)) \in Nat /\ Cardinality(In(g, S)) \in Nat
  BY <1>1, FS_CardinalityType
<1>3. g[t] = p /\ \A u \in Callers : u # t => g[u] = f[u]
  OBVIOUS
<1>4. ASSUME p \in S <=> f[t] \in S PROVE In(g, S) = In(f, S)
  BY <1>3, <1>4 DEF In
<1>5. ASSUME p \in S, f[t] \notin S
      PROVE  Cardinality(In(g, S)) = Cardinality(In(f, S)) + 1
  <2>1. In(g, S) = In(f, S) \cup {t} /\ t \notin In(f, S)
    BY <1>3, <1>5 DEF In
  <2> QED BY <1>1, <2>1, FS_AddElement, Zenon
<1>6. ASSUME p \notin S, f[t] \in S
      PROVE  Cardinality(In(g, S)) = Cardinality(In(f, S)) - 1
  <2>1. In(g, S) = In(f, S) \ {t} /\ t \in In(f, S)
    BY <1>3, <1>6 DEF In
  <2> QED BY <1>1, <2>1, FS_RemoveElement, Zenon
<1> QED BY <1>2, <1>4, <1>5, <1>6 DEF Bit, Shifted

\* Where a thread is that is stirring.
Due == {"signal", "woken", "find", "mark"}

\* How the number of the threads that are stirring changes with a step of one thread.
LEMMA StirringMoves ==
    ASSUME NEW f \in [Callers -> Places], NEW t \in Callers, NEW p \in Places, NEW g,
           g = [f EXCEPT ![t] = p]
    PROVE  /\ Stirring(f) \in Nat /\ Stirring(g) \in Nat
           /\ Stirring(g) = (Stirring(f) + Bit(p, Due)) - Bit(f[t], Due)
<1> DEFINE n(h, S) == Cardinality(In(h, S))
           A == {"signal"}
           B == {"woken"}
           C == {"find", "mark"}
<1>1. n(f, A) \in Nat /\ n(g, A) \in Nat /\ n(g, A) = (n(f, A) + Bit(p, A)) - Bit(f[t], A)
  <2>1. Shifted(f, g, f[t], p, A)
    BY OneMoves, Zenon
  <2> QED BY <2>1, Zenon DEF Shifted
<1>2. n(f, B) \in Nat /\ n(g, B) \in Nat /\ n(g, B) = (n(f, B) + Bit(p, B)) - Bit(f[t], B)
  <2>1. Shifted(f, g, f[t], p, B)
    BY OneMoves, Zenon
  <2> QED BY <2>1, Zenon DEF Shifted
<1>3. n(f, C) \in Nat /\ n(g, C) \in Nat /\ n(g, C) = (n(f, C) + Bit(p, C)) - Bit(f[t], C)
  <2>1. Shifted(f, g, f[t], p, C)
    BY OneMoves, Zenon
  <2> QED BY <2>1, Zenon DEF Shifted
<1>4. Stirring(f) = n(f, A) + n(f, B) + n(f, C) /\ Stirring(g) = n(g, A) + n(g, B) + n(g, C)
  BY Zenon DEF Stirring
<1>5. ASSUME NEW q PROVE Bit(q, Due) = Bit(q, A) + Bit(q, B) + Bit(q, C)
                         /\ Bit(q, A) \in Nat /\ Bit(q, B) \in Nat /\ Bit(q, C) \in Nat
  BY DEF Bit, Due
<1> HIDE DEF n, A, B, C
<1>6. Bit(p, Due) = Bit(p, A) + Bit(p, B) + Bit(p, C)
      /\ Bit(p, A) \in Nat /\ Bit(p, B) \in Nat /\ Bit(p, C) \in Nat
  BY <1>5
<1>7. Bit(f[t], Due) = Bit(f[t], A) + Bit(f[t], B) + Bit(f[t], C)
      /\ Bit(f[t], A) \in Nat /\ Bit(f[t], B) \in Nat /\ Bit(f[t], C) \in Nat
  BY <1>5
<1> QED BY <1>1, <1>2, <1>3, <1>4, <1>6, <1>7

\* The entries that are free.
Frees(e) == {i \in Positions : e[i]}

\* The free entries are counted, too.
LEMMA FreesMove ==
    ASSUME NEW e \in [Positions -> BOOLEAN]
    PROVE  /\ IsFiniteSet(Frees(e)) /\ Cardinality(Frees(e)) \in Nat
           /\ (\A i \in Positions : ~e[i]) => Cardinality(Frees(e)) = 0
<1>1. IsFiniteSet(Positions)
  BY PoolAssumption, FS_Interval DEF Positions
<1>2. Frees(e) \in SUBSET Positions
  BY Zenon DEF Frees
<1>3. IsFiniteSet(Frees(e)) /\ Cardinality(Frees(e)) \in Nat
  BY <1>1, <1>2, FS_Subset, FS_CardinalityType
<1>4. ASSUME \A i \in Positions : ~e[i] PROVE Frees(e) = {}
  BY <1>4 DEF Frees
<1> QED BY <1>3, <1>4, FS_EmptySet

\* If a thread waits there are as many stirring as entries are free.
Wakes(f, e) == In(f, {"wait"}) # {} => Cardinality(Frees(e)) <= Stirring(f)

\* A step of one thread, that does not begin to wait, over entries e that become d.
LEMMA WakesStep ==
    ASSUME NEW f \in [Callers -> Places], NEW t \in Callers, NEW p \in Places, p # "wait",
           NEW g, g = [f EXCEPT ![t] = p],
           NEW e \in [Positions -> BOOLEAN], NEW d \in [Positions -> BOOLEAN], Wakes(f, e),
           Cardinality(Frees(d)) + Bit(f[t], Due) <= Cardinality(Frees(e)) + Bit(p, Due)
    PROVE  Wakes(g, d)
<1>1. Cardinality(Frees(e)) \in Nat /\ Cardinality(Frees(d)) \in Nat
  BY FreesMove
<1>2. /\ Stirring(f) \in Nat /\ Stirring(g) \in Nat
      /\ Stirring(g) = (Stirring(f) + Bit(p, Due)) - Bit(f[t], Due)
  BY StirringMoves, Zenon
<1>3. In(g, {"wait"}) # {} => In(f, {"wait"}) # {}
  BY DEF In
<1>4. Bit(p, Due) \in Nat /\ Bit(f[t], Due) \in Nat
  BY DEF Bit
<1>5. Cardinality(Frees(e)) <= Stirring(f) => Cardinality(Frees(d)) <= Stirring(g)
  <2> DEFINE m == Cardinality(Frees(e))
             n == Cardinality(Frees(d))
             a == Bit(f[t], Due)
             b == Bit(p, Due)
             x == Stirring(f)
             y == Stirring(g)
  <2>1. /\ m \in Nat /\ n \in Nat /\ a \in Nat /\ b \in Nat /\ x \in Nat /\ y \in Nat
        /\ y = (x + b) - a /\ n + a <= m + b
    BY <1>1, <1>2, <1>4, Zenon
  <2> HIDE DEF m, n, a, b, x, y
  <2>2. m <= x => n <= y
    BY <2>1
  <2> QED BY <2>2, Zenon DEF m, n, x, y
<1> QED BY <1>3, <1>5, Zenon DEF Wakes

\* Every step of try_lease() and give_back() keeps the wake-ups.
LEMMA WakeupStep ==
    ASSUME PoolInv, Wakes(where, free), [PoolNext]_poolVars
    PROVE  Wakes(where', free')
<1>1. /\ where \in [Callers -> Places] /\ free \in [Positions -> BOOLEAN]
      /\ free' \in [Positions -> BOOLEAN] /\ PositionsFit
  BY PoolStep, Zenon DEF PoolInv, PoolTypes
<1>2. Cardinality(Frees(free)) \in Nat /\ IsFiniteSet(Frees(free))
  BY <1>1, FreesMove
<1>3. CASE UNCHANGED <<where, free>>
  BY <1>3
<1>4. ASSUME NEW t \in Callers, NEW p \in Places, p # "wait", Go(t, p), UNCHANGED free,
             p \in Due \/ where[t] \notin Due
      PROVE  Wakes(where', free')
  <2>1. Bit(where[t], Due) <= Bit(p, Due) /\ Bit(where[t], Due) \in Nat /\ Bit(p, Due) \in Nat
    BY <1>4 DEF Bit
  <2>2. Cardinality(Frees(free')) + Bit(where[t], Due) <= Cardinality(Frees(free)) + Bit(p, Due)
    BY <1>2, <1>4, <2>1
  <2>3. where' = [where EXCEPT ![t] = p]
    BY <1>4 DEF Go
  <2> QED BY <1>1, <1>4, <2>2, <2>3, WakesStep, Zenon
<1>5. ASSUME NEW t \in Callers, NEW hasTimeout \in BOOLEAN, TryLease(t, hasTimeout)
      PROVE  Wakes(where', free')
  BY <1>4, <1>5 DEF TryLease, Places, Due
<1>6. ASSUME NEW t \in Callers, Enter(t) \/ TimedOut(t) \/ Spurious(t) \/ GiveBack(t) \/ Fail(t)
      PROVE  Wakes(where', free')
  <2>1. {"find", "fail", "woken", "release", "idle"} \subseteq Places \ {"wait"}
    BY DEF Places
  <2>2. CASE Enter(t)
    BY <1>4, <2>1, <2>2 DEF Enter, Due
  <2>3. CASE TimedOut(t)
    BY <1>4, <2>1, <2>3 DEF TimedOut, Due
  <2>4. CASE Spurious(t)
    BY <1>4, <2>1, <2>4 DEF Spurious, Due
  <2>5. CASE GiveBack(t)
    BY <1>4, <2>1, <2>5 DEF GiveBack, Due
  <2>6. CASE Fail(t)
    BY <1>4, <2>1, <2>6 DEF Fail, Due
  <2> QED BY <1>6, <2>2, <2>3, <2>4, <2>5, <2>6, Zenon
<1>7. ASSUME NEW t \in Callers, Find(t) PROVE Wakes(where', free')
  <2>1. CASE Go(t, "mark")
    BY <1>4, <1>7, <2>1 DEF Find, Places, Due
  <2>2. CASE Go(t, "wait") /\ \A i \in Positions : ~free[i]
    <3>1. Cardinality(Frees(free')) = 0
      BY <1>1, <1>7, <2>2, FreesMove DEF Find
    <3>2. Stirring(where') \in Nat
      <4>1. "wait" \in Places /\ where' = [where EXCEPT ![t] = "wait"]
        BY <2>2 DEF Places, Go
      <4> QED BY <1>1, <4>1, StirringMoves, Zenon
    <3> QED BY <3>1, <3>2 DEF Wakes
  <2> QED BY <1>7, <2>1, <2>2, Zenon DEF Find
<1>8. ASSUME NEW t \in Callers, Mark(t) PROVE Wakes(where', free')
  <2>1. /\ where[t] = "mark" /\ where' = [where EXCEPT ![t] = "use"]
        /\ pos[t] \in Positions /\ free[pos[t]] /\ free' = [free EXCEPT ![pos[t]] = FALSE]
    BY <1>1, <1>8 DEF Mark, Go, PositionsFit
  <2>2. Frees(free') = Frees(free) \ {pos[t]} /\ pos[t] \in Frees(free)
    BY <1>1, <2>1 DEF Frees
  <2>3. Cardinality(Frees(free')) = Cardinality(Frees(free)) - 1
    BY <1>2, <2>2, FS_RemoveElement, Zenon
  <2>4. Bit(where[t], Due) = 1 /\ Bit("use", Due) = 0 /\ "use" \in Places /\ "use" # "wait"
    BY <2>1 DEF Bit, Due, Places
  <2>5. Cardinality(Frees(free')) + Bit(where[t], Due) <= Cardinality(Frees(free)) + Bit("use", Due)
    BY <1>2, <2>3, <2>4
  <2> QED BY <1>1, <2>1, <2>4, <2>5, WakesStep, Zenon
<1>9. ASSUME NEW t \in Callers, Release(t) PROVE Wakes(where', free')
  <2>1. /\ where[t] = "release" /\ where' = [where EXCEPT ![t] = "signal"]
        /\ pos[t] \in Positions /\ ~free[pos[t]] /\ free' = [free EXCEPT ![pos[t]] = TRUE]
    BY <1>1, <1>9, Zenon DEF Release, Go, PositionsFit, Holds
  <2>2. Frees(free') = Frees(free) \cup {pos[t]} /\ pos[t] \notin Frees(free)
    BY <1>1, <2>1 DEF Frees
  <2>3. Cardinality(Frees(free')) = Cardinality(Frees(free)) + 1
    BY <1>2, <2>2, FS_AddElement, Zenon
  <2>4. Bit(where[t], Due) = 0 /\ Bit("signal", Due) = 1 /\ "signal" \in Places /\ "signal" # "wait"
    BY <2>1 DEF Bit, Due, Places
  <2>5. Cardinality(Frees(free')) + Bit(where[t], Due)
           <= Cardinality(Frees(free)) + Bit("signal", Due)
    BY <1>2, <2>3, <2>4
  <2> QED BY <1>1, <2>1, <2>4, <2>5, WakesStep, Zenon
<1>10. ASSUME NEW t \in Callers, Signal(t) PROVE Wakes(where', free')
  <2>1. where[t] = "signal" /\ free' = free
    BY <1>10 DEF Signal
  <2>2. ASSUME NEW w \in Callers, where[w] = "wait",
               where' = [where EXCEPT ![t] = "idle", ![w] = "woken"]
        PROVE  Wakes(where', free')
    <3> DEFINE g == [where EXCEPT ![w] = "woken"]
    <3>1. g \in [Callers -> Places] /\ where' = [g EXCEPT ![t] = "idle"] /\ g[t] = "signal"
      BY <1>1, <2>1, <2>2, Zenon DEF Places
    <3>2. /\ Stirring(where) \in Nat /\ Stirring(g) \in Nat
          /\ Stirring(g) = (Stirring(where) + Bit("woken", Due)) - Bit("wait", Due)
      <4>1. "woken" \in Places
        BY DEF Places
      <4> QED BY <1>1, <2>2, <4>1, StirringMoves, Zenon
    <3> HIDE DEF g
    <3>3. /\ Stirring(where') \in Nat
          /\ Stirring(where') = (Stirring(g) + Bit("idle", Due)) - Bit("signal", Due)
      <4>1. "idle" \in Places
        BY DEF Places
      <4> QED BY <3>1, <4>1, StirringMoves, Zenon
    <3>4. Bit("woken", Due) = 1 /\ Bit("wait", Due) = 0 /\ Bit("idle", Due) = 0
          /\ Bit("signal", Due) = 1
      BY DEF Bit, Due
    <3>5. Stirring(where') = Stirring(where)
      BY <3>2, <3>3, <3>4
    <3>6. In(where, {"wait"}) # {}
      BY <2>2 DEF In
    <3> QED BY <2>1, <3>5, <3>6 DEF Wakes
  <2>3. CASE (\A w \in Callers : where[w] # "wait") /\ Go(t, "idle")
    <3>1. In(where', {"wait"}) = {}
      BY <1>1, <2>3 DEF In, Go
    <3> QED BY <3>1 DEF Wakes
  <2> QED BY <1>10, <2>2, <2>3 DEF Signal
<1>11. CASE \E t \in Callers : Expire(t)
  BY <1>3, <1>11 DEF Expire
<1>12. CASE UNCHANGED poolVars
  BY <1>3, <1>12 DEF poolVars
<1> QED BY <1>5, <1>6, <1>7, <1>8, <1>9, <1>10, <1>11, <1>12 DEF PoolNext, Inside

\* However many threads lease, wait, time out and give back: while one waits, every
\* free entry has a signal or a thread that was woken on its way to it.
THEOREM WakeupsAreNeverLost == PoolSpec => []NoLostWakeup
<1>1. NoLostWakeup <=> Wakes(where, free)
  BY DEF NoLostWakeup, Wakes, Frees, Stirring, In, At
<1>2. PoolInit => Wakes(where, free)
  BY DEF PoolInit, Wakes, In
<1>3. PoolInv /\ Wakes(where, free) /\ [PoolNext]_poolVars => Wakes(where, free)'
  BY WakeupStep DEF Wakes
<1> QED BY <1>1, <1>2, <1>3, PoolInitInv, PoolStep, PTL DEF PoolSpec

--------------------------------------------------------------------------------
(* WsServerSync *)

\* m_mtx is held for as long as the loop of sendAll() runs, and whom the message
\* has not reached the loop has still to visit.
LoopInv ==
    /\ m_mtx = "none" => sender = "idle"
    /\ sender = "idle" => rest = {}
    /\ unsent \subseteq rest

WsInv == LoopInv /\ StreamsExist

\* The invariant holds before the first client connects.
LEMMA WsInitInv == WsInit => WsInv
BY DEF WsInit, WsInv, LoopInv, StreamsExist

\* Every step of a session, of sendAll() and of a client keeps it.
LEMMA WsStep == WsInv /\ [WsNext]_wsVars => WsInv'
<1> SUFFICES ASSUME WsInv, [WsNext]_wsVars PROVE WsInv'
  OBVIOUS
<1> USE DEF WsInv, LoopInv, StreamsExist, sendVars
<1>1. CASE UNCHANGED wsVars
  BY <1>1 DEF wsVars
<1>2. ASSUME NEW c \in WsClients, Accept(c) \/ Handshake(c) \/ Read(c) \/ Answer(c)
      PROVE  WsInv'
  BY <1>2, Zenon DEF Accept, Handshake, Read, Answer
<1>3. ASSUME NEW c \in WsClients, EnterSession(c) PROVE WsInv'
  BY <1>3 DEF EnterSession
<1>4. ASSUME NEW c \in WsClients, Leave(c) PROVE WsInv'
  <2>1. rest = {} /\ rest' = {}
    BY <1>4 DEF Leave
  <2> QED BY <1>4, <2>1 DEF Leave
<1>5. CASE SendAll
  BY <1>5 DEF SendAll
<1>6. ASSUME NEW c \in WsClients, SendOne(c) PROVE WsInv'
  BY <1>6 DEF SendOne
<1>7. CASE SendEnd
  BY <1>7 DEF SendEnd
<1>8. ASSUME NEW c \in WsClients, Connect(c) \/ Wedge(c) \/ Unwedge(c) PROVE WsInv'
  BY <1>8 DEF Connect, Wedge, Unwedge
<1>9. ASSUME NEW c \in WsClients, Vanish(c) PROVE WsInv'
  BY <1>9 DEF Vanish
<1> QED
  BY <1>1, <1>2, <1>3, <1>4, <1>5, <1>6, <1>7, <1>8, <1>9 DEF WsNext, Session, ReadsOrGoes

\* No stream is deleted while it is in the table or ahead of the loop of sendAll(),
\* for any number of clients (do_session(), sendAll()).
THEOREM StreamsAlwaysExist == WsSpec => []StreamsExist
BY WsInitInv, WsStep, PTL DEF WsSpec, WsInv

\* sendAll() returns with no connected client left out, whatever clients go while it
\* writes (sendOne(), sendAll()).
THEOREM EveryoneIsReached == WsSpec => []ReachesEveryone
<1>1. WsInv => ReachesEveryone
  BY DEF WsInv, LoopInv, ReachesEveryone
<1> QED BY <1>1, WsInitInv, WsStep, PTL DEF WsSpec

\* sendAll() is safe for any number of clients (do_session(), sendAll()).
THEOREM SendAllAlwaysSafe == WsSpec => []SendAllIsSafe
BY StreamsAlwaysExist, EveryoneIsReached, PTL DEF SendAllIsSafe

--------------------------------------------------------------------------------
(* WatchDogWorker *)

\* The thread exists only between start() and the join in stop().
ThreadInv == workerPc # "none" => ownerPc \in {"on", "join"}

\* The interval of the client fits as soon as open() has succeeded, so that the
\* copy made by start() or by a later notify() fits as well.
IInv ==
    /\ wdDelay \in Nat /\ delay \in Nat
    /\ ThreadInv
    /\ (client = "systemd" /\ ownerPc \in {"on", "join", "send"}) =>
          2 * wdDelay <= TimerMs /\ 2 * delay <= TimerMs

\* Half of the timer, rounded down, taken twice is not longer than the timer.
LEMMA HalfFits == ASSUME NEW t \in Nat PROVE t \div 2 \in Nat /\ 2 * (t \div 2) <= t
  OBVIOUS

LEMMA StartKeepsIInv ==
    ASSUME IInv, NEW ok \in BOOLEAN, Start(ok)
    PROVE  IInv'
  <1>1. TimerMs \in Nat
    BY ConstantsAssumption
  <1>2. ownerPc' = "on" /\ delay' = wdDelay' /\ client' = client
    BY Zenon DEF Start
  <1>3. wdDelay' \in Nat /\ (client = "systemd" => 2 * wdDelay' <= TimerMs)
    <2>1. CASE OpenSystemd
      <3>1. CASE wdDelay > TimerMs \div 2
        BY <1>1, <2>1, <3>1, HalfFits DEF OpenSystemd
      <3>2. CASE ~(wdDelay > TimerMs \div 2)
        <4>1. wdDelay' = wdDelay /\ wdDelay \in Nat
          BY <2>1, <3>2 DEF OpenSystemd, IInv
        <4> QED BY <1>1, <3>2, <4>1, HalfFits
      <3> QED BY <3>1, <3>2
    <2>2. CASE OpenModMon
      BY <2>2 DEF OpenModMon, IInv
    <2> QED BY <2>1, <2>2, Zenon DEF Start
  <1> QED BY <1>2, <1>3 DEF IInv, ThreadInv

LEMMA StepKeepsIInv == IInv /\ [Next]_vars => IInv'
  <1> SUFFICES ASSUME IInv, [Next]_vars PROVE IInv'
    OBVIOUS
  <1> USE DEF clientVars, flagVars, statusVars, Goto
  <1>1. ASSUME NEW ok \in BOOLEAN, Start(ok) PROVE IInv'
    BY <1>1, StartKeepsIInv
  <1>2. CASE StartFails \/ StartTerminates \/ StopFlag
    BY <1>2 DEF StartFails, StartTerminates, StopFlag, IInv, ThreadInv
  <1>3. CASE OwnerStep
    BY <1>3, Zenon DEF OwnerStep, StopJoin, StopSend, IInv, ThreadInv
  <1>4. ASSUME NEW s \in Statuses \cup Unreported, Notify(s) PROVE IInv'
    BY <1>4 DEF Notify, IInv, ThreadInv
  <1>5. CASE NotifyFlag \/ NotifyTime \/ StopGlobal \/ Late
    BY <1>5 DEF NotifyFlag, NotifyTime, StopGlobal, Late, IInv, ThreadInv
  <1>6. CASE WorkerStep
    BY <1>6, Zenon DEF WorkerStep, WorkerBegin, WorkerBegun, WorkerWhile, WorkerSwitch,
                WorkerClear, WorkerLate, WorkerStore, WorkerSend, IInv, ThreadInv
  <1>7. CASE UNCHANGED vars
    BY <1>7 DEF vars, IInv, ThreadInv
  <1> QED BY <1>1, <1>2, <1>3, <1>4, <1>5, <1>6, <1>7 DEF Next

\* The inductive invariant holds in every reachable state.
THEOREM Invariance == Spec => []IInv
  <1>1. Init => IInv
    BY ConstantsAssumption, Zenon DEF Init, IInv, ThreadInv
  <1> QED BY <1>1, StepKeepsIInv, PTL DEF Spec

\* Whatever the configured interval and systemd's timer are, worker() sleeps at
\* most half of the timer between two reports.
THEOREM PeriodAlwaysFits == Spec => []PeriodFits
  <1>1. IInv => PeriodFits
    BY DEF IInv, ThreadInv, PeriodFits
  <1> QED BY <1>1, Invariance, PTL

\* Between stop() and the next start() nothing is sent, in any order of the
\* steps of the three threads.
THEOREM NothingSentWhenOff == Spec => SilentWhenOff
  <1> DEFINE Silent == ownerPc = "off" /\ ownerPc' = "off" => lastSent' = lastSent
  <1>1. ASSUME IInv, [Next]_vars PROVE Silent
    <2> SUFFICES ASSUME ownerPc = "off", ownerPc' = "off" PROVE lastSent' = lastSent
      OBVIOUS
    <2> USE DEF clientVars
    <2>1. workerPc = "none"
      BY <1>1 DEF IInv, ThreadInv
    <2>2. ~WorkerStep
      BY <2>1, Zenon DEF WorkerStep, WorkerBegin, WorkerBegun, WorkerWhile, WorkerSwitch,
                  WorkerClear, WorkerLate, WorkerStore, WorkerSend, Goto
    <2>3. ~OwnerStep /\ \A ok \in BOOLEAN : ~Start(ok)
      BY DEF OwnerStep, StopJoin, StopSend, Start
    <2>4. ~StartTerminates /\ ~StopFlag /\ \A s \in Statuses \cup Unreported : ~Notify(s)
      BY DEF StartTerminates, StopFlag, Notify
    <2>5. CASE StartFails \/ NotifyFlag \/ NotifyTime \/ StopGlobal \/ Late
      BY <2>5 DEF StartFails, NotifyFlag, NotifyTime, StopGlobal, Late
    <2>6. CASE UNCHANGED vars
      BY <2>6 DEF vars
    <2> QED BY <1>1, <2>2, <2>3, <2>4, <2>5, <2>6 DEF Next
  <1>2. IInv /\ [Next]_vars => [Silent]_vars
    BY <1>1
  <1> QED BY <1>2, Invariance, PTL DEF Spec, SilentWhenOff

================================================================================
