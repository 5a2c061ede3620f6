--------------------------- MODULE TransportClient ---------------------------
(***************************************************************************)
(* BaseTransportClient: threads of the application put messages into a     *)
(* bounded deque with send(); one thread executes run(), which keeps the   *)
(* connection, takes one message per iteration and hands it to the         *)
(* concrete broker.  Any thread may ask for the status or stop the client. *)
(*                                                                         *)
(* One action is one access to shared state: run() reads the deque without *)
(* the mutex at two places, so send() is visible to it between the         *)
(* pop_front and the push_back of its critical section.                    *)
(***************************************************************************)
EXTENDS Naturals, Sequences, Functions

CONSTANTS
    Producers,          \* threads that call send()
    Capacities,         \* values given to setOutDeqCapacity()
    KeepModes,          \* values given to setIsKeepConnect() before run()
    ResetWhileRunning,  \* may setOutDeqCapacity() be called after run() started?
    MaxMsgs,            \* bound: number of messages accepted
    MaxBreaks           \* bound: number of times the peer breaks the link

ASSUME ConstantsAssumption ==
    /\ "none" \notin Producers
    /\ Capacities \subseteq Nat
    /\ KeepModes \subseteq BOOLEAN
    /\ ResetWhileRunning \in BOOLEAN
    /\ MaxMsgs \in Nat
    /\ MaxBreaks \in Nat

VARIABLES
    msgOutDeque,        \* m_msgOutDeque: numbers of the queued messages
    capacityMsgDeque,   \* m_capacityMsgDeque
    mtxDeque,           \* m_mtxDeque: the producer inside send(), or "none"
    sendPc,             \* where each producer is in send()
    localIsWork,        \* m_localIsWork
    globalIsWork,       \* the flag of the application
    pGlobalIsWork,      \* p_GlobalIsWork: "null", "local" or "global"
    isKeepConnect,      \* m_isKeepConnect
    status,             \* m_currStatus.status
    stale,              \* elapsed() > m_delayStatus*2
    pollPc,             \* where a thread in getStatus() is
    conn,               \* the link as checkConnection() sees it (external)
    breaks,             \* how often the peer broke it
    pc,                 \* where the thread executing run() is
    inHand,             \* ptrMsg of the iteration, 0 when there is none
    verified,           \* did a checkConnection() of this iteration succeed?
    accepted,           \* history: number of messages send() accepted
    sent,               \* history: what sendToStream() delivered, in order
    fate                \* history: what became of each message

queueVars == <<msgOutDeque, capacityMsgDeque, mtxDeque, sendPc>>
flagVars  == <<localIsWork, globalIsWork, pGlobalIsWork, isKeepConnect>>
stateVars == <<status, stale, pollPc>>
linkVars  == <<conn, breaks>>
runVars   == <<pc, inHand, verified>>
histVars  == <<accepted, sent, fate>>
vars == <<queueVars, flagVars, stateVars, linkVars, runVars, histVars>>

MsgIds == 1..MaxMsgs

TransportState == {"OK", "ERROR_CONNECT", "ERROR_MESSAGE", "ERROR_UPDATE"}

Fates == {"new", "queued", "taken", "sent", "failed", "dropped", "cleared"}

RunPcs == {"idle", "while", "need", "check", "release", "create", "recheck",
           "status", "empty", "take", "send", "after", "ended", "undefined"}

\* The object as createBroker() returns it: the constructor of the broker has
\* already tried to connect, the two setters have been called.
Init ==
    /\ msgOutDeque = <<>>
    /\ capacityMsgDeque \in Capacities
    /\ mtxDeque = "none"
    /\ sendPc = [p \in Producers |-> "out"]
    /\ localIsWork = TRUE
    /\ globalIsWork = TRUE
    /\ pGlobalIsWork \in {"null", "global"}
    /\ isKeepConnect \in KeepModes
    /\ status = "ERROR_MESSAGE"
    /\ stale = FALSE
    /\ pollPc = "out"
    /\ conn \in {"open", "closed"}
    /\ breaks = 0
    /\ pc = "idle"
    /\ inHand = 0
    /\ verified = FALSE
    /\ accepted = 0
    /\ sent = <<>>
    /\ fate = [m \in MsgIds |-> "new"]

-----------------------------------------------------------------------------
(* send() and setOutDeqCapacity(), called by the application               *)

\* A version that never evicts.
MutIsFullNever == FALSE

\* The guard of the eviction: the queue may exceed its capacity by one.
IsFull == Len(msgOutDeque) > capacityMsgDeque

\* A version that does not wait for the mutex.
MutSendLockNoMutex(p) ==
    /\ sendPc[p] = "out"
    /\ accepted < MaxMsgs
    /\ mtxDeque' = p
    /\ sendPc' = [sendPc EXCEPT ![p] = "locked"]
    /\ IF IsFull
       THEN /\ msgOutDeque' = Tail(msgOutDeque)
            /\ fate' = [fate EXCEPT ![Head(msgOutDeque)] = "dropped"]
       ELSE UNCHANGED <<msgOutDeque, fate>>
    /\ UNCHANGED <<capacityMsgDeque, flagVars, stateVars, linkVars, runVars,
                   accepted, sent>>

\* Lines 71-76: take the mutex and evict the oldest message if need be.
SendLock(p) ==
    /\ sendPc[p] = "out"
    /\ accepted < MaxMsgs
    /\ mtxDeque = "none"
    /\ mtxDeque' = p
    /\ sendPc' = [sendPc EXCEPT ![p] = "locked"]
    /\ IF IsFull
       THEN /\ msgOutDeque' = Tail(msgOutDeque)
            /\ fate' = [fate EXCEPT ![Head(msgOutDeque)] = "dropped"]
       ELSE UNCHANGED <<msgOutDeque, fate>>
    /\ UNCHANGED <<capacityMsgDeque, flagVars, stateVars, linkVars, runVars,
                   accepted, sent>>

\* Line 77 and the end of the critical section.
SendPush(p) ==
    /\ sendPc[p] = "locked"
    /\ mtxDeque' = "none"
    /\ sendPc' = [sendPc EXCEPT ![p] = "out"]
    /\ accepted' = accepted + 1
    /\ msgOutDeque' = Append(msgOutDeque, accepted')
    /\ fate' = [fate EXCEPT ![accepted'] = "queued"]
    /\ UNCHANGED <<capacityMsgDeque, flagVars, stateVars, linkVars, runVars,
                   sent>>

\* Inside the repository only called before run(); the method is public.
SetOutDeqCapacity(newCapacity) ==
    /\ mtxDeque = "none"
    /\ pc = "idle" \/ ResetWhileRunning
    /\ msgOutDeque' = <<>>
    /\ capacityMsgDeque' = newCapacity
    /\ fate' = [m \in MsgIds |-> IF m \in Range(msgOutDeque) THEN "cleared"
                                                             ELSE fate[m]]
    /\ UNCHANGED <<mtxDeque, sendPc, flagVars, stateVars, linkVars, runVars,
                   accepted, sent>>

-----------------------------------------------------------------------------
(* the status and the work flags                                           *)

\* changeStatus() stores the status and then the time.  A getStatus() between
\* the two stores behaves as one that read the time before both and stores
\* after both, so the two stores are one step here.
ChangeStatus(newCurrStatus) ==
    /\ status' = newCurrStatus
    /\ stale' = FALSE

\* Time passes: the last update is more than two periods old.
Overdue ==
    /\ ~stale
    /\ stale' = TRUE
    /\ UNCHANGED <<queueVars, flagVars, status, pollPc, linkVars, runVars,
                   histVars>>

\* getStatus(), line 26: a caller finds the update overdue.
GetStatusElapsed ==
    /\ pollPc = "out"
    /\ stale
    /\ pollPc' = "overdue"
    /\ UNCHANGED <<queueVars, flagVars, status, stale, linkVars, runVars,
                   histVars>>

\* getStatus(), line 28: it stores its verdict, whatever happened since.
GetStatusStore ==
    /\ pollPc = "overdue"
    /\ status' = "ERROR_UPDATE"
    /\ pollPc' = "out"
    /\ UNCHANGED <<queueVars, flagVars, stale, linkVars, runVars, histVars>>

\* setLocalIsWork(false) by the owner of the client.
StopLocal ==
    /\ localIsWork
    /\ localIsWork' = FALSE
    /\ UNCHANGED <<queueVars, globalIsWork, pGlobalIsWork, isKeepConnect,
                   stateVars, linkVars, runVars, histVars>>

\* The application clears the flag it shares with all its components.
StopGlobal ==
    /\ pGlobalIsWork = "global"
    /\ globalIsWork
    /\ globalIsWork' = FALSE
    /\ UNCHANGED <<queueVars, localIsWork, pGlobalIsWork, isKeepConnect,
                   stateVars, linkVars, runVars, histVars>>

\* The peer closes the link.
LinkBreak ==
    /\ conn = "open"
    /\ breaks < MaxBreaks
    /\ conn' = "closed"
    /\ breaks' = breaks + 1
    /\ UNCHANGED <<queueVars, flagVars, stateVars, runVars, histVars>>

-----------------------------------------------------------------------------
(* run()                                                                   *)

\* *p_GlobalIsWork && m_localIsWork
Working ==
    /\ localIsWork
    /\ pGlobalIsWork = "global" => globalIsWork

Goto(from, to) == pc = from /\ pc' = to

RunStart ==
    /\ Goto("idle", "while")
    /\ pGlobalIsWork' = IF pGlobalIsWork = "null" THEN "local"
                                                  ELSE pGlobalIsWork
    /\ UNCHANGED <<queueVars, localIsWork, globalIsWork, isKeepConnect,
                   stateVars, linkVars, inHand, verified, histVars>>

\* Line 93, a new iteration.
RunWhile ==
    /\ Working
    /\ Goto("while", "need")
    /\ verified' = FALSE
    /\ UNCHANGED <<queueVars, flagVars, stateVars, linkVars, inHand, histVars>>

\* Lines 93 and 184, the loop is left.
RunEnd ==
    /\ ~Working
    /\ Goto("while", "ended")
    /\ localIsWork' = FALSE
    /\ UNCHANGED <<queueVars, globalIsWork, pGlobalIsWork, isKeepConnect,
                   stateVars, linkVars, inHand, verified, histVars>>

\* A version that never checks the connection.
MutRunNeedNever ==
    /\ Goto("need", "status")
    /\ UNCHANGED <<queueVars, flagVars, stateVars, linkVars, inHand, verified,
                   histVars>>

\* Line 97: does this iteration need the connection at all?
RunNeed ==
    /\ \/ /\ isKeepConnect \/ msgOutDeque # <<>>
          /\ Goto("need", "check")
       \/ /\ ~isKeepConnect /\ msgOutDeque = <<>>
          /\ Goto("need", "status")
    /\ UNCHANGED <<queueVars, flagVars, stateVars, linkVars, inHand, verified,
                   histVars>>

\* Lines 100-103.
RunCheck ==
    /\ \/ /\ conn = "open"
          /\ Goto("check", "status")
          /\ verified' = TRUE
          /\ UNCHANGED <<status, stale>>
       \/ /\ conn = "closed"
          /\ Goto("check", "release")
          /\ ChangeStatus("ERROR_CONNECT")
          /\ UNCHANGED verified
    /\ UNCHANGED <<queueVars, flagVars, pollPc, linkVars, inHand, histVars>>

\* A version that starts over after the release, without createConnection().
MutRunReleaseOnly(ok) ==
    /\ Goto("release", "while")
    /\ conn' = IF ok THEN "closed" ELSE conn
    /\ UNCHANGED <<queueVars, flagVars, stateVars, breaks, inHand, verified,
                   histVars>>

\* Lines 106-110 and 131-136.  A failed release leaves the link as it is.
RunRelease(ok) ==
    /\ Goto("release", IF ok THEN "create" ELSE "while")
    /\ conn' = IF ok THEN "closed" ELSE conn
    /\ UNCHANGED <<queueVars, flagVars, stateVars, breaks, inHand, verified,
                   histVars>>

\* Lines 114-118 and 131-136.
RunCreate(ok) ==
    /\ Goto("create", IF ok THEN "recheck" ELSE "while")
    /\ conn' = IF ok THEN "open" ELSE conn
    /\ UNCHANGED <<queueVars, flagVars, stateVars, breaks, inHand, verified,
                   histVars>>

\* Lines 119-127: the new connection is checked before it is used.
RunRecheck ==
    /\ Goto("recheck", IF conn = "open" THEN "status" ELSE "while")
    /\ verified' = (conn = "open")
    /\ UNCHANGED <<queueVars, flagVars, stateVars, linkVars, inHand, histVars>>

\* A version that refreshes the clock but not the status.
MutRunStatusTimeOnly ==
    /\ Goto("status", "empty")
    /\ stale' = FALSE
    /\ UNCHANGED <<queueVars, flagVars, status, pollPc, linkVars, inHand,
                   verified, histVars>>

\* Line 139.
RunStatus ==
    /\ Goto("status", "empty")
    /\ ChangeStatus("OK")
    /\ UNCHANGED <<queueVars, flagVars, pollPc, linkVars, inHand, verified,
                   histVars>>

\* A version that does not test for emptiness.
MutRunEmptySkipped ==
    /\ Goto("empty", "take")
    /\ UNCHANGED <<queueVars, flagVars, stateVars, linkVars, inHand, verified,
                   histVars>>

\* Line 141, without the mutex.
RunEmpty ==
    /\ Goto("empty", IF msgOutDeque = <<>> THEN "while" ELSE "take")
    /\ UNCHANGED <<queueVars, flagVars, stateVars, linkVars, inHand, verified,
                   histVars>>

\* Lines 160-165: front() and pop_front().  On an empty deque both are
\* undefined behaviour, after which nothing is known.
RunTake ==
    /\ mtxDeque = "none"
    /\ \/ /\ msgOutDeque # <<>>
          /\ Goto("take", "send")
          /\ inHand' = Head(msgOutDeque)
          /\ msgOutDeque' = Tail(msgOutDeque)
          /\ fate' = [fate EXCEPT ![Head(msgOutDeque)] = "taken"]
       \/ /\ msgOutDeque = <<>>
          /\ Goto("take", "undefined")
          /\ UNCHANGED <<inHand, msgOutDeque, fate>>
    /\ UNCHANGED <<capacityMsgDeque, mtxDeque, sendPc, flagVars, stateVars,
                   linkVars, verified, accepted, sent>>

\* Lines 169-174.  The result of sendToStream() is ignored: a message that
\* could not be written is gone.
RunSend(ok) ==
    /\ ok => conn = "open"
    /\ Goto("send", IF isKeepConnect THEN "while" ELSE "after")
    /\ sent' = IF ok THEN Append(sent, inHand) ELSE sent
    /\ fate' = [fate EXCEPT ![inHand] = IF ok THEN "sent" ELSE "failed"]
    /\ inHand' = 0
    /\ UNCHANGED <<queueVars, flagVars, stateVars, linkVars, verified,
                   accepted>>

\* Lines 176-181: without keepConnect the link is closed after each message.
RunAfter(ok) ==
    /\ Goto("after", "while")
    /\ conn' = IF ok THEN "closed" ELSE conn
    /\ UNCHANGED <<queueVars, flagVars, stateVars, breaks, inHand, verified,
                   histVars>>

RunStep ==
    \/ RunStart \/ RunWhile \/ RunEnd \/ RunNeed \/ RunCheck \/ RunRecheck
    \/ RunStatus \/ RunEmpty \/ RunTake
    \/ \E ok \in BOOLEAN : RunRelease(ok) \/ RunCreate(ok) \/ RunSend(ok)
                              \/ RunAfter(ok)

Next ==
    \/ \E p \in Producers : SendLock(p) \/ SendPush(p)
    \/ \E c \in Capacities : SetOutDeqCapacity(c)
    \/ Overdue \/ GetStatusElapsed \/ GetStatusStore
    \/ StopLocal \/ StopGlobal \/ LinkBreak
    \/ RunStep

Spec == Init /\ [][Next]_vars

\* The thread of run() and a producer inside its critical section are
\* scheduled; a peer that can be reached again and again is eventually
\* reached, and the old connection can then also be released.
Fairness ==
    /\ WF_vars(RunStep)
    /\ \A p \in Producers : WF_vars(SendPush(p))
    /\ WF_vars(GetStatusStore)
    /\ SF_vars(RunRelease(TRUE))
    /\ SF_vars(RunCreate(TRUE))

LiveSpec == Spec /\ Fairness

-----------------------------------------------------------------------------
(* Properties                                                              *)

TypeOK ==
    /\ msgOutDeque \in Seq(MsgIds)
    /\ capacityMsgDeque \in Capacities
    /\ mtxDeque \in Producers \cup {"none"}
    /\ sendPc \in [Producers -> {"out", "locked"}]
    /\ localIsWork \in BOOLEAN
    /\ globalIsWork \in BOOLEAN
    /\ pGlobalIsWork \in {"null", "local", "global"}
    /\ isKeepConnect \in KeepModes
    /\ status \in TransportState
    /\ stale \in BOOLEAN
    /\ pollPc \in {"out", "overdue"}
    /\ conn \in {"open", "closed"}
    /\ breaks \in 0..MaxBreaks
    /\ pc \in RunPcs
    /\ inHand \in 0..MaxMsgs
    /\ verified \in BOOLEAN
    /\ accepted \in 0..MaxMsgs
    /\ sent \in Seq(MsgIds)
    /\ fate \in [MsgIds -> Fates]

\* However many threads call send(), the deque exceeds its capacity by at most
\* one message (the test before the eviction is size() > capacity).
QueueBound == Len(msgOutDeque) <= capacityMsgDeque + 1

\* The deque always holds exactly the newest accepted messages, in order and
\* without a gap: eviction, run() and the producers never tear a hole.
NewestRetained ==
    \A i \in 1..Len(msgOutDeque) :
        msgOutDeque[i] = (accepted - Len(msgOutDeque)) + i

\* sendToStream() gets every message at most once and in the order of send(),
\* across reconnections and evictions; whatever is still queued or in hand is
\* newer than all that was sent.
FifoOnce ==
    /\ \A i, j \in 1..Len(sent) : i < j => sent[i] < sent[j]
    /\ \A i \in 1..Len(sent) :
          /\ inHand # 0 => sent[i] < inHand
          /\ sent[i] <= accepted - Len(msgOutDeque)
    /\ inHand <= accepted - Len(msgOutDeque)

\* Every message given to send() is accounted for: it is still in the deque,
\* in the hand of run(), or in exactly one of the four ways out.
Accounted ==
    \A m \in MsgIds :
        /\ fate[m] = "new" <=> m > accepted
        /\ fate[m] = "queued" <=> m \in Range(msgOutDeque)
        /\ fate[m] = "taken" <=> m = inHand
        /\ fate[m] = "sent" <=> m \in Range(sent)

\* The deque of send() and run() is sound: bounded, without a hole, and with the
\* rest of the messages sent once and in order or known to be lost, although it is
\* filled, evicted from, emptied and cleared by different threads.
QueueIsSound ==
    TypeOK /\ QueueBound /\ NewestRetained /\ FifoOnce /\ Accounted

\* run() never calls front() or pop_front() on an empty deque, although it
\* tests for emptiness outside the critical section in which it pops.
NoPopFromEmpty == pc # "undefined"

\* With keepConnect a message is taken and written only in an iteration in which
\* checkConnection() succeeded ("all is well, we go on", line 155), although the
\* deque is read twice without the mutex.
SendsVerified == (isKeepConnect /\ pc \in {"take", "send"}) => verified

\* What has been sent, failed, dropped or cleared stays so: no message comes
\* back into the deque or is sent after it was given up.
FatesAreFinal ==
    [][\A m \in MsgIds : fate[m] \in {"sent", "failed", "dropped", "cleared"}
                            => fate'[m] = fate[m]]_vars

\* The client is a lossy FIFO: threads, mutex and reconnection add nothing.
Abstract == INSTANCE LossyFifo WITH
    pending <- msgOutDeque, transit <- inHand, delivered <- sent,
    accepted <- accepted, capacity <- capacityMsgDeque

\* Every step of the client is a step of the abstract buffer or changes none
\* of its variables.
ImplementsLossyFifo == Abstract!Spec

\* Once either work flag is cleared run() returns, whatever it was doing and
\* however the broker answers.
StopsWhenAsked == ~Working ~> pc = "ended"

\* No message waits in the deque for ever while the client works: the
\* reconnection loop gets back to it even if producers keep evicting.
QueueDrains ==
    \A m \in MsgIds : fate[m] = "queued" ~> (fate[m] # "queued" \/ ~Working)

\* run() serves its deque until it is asked to stop, and then returns.
RunServes == StopsWhenAsked /\ QueueDrains

\* An error status does not outlive its cause: in particular the verdict that
\* getStatus() stores from an outdated clock reading is corrected.
StatusRecovers == (status # "OK" /\ Working) ~> (status = "OK" \/ ~Working)
=============================================================================
