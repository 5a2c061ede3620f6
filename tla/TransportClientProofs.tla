------------------------ MODULE TransportClientProofs ------------------------
(***************************************************************************)
(* Proofs about TransportClient for any number of producers, messages,     *)
(* link breaks and any set of capacities.                                  *)
(***************************************************************************)
EXTENDS TransportClient, SequenceTheorems, TLAPS

\* The mutex: exactly its owner is inside the critical section of send(),
\* where the eviction has made room and a message number is left.
LockInv ==
    /\ \A p \in Producers : sendPc[p] = "locked" <=> mtxDeque = p
    /\ mtxDeque # "none" => /\ Len(msgOutDeque) <= capacityMsgDeque
                            /\ accepted < MaxMsgs

\* run() holds a message exactly between the pop and the write.
HandInv == inHand # 0 <=> pc = "send"

\* Between its test for emptiness and its pop the deque is not empty, except
\* inside a send() that is about to push.
TakeInv ==
    ~ResetWhileRunning =>
        /\ pc # "undefined"
        /\ pc = "take" => msgOutDeque # <<>> \/ mtxDeque # "none"

\* With keepConnect every iteration past the check has verified the link.
KeepInv ==
    (isKeepConnect /\ pc \in {"status", "empty", "take", "send"}) => verified

\* The inductive invariant.
IInv ==
    /\ TypeOK
    /\ LockInv
    /\ HandInv
    /\ TakeInv
    /\ KeepInv
    /\ QueueBound
    /\ NewestRetained
    /\ FifoOnce
    /\ Accounted

-----------------------------------------------------------------------------
(* A queue of numbers that holds the newest n of them without gaps         *)

\* A sequence of message numbers is a sequence of positive integers.
LEMMA SeqOfNumbers ==
    ASSUME NEW S, S \subseteq Nat \ {0}, NEW s \in Seq(S)
    PROVE  /\ Len(s) \in Nat
           /\ DOMAIN s = 1..Len(s)
           /\ \A i \in 1..Len(s) : s[i] \in S /\ s[i] \in Nat
  <1>1. \A m \in S : m \in Nat
    OBVIOUS
  <1>2. \A i \in 1..Len(s) : s[i] \in S
    BY ElementOfSeq
  <1>3. Len(s) \in Nat /\ DOMAIN s = 1..Len(s)
    OBVIOUS
  <1>4. QED
    BY <1>1, <1>2, <1>3, Zenon

\* Appending to a sequence adds the element to its range.
LEMMA RangeAppend ==
    ASSUME NEW S, NEW s \in Seq(S), NEW e \in S
    PROVE  Range(Append(s, e)) = Range(s) \cup {e}
  <1>1. /\ DOMAIN s = 1..Len(s)
        /\ DOMAIN Append(s, e) = 1..(Len(s) + 1)
        /\ Len(s) \in Nat
    OBVIOUS
  <1>2. \A i \in 1..Len(s) : Append(s, e)[i] = s[i]
    OBVIOUS
  <1>3. Append(s, e)[Len(s) + 1] = e
    OBVIOUS
  <1>4. ASSUME NEW x
        PROVE  x \in Range(Append(s, e)) <=> x \in Range(s) \cup {e}
    <2>1. ASSUME x \in Range(Append(s, e))
          PROVE  x \in Range(s) \cup {e}
      <3>1. PICK i \in 1..(Len(s) + 1) : x = Append(s, e)[i]
        BY <2>1, <1>1 DEF Range
      <3>2. CASE i = Len(s) + 1
        BY <3>1, <3>2, <1>3
      <3>3. CASE i \in 1..Len(s)
        BY <3>1, <3>3, <1>1, <1>2 DEF Range
      <3>4. QED
        BY <3>1, <3>2, <3>3, <1>1
    <2>2. ASSUME x \in Range(s)
          PROVE  x \in Range(Append(s, e))
      <3>1. PICK i \in 1..Len(s) : x = s[i]
        BY <2>2, <1>1 DEF Range
      <3>2. i \in 1..(Len(s) + 1)
        BY <1>1
      <3>3. QED
        BY <3>1, <3>2, <1>1, <1>2 DEF Range
    <2>3. e \in Range(Append(s, e))
      <3>1. Len(s) + 1 \in 1..(Len(s) + 1)
        BY <1>1
      <3>2. QED
        BY <3>1, <1>1, <1>3 DEF Range
    <2>4. QED
      BY <2>1, <2>2, <2>3
  <1>5. QED
    BY <1>4

\* A gapless deque contains exactly the last Len(q) of n numbers.
LEMMA RangeOfNewest ==
    ASSUME NEW S, S \subseteq Nat \ {0}, NEW q \in Seq(S), NEW n \in Nat,
           \A i \in 1..Len(q) : q[i] = (n - Len(q)) + i
    PROVE  /\ Len(q) <= n
           /\ \A m \in S : m \in Range(q) <=> (n - Len(q) < m /\ m <= n)
  <1>1. Len(q) \in Nat /\ DOMAIN q = 1..Len(q)
    OBVIOUS
  <1>2. Len(q) <= n
    <2>1. CASE Len(q) = 0
      BY <2>1, <1>1
    <2>2. CASE Len(q) # 0
      <3>1. 1 \in 1..Len(q)
        BY <2>2, <1>1
      <3>2. q[1] \in S /\ q[1] = (n - Len(q)) + 1
        BY <3>1
      <3>3. QED
        BY <3>2, <1>1
    <2>3. QED
      BY <2>1, <2>2
  <1>3. ASSUME NEW m \in S, m \in Range(q)
        PROVE  n - Len(q) < m /\ m <= n
    <2>1. PICK i \in 1..Len(q) : m = q[i]
      BY <1>3, <1>1 DEF Range
    <2>2. m = (n - Len(q)) + i
      BY <2>1
    <2>3. QED
      BY <2>2, <1>1
  <1>4. ASSUME NEW m \in S, n - Len(q) < m, m <= n
        PROVE  m \in Range(q)
    <2>1. m - (n - Len(q)) \in 1..Len(q)
      BY <1>4, <1>1
    <2>2. q[m - (n - Len(q))] = m
      BY <2>1, <1>1
    <2>3. QED
      BY <2>1, <2>2, <1>1 DEF Range
  <1>5. QED
    BY <1>2, <1>3, <1>4

\* Removing the front of a gapless deque leaves a gapless deque.
LEMMA TailOfNewest ==
    ASSUME NEW S, S \subseteq Nat \ {0}, NEW q \in Seq(S), NEW n \in Nat, q # <<>>,
           \A i \in 1..Len(q) : q[i] = (n - Len(q)) + i
    PROVE  /\ Tail(q) \in Seq(S)
           /\ Len(Tail(q)) = Len(q) - 1
           /\ Len(q) \in 1..n
           /\ Head(q) \in S
           /\ Head(q) = (n - Len(q)) + 1
           /\ \A i \in 1..Len(Tail(q)) : Tail(q)[i] = (n - Len(Tail(q))) + i
  <1>1. Len(q) \in Nat /\ Len(q) <= n
    BY RangeOfNewest
  <1>2. /\ Head(q) \in S
        /\ Tail(q) \in Seq(S)
        /\ Len(Tail(q)) = Len(q) - 1
        /\ \A i \in 1..Len(Tail(q)) : Tail(q)[i] = q[i + 1]
    BY HeadTailProperties
  <1>3. Len(q) # 0 /\ Head(q) = q[1]
    OBVIOUS
  <1>4. ASSUME NEW i \in 1..Len(Tail(q))
        PROVE  Tail(q)[i] = (n - Len(Tail(q))) + i
    <2>1. i + 1 \in 1..Len(q)
      BY <1>1, <1>2
    <2>2. Tail(q)[i] = (n - Len(q)) + (i + 1)
      BY <2>1, <1>2
    <2>3. QED
      BY <2>2, <1>1, <1>2
  <1>5. Head(q) = (n - Len(q)) + 1
    BY <1>1, <1>3
  <1>6. QED
    BY <1>1, <1>2, <1>3, <1>4, <1>5

\* Adding the next number at the back of a gapless deque keeps it gapless.
LEMMA AppendToNewest ==
    ASSUME NEW S, S \subseteq Nat \ {0}, NEW q \in Seq(S), NEW n \in Nat, n + 1 \in S,
           \A i \in 1..Len(q) : q[i] = (n - Len(q)) + i,
           NEW p, p = Append(q, n + 1)
    PROVE  /\ p \in Seq(S)
           /\ Len(p) = Len(q) + 1
           /\ p # <<>>
           /\ \A i \in 1..Len(p) : p[i] = ((n + 1) - Len(p)) + i
  <1>1. n + 1 \in S
    OBVIOUS
  <1>2. /\ p \in Seq(S)
        /\ Len(p) = Len(q) + 1
        /\ Len(q) \in Nat
    BY <1>1
  <1>3. /\ \A i \in 1..Len(q) : p[i] = q[i]
        /\ p[Len(q) + 1] = n + 1
    BY <1>1
  <1>4. ASSUME NEW i \in 1..(Len(q) + 1)
        PROVE  p[i] = ((n + 1) - (Len(q) + 1)) + i
    <2>1. CASE i = Len(q) + 1
      BY <2>1, <1>2, <1>3
    <2>2. CASE i \in 1..Len(q)
      BY <2>2, <1>2, <1>3
    <2>3. QED
      BY <2>1, <2>2, <1>2
  <1>5. p # <<>>
    BY <1>2
  <1>6. QED
    BY <1>2, <1>4, <1>5

-----------------------------------------------------------------------------
\* Message numbers are positive, as the lemmas about queues require.
LEMMA MsgIdsPositive == MsgIds \subseteq Nat \ {0}
  BY DEF MsgIds

-----------------------------------------------------------------------------
LEMMA InitIInv == Init => IInv
  <1> SUFFICES ASSUME Init PROVE IInv
    OBVIOUS
  <1>1. TypeOK
    <2>1. /\ msgOutDeque \in Seq(MsgIds)
          /\ sent \in Seq(MsgIds)
      BY DEF Init
    <2>2. /\ sendPc \in [Producers -> {"out", "locked"}]
          /\ fate \in [MsgIds -> Fates]
      BY DEF Init, Fates
    <2>3. /\ breaks \in 0..MaxBreaks
          /\ inHand \in 0..MaxMsgs
          /\ accepted \in 0..MaxMsgs
      BY ConstantsAssumption DEF Init
    <2>4. QED
      BY <2>1, <2>2, <2>3, Zenon DEF Init, TypeOK, TransportState, RunPcs
  <1>2. LockInv /\ HandInv /\ TakeInv /\ KeepInv
    BY ConstantsAssumption DEF Init, LockInv, HandInv, TakeInv, KeepInv
  <1>3. QueueBound
    BY ConstantsAssumption DEF Init, QueueBound
  <1>4. NewestRetained /\ FifoOnce
    BY DEF Init, NewestRetained, FifoOnce
  <1>5. Accounted
    <2>1. Range(<<>>) = {}
      BY DEF Range
    <2>2. QED
      BY <2>1, ConstantsAssumption DEF Init, Accounted, MsgIds
  <1>6. QED
    BY <1>1, <1>2, <1>3, <1>4, <1>5 DEF IInv

\* The steps that touch neither the deque nor what is known of the messages.
QuietStep ==
    \/ Overdue \/ GetStatusElapsed \/ GetStatusStore
    \/ StopLocal \/ StopGlobal \/ LinkBreak
    \/ RunStart \/ RunWhile \/ RunEnd \/ RunNeed \/ RunCheck \/ RunRecheck
    \/ RunStatus \/ RunEmpty
    \/ \E ok \in BOOLEAN : RunRelease(ok) \/ RunCreate(ok) \/ RunAfter(ok)

LEMMA QuietStepIInv ==
    ASSUME IInv, QuietStep
    PROVE  IInv'
  <1> USE DEF Goto, queueVars, flagVars, stateVars, linkVars, runVars, histVars
  <1>1. UNCHANGED <<queueVars, histVars, inHand>>
    BY DEF QuietStep, Overdue, GetStatusElapsed, GetStatusStore, StopLocal,
           StopGlobal, LinkBreak, RunStart, RunWhile, RunEnd, RunNeed,
           RunCheck, RunRecheck, RunStatus, RunEmpty, RunRelease, RunCreate,
           RunAfter
  <1>2. TypeOK'
    <2> DEFINE Moving == /\ localIsWork \in BOOLEAN /\ globalIsWork \in BOOLEAN
                         /\ pGlobalIsWork \in {"null", "local", "global"}
                         /\ isKeepConnect \in KeepModes
                         /\ status \in TransportState /\ stale \in BOOLEAN
                         /\ pollPc \in {"out", "overdue"}
                         /\ conn \in {"open", "closed"}
                         /\ breaks \in 0..MaxBreaks
                         /\ pc \in RunPcs /\ verified \in BOOLEAN
    <2>1. Moving
      BY DEF IInv, TypeOK
    <2>2. ASSUME Overdue
          PROVE  Moving'
      BY <2>1, <2>2 DEF Overdue
    <2>3. ASSUME GetStatusElapsed \/ GetStatusStore
          PROVE  Moving'
      BY <2>1, <2>3 DEF GetStatusElapsed, GetStatusStore, TransportState
    <2>4. ASSUME StopLocal \/ StopGlobal
          PROVE  Moving'
      BY <2>1, <2>4, Zenon DEF StopLocal, StopGlobal
    <2>5. ASSUME LinkBreak
          PROVE  Moving'
      <3>1. breaks' \in 0..MaxBreaks
        BY <2>1, <2>5, ConstantsAssumption DEF LinkBreak
      <3>2. QED
        BY <2>1, <2>5, <3>1 DEF LinkBreak
    <2>6. ASSUME RunStart
          PROVE  Moving'
      BY <2>1, <2>6 DEF RunStart, RunPcs
    <2>7. ASSUME RunWhile \/ RunEnd
          PROVE  Moving'
      BY <2>1, <2>7, Zenon DEF RunWhile, RunEnd, RunPcs
    <2>8. ASSUME RunNeed
          PROVE  Moving'
      BY <2>1, <2>8 DEF RunNeed, RunPcs
    <2>9. ASSUME RunCheck
          PROVE  Moving'
      BY <2>1, <2>9, Zenon DEF RunCheck, ChangeStatus, RunPcs, TransportState
    <2>10. ASSUME RunStatus
          PROVE  Moving'
      BY <2>1, <2>10, Zenon DEF RunStatus, ChangeStatus, RunPcs, TransportState
    <2>11. ASSUME RunRecheck \/ RunEmpty
          PROVE  Moving'
      BY <2>1, <2>11, Zenon DEF RunRecheck, RunEmpty, RunPcs
    <2>12. ASSUME \E ok \in BOOLEAN : RunRelease(ok) \/ RunCreate(ok) \/ RunAfter(ok)
          PROVE  Moving'
      BY <2>1, <2>12 DEF RunRelease, RunCreate, RunAfter, RunPcs
    <2> HIDE DEF Moving
    <2>13. Moving'
      BY <2>2, <2>3, <2>4, <2>5, <2>6, <2>7, <2>8, <2>9, <2>10, <2>11, <2>12
      DEF QuietStep
    <2>14. QED
      BY <1>1, <2>13 DEF IInv, TypeOK, Moving
  <1>3. HandInv'
    BY <1>1
    DEF IInv, HandInv, QuietStep, Overdue, GetStatusElapsed, GetStatusStore,
        StopLocal, StopGlobal, LinkBreak, RunStart, RunWhile, RunEnd, RunNeed,
        RunCheck, RunRecheck, RunStatus, RunEmpty, RunRelease, RunCreate,
        RunAfter
  <1>4. TakeInv'
    BY <1>1
    DEF IInv, TakeInv, QuietStep, Overdue, GetStatusElapsed, GetStatusStore,
        StopLocal, StopGlobal, LinkBreak, RunStart, RunWhile, RunEnd, RunNeed,
        RunCheck, RunRecheck, RunStatus, RunEmpty, RunRelease, RunCreate,
        RunAfter
  <1>5. KeepInv'
    BY <1>1, Zenon
    DEF IInv, TypeOK, KeepInv, QuietStep, Overdue, GetStatusElapsed,
        GetStatusStore, StopLocal, StopGlobal, LinkBreak, RunStart, RunWhile,
        RunEnd, RunNeed, RunCheck, RunRecheck, RunStatus, RunEmpty,
        RunRelease, RunCreate, RunAfter
  <1>6. LockInv' /\ QueueBound' /\ NewestRetained' /\ FifoOnce'
    BY <1>1 DEF IInv, LockInv, QueueBound, NewestRetained, FifoOnce
  <1>7. Accounted'
    BY <1>1 DEF IInv, Accounted
  <1>8. QED
    BY <1>2, <1>3, <1>4, <1>5, <1>6, <1>7 DEF IInv

LEMMA SendLockIInv ==
    ASSUME IInv, NEW p \in Producers, SendLock(p)
    PROVE  IInv'
  <1> USE DEF flagVars, stateVars, linkVars, runVars
  <1>1. /\ TypeOK /\ mtxDeque = "none" /\ accepted \in Nat
        /\ p # "none"
        /\ mtxDeque' = p
        /\ sendPc' = [sendPc EXCEPT ![p] = "locked"]
        /\ accepted < MaxMsgs
        /\ UNCHANGED <<capacityMsgDeque, flagVars, stateVars, linkVars,
                       runVars, accepted, sent>>
    BY ConstantsAssumption DEF IInv, TypeOK, SendLock
  <1>2. Len(msgOutDeque) \in Nat /\ capacityMsgDeque \in Nat
    BY <1>1, ConstantsAssumption DEF TypeOK
  <1>3. /\ sendPc' \in [Producers -> {"out", "locked"}]
        /\ \A r \in Producers : sendPc'[r] = "locked" <=> mtxDeque' = r
    BY <1>1, ConstantsAssumption DEF IInv, TypeOK, LockInv
  <1>4. HandInv' /\ TakeInv' /\ KeepInv'
    BY <1>1 DEF IInv, HandInv, TakeInv, KeepInv
  <1>5. CASE ~IsFull
    <2>1. UNCHANGED <<msgOutDeque, fate>> /\ Len(msgOutDeque) <= capacityMsgDeque
      BY <1>2, <1>5 DEF SendLock, IsFull
    <2>2. TypeOK'
      BY <1>1, <1>3, <2>1 DEF TypeOK
    <2>3. LockInv'
      BY <1>1, <1>3, <2>1 DEF LockInv
    <2>4. QueueBound' /\ NewestRetained' /\ FifoOnce'
      BY <1>1, <2>1 DEF IInv, QueueBound, NewestRetained, FifoOnce
    <2>5. Accounted'
      BY <1>1, <2>1 DEF IInv, Accounted
    <2>6. QED
      BY <1>4, <2>2, <2>3, <2>4, <2>5 DEF IInv
  <1>6. CASE IsFull
    <2> DEFINE h == Head(msgOutDeque)
    <2>1. /\ msgOutDeque' = Tail(msgOutDeque)
          /\ fate' = [fate EXCEPT ![h] = "dropped"]
          /\ Len(msgOutDeque) > capacityMsgDeque
      BY <1>6 DEF SendLock, IsFull
    <2>2. msgOutDeque # <<>>
      BY <2>1, <1>2
    <2>3. /\ msgOutDeque' \in Seq(MsgIds)
          /\ Len(msgOutDeque') = Len(msgOutDeque) - 1
          /\ Len(msgOutDeque) \in 1..accepted
          /\ h \in MsgIds
          /\ h = (accepted - Len(msgOutDeque)) + 1
          /\ \A i \in 1..Len(msgOutDeque') :
                msgOutDeque'[i] = (accepted - Len(msgOutDeque')) + i
      BY <1>1, <2>1, <2>2, TailOfNewest, MsgIdsPositive DEF IInv, TypeOK, NewestRetained
    <2> HIDE DEF h
    <2>4. fate' \in [MsgIds -> Fates]
      BY <1>1, <2>1, <2>3 DEF TypeOK, Fates
    <2>5. TypeOK'
      BY <1>1, <1>3, <2>3, <2>4 DEF TypeOK
    <2>6. LockInv' /\ QueueBound'
      BY <1>1, <1>2, <1>3, <2>3 DEF IInv, LockInv, QueueBound
    <2>7. NewestRetained'
      BY <1>1, <2>3 DEF NewestRetained
    <2>8. FifoOnce'
      <3>1. /\ \A i \in 1..Len(sent) : sent[i] \in Nat
            /\ inHand \in Nat
        BY <1>1 DEF TypeOK, MsgIds
      <3>2. UNCHANGED <<sent, inHand, accepted>> /\ FifoOnce
        BY <1>1 DEF IInv
      <3>3. QED
        BY <1>1, <2>3, <3>1, <3>2 DEF FifoOnce
    <2>9. Accounted'
      <3>1. \A m \in MsgIds : /\ m \in Range(msgOutDeque) <=>
                                   /\ accepted - Len(msgOutDeque) < m
                                   /\ m <= accepted
                              /\ m \in Range(msgOutDeque') <=>
                                   /\ accepted - Len(msgOutDeque') < m
                                   /\ m <= accepted
        BY <1>1, <2>3, RangeOfNewest, MsgIdsPositive, Zenon DEF IInv, TypeOK, NewestRetained
      <3>2. h \notin Range(sent) /\ h # inHand
        <4>1. \A i \in 1..Len(sent) : sent[i] # h
          BY <1>1, <2>3 DEF IInv, TypeOK, MsgIds, FifoOnce
        <4>2. DOMAIN sent = 1..Len(sent)
          BY <1>1 DEF TypeOK
        <4>3. h # inHand
          BY <1>1, <2>3 DEF IInv, TypeOK, MsgIds, FifoOnce
        <4>4. QED
          BY <4>1, <4>2, <4>3 DEF Range
      <3>3. \A m \in MsgIds \ {h} : fate'[m] = fate[m]
        BY <2>1, <2>3, <1>1 DEF TypeOK
      <3>4. fate'[h] = "dropped"
        BY <2>1, <2>3, <1>1 DEF TypeOK
      <3>5. SUFFICES ASSUME NEW m \in MsgIds
                     PROVE  /\ fate'[m] = "new" <=> m > accepted
                            /\ fate'[m] = "queued" <=> m \in Range(msgOutDeque')
                            /\ fate'[m] = "taken" <=> m = inHand
                            /\ fate'[m] = "sent" <=> m \in Range(sent)
        BY <1>1 DEF Accounted
      <3>6. CASE m = h
        <4>1. m <= accepted /\ m \notin Range(msgOutDeque')
          BY <3>1, <3>6, <2>3, <1>1
        <4>2. QED
          BY <3>2, <3>4, <3>6, <4>1, <1>1 DEF MsgIds
      <3>7. CASE m # h
        <4>1. m \in Nat
          BY DEF MsgIds
        <4>2. accepted - Len(msgOutDeque') < m <=> accepted - Len(msgOutDeque) < m
          <5>1. /\ Len(msgOutDeque') = Len(msgOutDeque) - 1
                /\ h = (accepted - Len(msgOutDeque)) + 1
                /\ accepted \in Nat /\ Len(msgOutDeque) \in Nat
            BY <2>3, <1>1, <1>2
          <5>2. QED
            BY <4>1, <3>7, <5>1
        <4>3. m \in Range(msgOutDeque') <=> m \in Range(msgOutDeque)
          BY <3>1, <4>2
        <4>4. QED
          BY <3>3, <3>7, <4>3 DEF IInv, Accounted
      <3>8. QED
        BY <3>6, <3>7
    <2>10. QED
      BY <1>4, <2>5, <2>6, <2>7, <2>8, <2>9 DEF IInv
  <1>7. QED
    BY <1>5, <1>6

LEMMA SendPushIInv ==
    ASSUME IInv, NEW p \in Producers, SendPush(p)
    PROVE  IInv'
  <1> USE DEF flagVars, stateVars, linkVars, runVars
  <1>1. /\ TypeOK /\ mtxDeque = p /\ p # "none"
        /\ accepted \in Nat /\ accepted < MaxMsgs
        /\ Len(msgOutDeque) <= capacityMsgDeque
        /\ mtxDeque' = "none"
        /\ sendPc' = [sendPc EXCEPT ![p] = "out"]
        /\ accepted' = accepted + 1
        /\ msgOutDeque' = Append(msgOutDeque, accepted + 1)
        /\ fate' = [fate EXCEPT ![accepted + 1] = "queued"]
        /\ UNCHANGED <<capacityMsgDeque, flagVars, stateVars, linkVars,
                       runVars, sent>>
    BY ConstantsAssumption DEF IInv, TypeOK, LockInv, SendPush
  <1>2. /\ Len(msgOutDeque) \in Nat /\ capacityMsgDeque \in Nat
        /\ MaxMsgs \in Nat
    BY <1>1, ConstantsAssumption DEF TypeOK
  <1>3. /\ accepted + 1 \in MsgIds
        /\ msgOutDeque' \in Seq(MsgIds)
        /\ Len(msgOutDeque') = Len(msgOutDeque) + 1
        /\ msgOutDeque' # <<>>
        /\ \A i \in 1..Len(msgOutDeque') :
              msgOutDeque'[i] = (accepted' - Len(msgOutDeque')) + i
    <2>1. accepted + 1 \in MsgIds
      BY <1>1, <1>2 DEF MsgIds
    <2>2. /\ msgOutDeque \in Seq(MsgIds) /\ accepted \in Nat
          /\ \A i \in 1..Len(msgOutDeque) :
                msgOutDeque[i] = (accepted - Len(msgOutDeque)) + i
      BY <1>1 DEF IInv, TypeOK, NewestRetained
    <2> DEFINE pushed == Append(msgOutDeque, accepted + 1)
    <2>2a. pushed = Append(msgOutDeque, accepted + 1)
      OBVIOUS
    <2> HIDE DEF pushed
    <2>3. /\ pushed \in Seq(MsgIds)
          /\ Len(pushed) = Len(msgOutDeque) + 1
          /\ pushed # <<>>
          /\ \A i \in 1..Len(pushed) : pushed[i] = ((accepted + 1) - Len(pushed)) + i
      BY <2>1, <2>2, <2>2a, AppendToNewest, MsgIdsPositive
    <2>4. msgOutDeque' = pushed /\ accepted' = accepted + 1
      BY <1>1, <2>2a
    <2>5. QED
      BY <1>1, <2>1, <2>3, <2>4, Zenon
  <1>4. TypeOK'
    <2>1. accepted' \in 0..MaxMsgs
      BY <1>1, <1>2
    <2>2. fate' \in [MsgIds -> Fates]
      BY <1>1, <1>3 DEF TypeOK, Fates
    <2>3. sendPc' \in [Producers -> {"out", "locked"}]
      BY <1>1 DEF TypeOK
    <2>4. QED
      BY <1>1, <1>3, <2>1, <2>2, <2>3 DEF TypeOK
  <1>5. LockInv'
    <2>1. \A r \in Producers : sendPc'[r] = "locked" <=> mtxDeque' = r
      BY <1>1, ConstantsAssumption DEF IInv, TypeOK, LockInv
    <2>2. QED
      BY <1>1, <2>1 DEF LockInv
  <1>6. HandInv' /\ TakeInv' /\ KeepInv'
    BY <1>1, <1>3 DEF IInv, HandInv, TakeInv, KeepInv
  <1>7. QueueBound' /\ NewestRetained'
    BY <1>1, <1>2, <1>3 DEF QueueBound, NewestRetained
  <1>8. FifoOnce'
    <2>1. accepted' - Len(msgOutDeque') = accepted - Len(msgOutDeque)
      BY <1>1, <1>2, <1>3
    <2>2. QED
      BY <1>1, <2>1 DEF IInv, FifoOnce
  <1>9. Accounted'
    <2> DEFINE n == accepted + 1
    <2>1. Range(msgOutDeque') = Range(msgOutDeque) \cup {n}
      BY <1>1, <1>3, RangeAppend DEF TypeOK
    <2>2. /\ \A m \in MsgIds \ {n} : fate'[m] = fate[m]
          /\ fate'[n] = "queued"
      BY <1>1, <1>3 DEF TypeOK
    <2>3. fate[n] = "new"
      BY <1>1, <1>3 DEF IInv, Accounted
    <2>4. SUFFICES ASSUME NEW m \in MsgIds
                   PROVE  /\ fate'[m] = "new" <=> m > accepted'
                          /\ fate'[m] = "queued" <=> m \in Range(msgOutDeque')
                          /\ fate'[m] = "taken" <=> m = inHand
                          /\ fate'[m] = "sent" <=> m \in Range(sent)
      BY <1>1 DEF Accounted
    <2>5. /\ fate[m] = "new" <=> m > accepted
          /\ fate[m] = "queued" <=> m \in Range(msgOutDeque)
          /\ fate[m] = "taken" <=> m = inHand
          /\ fate[m] = "sent" <=> m \in Range(sent)
      BY DEF IInv, Accounted
    <2>6. m \in Nat
      BY DEF MsgIds
    <2>7. CASE m = n
      BY <1>1, <2>1, <2>2, <2>3, <2>5, <2>7
    <2>8. CASE m # n
      <3>1. m > accepted' <=> m > accepted
        BY <1>1, <2>6, <2>8
      <3>2. fate'[m] = fate[m] /\ (m \in Range(msgOutDeque') <=> m \in Range(msgOutDeque))
        BY <2>1, <2>2, <2>8
      <3>3. QED
        BY <2>5, <3>1, <3>2
    <2>9. QED
      BY <2>7, <2>8
  <1>10. QED
    BY <1>4, <1>5, <1>6, <1>7, <1>8, <1>9 DEF IInv

LEMMA SetOutDeqCapacityIInv ==
    ASSUME IInv, NEW c \in Capacities, SetOutDeqCapacity(c)
    PROVE  IInv'
  <1> USE DEF flagVars, stateVars, linkVars, runVars
  <1>1. /\ TypeOK /\ mtxDeque = "none"
        /\ accepted \in Nat /\ inHand \in Nat
        /\ pc = "idle" \/ ResetWhileRunning
        /\ msgOutDeque' = <<>>
        /\ capacityMsgDeque' = c /\ c \in Nat
        /\ UNCHANGED <<mtxDeque, sendPc, flagVars, stateVars, linkVars,
                       runVars, accepted, sent>>
    BY ConstantsAssumption DEF IInv, TypeOK, SetOutDeqCapacity
  <1>2. /\ Len(msgOutDeque') = 0
        /\ msgOutDeque' \in Seq(MsgIds)
        /\ Range(msgOutDeque') = {}
    BY <1>1 DEF Range
  <1>3. /\ fate' \in [MsgIds -> Fates]
        /\ \A m \in MsgIds : fate'[m] = IF m \in Range(msgOutDeque)
                                        THEN "cleared" ELSE fate[m]
    BY <1>1 DEF TypeOK, Fates, SetOutDeqCapacity
  <1>4. TypeOK'
    BY <1>1, <1>2, <1>3 DEF TypeOK
  <1>5. LockInv' /\ HandInv' /\ KeepInv'
    BY <1>1 DEF IInv, LockInv, HandInv, KeepInv
  <1>6. TakeInv'
    BY <1>1, ConstantsAssumption DEF IInv, TakeInv
  <1>7. QueueBound' /\ NewestRetained'
    BY <1>1, <1>2 DEF QueueBound, NewestRetained
  <1>8. FifoOnce'
    <2>1. Len(msgOutDeque) \in Nat /\ \A i \in 1..Len(sent) : sent[i] \in Nat
      BY <1>1, SeqOfNumbers, MsgIdsPositive, Zenon DEF TypeOK
    <2>2. /\ UNCHANGED <<sent, inHand, accepted>>
          /\ accepted - Len(msgOutDeque') = accepted
      BY <1>1, <1>2
    <2>3. \A x \in Nat : x <= accepted - Len(msgOutDeque) => x <= accepted
      BY <1>1, <2>1
    <2>4. QED
      BY <1>1, <2>1, <2>2, <2>3 DEF IInv, FifoOnce
  <1>9. Accounted'
    <2>1. SUFFICES ASSUME NEW m \in MsgIds
                   PROVE  /\ fate'[m] = "new" <=> m > accepted
                          /\ fate'[m] # "queued"
                          /\ fate'[m] = "taken" <=> m = inHand
                          /\ fate'[m] = "sent" <=> m \in Range(sent)
      BY <1>1, <1>2 DEF Accounted
    <2>2. QED
      BY <1>3 DEF IInv, Accounted
  <1>10. QED
    BY <1>4, <1>5, <1>6, <1>7, <1>8, <1>9 DEF IInv

LEMMA RunTakeIInv ==
    ASSUME IInv, RunTake
    PROVE  IInv'
  <1> USE DEF flagVars, stateVars, linkVars, Goto
  <1>1. /\ TypeOK /\ mtxDeque = "none" /\ pc = "take" /\ inHand = 0
        /\ accepted \in Nat
        /\ Len(msgOutDeque) \in Nat /\ capacityMsgDeque \in Nat
        /\ UNCHANGED <<capacityMsgDeque, mtxDeque, sendPc, flagVars, stateVars,
                       linkVars, verified, accepted, sent>>
    BY ConstantsAssumption DEF IInv, TypeOK, HandInv, RunTake
  <1>2. CASE msgOutDeque = <<>>
    <2>1. pc' = "undefined" /\ UNCHANGED <<inHand, msgOutDeque, fate>>
      BY <1>2 DEF RunTake
    <2>2. ResetWhileRunning
      BY <1>1, <1>2 DEF IInv, TakeInv
    <2>3. TypeOK'
      BY <1>1, <2>1 DEF TypeOK, RunPcs
    <2>4. LockInv' /\ HandInv' /\ TakeInv' /\ KeepInv'
      BY <1>1, <2>1, <2>2 DEF IInv, LockInv, HandInv, TakeInv, KeepInv
    <2>5. QueueBound' /\ NewestRetained' /\ FifoOnce'
      BY <1>1, <2>1 DEF IInv, QueueBound, NewestRetained, FifoOnce
    <2>6. Accounted'
      BY <1>1, <2>1 DEF IInv, Accounted
    <2>7. QED
      BY <2>3, <2>4, <2>5, <2>6 DEF IInv
  <1>3. CASE msgOutDeque # <<>>
    <2> DEFINE h == Head(msgOutDeque)
    <2>1. /\ pc' = "send" /\ inHand' = h
          /\ msgOutDeque' = Tail(msgOutDeque)
          /\ fate' = [fate EXCEPT ![h] = "taken"]
      BY <1>3 DEF RunTake
    <2>2. /\ msgOutDeque' \in Seq(MsgIds)
          /\ Len(msgOutDeque') = Len(msgOutDeque) - 1
          /\ Len(msgOutDeque) \in 1..accepted
          /\ h \in MsgIds
          /\ h = (accepted - Len(msgOutDeque)) + 1
          /\ \A i \in 1..Len(msgOutDeque') :
                msgOutDeque'[i] = (accepted - Len(msgOutDeque')) + i
      BY <1>1, <1>3, <2>1, TailOfNewest, MsgIdsPositive DEF IInv, TypeOK, NewestRetained
    <2> HIDE DEF h
    <2>3. /\ h \in Nat /\ h # 0 /\ h <= accepted
          /\ accepted - Len(msgOutDeque) = h - 1
          /\ accepted - Len(msgOutDeque') = h
      BY <1>1, <2>2 DEF MsgIds
    <2>4. TypeOK'
      <3>1. fate' \in [MsgIds -> Fates]
        BY <1>1, <2>1, <2>2 DEF TypeOK, Fates
      <3>2. inHand' \in 0..MaxMsgs
        BY <2>1, <2>2, ConstantsAssumption DEF MsgIds
      <3>3. QED
        BY <1>1, <2>1, <2>2, <3>1, <3>2 DEF TypeOK, RunPcs
    <2>5. LockInv' /\ HandInv' /\ TakeInv'
      BY <1>1, <2>1, <2>3 DEF IInv, LockInv, HandInv, TakeInv
    <2>6. KeepInv'
      BY <1>1, <2>1 DEF IInv, KeepInv
    <2>7. QueueBound' /\ NewestRetained'
      BY <1>1, <2>2 DEF IInv, QueueBound, NewestRetained
    <2>8. \A i \in 1..Len(sent) : sent[i] \in Nat /\ sent[i] < h
      <3>1. \A i \in 1..Len(sent) : sent[i] \in Nat
        BY <1>1, SeqOfNumbers, MsgIdsPositive, Zenon DEF TypeOK
      <3>2. \A i \in 1..Len(sent) : sent[i] <= h - 1
        BY <2>3 DEF IInv, FifoOnce
      <3>3. QED
        BY <2>3, <3>1, <3>2
    <2>9. FifoOnce'
      <3>1. \A i, j \in 1..Len(sent) : i < j => sent[i] < sent[j]
        BY DEF IInv, FifoOnce
      <3>2. QED
        BY <1>1, <2>1, <2>3, <2>8, <3>1 DEF FifoOnce
    <2>10. Accounted'
      <3>1. \A m \in MsgIds : /\ m \in Range(msgOutDeque) <=>
                                   h - 1 < m /\ m <= accepted
                              /\ m \in Range(msgOutDeque') <=>
                                   h < m /\ m <= accepted
        <4>1. /\ NewestRetained /\ accepted \in Nat
              /\ msgOutDeque \in Seq(MsgIds)
          BY <1>1 DEF IInv, TypeOK
        <4>2. \A m \in MsgIds : m \in Range(msgOutDeque) <=>
                 accepted - Len(msgOutDeque) < m /\ m <= accepted
          BY <4>1, RangeOfNewest, MsgIdsPositive, Zenon DEF NewestRetained
        <4>3. \A m \in MsgIds : m \in Range(msgOutDeque') <=>
                 accepted - Len(msgOutDeque') < m /\ m <= accepted
          BY <2>2, <4>1, RangeOfNewest, MsgIdsPositive, Zenon
        <4>4. QED
          BY <2>3, <4>2, <4>3
      <3>2. h \notin Range(sent)
        BY <1>1, <2>3, <2>8 DEF TypeOK, Range
      <3>3. /\ \A m \in MsgIds \ {h} : fate'[m] = fate[m]
            /\ fate'[h] = "taken"
        BY <1>1, <2>1, <2>2 DEF TypeOK
      <3>4. SUFFICES ASSUME NEW m \in MsgIds
                     PROVE  /\ fate'[m] = "new" <=> m > accepted
                            /\ fate'[m] = "queued" <=> m \in Range(msgOutDeque')
                            /\ fate'[m] = "taken" <=> m = h
                            /\ fate'[m] = "sent" <=> m \in Range(sent)
        BY <1>1, <2>1 DEF Accounted
      <3>5. m \in Nat /\ m # 0
        BY DEF MsgIds
      <3>6. CASE m = h
        <4>1. ~(m > accepted) /\ m \notin Range(msgOutDeque')
          BY <1>1, <2>3, <3>1, <3>6
        <4>2. QED
          BY <3>2, <3>3, <3>6, <4>1
      <3>7. CASE m # h
        <4>1. m \in Range(msgOutDeque') <=> m \in Range(msgOutDeque)
          BY <2>3, <3>1, <3>5, <3>7
        <4>2. QED
          BY <1>1, <3>3, <3>5, <3>7, <4>1 DEF IInv, Accounted
      <3>8. QED
        BY <3>6, <3>7
    <2>11. QED
      BY <2>4, <2>5, <2>6, <2>7, <2>9, <2>10 DEF IInv
  <1>4. QED
    BY <1>2, <1>3

LEMMA RunSendIInv ==
    ASSUME IInv, NEW ok \in BOOLEAN, RunSend(ok)
    PROVE  IInv'
  <1> USE DEF queueVars, flagVars, stateVars, linkVars, Goto
  <1>1. /\ TypeOK /\ pc = "send" /\ inHand \in MsgIds
        /\ pc' \in {"while", "after"} /\ inHand' = 0
        /\ accepted \in Nat
        /\ UNCHANGED <<queueVars, flagVars, stateVars, linkVars, verified,
                       accepted>>
    BY ConstantsAssumption DEF IInv, TypeOK, MsgIds, HandInv, RunSend
  <1>2. /\ inHand \in Nat /\ Len(msgOutDeque) \in Nat /\ Len(sent) \in Nat
        /\ \A i \in 1..Len(sent) : sent[i] \in Nat
    <2>1. inHand \in Nat
      BY <1>1 DEF MsgIds
    <2>2. QED
      BY <1>1, <2>1, SeqOfNumbers, MsgIdsPositive, Zenon DEF TypeOK
  <1>3. /\ fate' = [fate EXCEPT ![inHand] = IF ok THEN "sent" ELSE "failed"]
        /\ sent' = IF ok THEN Append(sent, inHand) ELSE sent
    BY DEF RunSend
  <1>4. TypeOK'
    <2>1. fate' \in [MsgIds -> Fates]
      BY <1>1, <1>3 DEF TypeOK, Fates
    <2>2. sent' \in Seq(MsgIds)
      BY <1>1, <1>3 DEF TypeOK
    <2>3. inHand' \in 0..MaxMsgs
      BY <1>1, ConstantsAssumption
    <2>4. QED
      BY <1>1, <2>1, <2>2, <2>3 DEF TypeOK, RunPcs
  <1>5. LockInv' /\ HandInv' /\ TakeInv' /\ KeepInv'
    BY <1>1 DEF IInv, LockInv, HandInv, TakeInv, KeepInv
  <1>6. QueueBound' /\ NewestRetained'
    BY <1>1 DEF IInv, QueueBound, NewestRetained
  <1>7. /\ inHand <= accepted - Len(msgOutDeque)
        /\ \A i, j \in 1..Len(sent) : i < j => sent[i] < sent[j]
        /\ \A i \in 1..Len(sent) : /\ sent[i] < inHand
                                   /\ sent[i] <= accepted - Len(msgOutDeque)
    BY <1>1 DEF IInv, FifoOnce, MsgIds
  <1>8. FifoOnce'
    <2>1. CASE ~ok
      BY <1>1, <1>2, <1>3, <1>7, <2>1 DEF FifoOnce
    <2>2. CASE ok
      <3>1. /\ Len(sent') = Len(sent) + 1
            /\ \A i \in 1..Len(sent) : sent'[i] = sent[i]
            /\ sent'[Len(sent) + 1] = inHand
        BY <1>1, <1>3, <2>2 DEF TypeOK
      <3>2. ASSUME NEW i \in 1..Len(sent'), NEW j \in 1..Len(sent'), i < j
            PROVE  sent'[i] < sent'[j]
        <4>1. i \in 1..Len(sent)
          BY <1>2, <3>1, <3>2
        <4>2. CASE j = Len(sent) + 1
          BY <1>7, <3>1, <4>1, <4>2
        <4>3. CASE j \in 1..Len(sent)
          BY <1>7, <3>1, <3>2, <4>1, <4>3
        <4>4. QED
          BY <1>2, <3>1, <4>2, <4>3
      <3>3. ASSUME NEW i \in 1..Len(sent')
            PROVE  sent'[i] <= accepted' - Len(msgOutDeque')
        <4>1. CASE i = Len(sent) + 1
          BY <1>1, <1>7, <3>1, <4>1
        <4>2. CASE i \in 1..Len(sent)
          BY <1>1, <1>7, <3>1, <4>2
        <4>3. QED
          BY <1>2, <3>1, <4>1, <4>2
      <3>4. inHand' <= accepted' - Len(msgOutDeque')
        BY <1>1, <1>2, <1>7
      <3>5. QED
        BY <1>1, <3>2, <3>3, <3>4 DEF FifoOnce
    <2>3. QED
      BY <2>1, <2>2
  <1>9. Accounted'
    <2>1. /\ \A m \in MsgIds \ {inHand} : fate'[m] = fate[m]
          /\ fate'[inHand] = IF ok THEN "sent" ELSE "failed"
      BY <1>1, <1>3 DEF TypeOK
    <2>2. Range(sent') = IF ok THEN Range(sent) \cup {inHand} ELSE Range(sent)
      <3>1. sent \in Seq(MsgIds)
        BY <1>1 DEF TypeOK
      <3>2. Range(Append(sent, inHand)) = Range(sent) \cup {inHand}
        BY <1>1, <3>1, RangeAppend
      <3>3. CASE ok
        BY <1>3, <3>2, <3>3
      <3>4. CASE ~ok
        BY <1>3, <3>4
      <3>5. QED
        BY <3>3, <3>4
    <2>3. Range(msgOutDeque') = Range(msgOutDeque) /\ 0 \notin MsgIds
      BY <1>1 DEF MsgIds
    <2>4. QED
      BY <1>1, <2>1, <2>2, <2>3 DEF IInv, Accounted
  <1>10. QED
    BY <1>4, <1>5, <1>6, <1>8, <1>9 DEF IInv

-----------------------------------------------------------------------------
LEMMA NextIInv ==
    ASSUME IInv, [Next]_vars
    PROVE  IInv'
  <1>1. CASE UNCHANGED vars
    <2> USE <1>1 DEF vars, queueVars, flagVars, stateVars, linkVars, runVars,
                     histVars
    <2>1. TypeOK'
      BY DEF IInv, TypeOK
    <2>2. LockInv' /\ HandInv' /\ TakeInv' /\ KeepInv'
      BY DEF IInv, LockInv, HandInv, TakeInv, KeepInv
    <2>3. QueueBound' /\ NewestRetained' /\ FifoOnce' /\ Accounted'
      BY DEF IInv, QueueBound, NewestRetained, FifoOnce, Accounted
    <2>4. QED
      BY <2>1, <2>2, <2>3 DEF IInv
  <1>2. CASE QuietStep
    BY <1>2, QuietStepIInv
  <1>3. ASSUME NEW p \in Producers, SendLock(p) PROVE IInv'
    BY <1>3, SendLockIInv
  <1>4. ASSUME NEW p \in Producers, SendPush(p) PROVE IInv'
    BY <1>4, SendPushIInv
  <1>5. ASSUME NEW c \in Capacities, SetOutDeqCapacity(c) PROVE IInv'
    BY <1>5, SetOutDeqCapacityIInv
  <1>6. CASE RunTake
    BY <1>6, RunTakeIInv
  <1>7. ASSUME NEW ok \in BOOLEAN, RunSend(ok) PROVE IInv'
    BY <1>7, RunSendIInv
  <1>8. QED
    BY <1>1, <1>2, <1>3, <1>4, <1>5, <1>6, <1>7 DEF Next, RunStep, QuietStep

\* The inductive invariant holds in every reachable state.
THEOREM Invariance == Spec => []IInv
  <1>1. Init => IInv
    BY InitIInv
  <1>2. IInv /\ [Next]_vars => IInv'
    BY NextIInv
  <1>3. QED
    BY <1>1, <1>2, PTL DEF Spec

\* Every variable of the client keeps its type, for all constants.
THEOREM TypeCorrect == Spec => []TypeOK
  BY Invariance, PTL DEF IInv

\* However many producers call send(), the deque never holds more than one
\* message above its capacity.
THEOREM QueueIsBounded == Spec => []QueueBound
  BY Invariance, PTL DEF IInv

\* The deque is always the gapless run of the newest accepted messages.
THEOREM QueueHoldsNewest == Spec => []NewestRetained
  BY Invariance, PTL DEF IInv

\* sendToStream() sees each message at most once and in the order of send().
THEOREM SentInOrderOnce == Spec => []FifoOnce
  BY Invariance, PTL DEF IInv

\* Every message ever accepted is in exactly one known place.
THEOREM EveryMessageAccounted == Spec => []Accounted
  BY Invariance, PTL DEF IInv

\* send(), run() and setOutDeqCapacity() keep the deque sound for any number of
\* producers, messages and capacities.
THEOREM QueueAlwaysSound == Spec => []QueueIsSound
  BY TypeCorrect, QueueIsBounded, QueueHoldsNewest, SentInOrderOnce,
     EveryMessageAccounted, PTL DEF QueueIsSound

\* If setOutDeqCapacity() is not called while run() executes, the pop outside
\* the emptiness test never meets an empty deque.
THEOREM PopIsSafe == ~ResetWhileRunning => (Spec => []NoPopFromEmpty)
  <1> SUFFICES ASSUME ~ResetWhileRunning PROVE Spec => []NoPopFromEmpty
    OBVIOUS
  <1>1. IInv => NoPopFromEmpty
    BY DEF IInv, TakeInv, NoPopFromEmpty
  <1>2. QED
    BY <1>1, Invariance, PTL

\* With keepConnect every message is written over a link verified in the same
\* iteration.
THEOREM KeepConnectVerifies == Spec => []SendsVerified
  <1>1. IInv => SendsVerified
    BY DEF IInv, KeepInv, SendsVerified
  <1>2. QED
    BY <1>1, Invariance, PTL

\* The fate of a message, once sent, failed, dropped or cleared, is final.
THEOREM FatesNeverChange == Spec => FatesAreFinal
  <1> DEFINE Final == {"sent", "failed", "dropped", "cleared"}
             Kept == \A m \in MsgIds : fate[m] \in Final => fate'[m] = fate[m]
  <1>1. ASSUME IInv, [Next]_vars PROVE Kept
    <2>1. /\ fate \in [MsgIds -> Fates]
          /\ msgOutDeque \in Seq(MsgIds)
          /\ accepted \in Nat
      BY <1>1 DEF IInv, TypeOK
    <2>2. CASE UNCHANGED fate
      BY <2>2
    <2>3. ASSUME msgOutDeque # <<>>
          PROVE  /\ Head(msgOutDeque) \in MsgIds
                 /\ fate[Head(msgOutDeque)] = "queued"
      <3>1. Head(msgOutDeque) \in MsgIds /\ Head(msgOutDeque) \in Range(msgOutDeque)
        BY <2>1, <2>3 DEF Range
      <3>2. QED
        BY <1>1, <3>1 DEF IInv, Accounted
    <2>4. ASSUME NEW p \in Producers, SendLock(p) PROVE Kept
      <3>1. CASE IsFull
        <4>1. msgOutDeque # <<>>
          BY <1>1, <2>1, <3>1, ConstantsAssumption DEF IsFull, IInv, TypeOK
        <4>2. QED
          BY <2>1, <2>3, <2>4, <3>1, <4>1 DEF SendLock
      <3>2. CASE ~IsFull
        BY <2>2, <2>4, <3>2 DEF SendLock
      <3>3. QED
        BY <3>1, <3>2
    <2>5. ASSUME NEW p \in Producers, SendPush(p) PROVE Kept
      <3>1. accepted < MaxMsgs
        BY <1>1, <2>5, ConstantsAssumption DEF IInv, TypeOK, LockInv, SendPush
      <3>2. accepted + 1 \in MsgIds
        BY <2>1, <3>1, ConstantsAssumption DEF MsgIds
      <3>3. fate[accepted + 1] = "new"
        BY <1>1, <2>1, <3>2 DEF IInv, Accounted
      <3>4. QED
        BY <2>1, <2>5, <3>2, <3>3 DEF SendPush
    <2>6. ASSUME NEW c \in Capacities, SetOutDeqCapacity(c) PROVE Kept
      BY <1>1, <2>6 DEF SetOutDeqCapacity, IInv, Accounted
    <2>7. CASE RunTake
      BY <2>1, <2>2, <2>3, <2>7 DEF RunTake
    <2>8. ASSUME NEW ok \in BOOLEAN, RunSend(ok) PROVE Kept
      <3>1. inHand \in MsgIds
        BY <1>1, <2>8 DEF IInv, TypeOK, HandInv, RunSend, Goto, MsgIds
      <3>2. fate[inHand] = "taken"
        BY <1>1, <3>1 DEF IInv, Accounted
      <3>3. QED
        BY <2>1, <2>8, <3>1, <3>2 DEF RunSend
    <2>9. CASE QuietStep
      BY <2>2, <2>9
      DEF QuietStep, Overdue, GetStatusElapsed, GetStatusStore, StopLocal,
          StopGlobal, LinkBreak, RunStart, RunWhile, RunEnd, RunNeed, RunCheck,
          RunRecheck, RunStatus, RunEmpty, RunRelease, RunCreate, RunAfter,
          histVars
    <2>10. CASE UNCHANGED vars
      BY <2>2, <2>10 DEF vars, histVars
    <2>11. QED
      BY <1>1, <2>4, <2>5, <2>6, <2>7, <2>8, <2>9, <2>10
      DEF Next, RunStep, QuietStep
  <1>2. IInv /\ [Next]_vars => [Kept]_vars
    BY <1>1
  <1>3. QED
    BY <1>2, Invariance, PTL DEF Spec, FatesAreFinal

\* The client implements the lossy FIFO: the initial states map to initial
\* states and every step maps to a step of the buffer or to a stutter.
THEOREM ClientImplementsLossyFifo == Spec => ImplementsLossyFifo
  <1>1. Init => Abstract!Init
    BY DEF Init, Abstract!Init
  <1>2. ASSUME IInv, [Next]_vars PROVE [Abstract!Next]_(Abstract!vars)
    <2> USE DEF Abstract!vars, Abstract!Next
    <2>1. /\ capacityMsgDeque \in Nat /\ accepted \in Nat
          /\ Len(msgOutDeque) \in Nat
      BY <1>2, ConstantsAssumption DEF IInv, TypeOK
    <2>2. CASE UNCHANGED <<msgOutDeque, inHand, sent, accepted, capacityMsgDeque>>
      BY <2>2
    <2>3. ASSUME NEW p \in Producers, SendLock(p)
          PROVE  [Abstract!Next]_(Abstract!vars)
      <3>1. CASE IsFull
        BY <2>3, <3>1 DEF SendLock, IsFull, runVars, Abstract!DropOldest
      <3>2. CASE ~IsFull
        BY <2>2, <2>3, <3>2 DEF SendLock, runVars
      <3>3. QED
        BY <3>1, <3>2
    <2>4. ASSUME NEW p \in Producers, SendPush(p)
          PROVE  [Abstract!Next]_(Abstract!vars)
      <3>1. Len(msgOutDeque) <= capacityMsgDeque
        BY <1>2, <2>4, ConstantsAssumption DEF IInv, TypeOK, LockInv, SendPush
      <3>2. QED
        BY <2>4, <3>1 DEF SendPush, runVars, Abstract!Accept
    <2>5. ASSUME NEW c \in Capacities, SetOutDeqCapacity(c)
          PROVE  [Abstract!Next]_(Abstract!vars)
      BY <2>5 DEF SetOutDeqCapacity, runVars, Abstract!Resize
    <2>6. CASE RunTake
      <3>1. inHand = 0
        BY <1>2, <2>6 DEF IInv, HandInv, RunTake, Goto
      <3>2. CASE msgOutDeque # <<>>
        BY <2>6, <3>1, <3>2 DEF RunTake, Abstract!Take
      <3>3. CASE msgOutDeque = <<>>
        BY <2>2, <2>6, <3>3 DEF RunTake
      <3>4. QED
        BY <3>2, <3>3
    <2>7. ASSUME NEW ok \in BOOLEAN, RunSend(ok)
          PROVE  [Abstract!Next]_(Abstract!vars)
      <3>1. inHand # 0
        BY <1>2, <2>7 DEF IInv, HandInv, RunSend, Goto
      <3>2. CASE ok
        BY <2>7, <3>1, <3>2 DEF RunSend, queueVars, Abstract!Deliver
      <3>3. CASE ~ok
        BY <2>7, <3>1, <3>3 DEF RunSend, queueVars, Abstract!Lose
      <3>4. QED
        BY <3>2, <3>3
    <2>8. CASE QuietStep
      BY <2>2, <2>8
      DEF QuietStep, Overdue, GetStatusElapsed, GetStatusStore, StopLocal,
          StopGlobal, LinkBreak, RunStart, RunWhile, RunEnd, RunNeed, RunCheck,
          RunRecheck, RunStatus, RunEmpty, RunRelease, RunCreate, RunAfter,
          histVars, queueVars, runVars
    <2>9. CASE UNCHANGED vars
      BY <2>2, <2>9 DEF vars, histVars, queueVars, runVars
    <2>10. QED
      BY <1>2, <2>3, <2>4, <2>5, <2>6, <2>7, <2>8, <2>9
      DEF Next, RunStep, QuietStep
  <1>3. IInv /\ [Next]_vars => [Abstract!Next]_(Abstract!vars)
    BY <1>2
  <1>4. QED
    BY <1>1, <1>3, Invariance, PTL DEF Spec, ImplementsLossyFifo, Abstract!Spec
=============================================================================
