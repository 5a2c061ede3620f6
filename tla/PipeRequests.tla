---------------------------- MODULE PipeRequests ----------------------------
(***************************************************************************)
(* The command pipe from a PipeClient to a PipeServer.  sendToStream()     *)
(* writes a frame in two non-blocking write() calls, PrimaryHeader_t and   *)
(* payload; startListen() cuts the byte stream into requests again.        *)
(*                                                                         *)
(* Message m is the m-th one given to sendToStream().  A byte is the pair  *)
(* <<m, i>>, the i-th byte of the frame of m; the first HeadLen bytes are  *)
(* the header, which begins with the magic word and carries the size of    *)
(* the payload.  Payload bytes are assumed not to look like a magic word.  *)
(***************************************************************************)
EXTENDS Integers, Sequences

CONSTANTS
    HeadLen,        \* sizeof(PrimaryHeader_t)
    Sizes,          \* payload sizes the application sends
    InitPipeSize,   \* capacity of a new pipe
    PipeLimit,      \* the largest capacity F_SETPIPE_SZ grants
    PipeBuf,        \* PIPE_BUF: a write of at most this is all or nothing
    MaxMsgs,        \* bound: number of calls of sendToStream()
    MaxCrashes      \* bound: crashes of the client inside sendToStream()

ASSUME ConstantsAssumption ==
    /\ HeadLen \in Nat \ {0}
    /\ Sizes \subseteq Nat
    /\ {InitPipeSize, PipeLimit, PipeBuf, MaxMsgs, MaxCrashes} \subseteq Nat
    /\ HeadLen <= PipeBuf

VARIABLES
    sizes,              \* history: sizes[m] is the payload size of message m
    clientPc,           \* where the client is in sendToStream()
    maxSize,            \* m_cmdPipe.maxSize, the capacity of the pipe
    pipe,               \* bytes written and not yet read
    buf,                \* the bytes at ptrToRead; Len(buf) is shift
    dataSize,           \* primeHead.dataSize; 0 after the memset()
    needReadBytes,      \* bytes the next read asks for
    isPrimeHeadReaded,  \* ptrToRead is msgData (else primeHead)
    serverPc,           \* "reading", or "undefined" after an overrun
    requests,           \* history: what addToIncoming() was given
    frames,             \* history: the messages whose header was written
    cut,                \* history: first index of frames cut short, 0 if none
    crashes             \* number of client crashes so far

clientVars == <<sizes, clientPc, maxSize, frames, cut, crashes>>
serverVars == <<buf, dataSize, needReadBytes, isPrimeHeadReaded, serverPc,
                requests>>
vars == <<clientVars, pipe, serverVars>>

shift == Len(buf)
Space(capacity) == IF Len(pipe) < capacity THEN capacity - Len(pipe) ELSE 0

Bytes(m, first, last) == [i \in 1..(last - first + 1) |-> <<m, first + i - 1>>]
Head_(m) == Bytes(m, 1, HeadLen)
Payload(m) == Bytes(m, HeadLen + 1, HeadLen + sizes[m])

Init ==
    /\ sizes = <<>>
    /\ clientPc = "idle"
    /\ maxSize = InitPipeSize
    /\ frames = <<>>
    /\ cut = 0
    /\ crashes = 0
    /\ pipe = <<>>
    /\ buf = <<>>
    /\ dataSize = 0
    /\ needReadBytes = HeadLen
    /\ isPrimeHeadReaded = FALSE
    /\ serverPc = "reading"
    /\ requests = <<>>

-----------------------------------------------------------------------------
(* PipeClient::sendToStream()                                              *)

\* changeMaxSize(): beyond the limit fcntl() fails and the capacity stays.
ChangeMaxSize(newSize) ==
    maxSize' = IF maxSize < newSize /\ newSize <= PipeLimit THEN newSize
                                                            ELSE maxSize

\* The frame being written ends here; is it the first one cut short?
EndFrame(whole) == cut' = IF whole \/ cut # 0 THEN cut ELSE Len(frames)

\* Lines 144-163.  A header that does not fit is not written at all, and the
\* message is given up.
SendHead(n) ==
    /\ clientPc = "idle"
    /\ Len(sizes) < MaxMsgs
    /\ sizes' = Append(sizes, n)
    /\ ChangeMaxSize(n)
    /\ IF Space(maxSize') >= HeadLen
       THEN /\ pipe' = pipe \o Head_(Len(sizes'))
            /\ frames' = Append(frames, Len(sizes'))
            /\ clientPc' = "payload"
       ELSE UNCHANGED <<pipe, frames, clientPc>>
    /\ UNCHANGED <<cut, crashes, serverVars>>

\* Lines 165-173.  write() puts in what fits, or nothing of a payload of at
\* most PIPE_BUF bytes that does not fit; the header stays in the pipe.
PayloadBytes(n) ==
    IF Space(maxSize) >= n THEN n ELSE IF n <= PipeBuf THEN 0 ELSE Space(maxSize)

SendPayload ==
    LET m == Len(sizes)
        k == PayloadBytes(sizes[m])
    IN  /\ clientPc = "payload"
        /\ clientPc' = "idle"
        /\ pipe' = pipe \o SubSeq(Payload(m), 1, k)
        /\ EndFrame(k = sizes[m])
        /\ UNCHANGED <<sizes, maxSize, frames, crashes, serverVars>>

\* The client process dies between its two writes.
ClientCrash ==
    /\ clientPc = "payload"
    /\ crashes < MaxCrashes
    /\ crashes' = crashes + 1
    /\ clientPc' = "crashed"
    /\ EndFrame(FALSE)
    /\ UNCHANGED <<sizes, maxSize, frames, pipe, serverVars>>

\* A new client opens the pipe, which the server has held open all the time.
ClientRestart ==
    /\ clientPc = "crashed"
    /\ clientPc' = "idle"
    /\ UNCHANGED <<sizes, maxSize, frames, cut, crashes, pipe, serverVars>>

-----------------------------------------------------------------------------
(* PipeServer::startListen(), one iteration that reads something           *)

\* The memory at ptrToRead: primeHead, or the msgData allocated for it.
BufferSize == IF isPrimeHeadReaded THEN dataSize ELSE HeadLen

\* Line 214: timeoutRead() is one read() of at most needReadBytes bytes, at
\* ptrToRead + shift.
ReadLen == IF Len(pipe) < needReadBytes THEN Len(pipe) ELSE needReadBytes

Overrun ==
    /\ shift + ReadLen > BufferSize
    /\ serverPc' = "undefined"
    /\ UNCHANGED <<buf, dataSize, needReadBytes, isPrimeHeadReaded, requests>>

\* Lines 239-256: a block that is not complete is waited for, but the number
\* of bytes asked for stays the same.
PartialBlock(read) ==
    /\ ReadLen # needReadBytes
    /\ buf' = read
    /\ UNCHANGED <<dataSize, needReadBytes, isPrimeHeadReaded, requests>>

\* A version that does not set needReadBytes to the payload's size.
MutHeadBlockNeedNotSet(read) ==
    /\ ReadLen = needReadBytes
    /\ Len(read) = HeadLen /\ ~isPrimeHeadReaded
    /\ read[1][2] = 1
    /\ buf' = <<>>
    /\ isPrimeHeadReaded' = TRUE
    /\ dataSize' = sizes[read[1][1]]
    /\ UNCHANGED <<needReadBytes, requests>>

\* Lines 260-288: the header is complete; with a wrong magic word nothing is
\* reset.
HeadBlock(read) ==
    /\ ReadLen = needReadBytes
    /\ Len(read) = HeadLen /\ needReadBytes <= HeadLen /\ ~isPrimeHeadReaded
    /\ \/ /\ read[1][2] = 1
          /\ buf' = <<>>
          /\ isPrimeHeadReaded' = TRUE
          /\ dataSize' = sizes[read[1][1]]
          /\ needReadBytes' = dataSize'
       \/ /\ read[1][2] # 1
          /\ buf' = read
          /\ UNCHANGED <<dataSize, needReadBytes, isPrimeHeadReaded>>
    /\ UNCHANGED requests

\* A version that does not set needReadBytes back to the header's size.
MutPayloadBlockNoReset(read) ==
    /\ ReadLen = needReadBytes
    /\ isPrimeHeadReaded
    /\ Len(read) = dataSize
    /\ requests' = Append(requests, read)
    /\ buf' = <<>>
    /\ dataSize' = 0
    /\ isPrimeHeadReaded' = FALSE
    /\ UNCHANGED needReadBytes

\* Lines 290-303: the payload is complete and becomes a request.
PayloadBlock(read) ==
    /\ ReadLen = needReadBytes
    /\ isPrimeHeadReaded
    /\ Len(read) = dataSize
    /\ requests' = Append(requests, read)
    /\ buf' = <<>>
    /\ dataSize' = 0
    /\ isPrimeHeadReaded' = FALSE
    /\ needReadBytes' = HeadLen

\* A complete block is always one of the two: after an incomplete read the
\* next complete one overruns the buffer.  Without a writer timeoutRead() only
\* sees POLLHUP and reads nothing.
Listen ==
    /\ serverPc = "reading"
    /\ clientPc # "crashed"
    /\ ReadLen > 0
    /\ pipe' = SubSeq(pipe, ReadLen + 1, Len(pipe))
    /\ \/ Overrun
       \/ LET read == buf \o SubSeq(pipe, 1, ReadLen)
          IN  /\ Len(read) <= BufferSize
              /\ PartialBlock(read) \/ HeadBlock(read) \/ PayloadBlock(read)
              /\ UNCHANGED serverPc
    /\ UNCHANGED clientVars

Next ==
    \/ \E n \in Sizes : SendHead(n)
    \/ SendPayload \/ ClientCrash \/ ClientRestart \/ Listen

Spec == Init /\ [][Next]_vars

\* Both threads are scheduled: the client finishes the call it is in, and the
\* listener reads what is there.
LiveSpec == Spec /\ WF_vars(SendPayload) /\ WF_vars(Listen)

-----------------------------------------------------------------------------
(* Properties                                                              *)

Byte == (1..MaxMsgs) \X (Nat \ {0})

TypeOK ==
    /\ sizes \in Seq(Sizes)
    /\ clientPc \in {"idle", "payload", "crashed"}
    /\ maxSize \in Nat
    /\ frames \in Seq(1..MaxMsgs)
    /\ cut \in 0..Len(frames)
    /\ crashes \in 0..MaxCrashes
    /\ pipe \in Seq(Byte)
    /\ Len(pipe) <= maxSize
    /\ buf \in Seq(Byte)
    /\ dataSize \in Sizes \cup {0}
    /\ needReadBytes \in Sizes \cup {HeadLen}
    /\ isPrimeHeadReaded \in BOOLEAN
    /\ serverPc \in {"reading", "undefined"}
    /\ requests \in Seq(Seq(Byte))

Whole(i) == cut = 0 \/ i < cut

\* A frame cut short (a full pipe, a crash of the client) damages nothing that
\* was written before it: those requests are the payloads, one by one.
IntactBeforeCut ==
    \A i \in 1..Len(requests) :
        Whole(i) => i <= Len(frames) /\ requests[i] = Payload(frames[i])

FrameLen(m) == HeadLen + sizes[m]

\* The bytes of the frames that were not handed over: what startListen() has read of
\* the first one, what the pipe holds, and what the client is about to write.
HeadRead == IF isPrimeHeadReaded THEN Head_(frames[Len(requests) + 1]) ELSE <<>>
Unwritten == IF clientPc = "payload" THEN Payload(Len(sizes)) ELSE <<>>
Arrived == HeadRead \o buf \o pipe
Pending == Arrived \o Unwritten

\* Byte c is the next one of b's frame, or, if that one ends, the first of the next.
Follows(b, c) ==
    IF b[2] < FrameLen(b[1])
    THEN c = <<b[1], b[2] + 1>>
    ELSE \E f \in 1..(Len(frames) - 1) : frames[f] = b[1] /\ c = <<frames[f + 1], 1>>

\* As long as no frame was cut short startListen() is in step with the client:
\* the pending bytes are, from the first to the last and without a gap, those of
\* the frames not handed over yet, and it has not read past its buffer.
InStep ==
    cut = 0 =>
        /\ serverPc = "reading"
        /\ Pending = <<>> <=> Len(requests) = Len(frames)
        /\ Pending # <<>> =>
              /\ Pending[1] = <<frames[Len(requests) + 1], 1>>
              /\ LET m == frames[Len(frames)]
                 IN  Pending[Len(Pending)] = <<m, FrameLen(m)>>
        /\ \A i \in 1..(Len(Pending) - 1) : Follows(Pending[i], Pending[i + 1])

\* The frames of sendToStream() come out of startListen() as they went in, up to
\* the first cut, and nothing in between is lost, doubled or out of place.
FramesHold == TypeOK /\ IntactBeforeCut /\ InStep

\* A message that is not empty and was written whole, before any cut, becomes a
\* request: neither a full pipe nor later damage makes the listener miss it,
\* as long as some client holds the pipe open.
WrittenArrives ==
    \A i \in 1..MaxMsgs :
        (i <= Len(frames) /\ sizes[frames[i]] > 0 /\ Whole(i))
            ~> (i <= Len(requests) \/ ~Whole(i) \/ clientPc = "crashed")
=============================================================================
