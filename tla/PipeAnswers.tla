----------------------------- MODULE PipeAnswers -----------------------------
(***************************************************************************)
(* The session between a PipeServer and a PipeClient, and the data pipe    *)
(* on which sendAnswer() answers and readAnswer() listens.                 *)
(*                                                                         *)
(* Server process: createConnection() makes and opens the command pipe and *)
(* then the data pipe; sendAnswer() writes a frame with one blocking       *)
(* write(); releaseConnection() or a crash ends it.  Client process: the   *)
(* thread of run() checks, releases and creates the connection, and an     *)
(* application thread calls readAnswer(); they share m_dataPipe without a  *)
(* lock.                                                                   *)
(*                                                                         *)
(* Each start of the server makes new files: pipes are named by the number *)
(* of the start.  Message m is the m-th one given to sendAnswer(), a byte  *)
(* is <<m, i>>, and the first HeadLen bytes of a frame are its             *)
(* PrimaryHeader_t.  Payload bytes are assumed not to look like a header.  *)
(***************************************************************************)
EXTENDS Integers, Sequences

CONSTANTS
    HeadLen,        \* sizeof(PrimaryHeader_t)
    Sizes,          \* <<sizeHead, sizeData>> of the answers
    StdinEvents,    \* what poll() may report on the standard input
    BufSizes,       \* sizeData given to readAnswer(); 0 stands for nullptr
    InitPipeSize,   \* capacity of a new pipe
    PipeLimit,      \* the largest capacity F_SETPIPE_SZ grants
    PipeBuf,        \* PIPE_BUF: a write of at most this is not divided
    MaxMsgs,        \* bound: calls of sendAnswer()
    MaxGens         \* bound: starts of the server

ASSUME ConstantsAssumption ==
    /\ HeadLen \in Nat \ {0}
    /\ Sizes \subseteq Nat \X Nat
    /\ BufSizes \subseteq Nat
    /\ StdinEvents \subseteq {"in", "hup", "timeout"} /\ StdinEvents # {}
    /\ {InitPipeSize, PipeLimit, PipeBuf, MaxMsgs, MaxGens} \subseteq Nat
    /\ PipeBuf <= InitPipeSize

VARIABLES
    file,       \* file[p]: the pipe the path of p names, 0 if there is no file
    gen,        \* number of the server's latest start
    phase,      \* what the server is doing
    link,       \* the pipe ("cmd" or "data") phase is about
    maxSize,    \* m_dataPipe.maxSize of the server
    sizes,      \* history: sizes[m] is <<sizeHead, sizeData>> of message m
    out,        \* bytes the current write() has still to place
    pipe,       \* pipe[g]: bytes in data pipe g
    fd,         \* client: fd[p] is a pipe, 0 (closed) or -1 (open() failed)
    isOpen,     \* client: isOpen[p]
    hears,      \* data pipe had a writer since the client opened it
    runPc,      \* client: where run() is
    readPc,     \* client: where readAnswer() is
    event,      \* client: what poll() reported
    room,       \* client: sizeData of the call
    inHand,     \* client: message whose header this call has read, or 0
    sameOpen,   \* history: run() did not reopen the data pipe in this call
    answer,     \* history: the latest answer readAnswer() returned
    newest,     \* history: the latest message returned before it
    owed,       \* history: messages the reader should still return, in order
    slipped     \* history: the reader lost its place in the current data pipe

serverVars == <<gen, phase, link, maxSize, sizes, out>>
runVars == <<fd, hears, runPc>>
answerVars == <<answer, newest>>
readVars == <<readPc, event, room, inHand, answerVars>>
placeVars == <<owed, slipped>>
vars == <<file, serverVars, pipe, runVars, isOpen, readVars, sameOpen, placeVars>>

Pipes == {"cmd", "data"}

Bytes(m, first, last) == [i \in 1..(last - first + 1) |-> <<m, first + i - 1>>]
Total(m) == sizes[m][1] + sizes[m][2]
Payload(m) == Bytes(m, HeadLen + 1, HeadLen + Total(m))

\* Does the server hold pipe p of its latest start open?
Serves(p) ==
    IF p = "cmd" THEN link = "data" \/ phase = "close"
                 ELSE phase \in {"up", "write"} \/ (phase = "close" /\ link = "data")

Init ==
    /\ file = [p \in Pipes |-> 0]
    /\ gen = 0 /\ phase = "down" /\ link = "cmd"
    /\ maxSize = 0
    /\ sizes = <<>> /\ out = <<>>
    /\ pipe = [g \in 1..MaxGens |-> <<>>]
    /\ fd = [p \in Pipes |-> -1]
    /\ isOpen = [p \in Pipes |-> FALSE]
    /\ hears = FALSE
    /\ runPc = "openData"        \* the constructor calls createConnection()
    /\ readPc = "idle" /\ event = "none" /\ room = 0 /\ inHand = 0
    /\ sameOpen = TRUE
    /\ answer = [msg |-> 0, bytes |-> <<>>, sameOpen |-> FALSE] /\ newest = 0
    /\ owed = <<>> /\ slipped = FALSE

-----------------------------------------------------------------------------
(* The server                                                              *)

\* The process starts and enters createConnection().
Start ==
    /\ phase = "down" /\ gen < MaxGens
    /\ gen' = gen + 1
    /\ phase' = "remove"
    /\ owed' = <<>> /\ slipped' = FALSE
    /\ UNCHANGED <<file, link, maxSize, sizes, out, pipe, runVars, isOpen,
                   readVars, sameOpen>>

\* createPipeFile(): a file left by an earlier start is removed.
RemoveFile ==
    /\ phase = "remove"
    /\ phase' = "mkfifo"
    /\ file' = [file EXCEPT ![link] = 0]
    /\ UNCHANGED <<gen, link, maxSize, sizes, out, pipe, runVars, isOpen,
                   readVars, sameOpen, placeVars>>

MakeFile ==
    /\ phase = "mkfifo"
    /\ phase' = "open"
    /\ file' = [file EXCEPT ![link] = gen]
    /\ UNCHANGED <<gen, link, maxSize, sizes, out, pipe, runVars, isOpen,
                   readVars, sameOpen, placeVars>>

\* openPipeFile(); after the data pipe createConnection() is done.
OpenFile ==
    /\ phase = "open"
    /\ \/ link = "cmd" /\ link' = "data" /\ phase' = "remove"
          /\ UNCHANGED <<maxSize, hears>>
       \/ link = "data" /\ phase' = "up" /\ UNCHANGED link
          /\ maxSize' = InitPipeSize
          /\ hears' = (hears \/ fd["data"] = gen)
    /\ UNCHANGED <<file, gen, sizes, out, pipe, fd, runPc, isOpen, readVars,
                   sameOpen, placeVars>>

\* sendAnswer(): the pipe is enlarged for large data, and one write() of the
\* whole frame begins.
Grow(d) == IF maxSize < 2 * d /\ 2 * d <= PipeLimit THEN 2 * d ELSE maxSize

SendAnswer(s) ==
    /\ phase = "up"
    /\ Len(sizes) < MaxMsgs
    /\ phase' = "write"
    /\ sizes' = Append(sizes, s)
    /\ maxSize' = Grow(s[2])
    /\ out' = Bytes(Len(sizes'), 1, HeadLen + s[1] + s[2])
    /\ owed' = IF slipped THEN owed ELSE Append(owed, Len(sizes'))
    /\ UNCHANGED <<file, gen, link, pipe, runVars, isOpen, readVars, sameOpen,
                   slipped>>

\* The blocking write() places what fits, and a small frame only as a whole;
\* it returns when everything is placed.  The server holds the read end itself
\* (O_RDWR), so that a missing client is no error.
Write ==
    LET space == maxSize - Len(pipe[gen])
        k == IF Len(out) <= space THEN Len(out) ELSE space
    IN  /\ phase = "write"
        /\ k > 0
        /\ k < Len(out) => HeadLen + Total(Len(sizes)) > PipeBuf
        /\ pipe' = [pipe EXCEPT ![gen] = @ \o SubSeq(out, 1, k)]
        /\ out' = SubSeq(out, k + 1, Len(out))
        /\ phase' = IF out' = <<>> THEN "up" ELSE "write"
        /\ UNCHANGED <<file, gen, link, maxSize, sizes, runVars, isOpen, readVars,
                       sameOpen, placeVars>>

\* A pipe that neither side holds open loses its content.
Forget(g) == pipe' = [pipe EXCEPT ![g] = IF fd["data"] = g THEN @ ELSE <<>>]

Release ==
    /\ phase = "up"
    /\ phase' = "close"
    /\ UNCHANGED <<file, gen, link, maxSize, sizes, out, pipe, runVars, isOpen,
                   readVars, sameOpen, placeVars>>

\* releasePipeLink(), first for the data pipe and then for the command pipe.
CloseFile ==
    /\ phase = "close"
    /\ phase' = "unlink"
    /\ IF link = "data" THEN Forget(gen) ELSE UNCHANGED pipe
    /\ owed' = <<>>
    /\ UNCHANGED <<file, gen, link, maxSize, sizes, out, runVars, isOpen, readVars,
                   sameOpen, slipped>>

UnlinkFile ==
    /\ phase = "unlink"
    /\ file' = [file EXCEPT ![link] = 0]
    /\ phase' = IF link = "data" THEN "close" ELSE "down"
    /\ link' = "cmd"
    /\ UNCHANGED <<gen, maxSize, sizes, out, pipe, runVars, isOpen, readVars,
                   sameOpen, placeVars>>

\* The process dies: its descriptors are closed, its files stay.
Crash ==
    /\ phase # "down"
    /\ phase' = "down" /\ link' = "cmd" /\ out' = <<>>
    /\ Forget(gen)
    /\ owed' = <<>>
    /\ UNCHANGED <<file, gen, maxSize, sizes, runVars, isOpen, readVars, sameOpen,
                   slipped>>

-----------------------------------------------------------------------------
(* The client's run(), which keeps the connection                          *)

checkConnection == \A p \in Pipes : fd[p] > 0 /\ isOpen[p]

Check ==
    /\ runPc = "check"
    /\ ~checkConnection
    /\ runPc' = "closeData"
    /\ UNCHANGED <<file, serverVars, pipe, fd, isOpen, hears, readVars, sameOpen,
                   placeVars>>

\* A version that leaves the descriptor open.
MutClosePipeFile(p, next) ==
    /\ runPc' = next
    /\ isOpen' = IF fd[p] # 0 THEN [isOpen EXCEPT ![p] = FALSE] ELSE isOpen
    /\ fd' = IF fd[p] = -1 THEN [fd EXCEPT ![p] = 0] ELSE fd

\* closePipeFile(p): closing the descriptor of a failed open() is an error that
\* ends releaseConnection(), and run() starts again.
ClosePipeFile(p, next) ==
    /\ runPc' = IF fd[p] = -1 THEN "check" ELSE next
    /\ isOpen' = IF fd[p] # 0 THEN [isOpen EXCEPT ![p] = FALSE] ELSE isOpen
    /\ fd' = [fd EXCEPT ![p] = 0]

CloseData ==
    /\ runPc = "closeData"
    /\ ClosePipeFile("data", "closeCmd")
    /\ pipe' = [g \in DOMAIN pipe |->
                    IF g = fd["data"] /\ ~(g = gen /\ Serves("data")) THEN <<>>
                                                                      ELSE pipe[g]]
    /\ hears' = FALSE
    /\ UNCHANGED <<file, serverVars, readVars, sameOpen, placeVars>>

CloseCmd ==
    /\ runPc = "closeCmd"
    /\ ClosePipeFile("cmd", "openData")
    /\ UNCHANGED <<file, serverVars, pipe, hears, readVars, sameOpen, placeVars>>

\* openPipeFile(p), which needs a file, and for the command pipe a reader.
OpenPipeFile(p, ok, next) ==
    /\ fd' = [fd EXCEPT ![p] = IF ok THEN file[p] ELSE -1]
    /\ isOpen' = IF ok THEN [isOpen EXCEPT ![p] = TRUE] ELSE isOpen
    /\ runPc' = IF ok THEN next ELSE "check"

OpenData ==
    /\ runPc = "openData"
    /\ OpenPipeFile("data", file["data"] # 0, "openCmd")
    /\ hears' = (file["data"] = gen /\ Serves("data"))
    /\ sameOpen' = (readPc = "idle")
    /\ UNCHANGED <<file, serverVars, pipe, readVars, placeVars>>

OpenCmd ==
    /\ runPc = "openCmd"
    /\ OpenPipeFile("cmd", file["cmd"] # 0 /\ file["cmd"] = gen /\ Serves("cmd"),
                    "check")
    /\ UNCHANGED <<file, serverVars, pipe, hears, readVars, sameOpen, placeVars>>

-----------------------------------------------------------------------------
(* PipeClient::readAnswer() and PipeTransportKit::timeoutRead()            *)

\* The end of a call that consumed part of a frame (slip) or not.  The reader is
\* in step again once it has emptied the pipe between two frames.
Return(slip, got) ==
    /\ readPc' = "idle"
    /\ event' = "none" /\ room' = 0 /\ inHand' = 0 /\ sameOpen' = TRUE
    /\ IF got = <<>> THEN UNCHANGED answerVars
       ELSE /\ answer' = got[1]
            /\ newest' = IF newest < answer.msg THEN answer.msg ELSE newest
    /\ slipped' = /\ slipped \/ slip
                  /\ ~(phase = "up" /\ pipe'[gen] = <<>>)
    /\ owed' = IF slipped \/ slip THEN <<>>
               ELSE IF got # <<>> /\ owed # <<>> /\ Head(owed) = inHand THEN Tail(owed)
               ELSE owed

Answer(bytes) == <<[msg |-> inHand, bytes |-> bytes, sameOpen |-> sameOpen]>>

\* timeoutRead() ends without a byte, which is all that an empty answer asks for.
NoBytes ==
    IF readPc = "payload" /\ Total(inHand) = 0
    THEN Return(FALSE, Answer(<<>>))
    ELSE Return(readPc = "payload", <<>>)

\* A version that does not hear the hang-up.
MutPolled ==
    IF fd["data"] = 0 THEN StdinEvents
    ELSE IF fd["data"] = -1 \/ pipe[fd["data"]] = <<>> THEN {"timeout"}
    ELSE {"in"}

\* poll() on the descriptor of this moment.  Descriptor 0, which closePipeFile()
\* leaves behind, is the standard input; -1 is ignored by poll().
Polled ==
    IF fd["data"] = 0 THEN StdinEvents
    ELSE IF fd["data"] = -1 THEN {"timeout"}
    ELSE IF hears /\ ~(fd["data"] = gen /\ Serves("data")) THEN {"hup"}
    ELSE IF pipe[fd["data"]] = <<>> THEN {"timeout"}
    ELSE {"in"}

ReadAnswer(b) ==
    /\ readPc = "idle"
    /\ readPc' = "head"
    /\ room' = b
    /\ UNCHANGED <<file, serverVars, pipe, runVars, isOpen, event, inHand, answerVars,
                   sameOpen, placeVars>>

\* A version that waits again after each time-out.
MutPoll ==
    /\ readPc \in {"head", "payload"} /\ event = "none"
    /\ \/ event' \in Polled \ {"timeout"}
       \/ "timeout" \in Polled /\ UNCHANGED event
    /\ UNCHANGED <<readPc, room, inHand, sameOpen, answerVars, placeVars, pipe>>
    /\ UNCHANGED <<file, serverVars, runVars, isOpen>>

Poll ==
    /\ readPc \in {"head", "payload"} /\ event = "none"
    /\ \/ /\ event' \in Polled \ {"timeout"}
          /\ UNCHANGED <<readPc, room, inHand, sameOpen, answerVars, placeVars, pipe>>
       \/ /\ "timeout" \in Polled
          /\ UNCHANGED pipe
          /\ NoBytes
    /\ UNCHANGED <<file, serverVars, runVars, isOpen>>

\* The writer is gone, or run() has closed the pipe since poll().
Disconnected ==
    /\ event = "hup" \/ (event = "in" /\ fd["data"] <= 0)
    /\ isOpen' = [isOpen EXCEPT !["data"] = FALSE]
    /\ UNCHANGED pipe
    /\ NoBytes
    /\ UNCHANGED <<file, serverVars, runVars>>

\* read() on the descriptor of this moment, after poll() reported data: run() may
\* have reopened the pipe, and then it may be empty.  Without a writer that is
\* the end of file, and poll() is called again; so it is after a read of no bytes.
ReadEmpty ==
    /\ event = "in" /\ fd["data"] > 0
    /\ \/ readPc = "payload" /\ Total(inHand) = 0
       \/ pipe[fd["data"]] = <<>>
    /\ UNCHANGED pipe
    /\ IF \/ readPc = "payload" /\ Total(inHand) = 0
          \/ ~(fd["data"] = gen /\ Serves("data"))
       THEN /\ event' = "none"
            /\ UNCHANGED <<readPc, room, inHand, sameOpen, answerVars, placeVars>>
       ELSE Return(readPc = "payload", <<>>)
    /\ UNCHANGED <<file, serverVars, runVars, isOpen>>

\* The first read() that returns bytes ends timeoutRead(), also with too few.
Take(n) ==
    /\ event = "in" /\ fd["data"] > 0
    /\ pipe[fd["data"]] # <<>>
    /\ pipe' = [pipe EXCEPT ![fd["data"]] = SubSeq(@, n + 1, Len(@))]
    /\ isOpen' = [isOpen EXCEPT !["data"] = TRUE]

Available(n) == IF Len(pipe[fd["data"]]) < n THEN Len(pipe[fd["data"]]) ELSE n

\* Lines 40-73: a header that is short or broken, or whose payload does not fit
\* the caller's buffer, ends the call; the payload stays in the pipe.
ReadHead ==
    LET n == Available(HeadLen)
        m == pipe[fd["data"]][1][1]
        valid == n = HeadLen /\ pipe[fd["data"]][1][2] = 1
    IN  /\ readPc = "head"
        /\ Take(n)
        /\ IF valid /\ (room = 0 \/ room >= Total(m))
           THEN /\ readPc' = "payload" /\ inHand' = m /\ event' = "none"
                /\ UNCHANGED <<room, sameOpen, answerVars, placeVars>>
           ELSE Return(TRUE, <<>>)
        /\ UNCHANGED <<file, serverVars, runVars>>

\* A version that takes what one read() gives for the payload.
MutReadPayload ==
    LET n == Available(Total(inHand))
    IN  /\ readPc = "payload" /\ Total(inHand) > 0
        /\ Take(n)
        /\ Return(~sameOpen, Answer(SubSeq(pipe[fd["data"]], 1, n)))
        /\ UNCHANGED <<file, serverVars, runVars>>

\* Lines 75-88: the payload must come with one read().
ReadPayload ==
    LET n == Available(Total(inHand))
    IN  /\ readPc = "payload" /\ Total(inHand) > 0
        /\ Take(n)
        /\ IF n = Total(inHand)
           THEN Return(~sameOpen, Answer(SubSeq(pipe[fd["data"]], 1, n)))
           ELSE Return(TRUE, <<>>)
        /\ UNCHANGED <<file, serverVars, runVars>>

-----------------------------------------------------------------------------
Starting == Start \/ RemoveFile \/ MakeFile \/ OpenFile
Stopping == Release \/ CloseFile \/ UnlinkFile
Run == Check \/ CloseData \/ CloseCmd \/ OpenData \/ OpenCmd
Read == Poll \/ Disconnected \/ ReadEmpty \/ ReadHead \/ ReadPayload

Next ==
    \/ Starting \/ Stopping \/ Crash
    \/ \E s \in Sizes : SendAnswer(s)
    \/ Write
    \/ Run
    \/ \E b \in BufSizes : ReadAnswer(b)
    \/ Read

Spec == Init /\ [][Next]_vars

\* Every thread is scheduled, write() completes when there is room, and the
\* application keeps calling readAnswer().  The server may stop or crash as often
\* as the bound allows, and nobody has to stop it.
LiveSpec ==
    /\ Spec
    /\ WF_vars(Starting) /\ WF_vars(Write) /\ WF_vars(Run)
    /\ WF_vars(Read \/ \E b \in BufSizes : ReadAnswer(b))

-----------------------------------------------------------------------------
(* Properties                                                              *)

Byte == (1..MaxMsgs) \X (Nat \ {0})

TypeOK ==
    /\ file \in [Pipes -> 0..MaxGens]
    /\ gen \in 0..MaxGens
    /\ phase \in {"down", "remove", "mkfifo", "open", "up", "write", "close", "unlink"}
    /\ link \in Pipes
    /\ maxSize \in Nat
    /\ sizes \in Seq(Sizes)
    /\ out \in Seq(Byte)
    /\ pipe \in [1..MaxGens -> Seq(Byte)]
    /\ \A g \in 1..MaxGens : Len(pipe[g]) <= InitPipeSize \/ Len(pipe[g]) <= PipeLimit
    /\ fd \in [Pipes -> -1..MaxGens]
    /\ isOpen \in [Pipes -> BOOLEAN]
    /\ hears \in BOOLEAN
    /\ runPc \in {"check", "closeData", "closeCmd", "openData", "openCmd"}
    /\ readPc \in {"idle", "head", "payload"}
    /\ event \in {"none", "in", "hup"}
    /\ room \in BufSizes \cup {0}
    /\ inHand \in 0..Len(sizes)
    /\ sameOpen \in BOOLEAN
    /\ answer \in [msg : 0..MaxMsgs, bytes : Seq(Byte), sameOpen : BOOLEAN]
    /\ newest \in 0..MaxMsgs
    /\ owed \in Seq(1..MaxMsgs)
    /\ slipped \in BOOLEAN

\* Whatever small buffers, time-outs, slow writes, crashes and reconnections the
\* reader goes through, an answer that readAnswer() returns is the whole payload
\* of one sendAnswer(), and each is returned once, in the order of sending --
\* provided run() did not reopen the data pipe in the middle of the call.
AnswersIntact ==
    answer.sameOpen => /\ answer.bytes = Payload(answer.msg)
                       /\ newest < answer.msg

FrameLen(m) == HeadLen + Total(m)

\* b comes after a, in the same frame or as the first byte of the next message.
Follows(a, b) ==
    b = IF a[2] < FrameLen(a[1]) THEN <<a[1], a[2] + 1>> ELSE <<a[1] + 1, 1>>

\* The bytes of the answers that are owed: the header readAnswer() has in hand, what
\* the pipe holds, and what sendAnswer() is about to write.
HeadRead == inHand # 0 /\ owed # <<>> /\ Head(owed) = inHand
Unread == (IF HeadRead THEN Bytes(inHand, 1, HeadLen) ELSE <<>>) \o pipe[gen] \o out

\* A reader that lost its place (too small a buffer, half an answer at the end of
\* the wait) finds it again as soon as it has emptied the pipe: from then on every
\* answer, up to the latest, is still to be read, and the unread bytes are, from the
\* first to the last and without a gap, the frames of these answers.
InStep ==
    (~slipped /\ Serves("data")) =>
        /\ \A i \in 1..Len(owed) : owed[i] = (Len(sizes) - Len(owed)) + i
        /\ Unread = <<>> <=> owed = <<>>
        /\ Unread # <<>> =>
              /\ Unread[1] = <<Head(owed), 1>>
              /\ Unread[Len(Unread)] = <<Len(sizes), FrameLen(Len(sizes))>>
        /\ \A i \in 1..(Len(Unread) - 1) : Follows(Unread[i], Unread[i + 1])

\* readAnswer() returns whole answers, in order, and finds its place again.
AnswersHold == TypeOK /\ AnswersIntact /\ InStep

\* run() never opens a pipe over a descriptor that is still open.
NoDescriptorLost ==
    [][\A p \in Pipes : fd'[p] # fd[p] => fd[p] <= 0 \/ fd'[p] <= 0]_vars

Attached == \A p \in Pipes : fd[p] = gen /\ isOpen[p]

\* The client holds a data pipe that had no writer when it was opened and was
\* replaced: poll() never reports anything on it.
Orphan == fd["data"] > 0 /\ ~hears

\* When the server stays up, a client that keeps reading answers ends up with
\* both of the server's pipes, after any crashes and restarts before -- unless it
\* opened the old data file between the server's two initPipeLink() calls.
Reconnects ==
    (<>[](phase \in {"up", "write"})) => <>[](Attached \/ Orphan)

\* readAnswer() waits for the no bytes of an empty answer, and finds the pipe
\* readable again and again while another answer is in it.
Spinning == inHand # 0 /\ Total(inHand) = 0

\* sendAnswer() is not held up for ever by a full pipe while a client reads it,
\* unless the client is caught by an empty answer.
SendReturns == phase = "write" ~> (phase # "write" \/ ~Attached \/ Spinning)

\* readAnswer() of a connected client returns, unless an empty answer is followed
\* by another one.
ReadReturns == readPc # "idle" ~> (readPc = "idle" \/ ~Attached \/ Spinning)

\* Neither sendAnswer() nor readAnswer() is held up for ever by the other.
CallsReturn == SendReturns /\ ReadReturns
=============================================================================
