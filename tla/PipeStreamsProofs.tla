--------------------------- MODULE PipeStreamsProofs ---------------------------
(* PipeAnswers, the bytes between sendAnswer() and readAnswer(): the parts of the
   inductive invariant AnswersInv, that every step keeps the types and the session,
   and what each step does to the stream of bytes in a pipe.  PipeAnswersProofs
   has the rest of the invariant and the theorems.                                *)
EXTENDS PipeAnswers, TLAPS

--------------------------------------------------------------------------------
(* PipeAnswers: run() never opens a pipe over a descriptor it has not closed. *)

\* When run() opens a pipe it has closed the one before it.
ClosedBeforeOpen ==
    /\ runPc = "closeCmd" => fd["data"] <= 0
    /\ runPc = "openData" => fd["data"] <= 0 /\ fd["cmd"] <= 0
    /\ runPc = "openCmd" => fd["cmd"] <= 0

DescriptorInv ==
    /\ fd \in [Pipes -> Int]
    /\ file \in [Pipes -> Nat]
    /\ gen \in Nat
    /\ ClosedBeforeOpen

\* The invariant holds in the constructor, before createConnection().
LEMMA InitInv == Init => DescriptorInv
BY DEF Init, DescriptorInv, ClosedBeforeOpen, Pipes

\* The steps of the server and of readAnswer() leave the descriptors and run() alone.
LEMMA OtherSteps ==
    ASSUME Next, ~Run
    PROVE  UNCHANGED <<fd, runPc>>
<1>1. CASE Starting
  BY <1>1 DEF Starting, Start, RemoveFile, MakeFile, OpenFile, runVars
<1>2. CASE Stopping \/ Crash
  BY <1>2 DEF Stopping, Release, CloseFile, UnlinkFile, Crash, runVars
<1>3. CASE Write \/ \E s \in Sizes : SendAnswer(s)
  BY <1>3 DEF Write, SendAnswer, runVars
<1>4. CASE \E b \in BufSizes : ReadAnswer(b)
  BY <1>4 DEF ReadAnswer, runVars
<1>5. CASE Read
  BY <1>5, Zenon DEF Read, Poll, Disconnected, ReadEmpty, ReadHead, ReadPayload, runVars
<1> QED BY <1>1, <1>2, <1>3, <1>4, <1>5 DEF Next

\* The files are made by the server only.
LEMMA FileSteps ==
    ASSUME DescriptorInv, [Next]_vars
    PROVE  file' \in [Pipes -> Nat] /\ gen' \in Nat
<1> USE DEF DescriptorInv
<1>1. CASE Starting
  BY <1>1 DEF Starting, Start, RemoveFile, MakeFile, OpenFile
<1>2. CASE Stopping \/ Crash
  BY <1>2 DEF Stopping, Release, CloseFile, UnlinkFile, Crash
<1>3. CASE Write \/ \E s \in Sizes : SendAnswer(s)
  BY <1>3 DEF Write, SendAnswer
<1>4. CASE \E b \in BufSizes : ReadAnswer(b)
  BY <1>4 DEF ReadAnswer, serverVars
<1>5. CASE Read
  BY <1>5, Zenon DEF Read, Poll, Disconnected, ReadEmpty, ReadHead, ReadPayload, serverVars
<1>6. CASE Run
  BY <1>6 DEF Run, Check, CloseData, CloseCmd, OpenData, OpenCmd, serverVars
<1>7. CASE UNCHANGED vars
  BY <1>7 DEF vars, serverVars
<1> QED BY <1>1, <1>2, <1>3, <1>4, <1>5, <1>6, <1>7 DEF Next

\* What a step does to the descriptors: run() moves on, and changes only one that is
\* closed, or closes it.
DescriptorStep ==
    /\ fd' \in [Pipes -> Int] /\ ClosedBeforeOpen'
    /\ \A p \in Pipes : fd'[p] # fd[p] => fd[p] <= 0 \/ fd'[p] <= 0

\* Each step of run() does that.
LEMMA RunSteps ==
    ASSUME DescriptorInv, Run
    PROVE  DescriptorStep
<1> USE DEF DescriptorInv, DescriptorStep, ClosedBeforeOpen, Pipes
<1>1. CASE Check
  BY <1>1 DEF Check
<1>2. CASE CloseData
  BY <1>2 DEF CloseData, ClosePipeFile
<1>3. CASE CloseCmd
  <2>1. ASSUME fd["data"] <= 0 PROVE DescriptorStep
    BY <1>3, <2>1 DEF CloseCmd, ClosePipeFile
  <2> QED BY <1>3, <2>1 DEF CloseCmd
<1>4. CASE OpenData
  BY <1>4 DEF OpenData, OpenPipeFile
<1>5. CASE OpenCmd
  BY <1>5 DEF OpenCmd, OpenPipeFile
<1> QED BY <1>1, <1>2, <1>3, <1>4, <1>5 DEF Run

\* Every step keeps the invariant and the descriptors.
LEMMA StepInv ==
    ASSUME DescriptorInv, [Next]_vars
    PROVE  DescriptorInv' /\ DescriptorStep
<1>1. CASE Run
  BY <1>1, RunSteps, FileSteps DEF DescriptorInv, DescriptorStep
<1>2. CASE UNCHANGED <<fd, runPc>>
  BY <1>2, FileSteps DEF DescriptorInv, DescriptorStep, ClosedBeforeOpen
<1>3. CASE UNCHANGED vars
  BY <1>2, <1>3 DEF vars, runVars
<1> QED BY <1>1, <1>2, <1>3, OtherSteps

\* However often the server stops, crashes and starts again, run() never forgets a
\* descriptor that is open (PipeClient::openPipeFile(), closePipeFile()).
THEOREM DescriptorsAreKept == Spec => NoDescriptorLost
<1>1. DescriptorInv /\ [Next]_vars => DescriptorInv'
  BY StepInv
<1>2. DescriptorInv /\ [Next]_vars =>
        [\A p \in Pipes : fd'[p] # fd[p] => fd[p] <= 0 \/ fd'[p] <= 0]_vars
  BY StepInv DEF DescriptorStep
<1> QED BY <1>1, <1>2, InitInv, PTL DEF Spec, NoDescriptorLost

--------------------------------------------------------------------------------
(* PipeAnswers: the answers. Every pipe holds consecutive bytes of consecutive
   frames, and what the pipe of the server holds ends where sendAnswer() ended. *)

\* The numbers of the pipes the server makes, one for each start.
Gens == 1..MaxGens

\* What a pipe holds, and what the current write() is about to add to it.
Stream(g) == IF g = gen THEN pipe[g] \o out ELSE pipe[g]

\* The bytes of message m: its header and its payload.
Length(sz, m) == HeadLen + (sz[m][1] + sz[m][2])

\* z consists of consecutive bytes of consecutive frames.
Shaped(z, sz) ==
    /\ \A i \in 1..Len(z) : z[i][1] \in 1..Len(sz) /\ z[i][2] \in 1..Length(sz, z[i][1])
    /\ \A i, j \in 1..Len(z) : i < j =>
          IF j - i <= Length(sz, z[i][1]) - z[i][2]
          THEN z[j] = <<z[i][1], z[i][2] + (j - i)>>
          ELSE z[i][1] < z[j][1]
    /\ \A i \in 1..(Len(z) - 1) :
          z[i][2] = Length(sz, z[i][1]) => z[i + 1] = <<z[i][1] + 1, 1>>

\* z ends with the last byte of the latest message.
Ended(z, sz) == z # <<>> => z[Len(z)] = <<Len(sz), Length(sz, Len(sz))>>

\* y is z without its first d bytes, and maybe without its last ones.
Part(y, z, d) == d + Len(y) <= Len(z) /\ \A i \in 1..Len(y) : y[i] = z[d + i]

\* y is what is left of z after d bytes.
RestOf(y, z, d) == y \in Seq(Byte) /\ Len(y) = Len(z) - d /\ Part(y, z, d)

\* y is a stretch of z.
Piece(y, z) == y \in Seq(Byte) /\ \E d \in Nat : Part(y, z, d)

\* The messages of y come before those of z; those of z come after message n.
Before(y, z) == \A i \in 1..Len(y), j \in 1..Len(z) : y[i][1] < z[j][1]
\* z holds only messages after n.
Above(z, n) == \A i \in 1..Len(z) : n < z[i][1]

\* Facts about sequences.
LEMMA Concat ==
    ASSUME NEW S, NEW y \in Seq(S), NEW z \in Seq(S)
    PROVE  /\ y \o z \in Seq(S) /\ Len(y \o z) = Len(y) + Len(z)
           /\ \A i \in 1..Len(y) : (y \o z)[i] = y[i]
           /\ \A i \in 1..Len(z) : (y \o z)[Len(y) + i] = z[i]
           /\ z = <<>> => y \o z = y
  OBVIOUS

\* The two parts of a sequence.
LEMMA Split ==
    ASSUME NEW S, NEW z \in Seq(S), NEW n \in Nat, n <= Len(z)
    PROVE  /\ SubSeq(z, 1, n) \in Seq(S) /\ Len(SubSeq(z, 1, n)) = n
           /\ \A i \in 1..n : SubSeq(z, 1, n)[i] = z[i]
           /\ SubSeq(z, n + 1, Len(z)) \in Seq(S)
           /\ Len(SubSeq(z, n + 1, Len(z))) = Len(z) - n
           /\ \A i \in 1..(Len(z) - n) : SubSeq(z, n + 1, Len(z))[i] = z[n + i]
  OBVIOUS

\* Sequences of the same elements are equal, and a function on 1..n is a sequence.
LEMMA SameSeq ==
    ASSUME NEW S, NEW y \in Seq(S), NEW z \in Seq(S), Len(y) = Len(z),
           \A i \in 1..Len(y) : y[i] = z[i]
    PROVE  y = z
  OBVIOUS

\* Only the empty sequence has no elements.
LEMMA EmptyIs ==
    ASSUME NEW S, NEW z \in Seq(S)
    PROVE  z = <<>> <=> Len(z) = 0
  OBVIOUS

\* An element of a sequence is in its set.
LEMMA ElementOf ==
    ASSUME NEW S, NEW z \in Seq(S), NEW i \in 1..Len(z)
    PROVE  z[i] \in S
  OBVIOUS

\* A function on 1..n is a sequence.
LEMMA SeqOf ==
    ASSUME NEW S, NEW n \in Nat, NEW s \in [1..n -> S]
    PROVE  s \in Seq(S) /\ Len(s) = n
  OBVIOUS

\* The first element and the others.
LEMMA TailIs ==
    ASSUME NEW S, NEW z \in Seq(S), z # <<>>
    PROVE  /\ Tail(z) \in Seq(S) /\ Len(Tail(z)) = Len(z) - 1 /\ Head(z) = z[1]
           /\ \A i \in 1..(Len(z) - 1) : Tail(z)[i] = z[i + 1]
  OBVIOUS

\* One more element.
LEMMA AppendIs ==
    ASSUME NEW S, NEW z \in Seq(S), NEW x \in S
    PROVE  /\ Append(z, x) \in Seq(S) /\ Len(Append(z, x)) = Len(z) + 1
           /\ \A i \in 1..Len(z) : Append(z, x)[i] = z[i]
           /\ Append(z, x)[Len(z) + 1] = x
  OBVIOUS

\* What is taken from the front of two sequences together.
LEMMA RestOfBoth ==
    ASSUME NEW y \in Seq(Byte), NEW z \in Seq(Byte), NEW n \in Nat, n <= Len(y),
           NEW x, RestOf(x, y, n)
    PROVE  RestOf(x \o z, y \o z, n)
  <1>1. x \in Seq(Byte) /\ Len(x) = Len(y) - n /\ \A i \in 1..(Len(y) - n) : x[i] = y[n + i]
    BY DEF RestOf, Part
  <1>2. /\ x \o z \in Seq(Byte) /\ Len(x \o z) = Len(x) + Len(z) /\ Len(y \o z) = Len(y) + Len(z)
        /\ Len(y) \in Nat /\ Len(z) \in Nat /\ Len(x) \in Nat
    BY <1>1
  <1>3. ASSUME NEW i \in 1..(Len(y \o z) - n) PROVE (x \o z)[i] = (y \o z)[n + i]
    <2>1. i \in Nat /\ i > 0 /\ i <= Len(x) + Len(z)
      BY <1>1, <1>2, <1>3
    <2>2. CASE i <= Len(x)
      <3>1. (x \o z)[i] = x[i] /\ (y \o z)[n + i] = y[n + i]
        BY <1>1, <1>2, <2>1, <2>2
      <3>2. QED
        BY <1>1, <1>2, <2>1, <2>2, <3>1
    <2>3. CASE i > Len(x)
      <3>1. (x \o z)[i] = z[i - Len(x)] /\ (y \o z)[n + i] = z[(n + i) - Len(y)]
        BY <1>1, <1>2, <2>1, <2>3, SMTT(20)
      <3>2. (n + i) - Len(y) = i - Len(x)
        BY <1>1, <1>2, <2>1
      <3>3. QED
        BY <3>1, <3>2
    <2>4. QED
      BY <2>1, <2>2, <2>3, <1>2
  <1>4. Len(x \o z) = Len(y \o z) - n
    BY <1>1, <1>2
  <1>5. Part(x \o z, y \o z, n)
    BY <1>2, <1>3, <1>4 DEF Part
  <1>6. QED
    BY <1>1, <1>2, <1>4, <1>5 DEF RestOf

\* What SubSeq() leaves of a pipe that was read.
LEMMA Dropped ==
    ASSUME NEW y \in Seq(Byte), NEW n \in Nat, n <= Len(y), NEW x, x = SubSeq(y, n + 1, Len(y))
    PROVE  RestOf(x, y, n)
  <1>1. /\ x \in Seq(Byte) /\ Len(x) = Len(y) - n /\ Len(y) \in Nat
        /\ \A i \in 1..(Len(y) - n) : x[i] = y[n + i]
    BY Split
  <1>2. QED
    BY <1>1 DEF RestOf, Part

\* What is moved from the front of one sequence to the end of another.
LEMMA MovedOver ==
    ASSUME NEW S, NEW y \in Seq(S), NEW z \in Seq(S), NEW n \in Nat, n <= Len(z)
    PROVE  (y \o SubSeq(z, 1, n)) \o SubSeq(z, n + 1, Len(z)) = y \o z
  <1> DEFINE a == SubSeq(z, 1, n)
             b == SubSeq(z, n + 1, Len(z))
  <1>1. /\ a \in Seq(S) /\ Len(a) = n /\ \A i \in 1..n : a[i] = z[i]
        /\ b \in Seq(S) /\ Len(b) = Len(z) - n /\ \A i \in 1..(Len(z) - n) : b[i] = z[n + i]
    BY Split
  <1> HIDE DEF a, b
  <1>2. /\ (y \o a) \o b \in Seq(S) /\ y \o z \in Seq(S) /\ Len(y) \in Nat /\ Len(z) \in Nat
        /\ Len((y \o a) \o b) = Len(y) + Len(z) /\ Len(y \o z) = Len(y) + Len(z)
        /\ Len(y \o a) = Len(y) + n /\ y \o a \in Seq(S)
    <2>1. Len(y) \in Nat /\ Len(z) \in Nat /\ y \o z \in Seq(S) /\ Len(y \o z) = Len(y) + Len(z)
      OBVIOUS
    <2>0. a \in Seq(S) /\ b \in Seq(S) /\ Len(a) = n /\ Len(b) = Len(z) - n
      BY <1>1
    <2>2. y \o a \in Seq(S) /\ Len(y \o a) = Len(y) + n
      BY <2>0, Concat, Zenon
    <2>3. (y \o a) \o b \in Seq(S) /\ Len((y \o a) \o b) = Len(y \o a) + Len(b)
      BY <2>0, <2>2, Concat, Zenon
    <2>4. QED
      BY <1>1, <2>1, <2>2, <2>3
  <1>3. ASSUME NEW i \in 1..(Len(y) + Len(z)) PROVE ((y \o a) \o b)[i] = (y \o z)[i]
    <2>1. CASE i <= Len(y)
      BY <1>1, <1>2, <2>1
    <2>2. CASE i > Len(y) /\ i <= Len(y) + n
      <3>1. ((y \o a) \o b)[i] = (y \o a)[i] /\ (y \o a)[i] = a[i - Len(y)]
        BY <1>1, <1>2, <2>2
      <3>2. (y \o z)[i] = z[i - Len(y)] /\ i - Len(y) \in 1..n
        BY <1>1, <1>2, <2>2
      <3>3. QED
        BY <1>1, <3>1, <3>2
    <2>3. CASE i > Len(y) + n
      <3>1. ((y \o a) \o b)[i] = b[i - (Len(y) + n)] /\ i - (Len(y) + n) \in 1..(Len(z) - n)
        BY <1>1, <1>2, <2>3
      <3>2. (y \o z)[i] = z[i - Len(y)] /\ n + (i - (Len(y) + n)) = i - Len(y)
        BY <1>1, <1>2, <2>3
      <3>3. QED
        BY <1>1, <3>1, <3>2, Zenon
    <2>4. QED
      BY <1>2, <2>1, <2>2, <2>3
  <1>4. (y \o a) \o b = y \o z
    BY <1>2, <1>3, SameSeq, Zenon
  <1>5. QED
    BY <1>4, Zenon DEF a, b

\* Bytes(m, a, b) are b - a + 1 bytes of message m.
LEMMA BytesOf ==
    ASSUME NEW m \in 1..MaxMsgs, NEW a \in Nat \ {0}, NEW b \in Nat, a <= b + 1
    PROVE  /\ Bytes(m, a, b) \in Seq(Byte)
           /\ Len(Bytes(m, a, b)) = (b - a) + 1
           /\ \A i \in 1..((b - a) + 1) : Bytes(m, a, b)[i] = <<m, (a + i) - 1>>
  <1>1. (b - a) + 1 \in Nat
    OBVIOUS
  <1>2. \A i \in 1..((b - a) + 1) : <<m, (a + i) - 1>> \in Byte
    BY DEF Byte
  <1>3. Bytes(m, a, b) = [i \in 1..((b - a) + 1) |-> <<m, (a + i) - 1>>]
    BY DEF Bytes
  <1>4. Bytes(m, a, b) \in [1..((b - a) + 1) -> Byte]
    BY <1>2, <1>3, Zenon
  <1>5. Bytes(m, a, b) \in Seq(Byte) /\ Len(Bytes(m, a, b)) = (b - a) + 1
    BY <1>1, <1>4, SeqOf
  <1>6. QED
    BY <1>3, <1>5, Zenon

\* The sizes of the messages are pairs of numbers.
Sized(sz) == sz \in Seq(Nat \X Nat)

\* A message has at least its header.
LEMMA Lengths ==
    ASSUME NEW sz, Sized(sz), NEW m \in 1..Len(sz)
    PROVE  Length(sz, m) \in Nat /\ Length(sz, m) >= HeadLen /\ HeadLen \in Nat /\ HeadLen > 0
  <1>1. sz[m] \in Nat \X Nat
    BY DEF Sized
  <1>2. sz[m][1] \in Nat /\ sz[m][2] \in Nat /\ HeadLen \in Nat /\ HeadLen > 0
    BY <1>1, ConstantsAssumption
  <1>3. QED
    BY <1>2, SMTT(20) DEF Length

\* A byte is a pair of numbers.
LEMMA ByteIs ==
    ASSUME NEW z \in Seq(Byte), NEW i \in 1..Len(z)
    PROVE  z[i] = <<z[i][1], z[i][2]>> /\ z[i][1] \in 1..MaxMsgs /\ z[i][2] \in Nat \ {0}
  <1>1. z[i] \in Byte
    OBVIOUS
  <1>2. QED
    BY <1>1 DEF Byte

\* A stretch of consecutive frames consists of consecutive frames.
LEMMA ShapedPart ==
    ASSUME NEW z \in Seq(Byte), NEW y \in Seq(Byte), NEW d \in Nat, NEW sz,
           Part(y, z, d), Shaped(z, sz)
    PROVE  Shaped(y, sz)
  <1>1. Len(y) \in Nat /\ Len(z) \in Nat /\ d + Len(y) <= Len(z)
    BY DEF Part
  <1>2. \A i \in 1..Len(y) : y[i] = z[d + i] /\ d + i \in 1..Len(z)
    BY <1>1 DEF Part
  <1>3. ASSUME NEW i \in 1..Len(y)
        PROVE  y[i][1] \in 1..Len(sz) /\ y[i][2] \in 1..Length(sz, y[i][1])
    BY <1>2 DEF Shaped
  <1>4. ASSUME NEW i \in 1..Len(y), NEW j \in 1..Len(y), i < j
        PROVE  IF j - i <= Length(sz, y[i][1]) - y[i][2]
               THEN y[j] = <<y[i][1], y[i][2] + (j - i)>>
               ELSE y[i][1] < y[j][1]
    <2>1. d + i \in 1..Len(z) /\ d + j \in 1..Len(z) /\ d + i < d + j
          /\ (d + j) - (d + i) = j - i
      BY <1>1, <1>4
    <2>2. y[i] = z[d + i] /\ y[j] = z[d + j]
      BY <1>2
    <2>3. IF (d + j) - (d + i) <= Length(sz, z[d + i][1]) - z[d + i][2]
          THEN z[d + j] = <<z[d + i][1], z[d + i][2] + ((d + j) - (d + i))>>
          ELSE z[d + i][1] < z[d + j][1]
      BY <2>1, Zenon DEF Shaped
    <2>4. QED
      BY <2>1, <2>2, <2>3, Zenon
  <1>5. ASSUME NEW i \in 1..(Len(y) - 1), y[i][2] = Length(sz, y[i][1])
        PROVE  y[i + 1] = <<y[i][1] + 1, 1>>
    <2>1. d + i \in 1..(Len(z) - 1) /\ i \in 1..Len(y) /\ i + 1 \in 1..Len(y)
          /\ d + (i + 1) = (d + i) + 1
      BY <1>1, <1>5, SMTT(20)
    <2>2. y[i] = z[d + i] /\ y[i + 1] = z[(d + i) + 1]
      BY <1>2, <2>1, SMTT(20)
    <2>3. QED
      BY <1>5, <2>1, <2>2 DEF Shaped
  <1>6. QED
    BY <1>3, <1>4, <1>5 DEF Shaped

\* What follows a first byte a of message m: the rest of its frame of length l, the
\* next frame, and only later messages.
Continues(z, l, m, a) ==
    /\ \A j \in 1..Len(z) : j - 1 <= l - a => z[j] = <<m, a + (j - 1)>>
    /\ \A j \in 1..Len(z) : j - 1 > l - a => m < z[j][1]
    /\ (l - a) + 2 <= Len(z) => z[(l - a) + 2] = <<m + 1, 1>>

\* What the first byte of a stream says of the others.
LEMMA FromFirst ==
    ASSUME NEW z \in Seq(Byte), NEW sz, Sized(sz), Shaped(z, sz), z # <<>>,
           NEW m, NEW a, z[1] = <<m, a>>
    PROVE  /\ m \in 1..Len(sz) /\ Length(sz, m) \in Nat /\ a \in 1..Length(sz, m)
           /\ Continues(z, Length(sz, m), m, a)
  <1>1. Len(z) \in Nat /\ Len(z) > 0 /\ 1 \in 1..Len(z)
    OBVIOUS
  <1>2. m = z[1][1] /\ a = z[1][2]
    OBVIOUS
  <1>3. m \in 1..Len(sz) /\ a \in 1..Length(sz, m)
    BY <1>1, <1>2 DEF Shaped
  <1>4. Length(sz, m) \in Nat
    BY <1>3, Lengths
  <1> DEFINE l == Length(sz, m)
  <1>5. \A j \in 1..Len(z) : 1 < j => IF j - 1 <= l - a THEN z[j] = <<m, a + (j - 1)>>
                                                        ELSE m < z[j][1]
    BY <1>1, <1>2, Zenon DEF Shaped
  <1>6. l \in Nat /\ a \in Nat /\ a <= l /\ a > 0
    BY <1>3, <1>4
  <1> HIDE DEF l
  <1>7. ASSUME NEW j \in 1..Len(z), j - 1 <= l - a PROVE z[j] = <<m, a + (j - 1)>>
    <2>1. CASE j = 1
      <3>1. a + (j - 1) = a
        BY <2>1, <1>6
      <3>2. QED
        BY <2>1, <3>1
    <2>2. CASE 1 < j
      BY <1>5, <1>7, <2>2, Zenon
    <2>3. QED
      BY <2>1, <2>2
  <1>8. ASSUME NEW j \in 1..Len(z), j - 1 > l - a PROVE m < z[j][1]
    BY <1>5, <1>6, <1>8
  <1>9. ASSUME (l - a) + 2 <= Len(z) PROVE z[(l - a) + 2] = <<m + 1, 1>>
    <2> DEFINE k == (l - a) + 1
    <2>1. k \in 1..(Len(z) - 1) /\ k \in 1..Len(z) /\ k - 1 <= l - a /\ a + (k - 1) = l
          /\ k + 1 = (l - a) + 2
      BY <1>1, <1>6, <1>9
    <2> HIDE DEF k
    <2>2. z[k] = <<m, l>>
      BY <2>1, <1>7
    <2>3. z[k][1] = m /\ z[k][2] = Length(sz, z[k][1])
      BY <2>2 DEF l
    <2>4. z[k + 1] = <<m + 1, 1>>
      BY <2>1, <2>3 DEF Shaped
    <2>5. QED
      BY <2>1, <2>4
  <1>10. QED
    BY <1>3, <1>4, <1>7, <1>8, <1>9, Zenon DEF l, Continues

\* A stream that ends with the latest message holds the rest of its first frame, and
\* nothing more exactly if that is the latest one.
LEMMA EndsLate ==
    ASSUME NEW z \in Seq(Byte), NEW sz, Sized(sz), Shaped(z, sz), Ended(z, sz), z # <<>>,
           NEW m, NEW a, z[1] = <<m, a>>
    PROVE  /\ (Length(sz, m) - a) + 1 <= Len(z)
           /\ Len(z) = (Length(sz, m) - a) + 1 <=> m = Len(sz)
  <1> DEFINE l == Length(sz, m)
             n == Len(z)
  <1>1. /\ m \in 1..Len(sz) /\ l \in Nat /\ a \in 1..l
        /\ Continues(z, l, m, a)
    BY FromFirst, Zenon
  <1>2. n \in Nat /\ n > 0 /\ n \in 1..n /\ Len(sz) \in Nat
    BY DEF Sized
  <1>3. z[n] = <<Len(sz), Length(sz, Len(sz))>>
    BY DEF Ended
  <1>4. m \in Nat /\ a \in Nat /\ a > 0 /\ a <= l
    BY <1>1, <1>2
  <1>5. CASE n - 1 <= l - a
    <2>1. z[n] = <<m, a + (n - 1)>>
      BY <1>1, <1>2, <1>5, Zenon DEF Continues
    <2>2. m = Len(sz) /\ a + (n - 1) = l
      BY <1>3, <2>1
    <2> HIDE DEF l, n
    <2>3. n = (l - a) + 1
      BY <2>2, <1>1, <1>2, <1>4
    <2>4. QED
      BY <2>2, <2>3, <1>2 DEF l, n
  <1>6. CASE n - 1 > l - a
    <2>1. m < z[n][1] /\ z[n][1] = Len(sz)
      BY <1>1, <1>2, <1>3, <1>6 DEF Continues
    <2> HIDE DEF l, n
    <2>2. m < Len(sz) /\ n > (l - a) + 1
      BY <2>1, <1>1, <1>2, <1>4, <1>6
    <2>3. m # Len(sz) /\ n # (l - a) + 1 /\ (l - a) + 1 <= n
      BY <2>2, <1>1, <1>2, <1>4
    <2>4. QED
      BY <2>3 DEF l, n
  <1> HIDE DEF l, n
  <1>7. QED
    BY <1>1, <1>2, <1>4, <1>5, <1>6

\* A message is added to the history.
LEMMA MoreSizes ==
    ASSUME NEW sz, Sized(sz), NEW s \in Nat \X Nat
    PROVE  /\ Sized(Append(sz, s)) /\ Len(Append(sz, s)) = Len(sz) + 1 /\ Len(sz) \in Nat
           /\ \A m \in 1..Len(sz) : Length(Append(sz, s), m) = Length(sz, m)
           /\ Length(Append(sz, s), Len(sz) + 1) = HeadLen + (s[1] + s[2])
  <1>1. /\ Append(sz, s) \in Seq(Nat \X Nat) /\ Len(Append(sz, s)) = Len(sz) + 1
        /\ Len(sz) \in Nat
        /\ \A m \in 1..Len(sz) : Append(sz, s)[m] = sz[m]
        /\ Append(sz, s)[Len(sz) + 1] = s
    BY DEF Sized
  <1>2. QED
    BY <1>1 DEF Sized, Length

\* The frames in a stream stay what they are.
LEMMA ShapedStays ==
    ASSUME NEW z \in Seq(Byte), NEW sz, Sized(sz), NEW s \in Nat \X Nat, Shaped(z, sz)
    PROVE  Shaped(z, Append(sz, s))
  <1> DEFINE tz == Append(sz, s)
  <1>1. /\ Len(tz) = Len(sz) + 1 /\ Len(sz) \in Nat
        /\ \A m \in 1..Len(sz) : Length(tz, m) = Length(sz, m)
    BY MoreSizes
  <1> HIDE DEF tz
  <1>2. \A i \in 1..Len(z) : z[i][1] \in 1..Len(sz) /\ z[i][2] \in 1..Length(sz, z[i][1])
    BY DEF Shaped
  <1>3. \A i \in 1..Len(z) : Length(tz, z[i][1]) = Length(sz, z[i][1])
    BY <1>1, <1>2
  <1>4. \A i \in 1..Len(z) : z[i][1] \in 1..Len(tz) /\ z[i][2] \in 1..Length(tz, z[i][1])
    BY <1>1, <1>2
  <1>5. ASSUME NEW i \in 1..Len(z), NEW j \in 1..Len(z), i < j
        PROVE  IF j - i <= Length(tz, z[i][1]) - z[i][2]
               THEN z[j] = <<z[i][1], z[i][2] + (j - i)>>
               ELSE z[i][1] < z[j][1]
    BY <1>3, <1>5, Zenon DEF Shaped
  <1>6. ASSUME NEW i \in 1..(Len(z) - 1), z[i][2] = Length(tz, z[i][1])
        PROVE  z[i + 1] = <<z[i][1] + 1, 1>>
    <2>1. i \in 1..Len(z)
      OBVIOUS
    <2>2. z[i][2] = Length(sz, z[i][1])
      BY <1>3, <1>6, <2>1
    <2>3. QED
      BY <2>2 DEF Shaped
  <1>7. Shaped(z, tz)
    BY <1>4, <1>5, <1>6 DEF Shaped
  <1>8. QED
    BY <1>7 DEF tz

\* sendAnswer() adds the frame of the next message.
LEMMA ShapedMore ==
    ASSUME NEW z \in Seq(Byte), NEW f \in Seq(Byte), NEW sz, Sized(sz), NEW s \in Nat \X Nat,
           Shaped(z, sz), Ended(z, sz), NEW l, l = HeadLen + (s[1] + s[2]), Len(f) = l,
           \A i \in 1..l : f[i] = <<Len(sz) + 1, i>>
    PROVE  Shaped(z \o f, Append(sz, s)) /\ Ended(z \o f, Append(sz, s)) /\ z \o f # <<>>
  <1> DEFINE tz == Append(sz, s)
             N == Len(sz)
             n == Len(z)
             y == z \o f
  <1>1. /\ Len(tz) = N + 1 /\ N \in Nat /\ Length(tz, N + 1) = l
        /\ \A m \in 1..N : Length(tz, m) = Length(sz, m)
    BY MoreSizes
  <1>2. l \in Nat /\ l > 0
    <2>1. s[1] \in Nat /\ s[2] \in Nat /\ HeadLen \in Nat /\ HeadLen > 0
      BY ConstantsAssumption
    <2>2. QED
      BY <2>1
  <1>3. n \in Nat /\ Len(y) = n + l
    <2>1. n \in Nat
      OBVIOUS
    <2>2. Len(y) = n + Len(f)
      BY Concat, Zenon
    <2>3. QED
      BY <2>1, <2>2
  <1>4. \A i \in 1..n : y[i] = z[i]
    BY Concat
  <1>5. \A i \in 1..l : y[n + i] = <<N + 1, i>>
    BY Concat
  <1>6. Shaped(z, tz)
    BY ShapedStays
  <1>7. z # <<>> => n > 0 /\ z[n] = <<N, Length(sz, N)>>
    BY DEF Ended
  <1> HIDE DEF tz, n, y, N
  <1>8. ASSUME NEW i \in 1..Len(y), i > n PROVE y[i] = <<N + 1, i - n>> /\ i - n \in 1..l
    <2>1. i - n \in 1..l /\ n + (i - n) = i
      BY <1>2, <1>3, <1>8
    <2>2. QED
      BY <1>5, <2>1
  <1>9. ASSUME NEW i \in 1..n
        PROVE  /\ y[i] = z[i] /\ i \in 1..Len(y) /\ z[i] = <<z[i][1], z[i][2]>>
               /\ z[i][1] \in 1..N /\ z[i][2] \in Nat
               /\ Length(tz, z[i][1]) \in Nat /\ z[i][2] <= Length(tz, z[i][1])
    <2>1. y[i] = z[i] /\ i \in 1..Len(y)
      BY <1>2, <1>3, <1>4
    <2>2. z[i][1] \in 1..N /\ z[i][2] \in 1..Length(sz, z[i][1])
      BY DEF Shaped, n, N
    <2>3. Length(tz, z[i][1]) = Length(sz, z[i][1]) /\ Length(sz, z[i][1]) \in Nat
      BY <1>1, <2>2, Lengths DEF N
    <2>4. z[i] = <<z[i][1], z[i][2]>>
      BY ByteIs DEF n
    <2>5. QED
      BY <2>1, <2>2, <2>3, <2>4
  <1>10. ASSUME NEW i \in 1..Len(y)
         PROVE  y[i][1] \in 1..Len(tz) /\ y[i][2] \in 1..Length(tz, y[i][1])
    <2>1. CASE i <= n
      <3>1. i \in 1..n
        BY <2>1, <1>3
      <3>2. y[i] = z[i] /\ z[i][1] \in 1..Len(tz) /\ z[i][2] \in 1..Length(tz, z[i][1])
        BY <3>1, <1>6, <1>9 DEF Shaped, n
      <3>3. QED
        BY <3>2
    <2>2. CASE i > n
      <3>1. y[i] = <<N + 1, i - n>> /\ i - n \in 1..l
        BY <2>2, <1>8
      <3>2. y[i][1] = N + 1 /\ y[i][2] = i - n
        BY <3>1
      <3>3. QED
        BY <3>1, <3>2, <1>1
    <2>3. QED
      BY <2>1, <2>2, <1>3
  <1>11. ASSUME NEW i \in 1..n
         PROVE  n - i >= Length(tz, z[i][1]) - z[i][2]
    <2>1. n > 0 /\ n \in 1..n /\ z[n] = <<N, Length(sz, N)>>
      <3>1. n > 0 /\ z # <<>>
        BY <1>3 DEF n
      <3>2. QED
        BY <3>1, <1>3, <1>7
    <2>2. N \in 1..N /\ Length(tz, N) = Length(sz, N) /\ z[n][1] = N /\ z[n][2] = Length(tz, N)
      <3>1. z[n][1] = N /\ z[n][2] = Length(sz, N)
        BY <2>1
      <3>2. N \in 1..N
        BY <2>1, <3>1, <1>9
      <3>3. QED
        BY <3>1, <3>2, <1>1
    <2> DEFINE L == Length(tz, z[i][1])
               a == z[i][2]
    <2>6. L \in Nat /\ a \in Nat /\ a <= L /\ i \in Nat
      BY <1>9
    <2>3. CASE i = n
      <3>1. L = a
        BY <2>2, <2>3
      <3> HIDE DEF L, a
      <3>2. n - i >= L - a
        BY <3>1, <2>3, <2>6, <1>3
      <3>3. QED
        BY <3>2 DEF L, a
    <2>4. CASE i < n
      <3>1. IF n - i <= Length(tz, z[i][1]) - z[i][2]
            THEN z[n] = <<z[i][1], z[i][2] + (n - i)>>
            ELSE z[i][1] < z[n][1]
        BY <2>1, <2>4, <1>6, Zenon DEF Shaped, n
      <3>2. CASE n - i <= Length(tz, z[i][1]) - z[i][2]
        <4>1. z[n] = <<z[i][1], z[i][2] + (n - i)>>
          BY <3>1, <3>2
        <4>2. z[i][1] = N /\ z[i][2] + (n - i) = Length(tz, z[i][1])
          BY <4>1, <2>2
        <4>3. a + (n - i) = L
          BY <4>2
        <4> HIDE DEF L, a
        <4>4. n - i >= L - a
          BY <4>3, <2>6, <1>3
        <4>5. QED
          BY <4>4 DEF L, a
      <3>3. CASE ~(n - i <= Length(tz, z[i][1]) - z[i][2])
        <4>1. ~(n - i <= L - a)
          BY <3>3
        <4> HIDE DEF L, a
        <4>2. n - i >= L - a
          BY <4>1, <2>6, <1>3
        <4>3. QED
          BY <4>2 DEF L, a
      <3>4. QED
        BY <3>2, <3>3
    <2>5. QED
      BY <2>3, <2>4, <1>3
  <1>12. ASSUME NEW i \in 1..Len(y), NEW j \in 1..Len(y), i < j
         PROVE  IF j - i <= Length(tz, y[i][1]) - y[i][2]
                THEN y[j] = <<y[i][1], y[i][2] + (j - i)>>
                ELSE y[i][1] < y[j][1]
    <2>1. CASE j <= n
      <3>1. i \in 1..n /\ j \in 1..n
        BY <1>3, <1>12, <2>1
      <3>2. y[i] = z[i] /\ y[j] = z[j]
        BY <3>1, <1>9
      <3>3. IF j - i <= Length(tz, z[i][1]) - z[i][2]
            THEN z[j] = <<z[i][1], z[i][2] + (j - i)>>
            ELSE z[i][1] < z[j][1]
        BY <3>1, <1>6, <1>12, Zenon DEF Shaped, n
      <3>4. QED
        BY <3>2, <3>3
    <2>2. CASE i <= n /\ j > n
      <3>1. i \in 1..n
        BY <1>3, <1>12, <2>2
      <3>2. y[j][1] = N + 1 /\ y[i] = z[i] /\ z[i][1] \in 1..N
        <4>1. y[j] = <<N + 1, j - n>>
          BY <1>8, <2>2
        <4>2. QED
          BY <4>1, <3>1, <1>9
      <3>3. n - i >= Length(tz, z[i][1]) - z[i][2]
        BY <3>1, <1>11
      <3>4. ~(j - i <= Length(tz, y[i][1]) - y[i][2])
        <4> DEFINE L == Length(tz, y[i][1])
                   a == y[i][2]
        <4>1. L \in Nat /\ a \in Nat /\ n - i >= L - a
          BY <3>1, <3>2, <3>3, <1>9
        <4> HIDE DEF L, a
        <4>2. ~(j - i <= L - a)
          BY <4>1, <2>2, <3>1, <1>3
        <4>3. QED
          BY <4>2 DEF L, a
      <3>5. y[i][1] < y[j][1]
        BY <3>2, <1>1
      <3>6. QED
        BY <3>4, <3>5
    <2>3. CASE i > n /\ j > n
      <3>1. y[i] = <<N + 1, i - n>> /\ y[j] = <<N + 1, j - n>> /\ j - n \in 1..l
        BY <2>3, <1>8
      <3>2. y[i][1] = N + 1 /\ y[i][2] = i - n
        BY <3>1
      <3>3. j - i <= l - (i - n) /\ (i - n) + (j - i) = j - n
        BY <3>1, <2>3, <1>2, <1>3
      <3>4. QED
        BY <3>1, <3>2, <3>3, <1>1
    <2>4. QED
      BY <2>1, <2>2, <2>3, <1>3, <1>12
  <1>13. ASSUME NEW i \in 1..(Len(y) - 1), y[i][2] = Length(tz, y[i][1])
         PROVE  y[i + 1] = <<y[i][1] + 1, 1>>
    <2>1. i \in 1..Len(y) /\ i + 1 \in 1..Len(y)
      BY <1>2, <1>3
    <2>2. CASE i < n
      <3>1. i \in 1..n /\ i + 1 \in 1..n /\ i \in 1..(n - 1)
        BY <1>3, <2>2
      <3>2. y[i] = z[i] /\ y[i + 1] = z[i + 1]
        BY <3>1, <1>9
      <3>3. QED
        BY <3>1, <3>2, <1>6, <1>13 DEF Shaped, n
    <2>3. CASE i = n
      <3>1. i \in 1..n /\ i + 1 > n /\ (i + 1) - n = 1
        BY <1>3, <2>3
      <3>2. y[i + 1] = <<N + 1, 1>>
        BY <3>1, <2>1, <1>8
      <3>3. y[i] = z[n] /\ z # <<>>
        BY <3>1, <2>3, <1>9 DEF n
      <3>4. y[i][1] = N
        BY <3>3, <1>7
      <3>5. QED
        BY <3>2, <3>4
    <2>4. CASE i > n
      <3>1. y[i] = <<N + 1, i - n>>
        BY <2>1, <2>4, <1>8
      <3>2. i - n = l
        BY <3>1, <1>1, <1>13
      <3>3. QED
        BY <3>2, <2>1, <1>2, <1>3
    <2>5. QED
      BY <2>2, <2>3, <2>4, <1>3
  <1>14. Shaped(y, tz)
    BY <1>10, <1>12, <1>13, SMTT(20) DEF Shaped
  <1>15. y # <<>> /\ y[Len(y)] = <<Len(tz), Length(tz, Len(tz))>>
    <2>1. n + l \in 1..Len(y) /\ n + l > n /\ (n + l) - n = l
      BY <1>2, <1>3
    <2>2. y[n + l] = <<N + 1, l>>
      BY <2>1, <1>8
    <2>3. y # <<>>
      BY <2>1
    <2>4. QED
      BY <2>2, <2>3, <1>1, <1>3
  <1>16. QED
    BY <1>14, <1>15 DEF Ended, tz, y

--------------------------------------------------------------------------------
\* Does the server hold the data pipe of its latest start?
Ongoing == Serves("data")

\* Where the session is: what the server has made so far, and what readAnswer() has.
SessionInv ==
    /\ Len(sizes) <= MaxMsgs
    /\ maxSize <= InitPipeSize \/ maxSize <= PipeLimit
    /\ phase # "write" => out = <<>>
    /\ phase \in {"up", "write"} => link = "data"
    /\ phase # "down" => gen > 0
    /\ file["data"] <= gen /\ fd["data"] <= gen
    /\ (Ongoing \/ (phase = "open" /\ link = "data")) => file["data"] = gen
    /\ ~Ongoing => owed = <<>>
    /\ runPc \in {"closeCmd", "openData"} => fd["data"] <= 0
    /\ readPc = "payload" <=> inHand # 0
    /\ readPc = "idle" => sameOpen

\* A pipe holds bytes only while somebody holds it open, and a new one holds none.
KeepInv ==
    /\ \A g \in Gens : pipe[g] # <<>> => g = fd["data"] \/ (g = gen /\ Ongoing)
    /\ phase \in {"remove", "mkfifo", "open"} =>
          pipe[gen] = <<>> /\ (inHand # 0 /\ sameOpen => fd["data"] # gen)

\* The streams hold frames, the latest up to the latest message.
ShapeInv ==
    /\ \A g \in Gens : Shaped(Stream(g), sizes)
    /\ Ongoing => Ended(Stream(gen), sizes)

\* Later pipes hold later messages.
OrderInv == \A g, h \in Gens : g < h => Before(Stream(g), Stream(h))

\* What is still in a pipe was not returned.
SeenInv ==
    /\ answer.msg <= Len(sizes) /\ newest <= Len(sizes)
    /\ \A g \in Gens : Above(Stream(g), answer.msg) /\ Above(Stream(g), newest)
    /\ inHand # 0 => answer.msg < inHand /\ newest < inHand

\* z, if it holds anything, begins with a later message; with the payload of m.
Later(z, m) == z # <<>> => m < z[1][1]
Resumes(z, m) == z # <<>> => z[1] = <<m, HeadLen + 1>>

\* The payload of the message in hand is at the front of the pipe it came from,
\* unless run() closed that one.
Held(g) ==
    /\ \/ Later(Stream(g), inHand)
       \/ Resumes(Stream(g), inHand) /\ (fd["data"] > 0 => g = fd["data"])
    /\ sameOpen /\ g = fd["data"] /\ Total(inHand) > 0 =>
          Resumes(Stream(g), inHand) /\ (g = gen /\ Ongoing => Stream(g) # <<>>)

\* Every pipe is as the header in hand makes it.
HandInv == inHand # 0 => \A g \in Gens : Held(g)

\* The messages ow are those up to the latest.
Counted(ow, sz) ==
    Len(ow) <= Len(sz) /\ \A j \in 1..Len(ow) : ow[j] = (Len(sz) - Len(ow)) + j

\* z begins where the reader stands: with the payload of the message m in hand, or
\* with a header.
Begun(z, ow, sz, m) ==
    IF m # 0 /\ ow # <<>> /\ ow[1] = m
    THEN IF Length(sz, m) > HeadLen
         THEN z # <<>> /\ z[1] = <<m, HeadLen + 1>>
         ELSE (z = <<>> <=> Len(ow) = 1) /\ (z # <<>> => z[1] = <<m + 1, 1>>)
    ELSE (z = <<>> <=> ow = <<>>) /\ (z # <<>> => z[1] = <<ow[1], 1>>)

\* The place of a reader that is in step.
Placed(z, ow, sz, m) == Counted(ow, sz) /\ Begun(z, ow, sz, m)

\* A reader that did not slip stands at the first answer that is owed.
PlaceInv == \A g \in Gens :
    g = gen /\ ~slipped /\ Ongoing => Placed(Stream(g), owed, sizes, inHand)

\* The inductive invariant.
AnswersInv ==
    /\ TypeOK /\ SessionInv /\ KeepInv /\ ShapeInv /\ OrderInv /\ SeenInv /\ HandInv
    /\ PlaceInv /\ AnswersIntact

\* Numbers and sequences that the steps are about.
LEMMA Sorts ==
    ASSUME TypeOK
    PROVE  /\ HeadLen \in Nat /\ HeadLen > 0 /\ MaxMsgs \in Nat /\ MaxGens \in Nat
           /\ InitPipeSize \in Nat /\ PipeLimit \in Nat
           /\ Sized(sizes) /\ Len(sizes) \in Nat /\ gen \in Nat /\ gen <= MaxGens
           /\ fd["data"] \in -1..MaxGens /\ fd["cmd"] \in -1..MaxGens
           /\ file["data"] \in 0..MaxGens /\ file["cmd"] \in 0..MaxGens
           /\ inHand \in 0..Len(sizes) /\ answer.msg \in Nat /\ newest \in Nat
           /\ \A g \in Gens : pipe[g] \in Seq(Byte) /\ Stream(g) \in Seq(Byte)
           /\ \A g \in Gens : g = gen /\ out = <<>> => Stream(g) = pipe[g]
  <1>1. /\ HeadLen \in Nat /\ HeadLen > 0 /\ MaxMsgs \in Nat /\ MaxGens \in Nat
        /\ InitPipeSize \in Nat /\ PipeLimit \in Nat /\ Sizes \subseteq Nat \X Nat
    BY ConstantsAssumption
  <1>2. Sized(sizes) /\ Len(sizes) \in Nat
    <2>1. sizes \in Seq(Sizes)
      BY DEF TypeOK
    <2>2. \A i \in 1..Len(sizes) : sizes[i] \in Nat \X Nat
      BY <2>1, <1>1
    <2>3. QED
      BY <2>1, <2>2 DEF Sized
  <1>3. /\ gen \in Nat /\ gen <= MaxGens
        /\ fd["data"] \in -1..MaxGens /\ fd["cmd"] \in -1..MaxGens
        /\ file["data"] \in 0..MaxGens /\ file["cmd"] \in 0..MaxGens
        /\ inHand \in 0..Len(sizes) /\ newest \in Nat
    BY <1>1 DEF TypeOK, Pipes
  <1>4. answer.msg \in Nat
    BY <1>1 DEF TypeOK
  <1>5. ASSUME NEW g \in Gens
        PROVE  /\ pipe[g] \in Seq(Byte) /\ Stream(g) \in Seq(Byte)
               /\ g = gen /\ out = <<>> => Stream(g) = pipe[g]
    <2>1. pipe[g] \in Seq(Byte) /\ out \in Seq(Byte)
      BY Zenon DEF TypeOK, Gens
    <2>2. pipe[g] \o out \in Seq(Byte) /\ (out = <<>> => pipe[g] \o out = pipe[g])
      BY <2>1, Concat
    <2>3. QED
      BY <2>1, <2>2, Zenon DEF Stream
  <1>6. QED
    BY <1>1, <1>2, <1>3, <1>4, <1>5

--------------------------------------------------------------------------------
(* Types *)

\* The types of the server and of run().
SessionTypes ==
    /\ file \in [Pipes -> 0..MaxGens]
    /\ gen \in 0..MaxGens
    /\ phase \in {"down", "remove", "mkfifo", "open", "up", "write", "close", "unlink"}
    /\ link \in Pipes
    /\ maxSize \in Nat
    /\ sizes \in Seq(Sizes)
    /\ out \in Seq(Byte)
    /\ fd \in [Pipes -> -1..MaxGens]
    /\ isOpen \in [Pipes -> BOOLEAN]
    /\ hears \in BOOLEAN
    /\ runPc \in {"check", "closeData", "closeCmd", "openData", "openCmd"}

\* As many bytes as the pipe may hold.
Fits(z) == Len(z) <= InitPipeSize \/ Len(z) <= PipeLimit

\* The types of the pipes.
PipeTypes == pipe \in [Gens -> Seq(Byte)] /\ \A g \in Gens : Fits(pipe[g])

\* The types of readAnswer().
ReaderTypes ==
    /\ readPc \in {"idle", "head", "payload"}
    /\ event \in {"none", "in", "hup"}
    /\ room \in BufSizes \cup {0}
    /\ inHand \in 0..Len(sizes)
    /\ sameOpen \in BOOLEAN
    /\ answer \in [msg : 0..MaxMsgs, bytes : Seq(Byte), sameOpen : BOOLEAN]
    /\ newest \in 0..MaxMsgs
    /\ owed \in Seq(1..MaxMsgs)
    /\ slipped \in BOOLEAN

\* The types, before and after a step, in three parts.
LEMMA TypeParts ==
    /\ TypeOK <=> SessionTypes /\ PipeTypes /\ ReaderTypes
    /\ TypeOK' <=> SessionTypes' /\ PipeTypes' /\ ReaderTypes'
  BY Zenon DEF TypeOK, SessionTypes, PipeTypes, ReaderTypes, Gens, Fits

\* What a pipe holds after a step that replaces it.
LEMMA PipeReplaced ==
    ASSUME PipeTypes, NEW g \in Gens, NEW z \in Seq(Byte), Fits(z),
           pipe' = [pipe EXCEPT ![g] = z]
    PROVE  PipeTypes' /\ pipe'[g] = z /\ \A h \in Gens : h # g => pipe'[h] = pipe[h]
  <1>1. pipe' \in [Gens -> Seq(Byte)] /\ pipe'[g] = z /\ \A h \in Gens : h # g => pipe'[h] = pipe[h]
    BY DEF PipeTypes
  <1>2. \A h \in Gens : Fits(pipe'[h])
    BY <1>1 DEF PipeTypes
  <1>3. QED
    BY <1>1, <1>2 DEF PipeTypes, Fits, Gens

\* A shorter content still fits.
LEMMA ShorterFits ==
    ASSUME NEW y \in Seq(Byte), NEW z \in Seq(Byte), Fits(z), Len(y) <= Len(z)
    PROVE  Fits(y)
  <1>1. InitPipeSize \in Nat /\ PipeLimit \in Nat /\ Len(y) \in Nat /\ Len(z) \in Nat
    BY ConstantsAssumption
  <1>2. QED
    BY <1>1 DEF Fits

\* The end of a call of readAnswer().
LEMMA ReturnTypes ==
    ASSUME TypeOK, SessionInv, NEW slip, NEW got, Return(slip, got), UNCHANGED sizes,
           got = <<>> \/ \E b \in Seq(Byte) : got = Answer(b)
    PROVE  ReaderTypes'
  <1>1. ReaderTypes /\ Len(sizes) \in Nat /\ Len(sizes) <= MaxMsgs /\ MaxMsgs \in Nat
    BY TypeParts, Sorts DEF SessionInv
  <1>2. /\ readPc' = "idle" /\ event' = "none" /\ room' = 0 /\ inHand' = 0 /\ sameOpen' = TRUE
        /\ slipped' \in BOOLEAN
    BY DEF Return
  <1>3. /\ answer' \in [msg : 0..MaxMsgs, bytes : Seq(Byte), sameOpen : BOOLEAN]
        /\ newest' \in 0..MaxMsgs
    <2>1. CASE got = <<>>
      <3>1. answer' = answer /\ newest' = newest
        BY <2>1 DEF Return, answerVars
      <3>2. QED
        BY <3>1, <1>1 DEF ReaderTypes
    <2>2. ASSUME NEW b \in Seq(Byte), got = Answer(b)
          PROVE  /\ answer' \in [msg : 0..MaxMsgs, bytes : Seq(Byte), sameOpen : BOOLEAN]
                 /\ newest' \in 0..MaxMsgs
      <3>1. got # <<>> /\ got[1] = [msg |-> inHand, bytes |-> b, sameOpen |-> sameOpen]
        BY <2>2 DEF Answer
      <3>2. answer' = got[1] /\ newest' = IF newest < answer.msg THEN answer.msg ELSE newest
        BY <3>1 DEF Return
      <3>3. inHand \in 0..MaxMsgs /\ answer.msg \in 0..MaxMsgs /\ newest \in 0..MaxMsgs
            /\ sameOpen \in BOOLEAN
        BY <1>1 DEF ReaderTypes
      <3>4. QED
        BY <3>1, <3>2, <3>3
    <2>3. QED
      BY <2>1, <2>2
  <1>4. owed' \in Seq(1..MaxMsgs)
    <2>1. owed' = <<>> \/ owed' = owed \/ (owed # <<>> /\ owed' = Tail(owed))
      BY DEF Return
    <2>2. owed \in Seq(1..MaxMsgs)
      BY <1>1 DEF ReaderTypes
    <2>3. owed # <<>> => Tail(owed) \in Seq(1..MaxMsgs)
      BY <2>2, TailIs
    <2>4. <<>> \in Seq(1..MaxMsgs)
      OBVIOUS
    <2>5. QED
      BY <2>1, <2>2, <2>3, <2>4, Zenon
  <1>5. inHand' \in 0..Len(sizes')
    BY <1>1, <1>2
  <1>6. QED
    BY <1>2, <1>3, <1>4, <1>5 DEF ReaderTypes

\* read() leaves the rest of the pipe.
LEMMA TakeTypes ==
    ASSUME TypeOK, NEW n \in Nat, Take(n), n <= Len(pipe[fd["data"]])
    PROVE  /\ PipeTypes' /\ fd["data"] \in Gens
           /\ pipe'[fd["data"]] = SubSeq(pipe[fd["data"]], n + 1, Len(pipe[fd["data"]]))
           /\ \A h \in Gens : h # fd["data"] => pipe'[h] = pipe[h]
  <1> DEFINE d == fd["data"]
             z == SubSeq(pipe[d], n + 1, Len(pipe[d]))
  <1>1. d \in Gens
    BY Sorts DEF Take, Gens
  <1>2. pipe[d] \in Seq(Byte) /\ PipeTypes /\ Fits(pipe[d])
    BY <1>1, Sorts, TypeParts, Zenon DEF PipeTypes
  <1>3. z \in Seq(Byte) /\ Len(z) = Len(pipe[d]) - n /\ Len(pipe[d]) \in Nat
    BY <1>2, Split
  <1>4. Fits(z)
    <2> HIDE DEF z
    <2>1. Len(z) <= Len(pipe[d])
      BY <1>3
    <2>2. QED
      BY <2>1, <1>2, <1>3, ShorterFits
  <1>5. pipe' = [pipe EXCEPT ![d] = z]
    BY DEF Take
  <1> HIDE DEF d, z
  <1>6. PipeTypes' /\ pipe'[d] = z /\ \A h \in Gens : h # d => pipe'[h] = pipe[h]
    BY <1>1, <1>2, <1>3, <1>4, <1>5, PipeReplaced, Zenon
  <1>7. QED
    BY <1>1, <1>6 DEF d, z

\* How much there is to take.
LEMMA AvailableIs ==
    ASSUME TypeOK, NEW n \in Nat, fd["data"] \in Gens
    PROVE  /\ Available(n) \in Nat /\ Available(n) <= Len(pipe[fd["data"]]) /\ Available(n) <= n
           /\ Len(pipe[fd["data"]]) \in Nat
  <1>1. Len(pipe[fd["data"]]) \in Nat
    BY Sorts, SMTT(20)
  <1>2. QED
    BY <1>1 DEF Available

\* The length of a message is the header and the payload.
LEMMA TotalNat ==
    ASSUME TypeOK, NEW m \in 1..Len(sizes)
    PROVE  /\ Total(m) \in Nat /\ Length(sizes, m) = HeadLen + Total(m)
           /\ Length(sizes, m) \in Nat /\ HeadLen \in Nat /\ HeadLen > 0
  <1>1. Sized(sizes)
    BY Sorts
  <1>2. sizes[m] \in Nat \X Nat
    BY <1>1 DEF Sized
  <1>3. sizes[m][1] \in Nat /\ sizes[m][2] \in Nat
    BY <1>2
  <1>4. HeadLen \in Nat /\ HeadLen > 0
    BY ConstantsAssumption
  <1>5. QED
    BY <1>3, <1>4, SMTT(20) DEF Total, Length

\* The steps of the server.
LEMMA ServerTypes ==
    ASSUME TypeOK, SessionInv, Starting \/ Stopping \/ Crash
    PROVE  TypeOK'
  <1>1. SessionTypes /\ PipeTypes /\ ReaderTypes
    BY TypeParts
  <1>0. /\ gen \in Nat /\ MaxGens \in Nat /\ gen <= MaxGens /\ InitPipeSize \in Nat
        /\ maxSize \in Nat /\ out \in Seq(Byte) /\ <<>> \in Seq(Byte)
    BY <1>1, Sorts DEF SessionTypes
  <1>2. sizes' = sizes /\ out' \in Seq(Byte) /\ maxSize' \in Nat /\ gen' \in 0..MaxGens
    <2>1. /\ sizes' = sizes /\ (out' = out \/ out' = <<>>)
          /\ maxSize' = maxSize \/ maxSize' = InitPipeSize
          /\ gen' = gen \/ (gen < MaxGens /\ gen' = gen + 1)
      BY DEF Starting, Stopping, Crash, Start, RemoveFile, MakeFile, OpenFile, Release,
              CloseFile, UnlinkFile
    <2>2. out' \in Seq(Byte)
      BY <1>0, <2>1, Zenon
    <2>3. maxSize' \in Nat /\ gen' \in 0..MaxGens
      BY <1>0, <2>1
    <2>4. QED
      BY <2>1, <2>2, <2>3
  <1>3. SessionTypes'
    <2>1. /\ phase' \in {"down", "remove", "mkfifo", "open", "up", "write", "close", "unlink"}
          /\ link' \in Pipes
      BY <1>1 DEF Starting, Stopping, Crash, Start, RemoveFile, MakeFile, OpenFile, Release,
            CloseFile, UnlinkFile, SessionTypes, Pipes
    <2>2. file' \in [Pipes -> 0..MaxGens]
      <3>1. file' = file \/ file' = [file EXCEPT ![link] = 0] \/ file' = [file EXCEPT ![link] = gen]
        BY DEF Starting, Stopping, Crash, Start, RemoveFile, MakeFile, OpenFile, Release,
              CloseFile, UnlinkFile
      <3>2. 0 \in 0..MaxGens /\ gen \in 0..MaxGens
        BY <1>0
      <3>3. QED
        BY <1>1, <3>1, <3>2, Zenon DEF SessionTypes
    <2>3. UNCHANGED <<fd, isOpen, runPc>> /\ hears' \in BOOLEAN
      BY <1>1, Zenon DEF Starting, Stopping, Crash, Start, RemoveFile, MakeFile, OpenFile, Release,
            CloseFile, UnlinkFile, SessionTypes, runVars
    <2>4. QED
      BY <1>1, <1>2, <2>1, <2>2, <2>3 DEF SessionTypes
  <1>4. PipeTypes'
    <2>1. CASE pipe' = pipe
      BY <2>1, <1>1 DEF PipeTypes, Fits, Gens
    <2>2. CASE phase # "down" /\ Forget(gen)
      <3> DEFINE z == IF fd["data"] = gen THEN pipe[gen] ELSE <<>>
      <3>1. gen \in Gens
        BY <2>2, Sorts DEF SessionInv, Gens
      <3>2. pipe[gen] \in Seq(Byte) /\ Fits(pipe[gen]) /\ <<>> \in Seq(Byte) /\ Len(<<>>) = 0
            /\ Fits(<<>>)
        BY <3>1, <1>1, Sorts DEF PipeTypes, Fits
      <3>3. pipe' = [pipe EXCEPT ![gen] = z] /\ z \in Seq(Byte) /\ Fits(z)
        BY <2>2, <3>2 DEF Forget
      <3> HIDE DEF z
      <3>4. QED
        BY <1>1, <3>1, <3>3, PipeReplaced, Zenon
    <2>3. QED
      BY <2>1, <2>2 DEF Starting, Stopping, Crash, Start, RemoveFile, MakeFile, OpenFile, Release,
            CloseFile, UnlinkFile
  <1>5. ReaderTypes'
    <2>1. UNCHANGED <<readPc, event, room, inHand, answer, newest, sameOpen>>
      BY DEF Starting, Stopping, Crash, Start, RemoveFile, MakeFile, OpenFile, Release,
            CloseFile, UnlinkFile, readVars, answerVars
    <2>2. owed' \in {owed, <<>>} /\ slipped' \in {slipped, FALSE}
      BY Zenon DEF Starting, Stopping, Crash, Start, RemoveFile, MakeFile, OpenFile, Release,
            CloseFile, UnlinkFile, placeVars
    <2>3. <<>> \in Seq(1..MaxMsgs)
      OBVIOUS
    <2>4. owed' \in Seq(1..MaxMsgs) /\ slipped' \in BOOLEAN
      BY <1>1, <2>2, <2>3, Zenon DEF ReaderTypes
    <2>5. QED
      BY <1>1, <1>2, <2>1, <2>4 DEF ReaderTypes
  <1>6. QED
    BY <1>3, <1>4, <1>5, TypeParts

\* sendAnswer() and its write().
LEMMA SendTypes ==
    ASSUME TypeOK, SessionInv, NEW s \in Sizes, SendAnswer(s)
    PROVE  /\ TypeOK' /\ s \in Nat \X Nat
           /\ Len(sizes) + 1 \in 1..MaxMsgs /\ HeadLen + (s[1] + s[2]) \in Nat
           /\ out' \in Seq(Byte) /\ Len(out') = HeadLen + (s[1] + s[2])
           /\ \A i \in 1..(HeadLen + (s[1] + s[2])) : out'[i] = <<Len(sizes) + 1, i>>
           /\ maxSize' <= InitPipeSize \/ maxSize' <= PipeLimit
  <1>1. SessionTypes /\ PipeTypes /\ ReaderTypes
    BY TypeParts
  <1>2. /\ HeadLen \in Nat /\ MaxMsgs \in Nat /\ Len(sizes) \in Nat /\ Len(sizes) < MaxMsgs
        /\ InitPipeSize \in Nat /\ PipeLimit \in Nat
    BY Sorts DEF SendAnswer
  <1>3. s \in Nat \X Nat
    BY ConstantsAssumption
  <1>4. s[1] \in Nat /\ s[2] \in Nat
    BY <1>3
  <1> DEFINE N == Len(sizes) + 1
             l == HeadLen + (s[1] + s[2])
  <1>5. N \in 1..MaxMsgs /\ l \in Nat /\ (HeadLen + s[1]) + s[2] = l /\ 1 <= l + 1
    BY <1>2, <1>4
  <1>6. /\ sizes' \in Seq(Sizes) /\ Len(sizes') = N
    <2>1. sizes \in Seq(Sizes) /\ sizes' = Append(sizes, s)
      BY <1>1 DEF SendAnswer, SessionTypes
    <2>2. QED
      BY <2>1, AppendIs
  <1>7. out' = Bytes(N, 1, l)
    BY <1>5, <1>6 DEF SendAnswer
  <1> HIDE DEF N, l
  <1>8. /\ out' \in Seq(Byte) /\ Len(out') = l /\ \A i \in 1..l : out'[i] = <<N, i>>
    <2>1. 1 \in Nat \ {0} /\ (l - 1) + 1 = l /\ \A i \in 1..l : (1 + i) - 1 = i
      BY <1>5
    <2>2. /\ Bytes(N, 1, l) \in Seq(Byte) /\ Len(Bytes(N, 1, l)) = (l - 1) + 1
          /\ \A i \in 1..((l - 1) + 1) : Bytes(N, 1, l)[i] = <<N, (1 + i) - 1>>
      BY <1>5, <2>1, BytesOf, Zenon
    <2>3. QED
      BY <1>7, <2>1, <2>2
  <1>9. maxSize' \in Nat /\ (maxSize' <= InitPipeSize \/ maxSize' <= PipeLimit)
    <2>1. maxSize' = Grow(s[2])
      BY DEF SendAnswer
    <2>2. maxSize \in Nat /\ (maxSize <= InitPipeSize \/ maxSize <= PipeLimit)
      BY <1>1 DEF SessionTypes, SessionInv
    <2>3. 2 * s[2] \in Nat
      BY <1>4
    <2>4. QED
      BY <2>1, <2>2, <2>3 DEF Grow
  <1>10. SessionTypes'
    BY <1>1, <1>6, <1>8, <1>9 DEF SendAnswer, SessionTypes, runVars
  <1>11. PipeTypes'
    BY <1>1 DEF SendAnswer, PipeTypes, Fits, Gens
  <1>12. ReaderTypes'
    <2>1. owed' \in Seq(1..MaxMsgs)
      <3>1. owed \in Seq(1..MaxMsgs) /\ (owed' = owed \/ owed' = Append(owed, N))
        BY <1>1, <1>6 DEF SendAnswer, ReaderTypes
      <3>2. Append(owed, N) \in Seq(1..MaxMsgs)
        BY <3>1, <1>5, AppendIs
      <3>3. QED
        BY <3>1, <3>2, Zenon
    <2>2. UNCHANGED <<readPc, event, room, inHand, answer, newest, sameOpen, slipped>>
      BY DEF SendAnswer, readVars, answerVars
    <2>3. inHand' \in 0..Len(sizes')
      <3>1. inHand \in 0..Len(sizes)
        BY <1>1 DEF ReaderTypes
      <3>2. QED
        BY <3>1, <2>2, <1>2, <1>6 DEF N
    <2>4. QED
      BY <1>1, <2>1, <2>2, <2>3 DEF ReaderTypes
  <1>13. TypeOK'
    BY <1>10, <1>11, <1>12, TypeParts
  <1>14. QED
    BY <1>3, <1>5, <1>8, <1>9, <1>13 DEF N, l

\* write() only moves bytes from the buffer into the pipe.
LEMMA WriteTypes ==
    ASSUME TypeOK, SessionInv, Write
    PROVE  /\ TypeOK' /\ \A g \in Gens : Stream(g)' = Stream(g)
           /\ \A g \in Gens : g # gen => pipe'[g] = pipe[g]
  <1>1. SessionTypes /\ PipeTypes /\ ReaderTypes
    BY TypeParts
  <1> DEFINE space == maxSize - Len(pipe[gen])
             k == IF Len(out) <= space THEN Len(out) ELSE space
             put == SubSeq(out, 1, k)
  <1>2. gen \in Gens /\ phase = "write"
    BY Sorts DEF Write, SessionInv, Gens
  <1>3. pipe[gen] \in Seq(Byte) /\ out \in Seq(Byte) /\ Len(pipe[gen]) \in Nat /\ Len(out) \in Nat
        /\ maxSize \in Nat
    BY <1>1, <1>2 DEF SessionTypes, PipeTypes
  <1>4. k \in Nat /\ k <= Len(out) /\ Len(pipe[gen]) + k <= maxSize
    <2>1. k > 0
      BY DEF Write
    <2>2. (k = Len(out) /\ Len(out) <= maxSize - Len(pipe[gen])) \/
          (k = maxSize - Len(pipe[gen]) /\ ~(Len(out) <= maxSize - Len(pipe[gen])))
      OBVIOUS
    <2> HIDE DEF k
    <2>3. QED
      BY <1>3, <2>1, <2>2
  <1>5. /\ pipe' = [pipe EXCEPT ![gen] = pipe[gen] \o put] /\ gen' = gen
        /\ out' = SubSeq(out, k + 1, Len(out))
    BY DEF Write
  <1> HIDE DEF k
  <1>6. put \in Seq(Byte) /\ Len(put) = k /\ out' \in Seq(Byte)
    BY <1>3, <1>4, <1>5, Split
  <1>7. pipe[gen] \o put \in Seq(Byte) /\ Len(pipe[gen] \o put) = Len(pipe[gen]) + k
    <2> HIDE DEF put
    <2>1. pipe[gen] \o put \in Seq(Byte) /\ Len(pipe[gen] \o put) = Len(pipe[gen]) + Len(put)
      BY <1>3, <1>6, Concat, Zenon
    <2>2. QED
      BY <1>6, <2>1, Zenon
  <1>8. (pipe[gen] \o put) \o out' = pipe[gen] \o out
    BY <1>3, <1>4, <1>5, MovedOver, Zenon
  <1> HIDE DEF put
  <1>9. Fits(pipe[gen] \o put)
    <2>1. maxSize <= InitPipeSize \/ maxSize <= PipeLimit
      BY DEF SessionInv
    <2>2. InitPipeSize \in Nat /\ PipeLimit \in Nat
      BY Sorts
    <2>3. QED
      BY <1>3, <1>4, <1>7, <2>1, <2>2 DEF Fits
  <1>10. PipeTypes' /\ pipe'[gen] = pipe[gen] \o put /\ \A g \in Gens : g # gen => pipe'[g] = pipe[g]
    BY <1>1, <1>2, <1>5, <1>7, <1>9, PipeReplaced, Zenon
  <1>11. SessionTypes'
    BY <1>1, <1>6 DEF Write, SessionTypes, runVars
  <1>12. ReaderTypes'
    BY <1>1 DEF Write, ReaderTypes, readVars, answerVars, placeVars
  <1>13. \A g \in Gens : Stream(g)' = Stream(g)
    BY <1>5, <1>8, <1>10, Zenon DEF Stream
  <1>14. QED
    BY <1>10, <1>11, <1>12, <1>13, TypeParts

\* The steps of run().
LEMMA RunTypes ==
    ASSUME TypeOK, Run
    PROVE  TypeOK'
  <1>1. SessionTypes /\ PipeTypes /\ ReaderTypes /\ MaxGens \in Nat
    BY TypeParts, Sorts
  <1>2. UNCHANGED <<file, gen, phase, link, maxSize, sizes, out>>
    BY DEF Run, Check, CloseData, CloseCmd, OpenData, OpenCmd, serverVars
  <1>3. 0 \in -1..MaxGens /\ -1 \in -1..MaxGens /\ \A p \in Pipes : file[p] \in -1..MaxGens
    BY <1>1 DEF SessionTypes
  <1>4. /\ fd' \in [Pipes -> -1..MaxGens] /\ isOpen' \in [Pipes -> BOOLEAN] /\ hears' \in BOOLEAN
        /\ runPc' \in {"check", "closeData", "closeCmd", "openData", "openCmd"}
    <2> DEFINE Sets ==
          /\ fd' = fd \/ \E p \in Pipes : \E g \in -1..MaxGens : fd' = [fd EXCEPT ![p] = g]
          /\ \/ isOpen' = isOpen
             \/ \E p \in Pipes : \E b \in BOOLEAN : isOpen' = [isOpen EXCEPT ![p] = b]
    <2>1. Sets
      <3>1. CASE Check
        BY <3>1 DEF Check
      <3>2. ASSUME NEW p \in Pipes, NEW next, ClosePipeFile(p, next) PROVE Sets
        BY <1>3, <3>2, Zenon DEF ClosePipeFile
      <3>3. ASSUME NEW p \in Pipes, NEW ok, NEW next, OpenPipeFile(p, ok, next) PROVE Sets
        BY <1>3, <3>3, Zenon DEF OpenPipeFile
      <3>4. QED
        BY <3>1, <3>2, <3>3 DEF Run, CloseData, CloseCmd, OpenData, OpenCmd, Pipes
    <2>2. hears' \in BOOLEAN
      BY <1>1, Zenon DEF Run, Check, CloseData, CloseCmd, OpenData, OpenCmd, ClosePipeFile,
              OpenPipeFile, SessionTypes
    <2>3. runPc' \in {"check", "closeData", "closeCmd", "openData", "openCmd"}
      BY DEF Run, Check, CloseData, CloseCmd, OpenData, OpenCmd, ClosePipeFile,
              OpenPipeFile
    <2>4. fd' \in [Pipes -> -1..MaxGens] /\ isOpen' \in [Pipes -> BOOLEAN]
      BY <1>1, <2>1, Zenon DEF SessionTypes
    <2>5. QED
      BY <2>2, <2>3, <2>4
  <1>5. SessionTypes'
    BY <1>1, <1>2, <1>4 DEF SessionTypes
  <1>6. PipeTypes'
    <2>1. CASE pipe' = pipe
      BY <2>1, <1>1 DEF PipeTypes, Fits, Gens
    <2>2. CASE CloseData
      <3>1. /\ pipe' \in [Gens -> Seq(Byte)]
            /\ \A g \in Gens : pipe'[g] = pipe[g] \/ pipe'[g] = <<>>
        BY <1>1, <2>2 DEF CloseData, PipeTypes
      <3>2. Fits(<<>>)
        BY Sorts DEF Fits
      <3>3. \A g \in Gens : Fits(pipe'[g])
        BY <3>1, <3>2, <1>1 DEF PipeTypes
      <3>4. QED
        BY <3>1, <3>3 DEF PipeTypes, Fits, Gens
    <2>3. QED
      BY <2>1, <2>2 DEF Run, Check, CloseCmd, OpenData, OpenCmd
  <1>7. ReaderTypes'
    <2>1. UNCHANGED <<readPc, event, room, inHand, answer, newest, owed, slipped>>
      BY DEF Run, Check, CloseData, CloseCmd, OpenData, OpenCmd, readVars, answerVars, placeVars
    <2>2. sameOpen' \in BOOLEAN
      BY <1>1, Zenon DEF Run, Check, CloseData, CloseCmd, OpenData, OpenCmd, ReaderTypes
    <2>3. QED
      BY <1>1, <1>2, <2>1, <2>2 DEF ReaderTypes
  <1>8. QED
    BY <1>5, <1>6, <1>7, TypeParts

\* The pipe is the front of the stream.
LEMMA FrontOf ==
    ASSUME TypeOK, NEW g \in Gens
    PROVE  /\ Len(pipe[g]) \in Nat /\ Len(Stream(g)) \in Nat /\ Len(pipe[g]) <= Len(Stream(g))
           /\ \A i \in 1..Len(pipe[g]) : Stream(g)[i] = pipe[g][i]
           /\ pipe[g] # <<>> => Stream(g) # <<>> /\ Stream(g)[1] = pipe[g][1]
           /\ out = <<>> \/ g # gen => Stream(g) = pipe[g]
  <1>1. pipe[g] \in Seq(Byte) /\ out \in Seq(Byte) /\ Stream(g) \in Seq(Byte)
    BY Sorts DEF TypeOK
  <1>2. CASE g # gen
    BY <1>1, <1>2 DEF Stream
  <1>3. CASE g = gen
    <2>1. Stream(g) = pipe[g] \o out
      BY <1>3 DEF Stream
    <2>2. /\ Len(Stream(g)) = Len(pipe[g]) + Len(out)
          /\ \A i \in 1..Len(pipe[g]) : Stream(g)[i] = pipe[g][i]
          /\ out = <<>> => Stream(g) = pipe[g]
      BY <1>1, <2>1, Concat
    <2>3. Len(pipe[g]) \in Nat /\ Len(out) \in Nat /\ Len(Stream(g)) \in Nat
      BY <1>1
    <2>4. pipe[g] # <<>> => Len(pipe[g]) > 0 /\ 1 \in 1..Len(pipe[g])
      BY <1>1
    <2>5. pipe[g] # <<>> => Stream(g) # <<>> /\ Stream(g)[1] = pipe[g][1]
      BY <2>2, <2>3, <2>4
    <2>6. QED
      BY <1>3, <2>2, <2>3, <2>5
  <1>4. QED
    BY <1>2, <1>3

\* read() takes the first bytes of one stream.
LEMMA TakeStreams ==
    ASSUME TypeOK, NEW d \in Gens, d = fd["data"], NEW n \in Nat, Take(n), n <= Len(pipe[d]),
           UNCHANGED <<gen, out>>
    PROVE  /\ RestOf(Stream(d)', Stream(d), n)
           /\ \A h \in Gens : h # d => Stream(h)' = Stream(h)
  <1> DEFINE rest == SubSeq(pipe[d], n + 1, Len(pipe[d]))
  <1>1. pipe'[d] = rest /\ \A h \in Gens : h # d => pipe'[h] = pipe[h]
    BY TakeTypes
  <1>2. \A h \in Gens : h # d => Stream(h)' = Stream(h)
    BY <1>1 DEF Stream
  <1>3. pipe[d] \in Seq(Byte) /\ out \in Seq(Byte) /\ Len(pipe[d]) \in Nat
        /\ Stream(d) \in Seq(Byte) /\ Len(Stream(d)) \in Nat
    <2>1. out \in Seq(Byte)
      BY DEF TypeOK
    <2>2. pipe[d] \in Seq(Byte) /\ Stream(d) \in Seq(Byte)
      BY Sorts, Zenon
    <2>3. QED
      BY <2>1, <2>2
  <1> DEFINE y == IF d = gen THEN rest \o out ELSE rest
  <1>4. RestOf(rest, pipe[d], n) /\ RestOf(rest \o out, pipe[d] \o out, n)
    <2>1. RestOf(rest, pipe[d], n)
      BY <1>3, Dropped, Zenon
    <2> HIDE DEF rest
    <2>2. QED
      BY <1>3, <2>1, RestOfBoth
  <1>5. RestOf(y, Stream(d), n)
    BY <1>4, Zenon DEF Stream
  <1>6. Stream(d)' = y
    BY <1>1 DEF Stream
  <1> HIDE DEF y
  <1>7. QED
    BY <1>2, <1>5, <1>6, Zenon

\* What a call that goes on has read: a header.
LEMMA HeadIs ==
    ASSUME TypeOK, SessionInv, ShapeInv, NEW g \in Gens, pipe[g] # <<>>
    PROVE  /\ pipe[g][1] = Stream(g)[1] /\ pipe[g][1][1] \in 1..Len(sizes)
           /\ pipe[g][1] = <<pipe[g][1][1], pipe[g][1][2]>>
  <1>1. Stream(g) # <<>> /\ Stream(g)[1] = pipe[g][1] /\ Len(Stream(g)) \in Nat
    BY FrontOf
  <1>2. Shaped(Stream(g), sizes) /\ Stream(g) \in Seq(Byte)
    BY Sorts DEF ShapeInv
  <1>3. 1 \in 1..Len(Stream(g))
    BY <1>1, <1>2
  <1>4. Stream(g)[1][1] \in 1..Len(sizes)
    BY <1>2, <1>3 DEF Shaped
  <1>5. Stream(g)[1] = <<Stream(g)[1][1], Stream(g)[1][2]>>
    BY <1>2, <1>3, ByteIs
  <1>6. QED
    BY <1>1, <1>4, <1>5

(* What a step of readAnswer() does to the stream it reads: it goes on without
   reading, gives up, reads a header, or returns an answer.                    *)
Took(n) == n \in Nat /\ Take(n) /\ n <= Len(pipe[fd["data"]])

\* readAnswer() is called, polls, or finds less than it waits for.
GoesOn ==
    /\ UNCHANGED <<pipe, inHand, sameOpen, answer, newest, owed, slipped>>
    /\ event' \in {"none", "in", "hup"}
    /\ \/ UNCHANGED <<readPc, room>>
       \/ readPc = "idle" /\ readPc' = "head" /\ room' \in BufSizes

\* readAnswer() returns nothing, perhaps after taking part of a frame.
GivesUp ==
    \/ UNCHANGED pipe /\ Return(readPc = "payload", <<>>)
    \/ Return(TRUE, <<>>) /\ \E n : Took(n)

\* readAnswer() takes a header.
TakesHead ==
    /\ Took(HeadLen) /\ readPc = "head"
    /\ pipe[fd["data"]][1][2] = 1
    /\ readPc' = "payload" /\ inHand' = pipe[fd["data"]][1][1] /\ event' = "none"
    /\ UNCHANGED <<room, sameOpen, answer, newest, owed, slipped>>

\* readAnswer() returns an empty answer.
GivesNone ==
    /\ readPc = "payload" /\ Total(inHand) = 0
    /\ UNCHANGED pipe
    /\ Return(FALSE, Answer(<<>>))

\* readAnswer() takes a payload and returns it.
GivesPayload ==
    /\ readPc = "payload" /\ Total(inHand) > 0
    /\ Took(Total(inHand))
    /\ Return(~sameOpen, Answer(SubSeq(pipe[fd["data"]], 1, Total(inHand))))

\* A step of readAnswer().
Reads == Read \/ \E b \in BufSizes : ReadAnswer(b)

\* Every step of readAnswer() is one of these.
LEMMA ReadSteps ==
    ASSUME TypeOK, SessionInv, Reads
    PROVE  /\ UNCHANGED <<file, gen, phase, link, maxSize, sizes, out, fd, hears, runPc>>
           /\ isOpen' \in [Pipes -> BOOLEAN]
           /\ GoesOn \/ GivesUp \/ TakesHead \/ GivesNone \/ GivesPayload
  <1>1. UNCHANGED <<file, gen, phase, link, maxSize, sizes, out, fd, hears, runPc>>
    BY Zenon DEF Reads, Read, Poll, Disconnected, ReadEmpty, ReadHead, ReadPayload, ReadAnswer,
            serverVars, runVars
  <1>2. isOpen' \in [Pipes -> BOOLEAN]
    BY Zenon DEF Reads, Read, Poll, Disconnected, ReadEmpty, ReadHead, ReadPayload, ReadAnswer, Take,
            TypeOK
  <1>3. ASSUME UNCHANGED pipe, NoBytes PROVE GivesUp \/ GivesNone
    BY <1>3, Zenon DEF NoBytes, GivesUp, GivesNone
  <1>4. ASSUME NEW b \in BufSizes, ReadAnswer(b) PROVE GoesOn
    BY <1>4 DEF ReadAnswer, GoesOn, answerVars, placeVars, TypeOK
  <1>5. ASSUME Poll
        PROVE  GoesOn \/ GivesUp \/ TakesHead \/ GivesNone \/ GivesPayload
    <2>1. CASE /\ event' \in Polled \ {"timeout"}
               /\ UNCHANGED <<readPc, room, inHand, sameOpen, answerVars, placeVars, pipe>>
      <3>1. event' \in {"none", "in", "hup"}
        BY <2>1, ConstantsAssumption DEF Polled
      <3>2. QED
        BY <2>1, <3>1 DEF GoesOn, answerVars, placeVars
    <2>2. QED
      BY <1>3, <1>5, <2>1 DEF Poll
  <1>6. ASSUME Disconnected
        PROVE  GoesOn \/ GivesUp \/ TakesHead \/ GivesNone \/ GivesPayload
    BY <1>3, <1>6 DEF Disconnected
  <1>7. ASSUME ReadEmpty
        PROVE  GoesOn \/ GivesUp \/ TakesHead \/ GivesNone \/ GivesPayload
    BY <1>7, Zenon DEF ReadEmpty, GoesOn, GivesUp, answerVars, placeVars
  <1>8. ASSUME ReadHead
        PROVE  GoesOn \/ GivesUp \/ TakesHead \/ GivesNone \/ GivesPayload
    <2>1. fd["data"] \in Gens /\ HeadLen \in Nat
      BY <1>8, Sorts DEF ReadHead, Take, Gens
    <2>2. Available(HeadLen) \in Nat /\ Available(HeadLen) <= Len(pipe[fd["data"]])
      BY <2>1, AvailableIs
    <2>3. Took(Available(HeadLen))
      BY <1>8, <2>2 DEF ReadHead, Took
    <2>4. CASE Return(TRUE, <<>>)
      BY <2>3, <2>4, Zenon DEF GivesUp
    <2>5. CASE ~Return(TRUE, <<>>)
      <3>1. /\ Available(HeadLen) = HeadLen /\ pipe[fd["data"]][1][2] = 1 /\ readPc = "head"
            /\ readPc' = "payload" /\ inHand' = pipe[fd["data"]][1][1] /\ event' = "none"
            /\ UNCHANGED <<room, sameOpen, answerVars, placeVars>>
        BY <1>8, <2>5, Zenon DEF ReadHead
      <3>2. QED
        BY <2>3, <3>1 DEF TakesHead, answerVars, placeVars
    <2>6. QED
      BY <2>4, <2>5, Zenon
  <1>9. ASSUME ReadPayload
        PROVE  GoesOn \/ GivesUp \/ TakesHead \/ GivesNone \/ GivesPayload
    <2> DEFINE t == Total(inHand)
    <2>1. fd["data"] \in Gens
      BY <1>9, Sorts DEF ReadPayload, Take, Gens
    <2>2. t \in Nat /\ t > 0 /\ readPc = "payload"
      <3>1. inHand \in 1..Len(sizes)
        BY <1>9, Sorts DEF ReadPayload, SessionInv
      <3>2. QED
        BY <1>9, <3>1, TotalNat DEF ReadPayload
    <2>3. Available(t) \in Nat /\ Available(t) <= Len(pipe[fd["data"]])
      BY <2>1, <2>2, AvailableIs
    <2>4. Took(Available(t))
      BY <1>9, <2>3 DEF ReadPayload, Took
    <2>5. CASE Available(t) = t
      <3>1. Return(~sameOpen, Answer(SubSeq(pipe[fd["data"]], 1, t)))
        BY <1>9, <2>5 DEF ReadPayload
      <3>2. QED
        BY <2>2, <2>4, <2>5, <3>1 DEF GivesPayload
    <2>6. CASE Available(t) # t
      <3>1. Return(TRUE, <<>>)
        BY <1>9, <2>6, Zenon DEF ReadPayload
      <3>2. QED
        BY <2>4, <3>1, Zenon DEF GivesUp
    <2>7. QED
      BY <2>5, <2>6
  <1>10. QED
    BY <1>1, <1>2, <1>4, <1>5, <1>6, <1>7, <1>8, <1>9 DEF Reads, Read

\* readAnswer() keeps the types.
LEMMA ReadTypes ==
    ASSUME TypeOK, SessionInv, ShapeInv, Reads
    PROVE  TypeOK'
  <1>1. SessionTypes /\ PipeTypes /\ ReaderTypes
    BY TypeParts
  <1>2. /\ UNCHANGED <<file, gen, phase, link, maxSize, sizes, out, fd, hears, runPc>>
        /\ isOpen' \in [Pipes -> BOOLEAN]
        /\ GoesOn \/ GivesUp \/ TakesHead \/ GivesNone \/ GivesPayload
    BY ReadSteps
  <1>3. SessionTypes'
    BY <1>1, <1>2 DEF SessionTypes
  <1>4. PipeTypes'
    <2>1. CASE UNCHANGED pipe
      BY <1>1, <2>1 DEF PipeTypes, Fits, Gens
    <2>2. ASSUME NEW n, Took(n) PROVE PipeTypes'
      BY <2>2, TakeTypes DEF Took
    <2>3. QED
      BY <1>2, <2>1, <2>2, Zenon DEF GoesOn, GivesUp, TakesHead, GivesNone, GivesPayload
  <1>5. ReaderTypes'
    <2>1. CASE GoesOn
      BY <1>1, <1>2, <2>1 DEF GoesOn, ReaderTypes
    <2>2. CASE GivesUp
      <3>1. PICK slip : Return(slip, <<>>)
        BY <2>2, Zenon DEF GivesUp
      <3>2. QED
        BY <1>2, <3>1, ReturnTypes
    <2>3. CASE TakesHead
      <3>1. fd["data"] \in Gens /\ pipe[fd["data"]] # <<>>
        BY <2>3, Sorts DEF TakesHead, Took, Take, Gens
      <3>2. inHand' \in 1..Len(sizes)
        BY <2>3, <3>1, HeadIs DEF TakesHead
      <3>3. inHand' \in 0..Len(sizes')
        BY <1>2, <3>2
      <3>4. QED
        BY <1>1, <1>2, <2>3, <3>3 DEF TakesHead, ReaderTypes
    <2>4. CASE GivesNone
      <3>1. <<>> \in Seq(Byte)
        OBVIOUS
      <3>2. QED
        BY <1>2, <2>4, <3>1, ReturnTypes, Zenon DEF GivesNone
    <2>5. CASE GivesPayload
      <3> DEFINE b == SubSeq(pipe[fd["data"]], 1, Total(inHand))
      <3>1. fd["data"] \in Gens /\ Total(inHand) \in Nat /\ Total(inHand) <= Len(pipe[fd["data"]])
        BY <2>5, TakeTypes DEF GivesPayload, Took
      <3>2. b \in Seq(Byte)
        <4>1. pipe[fd["data"]] \in Seq(Byte)
          BY <3>1, Sorts, SMTT(20)
        <4>2. QED
          BY <3>1, <4>1, Split
      <3>3. Return(~sameOpen, Answer(b))
        BY <2>5 DEF GivesPayload
      <3> HIDE DEF b
      <3>4. QED
        BY <1>2, <3>2, <3>3, ReturnTypes, Zenon
    <2>6. QED
      BY <1>2, <2>1, <2>2, <2>3, <2>4, <2>5
  <1>6. QED
    BY <1>3, <1>4, <1>5, TypeParts

--------------------------------------------------------------------------------
(* The session, and who keeps a pipe *)

\* When the server holds the data pipe, before and after a step.
LEMMA OngoingIs ==
    /\ Ongoing <=> phase \in {"up", "write"} \/ (phase = "close" /\ link = "data")
    /\ Ongoing' <=> phase' \in {"up", "write"} \/ (phase' = "close" /\ link' = "data")
  BY DEF Ongoing, Serves

\* What the end of a call leaves.
LEMMA ReturnLeaves ==
    ASSUME NEW slip, NEW got, Return(slip, got)
    PROVE  /\ readPc' = "idle" /\ inHand' = 0 /\ sameOpen' = TRUE
           /\ owed = <<>> => owed' = <<>>
  BY DEF Return

\* readAnswer() has a header in hand exactly while it waits for the payload.
LEMMA ReadLeaves ==
    ASSUME TypeOK, SessionInv, ShapeInv, Reads
    PROVE  /\ readPc' = "payload" <=> inHand' # 0
           /\ readPc' = "idle" => sameOpen'
           /\ owed = <<>> => owed' = <<>>
  <1>1. GoesOn \/ GivesUp \/ TakesHead \/ GivesNone \/ GivesPayload
    BY ReadSteps
  <1>2. CASE GoesOn
    BY <1>2 DEF GoesOn, SessionInv
  <1>3. ASSUME NEW slip, NEW got, Return(slip, got)
        PROVE  /\ readPc' = "payload" <=> inHand' # 0
               /\ readPc' = "idle" => sameOpen'
               /\ owed = <<>> => owed' = <<>>
    BY <1>3, ReturnLeaves, Zenon
  <1>4. CASE TakesHead
    <2>1. fd["data"] \in Gens /\ pipe[fd["data"]] # <<>>
      BY <1>4, Sorts DEF TakesHead, Took, Take, Gens
    <2>2. inHand' \in 1..Len(sizes)
      BY <1>4, <2>1, HeadIs DEF TakesHead
    <2>3. inHand' # 0
      BY <2>2
    <2>4. QED
      BY <1>4, <2>3 DEF TakesHead
  <1>5. CASE GivesUp \/ GivesNone \/ GivesPayload
    BY <1>3, <1>5, Zenon DEF GivesUp, GivesNone, GivesPayload
  <1>6. QED
    BY <1>1, <1>2, <1>4, <1>5

\* Every step keeps the session as it must be.
LEMMA SessionStep ==
    ASSUME TypeOK, TypeOK', SessionInv, ShapeInv, Next
    PROVE  SessionInv'
  <1>1. /\ gen \in Nat /\ file["data"] \in Nat /\ fd["data"] \in Int /\ Len(sizes) \in Nat
        /\ InitPipeSize \in Nat /\ MaxMsgs \in Nat /\ file \in [Pipes -> 0..MaxGens]
        /\ fd \in [Pipes -> -1..MaxGens] /\ link \in Pipes
    <2>1. file \in [Pipes -> 0..MaxGens] /\ fd \in [Pipes -> -1..MaxGens] /\ link \in Pipes
      BY Zenon DEF TypeOK
    <2>2. /\ gen \in Nat /\ file["data"] \in 0..MaxGens /\ fd["data"] \in -1..MaxGens
          /\ Len(sizes) \in Nat /\ InitPipeSize \in Nat /\ MaxMsgs \in Nat
      BY Sorts
    <2>3. QED
      BY <2>1, <2>2
  <1>2. CASE Start
    BY <1>1, <1>2, OngoingIs DEF Start, SessionInv, readVars, runVars
  <1>3. CASE RemoveFile \/ MakeFile
    <2>1. file'["data"] <= gen /\ (phase' = "open" /\ link = "data" => file'["data"] = gen)
      BY <1>1, <1>3 DEF RemoveFile, MakeFile, SessionInv, Pipes
    <2>2. QED
      BY <1>3, <2>1, OngoingIs DEF RemoveFile, MakeFile, SessionInv, readVars, runVars, placeVars
  <1>4. CASE OpenFile
    BY <1>1, <1>4, OngoingIs DEF OpenFile, SessionInv, readVars, placeVars
  <1>5. CASE Release \/ CloseFile \/ Crash
    BY <1>1, <1>5, OngoingIs DEF Release, CloseFile, Crash, SessionInv, readVars, runVars, placeVars
  <1>6. CASE UnlinkFile
    <2>1. file'["data"] <= gen
      BY <1>1, <1>6 DEF UnlinkFile, SessionInv, Pipes
    <2>2. QED
      BY <1>6, <2>1, OngoingIs DEF UnlinkFile, SessionInv, readVars, runVars, placeVars
  <1>7. ASSUME NEW s \in Sizes, SendAnswer(s) PROVE SessionInv'
    <2>1. Len(sizes') <= MaxMsgs /\ (maxSize' <= InitPipeSize \/ maxSize' <= PipeLimit)
      <3>1. sizes' = Append(sizes, s) /\ sizes \in Seq(Sizes) /\ Len(sizes) < MaxMsgs
        BY <1>7 DEF SendAnswer, TypeOK
      <3>2. Len(sizes') = Len(sizes) + 1
        BY <3>1, AppendIs
      <3>3. QED
        BY <1>1, <1>7, <3>1, <3>2, SendTypes
    <2>2. QED
      BY <1>7, <2>1, OngoingIs DEF SendAnswer, SessionInv, readVars, runVars
  <1>8. CASE Write
    BY <1>8, OngoingIs DEF Write, SessionInv, readVars, runVars, placeVars
  <1>9. CASE Check \/ CloseCmd \/ OpenCmd
    <2>1. UNCHANGED <<file, gen, phase, link, maxSize, sizes, out, readPc, inHand, sameOpen, owed>>
      BY <1>9 DEF Check, CloseCmd, OpenCmd, serverVars, readVars, placeVars
    <2>2. fd'["data"] = fd["data"]
      BY <1>1, <1>9 DEF Check, CloseCmd, OpenCmd, ClosePipeFile, OpenPipeFile, Pipes
    <2>3. runPc' \in {"closeCmd", "openData"} => runPc = "closeCmd"
      BY <1>9 DEF Check, CloseCmd, OpenCmd, ClosePipeFile, OpenPipeFile
    <2>4. QED
      BY <2>1, <2>2, <2>3, OngoingIs DEF SessionInv
  <1>10. CASE CloseData
    BY <1>1, <1>10, OngoingIs DEF CloseData, ClosePipeFile, SessionInv, serverVars, readVars,
            placeVars, Pipes
  <1>11. CASE OpenData
    <2>1. UNCHANGED <<file, gen, phase, link, maxSize, sizes, out, readPc, inHand, owed>>
      BY <1>11 DEF OpenData, serverVars, readVars, placeVars
    <2>2. (fd'["data"] = -1 \/ fd'["data"] = file["data"]) /\ runPc' \notin {"closeCmd", "openData"}
          /\ sameOpen' = (readPc = "idle")
      BY <1>1, <1>11 DEF OpenData, OpenPipeFile, Pipes
    <2>3. fd'["data"] <= gen
      BY <1>1, <2>2 DEF SessionInv
    <2>4. QED
      BY <2>1, <2>2, <2>3, OngoingIs, Zenon DEF SessionInv
  <1>12. CASE Reads
    <2>1. UNCHANGED <<file, gen, phase, link, maxSize, sizes, out, fd, hears, runPc>>
      BY <1>12, ReadSteps
    <2>2. /\ readPc' = "payload" <=> inHand' # 0
          /\ readPc' = "idle" => sameOpen'
          /\ owed = <<>> => owed' = <<>>
      BY <1>12, ReadLeaves
    <2>3. QED
      BY <2>1, <2>2, OngoingIs DEF SessionInv
  <1>13. QED
    BY <1>2, <1>3, <1>4, <1>5, <1>6, <1>7, <1>8, <1>9, <1>10, <1>11, <1>12
    DEF Next, Starting, Stopping, Run, Reads

\* Every step leaves bytes only in pipes that somebody holds open.
LEMMA KeepStep ==
    ASSUME TypeOK, TypeOK', SessionInv, KeepInv, ShapeInv, Next
    PROVE  KeepInv'
  <1>1. /\ gen \in Nat /\ fd["data"] \in Int /\ fd["data"] <= MaxGens /\ MaxGens \in Nat
        /\ gen <= MaxGens /\ fd \in [Pipes -> -1..MaxGens] /\ fd["data"] <= gen
        /\ pipe \in [Gens -> Seq(Byte)] /\ (phase # "down" => gen \in Gens)
    <2>1. fd \in [Pipes -> -1..MaxGens] /\ pipe \in [Gens -> Seq(Byte)]
      BY Zenon DEF TypeOK, Gens
    <2>2. gen \in Nat /\ fd["data"] \in -1..MaxGens /\ MaxGens \in Nat /\ gen <= MaxGens
      BY Sorts
    <2>3. fd["data"] <= gen /\ (phase # "down" => gen > 0)
      BY DEF SessionInv
    <2>4. QED
      BY <2>1, <2>2, <2>3 DEF Gens
  <1>2. CASE Start
    <2>1. gen' = gen + 1 /\ UNCHANGED <<pipe, fd, inHand, sameOpen>> /\ phase = "down" /\ gen' \in Gens
          /\ phase' = "remove"
      BY <1>1, <1>2 DEF Start, readVars, runVars, Gens
    <2>2. fd["data"] # gen' /\ gen # gen'
      BY <1>1, <2>1
    <2>3. pipe[gen'] = <<>>
      BY <2>1, <2>2 DEF KeepInv
    <2>4. ~Ongoing
      BY <2>1, OngoingIs
    <2>5. QED
      BY <2>1, <2>2, <2>3, <2>4 DEF KeepInv, Gens
  <1>3. CASE RemoveFile \/ MakeFile \/ OpenFile \/ Release
    <2>1. UNCHANGED <<pipe, fd, inHand, sameOpen, gen>>
      BY <1>3 DEF RemoveFile, MakeFile, OpenFile, Release, readVars, runVars
    <2>2. /\ Ongoing => Ongoing'
          /\ phase' \in {"remove", "mkfifo", "open"} => phase \in {"remove", "mkfifo", "open"}
      BY <1>3, OngoingIs DEF RemoveFile, MakeFile, OpenFile, Release, SessionInv
    <2>3. QED
      BY <2>1, <2>2 DEF KeepInv, Gens
  <1>4. CASE UnlinkFile
    <2>1. UNCHANGED <<pipe, fd, inHand, sameOpen, gen>> /\ phase = "unlink"
          /\ phase' \in {"close", "down"}
      BY <1>4 DEF UnlinkFile, readVars, runVars
    <2>2. ~Ongoing
      BY <2>1, OngoingIs
    <2>3. QED
      BY <2>1, <2>2 DEF KeepInv, Gens
  <1>5. CASE CloseFile \/ Crash
    <2>1. UNCHANGED <<fd, inHand, sameOpen, gen>> /\ phase # "down" /\ phase' \in {"unlink", "down"}
      BY <1>5 DEF CloseFile, Crash, readVars, runVars
    <2>2. CASE Forget(gen)
      <3>1. gen \in Gens
        BY <1>1, <2>1
      <3>2. pipe' = [pipe EXCEPT ![gen] = IF fd["data"] = gen THEN pipe[gen] ELSE <<>>]
        BY <2>2 DEF Forget
      <3>3. /\ pipe'[gen] # <<>> => fd["data"] = gen
            /\ \A g \in Gens : g # gen => pipe'[g] = pipe[g]
        BY <1>1, <3>1, <3>2
      <3>4. QED
        BY <2>1, <3>3 DEF KeepInv, Gens
    <2>3. CASE UNCHANGED pipe /\ ~Ongoing
      BY <2>1, <2>3 DEF KeepInv, Gens
    <2>4. QED
      BY <1>5, <2>2, <2>3, OngoingIs DEF CloseFile, Crash
  <1>6. ASSUME NEW s \in Sizes, SendAnswer(s) PROVE KeepInv'
    <2>1. UNCHANGED <<pipe, fd, inHand, sameOpen, gen>> /\ phase' = "write"
      BY <1>6 DEF SendAnswer, readVars, runVars
    <2>2. Ongoing'
      BY <2>1, OngoingIs
    <2>3. QED
      BY <2>1, <2>2 DEF KeepInv, Gens
  <1>7. CASE Write
    <2>1. UNCHANGED <<fd, gen>> /\ phase = "write" /\ phase' \in {"up", "write"}
      BY <1>7 DEF Write, runVars
    <2>2. Ongoing /\ Ongoing'
      BY <2>1, OngoingIs
    <2>3. \A g \in Gens : g # gen => pipe'[g] = pipe[g]
      BY <1>7, WriteTypes
    <2>4. QED
      BY <2>1, <2>2, <2>3 DEF KeepInv, Gens
  <1>8. CASE Check \/ CloseCmd \/ OpenCmd
    <2>1. UNCHANGED <<pipe, inHand, sameOpen, gen, phase, link>> /\ fd'["data"] = fd["data"]
      BY <1>1, <1>8 DEF Check, CloseCmd, OpenCmd, ClosePipeFile, OpenPipeFile, serverVars, readVars,
              Pipes
    <2>2. Ongoing' <=> Ongoing
      BY <2>1, OngoingIs
    <2>3. QED
      BY <2>1, <2>2 DEF KeepInv, Gens
  <1>9. CASE CloseData
    <2>1. UNCHANGED <<inHand, sameOpen, gen, phase, link>> /\ fd'["data"] = 0
      BY <1>1, <1>9 DEF CloseData, ClosePipeFile, serverVars, readVars, Pipes
    <2>2. Ongoing' <=> Ongoing
      BY <2>1, OngoingIs
    <2>3. pipe' = [g \in Gens |-> IF g = fd["data"] /\ ~(g = gen /\ Ongoing) THEN <<>> ELSE pipe[g]]
      BY <1>1, <1>9 DEF CloseData, Ongoing
    <2>4. \A g \in Gens : pipe'[g] # <<>> => g = gen /\ Ongoing
      BY <2>3 DEF KeepInv
    <2>5. \A g \in Gens : pipe[g] = <<>> => pipe'[g] = <<>>
      BY <2>3
    <2>6. phase \in {"remove", "mkfifo", "open"} => gen \in Gens /\ gen # 0
      BY <1>1 DEF Gens
    <2>7. QED
      BY <2>1, <2>2, <2>4, <2>5, <2>6 DEF KeepInv, Gens
  <1>10. CASE OpenData
    <2>1. UNCHANGED <<pipe, inHand, gen, phase, link, readPc>> /\ fd["data"] <= 0
          /\ sameOpen' = (readPc = "idle")
      BY <1>10 DEF OpenData, serverVars, readVars, SessionInv
    <2>2. Ongoing' <=> Ongoing
      BY <2>1, OngoingIs
    <2>3. \A g \in Gens : pipe[g] # <<>> => g = gen /\ Ongoing
      BY <1>1, <2>1 DEF KeepInv, Gens
    <2>4. ~(inHand' # 0 /\ sameOpen')
      BY <2>1, Zenon DEF SessionInv
    <2>5. QED
      BY <2>1, <2>2, <2>3, <2>4 DEF KeepInv, Gens
  <1>11. CASE Reads
    <2>1. /\ UNCHANGED <<gen, phase, link, fd, sizes, out>>
          /\ GoesOn \/ GivesUp \/ TakesHead \/ GivesNone \/ GivesPayload
      BY <1>11, ReadSteps
    <2>2. Ongoing' <=> Ongoing
      BY <2>1, OngoingIs
    <2>3. \A g \in Gens : pipe'[g] = pipe[g] \/ (g = fd["data"] /\ pipe[g] # <<>>)
      <3>1. ASSUME NEW n, Took(n)
            PROVE  /\ \A g \in Gens : g # fd["data"] => pipe'[g] = pipe[g]
                   /\ pipe[fd["data"]] # <<>>
        BY <3>1, TakeTypes DEF Took, Take
      <3>2. QED
        BY <2>1, <3>1, Zenon DEF GoesOn, GivesUp, TakesHead, GivesNone, GivesPayload
    <2>4. (inHand' # 0 /\ sameOpen') => (inHand # 0 /\ sameOpen) \/ pipe[fd["data"]] # <<>>
      <3>1. ASSUME NEW slip, NEW got, Return(slip, got) PROVE inHand' = 0
        BY <3>1, ReturnLeaves, Zenon
      <3>2. QED
        BY <2>1, <3>1, Zenon DEF GoesOn, GivesUp, TakesHead, GivesNone, GivesPayload, Took, Take
    <2>5. phase \in {"remove", "mkfifo", "open"} => pipe'[gen] = <<>> /\ gen \in Gens
      BY <1>1, <2>3 DEF KeepInv
    <2>6. QED
      BY <2>1, <2>2, <2>3, <2>4, <2>5 DEF KeepInv, Gens
  <1>12. QED
    BY <1>2, <1>3, <1>4, <1>5, <1>6, <1>7, <1>8, <1>9, <1>10, <1>11
    DEF Next, Starting, Stopping, Run, Reads

--------------------------------------------------------------------------------
(* What the steps of the server and of run() do to the streams *)

\* No byte comes or goes.
SameStreams == \A g \in Gens : Stream(g)' = Stream(g)

\* Nothing that the reader could notice.
Quiet ==
    /\ SameStreams /\ (Ongoing' <=> Ongoing) /\ fd'["data"] = fd["data"]
    /\ UNCHANGED <<gen, sizes, owed, slipped, inHand, sameOpen, answer, newest>>

\* The server begins to serve a pipe, which is new and empty.
Opens ==
    /\ SameStreams /\ ~Ongoing /\ Ongoing' /\ gen \in Gens /\ Stream(gen) = <<>>
    /\ inHand # 0 /\ sameOpen => fd["data"] # gen
    /\ owed = <<>>
    /\ UNCHANGED <<fd, gen, sizes, owed, inHand, sameOpen, answer, newest>>

\* The server does not serve a pipe, or ends to do so.
Ends ==
    /\ ~Ongoing'
    /\ \A g \in Gens : Stream(g)' \in Seq(Byte) /\ Part(Stream(g)', Stream(g), 0)
    /\ UNCHANGED <<fd, sizes, inHand, sameOpen, answer, newest>>

\* run() closes the data pipe, and opens one again.
Leaves ==
    /\ (Ongoing' <=> Ongoing) /\ fd'["data"] = 0
    /\ \A g \in Gens : Stream(g)' = Stream(g) \/ (Stream(g)' = <<>> /\ ~(g = gen /\ Ongoing))
    /\ UNCHANGED <<gen, sizes, owed, slipped, inHand, sameOpen, answer, newest>>

\* run() opens the data pipe again, or fails to.
Joins ==
    /\ SameStreams /\ (Ongoing' <=> Ongoing)
    /\ Ongoing => file["data"] = gen
    /\ fd'["data"] = -1 \/ fd'["data"] = file["data"]
    /\ \A g \in Gens : Stream(g) # <<>> => g = gen /\ Ongoing
    /\ inHand # 0 => ~sameOpen'
    /\ UNCHANGED <<gen, sizes, owed, slipped, inHand, answer, newest>>

\* Every step is one of these, a step of readAnswer() or sendAnswer().
LEMMA SessionSteps ==
    ASSUME TypeOK, SessionInv, KeepInv, Next
    PROVE  Quiet \/ Opens \/ Ends \/ Leaves \/ Joins \/ Reads \/ \E s \in Sizes : SendAnswer(s)
  <1>1. /\ gen \in Nat /\ MaxGens \in Nat /\ gen <= MaxGens /\ (phase # "down" => gen \in Gens)
        /\ fd \in [Pipes -> -1..MaxGens] /\ pipe \in [Gens -> Seq(Byte)]
        /\ \A g \in Gens : Stream(g) \in Seq(Byte) /\ pipe[g] \in Seq(Byte)
    <2>1. fd \in [Pipes -> -1..MaxGens] /\ pipe \in [Gens -> Seq(Byte)]
      BY DEF TypeOK, Gens
    <2>2. gen \in Nat /\ MaxGens \in Nat /\ gen <= MaxGens
          /\ \A g \in Gens : Stream(g) \in Seq(Byte) /\ pipe[g] \in Seq(Byte)
      BY Sorts
    <2>3. phase # "down" => gen \in Gens
      BY <2>2 DEF SessionInv, Gens
    <2>4. QED
      BY <2>1, <2>2, <2>3
  <1>2. ASSUME NEW z \in Seq(Byte) PROVE Part(z, z, 0) /\ Part(<<>>, z, 0)
    BY DEF Part
  <1>3. ASSUME UNCHANGED <<gen, out, pipe>> PROVE SameStreams
    BY <1>3 DEF SameStreams, Stream, Gens
  <1>4. ASSUME Start PROVE Ends
    <2>1. /\ gen' = gen + 1 /\ phase = "down" /\ phase' = "remove" /\ out = <<>> /\ gen' \in Gens
          /\ UNCHANGED <<pipe, out, fd, sizes, inHand, sameOpen, answer, newest>>
      BY <1>1, <1>4 DEF Start, SessionInv, readVars, answerVars, runVars, Gens
    <2>2. ASSUME NEW g \in Gens PROVE Stream(g)' = Stream(g)
      <3>1. pipe[g] \o <<>> = pipe[g]
        BY <1>1
      <3>2. QED
        BY <2>1, <3>1 DEF Stream
    <2>3. ~Ongoing'
      BY <2>1, OngoingIs
    <2>4. QED
      BY <1>1, <1>2, <2>1, <2>2, <2>3 DEF Ends
  <1>5. ASSUME RemoveFile \/ MakeFile \/ Release \/ UnlinkFile PROVE Quiet
    <2>1. UNCHANGED <<gen, out, pipe, fd, sizes, owed, slipped, inHand, sameOpen, answer, newest>>
      BY <1>5, Zenon DEF RemoveFile, MakeFile, Release, UnlinkFile, readVars, answerVars, runVars, placeVars
    <2>2. Ongoing' <=> Ongoing
      BY <1>5, OngoingIs DEF RemoveFile, MakeFile, Release, UnlinkFile, SessionInv
    <2>3. QED
      BY <1>3, <2>1, <2>2 DEF Quiet
  <1>6. ASSUME OpenFile PROVE Quiet \/ Opens
    <2>1. UNCHANGED <<gen, out, pipe, fd, sizes, owed, slipped, inHand, sameOpen, answer, newest>>
          /\ phase = "open" /\ gen \in Gens
      BY <1>1, <1>6 DEF OpenFile, readVars, answerVars, placeVars
    <2>2. ~Ongoing
      BY <2>1, OngoingIs
    <2>3. out = <<>> /\ owed = <<>> /\ pipe[gen] = <<>> /\ (inHand # 0 /\ sameOpen => fd["data"] # gen)
      BY <2>1, <2>2, Zenon DEF SessionInv, KeepInv
    <2>4. Stream(gen) = <<>>
      BY <2>1, <2>3, Sorts, Zenon
    <2>5. CASE Ongoing'
      BY <1>3, <2>1, <2>2, <2>3, <2>4, <2>5, Zenon DEF Opens
    <2>6. CASE ~Ongoing'
      BY <1>3, <2>1, <2>2, <2>6 DEF Quiet
    <2>7. QED
      BY <2>5, <2>6
  <1>7. ASSUME CloseFile \/ Crash PROVE Ends
    <2>1. UNCHANGED <<fd, sizes, inHand, sameOpen, answer, newest, gen>> /\ gen \in Gens
          /\ phase' \in {"unlink", "down"}
      BY <1>1, <1>7 DEF CloseFile, Crash, readVars, answerVars, runVars
    <2>2. ~Ongoing'
      BY <2>1, OngoingIs
    <2>3. out' = <<>>
      BY <1>7 DEF CloseFile, Crash, SessionInv
    <2>4. \A g \in Gens : pipe'[g] = pipe[g] \/ pipe'[g] = <<>>
      BY <1>1, <1>7, <2>1 DEF CloseFile, Crash, Forget
    <2>5. ASSUME NEW g \in Gens
          PROVE  Stream(g)' \in Seq(Byte) /\ Part(Stream(g)', Stream(g), 0)
      <3>1. pipe'[g] \in Seq(Byte)
        <4>1. <<>> \in Seq(Byte)
          OBVIOUS
        <4>2. QED
          BY <1>1, <2>4, <4>1, Zenon
      <3>2. pipe'[g] \o <<>> = pipe'[g]
        BY <3>1
      <3>3. Stream(g)' = pipe'[g]
        BY <2>1, <2>3, <3>2 DEF Stream
      <3>4. Part(pipe[g], Stream(g), 0)
        <4>1. /\ Len(pipe[g]) \in Nat /\ Len(pipe[g]) <= Len(Stream(g))
              /\ \A i \in 1..Len(pipe[g]) : Stream(g)[i] = pipe[g][i]
          BY FrontOf
        <4>2. QED
          BY <4>1 DEF Part
      <3>5. Part(<<>>, Stream(g), 0)
        BY <1>1, <1>2
      <3>6. QED
        BY <2>4, <3>1, <3>3, <3>4, <3>5
    <2>6. QED
      BY <2>1, <2>2, <2>5 DEF Ends
  <1>8. ASSUME Write PROVE Quiet
    <2>1. SameStreams
      BY <1>8, WriteTypes DEF SameStreams
    <2>2. Ongoing' <=> Ongoing
      BY <1>8, OngoingIs DEF Write
    <2>3. QED
      BY <1>8, <2>1, <2>2 DEF Write, Quiet, readVars, answerVars, runVars, placeVars
  <1>9. ASSUME Run PROVE /\ UNCHANGED <<gen, out, sizes, owed, slipped, inHand, answer, newest, readPc>>
                         /\ Ongoing' <=> Ongoing
    BY <1>9, OngoingIs DEF Run, Check, CloseData, CloseCmd, OpenData, OpenCmd, serverVars, readVars,
            answerVars, placeVars
  <1>10. ASSUME Check \/ CloseCmd \/ OpenCmd PROVE Quiet
    <2>1. Run /\ fd'["data"] = fd["data"] /\ UNCHANGED <<pipe, sameOpen>>
      BY <1>1, <1>10 DEF Run, Check, CloseCmd, OpenCmd, ClosePipeFile, OpenPipeFile, Pipes
    <2>2. QED
      BY <1>3, <1>9, <2>1 DEF Quiet
  <1>11. ASSUME CloseData PROVE Leaves
    <2>1. Run /\ fd'["data"] = 0 /\ UNCHANGED sameOpen
      BY <1>1, <1>11 DEF Run, CloseData, ClosePipeFile, Pipes
    <2>2. pipe' = [g \in Gens |-> IF g = fd["data"] /\ ~(g = gen /\ Ongoing) THEN <<>> ELSE pipe[g]]
      BY <1>1, <1>11 DEF CloseData, Ongoing
    <2>3. UNCHANGED <<gen, out>> /\ (out # <<>> => Ongoing)
      BY <1>9, <2>1, OngoingIs DEF SessionInv
    <2>4. ASSUME NEW g \in Gens
          PROVE  Stream(g)' = Stream(g) \/ (Stream(g)' = <<>> /\ ~(g = gen /\ Ongoing))
      <3>1. CASE g = fd["data"] /\ ~(g = gen /\ Ongoing)
        <4>1. pipe'[g] = <<>>
          BY <2>2, <3>1
        <4>2. Stream(g)' = <<>>
          BY <2>3, <3>1, <4>1 DEF Stream
        <4>3. QED
          BY <3>1, <4>2
      <3>2. CASE ~(g = fd["data"] /\ ~(g = gen /\ Ongoing))
        <4>1. pipe'[g] = pipe[g]
          BY <2>2, <3>2
        <4>2. QED
          BY <2>3, <4>1 DEF Stream
      <3>3. QED
        BY <3>1, <3>2
    <2>5. QED
      BY <1>9, <2>1, <2>4 DEF Leaves
  <1>12. ASSUME OpenData PROVE Joins
    <2>1. Run /\ UNCHANGED pipe /\ sameOpen' = (readPc = "idle") /\ fd["data"] <= 0
          /\ fd'["data"] \in {-1, file["data"]}
      BY <1>1, <1>12 DEF Run, OpenData, OpenPipeFile, Pipes, SessionInv
    <2>2. SameStreams
      BY <1>3, <1>9, <2>1
    <2>3. \A g \in Gens : Stream(g) # <<>> => g = gen /\ Ongoing
      <3>1. \A g \in Gens : g # fd["data"]
        BY <1>1, <2>1 DEF Gens, Pipes
      <3>2. \A g \in Gens : pipe[g] # <<>> => g = gen /\ Ongoing
        BY <3>1 DEF KeepInv
      <3>3. out # <<>> => Ongoing
        BY OngoingIs DEF SessionInv
      <3>4. ASSUME NEW g \in Gens, Stream(g) # <<>> PROVE g = gen /\ Ongoing
        <4>1. pipe[g] = <<>> => g = gen /\ out # <<>>
          BY <3>4 DEF Stream
        <4>2. QED
          BY <3>2, <3>3, <4>1
      <3>5. QED
        BY <3>4
    <2>4. (Ongoing => file["data"] = gen) /\ (inHand # 0 => ~sameOpen')
      BY <2>1, Zenon DEF SessionInv
    <2>5. QED
      BY <1>9, <2>1, <2>2, <2>3, <2>4 DEF Joins
  <1>13. QED
    BY <1>4, <1>5, <1>6, <1>7, <1>8, <1>10, <1>11, <1>12
    DEF Next, Starting, Stopping, Run, Reads

--------------------------------------------------------------------------------
(* The streams keep their shape *)

\* What holds of a stream holds of its stretches.
LEMMA PieceKeeps ==
    ASSUME NEW y, NEW z \in Seq(Byte), Piece(y, z)
    PROVE  /\ \A sz : Shaped(z, sz) => Shaped(y, sz)
           /\ \A n : Above(z, n) => Above(y, n)
           /\ \A x : Before(x, z) => Before(x, y)
           /\ \A x : Before(z, x) => Before(y, x)
  <1>1. y \in Seq(Byte)
    BY DEF Piece
  <1>2. PICK d \in Nat : Part(y, z, d)
    BY DEF Piece
  <1>3. \A sz : Shaped(z, sz) => Shaped(y, sz)
    BY <1>1, <1>2, ShapedPart
  <1>4. Len(y) \in Nat /\ Len(z) \in Nat /\ d + Len(y) <= Len(z)
    BY <1>1, <1>2 DEF Part
  <1>5. \A i \in 1..Len(y) : y[i] = z[d + i] /\ d + i \in 1..Len(z)
    BY <1>2, <1>4 DEF Part
  <1>6. QED
    BY <1>3, <1>5, Zenon DEF Above, Before

\* y begins where d bytes of z end.
BeginsAt(y, z, d) == (y = <<>> <=> Len(z) = d) /\ (y # <<>> => y[1] = z[d + 1])

\* What is left of a stream begins where the read ended, and ends as before.
LEMMA RestKeeps ==
    ASSUME NEW y, NEW z \in Seq(Byte), NEW d \in Nat, RestOf(y, z, d), d <= Len(z)
    PROVE  Piece(y, z) /\ BeginsAt(y, z, d) /\ \A sz : Ended(z, sz) => Ended(y, sz)
  <1>1. y \in Seq(Byte) /\ Len(y) = Len(z) - d /\ Part(y, z, d) /\ Len(z) \in Nat /\ Len(y) \in Nat
    BY DEF RestOf
  <1>2. y # <<>> => Len(y) > 0 /\ d + Len(y) = Len(z) /\ z # <<>>
    BY <1>1
  <1>3. y # <<>> => y[Len(y)] = z[Len(z)] /\ y[1] = z[d + 1]
    BY <1>1, <1>2 DEF Part
  <1>4. y = <<>> <=> Len(z) = d
    BY <1>1
  <1>5. QED
    BY <1>1, <1>2, <1>3, <1>4 DEF Piece, Ended, BeginsAt

\* The stretches that a step leaves.
LEMMA WholePieces ==
    ASSUME NEW z \in Seq(Byte)
    PROVE  Piece(z, z) /\ Piece(<<>>, z) /\ \A y \in Seq(Byte) : Part(y, z, 0) => Piece(y, z)
  <1>1. Part(z, z, 0) /\ Part(<<>>, z, 0) /\ <<>> \in Seq(Byte) /\ 0 \in Nat
    BY DEF Part
  <1>2. QED
    BY <1>1 DEF Piece

\* What every read leaves.
LEMMA ReadsLeave ==
    ASSUME TypeOK, SessionInv, Reads
    PROVE  /\ UNCHANGED <<gen, sizes, fd>> /\ (Ongoing' <=> Ongoing)
           /\ \A g \in Gens : \/ Stream(g)' = Stream(g)
                              \/ /\ g = fd["data"]
                                 /\ \E n \in Nat : n <= Len(Stream(g)) /\ RestOf(Stream(g)', Stream(g), n)
  <1>1. /\ UNCHANGED <<gen, phase, link, sizes, out, fd>>
        /\ GoesOn \/ GivesUp \/ TakesHead \/ GivesNone \/ GivesPayload
    BY ReadSteps
  <1>2. Ongoing' <=> Ongoing
    BY <1>1, OngoingIs
  <1>3. CASE UNCHANGED pipe
    BY <1>1, <1>2, <1>3 DEF Stream
  <1>4. ASSUME NEW n, Took(n)
        PROVE  \A g \in Gens : \/ Stream(g)' = Stream(g)
                               \/ /\ g = fd["data"]
                                  /\ \E k \in Nat : k <= Len(Stream(g)) /\ RestOf(Stream(g)', Stream(g), k)
    <2> DEFINE d == fd["data"]
    <2>1. d \in Gens /\ n \in Nat /\ Take(n) /\ n <= Len(pipe[d])
      BY <1>4, TakeTypes DEF Took
    <2>2. RestOf(Stream(d)', Stream(d), n) /\ \A h \in Gens : h # d => Stream(h)' = Stream(h)
      <3>1. PICK e \in Gens : e = d
        BY <2>1
      <3>2. RestOf(Stream(e)', Stream(e), n) /\ \A h \in Gens : h # e => Stream(h)' = Stream(h)
        BY <1>1, <2>1, <3>1, TakeStreams
      <3>3. QED
        BY <1>1, <3>1, <3>2
    <2>3. n <= Len(Stream(d))
      <3>1. Len(pipe[d]) \in Nat /\ Len(Stream(d)) \in Nat /\ Len(pipe[d]) <= Len(Stream(d))
        BY <2>1, FrontOf
      <3>2. QED
        BY <2>1, <3>1
    <2>4. QED
      BY <1>1, <2>1, <2>2, <2>3
  <1>5. QED
    BY <1>1, <1>2, <1>3, <1>4, Zenon DEF GoesOn, GivesUp, TakesHead, GivesNone, GivesPayload

\* Bytes are only taken away, except by sendAnswer().
LEMMA Shrinks ==
    ASSUME TypeOK, SessionInv, KeepInv, Next, ~\E s \in Sizes : SendAnswer(s)
    PROVE  UNCHANGED sizes /\ \A g \in Gens : Piece(Stream(g)', Stream(g))
  <1>1. \A g \in Gens : Stream(g) \in Seq(Byte)
    BY Sorts
  <1>2. \A g \in Gens : /\ Piece(Stream(g), Stream(g)) /\ Piece(<<>>, Stream(g))
                        /\ \A y \in Seq(Byte) : Part(y, Stream(g), 0) => Piece(y, Stream(g))
    BY <1>1, WholePieces
  <1>3. CASE Quiet \/ Opens \/ Joins
    BY <1>2, <1>3 DEF Quiet, Opens, Joins, SameStreams
  <1>4. CASE Ends \/ Leaves
    BY <1>2, <1>4 DEF Ends, Leaves
  <1>5. CASE Reads
    <2>1. UNCHANGED sizes
      BY <1>5, ReadsLeave
    <2>2. ASSUME NEW g \in Gens PROVE Piece(Stream(g)', Stream(g))
      <3>1. CASE Stream(g)' = Stream(g)
        BY <1>2, <3>1
      <3>2. ASSUME NEW n \in Nat, n <= Len(Stream(g)), RestOf(Stream(g)', Stream(g), n)
            PROVE  Piece(Stream(g)', Stream(g))
        BY <1>1, <3>2, RestKeeps
      <3>3. QED
        BY <1>5, <3>1, <3>2, ReadsLeave
    <2>3. QED
      BY <2>1, <2>2
  <1>6. QED
    BY <1>3, <1>4, <1>5, SessionSteps

\* sendAnswer() appends the frame of the new message to the stream of the server.
LEMMA SendStreams ==
    ASSUME TypeOK, SessionInv, NEW s \in Sizes, SendAnswer(s)
    PROVE  /\ gen \in Gens /\ gen' = gen /\ Ongoing /\ Ongoing'
           /\ Stream(gen)' = Stream(gen) \o out'
           /\ \A g \in Gens : g # gen => Stream(g)' = Stream(g)
           /\ sizes' = Append(sizes, s)
           /\ UNCHANGED <<fd, inHand, sameOpen, answer, newest, slipped>>
  <1>1. /\ phase = "up" /\ phase' = "write" /\ sizes' = Append(sizes, s)
        /\ UNCHANGED <<gen, pipe, fd, inHand, sameOpen, answer, newest, slipped>>
    BY DEF SendAnswer, readVars, answerVars, runVars
  <1>2. gen \in Gens /\ out = <<>>
    BY <1>1, Sorts DEF SessionInv, Gens
  <1>3. Ongoing /\ Ongoing'
    BY <1>1, OngoingIs
  <1>4. Stream(gen) = pipe[gen] /\ Stream(gen)' = pipe[gen] \o out'
    <2>1. Stream(gen) = pipe[gen]
      BY <1>2, Sorts
    <2>2. QED
      BY <1>1, <2>1 DEF Stream
  <1>5. \A g \in Gens : g # gen => Stream(g)' = Stream(g)
    BY <1>1 DEF Stream
  <1>6. QED
    BY <1>1, <1>2, <1>3, <1>4, <1>5

================================================================================
