--------------------------- MODULE PipeAnswersProofs ---------------------------
(* What the pipe brokers keep for every size of the answers and of the buffers, every
   pipe capacity and any number of messages, crashes and restarts: answers are
   returned whole, once and in order, a reader finds its place again, and run() loses
   no descriptor.                                                                 *)
EXTENDS PipeStreamsProofs

\* A data pipe that the server holds is the one its file names.
LEMMA OngoingGen ==
    ASSUME TypeOK, SessionInv, Ongoing
    PROVE  gen \in Gens /\ file["data"] = gen
  <1>1. phase # "down" /\ file["data"] = gen
    BY OngoingIs DEF SessionInv
  <1>2. QED
    BY <1>1, Sorts DEF SessionInv, Gens

\* Every step keeps consecutive frames in the pipes.
LEMMA ShapeStep ==
    ASSUME TypeOK, TypeOK', SessionInv, KeepInv, ShapeInv, Next
    PROVE  ShapeInv'
  <1>1. /\ \A g \in Gens : Stream(g) \in Seq(Byte) /\ Shaped(Stream(g), sizes)
        /\ Sized(sizes)
    BY Sorts DEF ShapeInv
  <1>2. ASSUME NEW s \in Sizes, SendAnswer(s) PROVE ShapeInv'
    <2> DEFINE l == HeadLen + (s[1] + s[2])
               z == Stream(gen)
    <2>1. /\ gen \in Gens /\ gen' = gen /\ Ongoing /\ Stream(gen)' = z \o out'
          /\ \A g \in Gens : g # gen => Stream(g)' = Stream(g)
          /\ sizes' = Append(sizes, s)
      BY <1>2, SendStreams
    <2>2. /\ s \in Nat \X Nat /\ out' \in Seq(Byte) /\ Len(out') = l
          /\ \A i \in 1..l : out'[i] = <<Len(sizes) + 1, i>>
      BY <1>2, SendTypes
    <2>3. z \in Seq(Byte) /\ Shaped(z, sizes) /\ Ended(z, sizes)
      BY <1>1, <2>1 DEF ShapeInv
    <2> HIDE DEF z
    <2>4. Shaped(z \o out', sizes') /\ Ended(z \o out', sizes')
      <3> DEFINE f == out'
      <3>1. f \in Seq(Byte) /\ Len(f) = l /\ \A i \in 1..l : f[i] = <<Len(sizes) + 1, i>>
        BY <2>2
      <3> HIDE DEF f, l
      <3>2. l = HeadLen + (s[1] + s[2])
        BY DEF l
      <3>3. Shaped(z \o f, Append(sizes, s)) /\ Ended(z \o f, Append(sizes, s))
        BY <1>1, <2>2, <2>3, <3>1, <3>2, ShapedMore
      <3>4. QED
        BY <2>1, <3>3 DEF f
    <2>5. \A g \in Gens : Shaped(Stream(g), sizes')
      BY <1>1, <2>1, <2>2, ShapedStays
    <2>6. \A g \in Gens : Shaped(Stream(g)', sizes')
      BY <2>1, <2>4, <2>5, Zenon
    <2>7. Ended(Stream(gen)', sizes')
      BY <2>1, <2>4
    <2>8. QED
      BY <2>1, <2>6, <2>7 DEF ShapeInv, Gens
  <1>3. ASSUME ~\E s \in Sizes : SendAnswer(s) PROVE ShapeInv'
    <2>1. UNCHANGED sizes /\ \A g \in Gens : Piece(Stream(g)', Stream(g))
      BY <1>3, Shrinks
    <2>2. \A g \in Gens : Shaped(Stream(g)', sizes')
      BY <1>1, <2>1, PieceKeeps
    <2>3. ASSUME Ongoing' PROVE Ended(Stream(gen)', sizes')
      <3>1. CASE Opens
        BY <2>3, <3>1 DEF Opens, SameStreams, Ended
      <3>2. CASE Ends
        BY <2>3, <3>2 DEF Ends
      <3>3. ASSUME Ongoing, gen' = gen, Stream(gen)' = Stream(gen) PROVE Ended(Stream(gen)', sizes')
        BY <2>1, <3>3 DEF ShapeInv
      <3>4. CASE Quiet \/ Leaves \/ Joins
        <4>1. Ongoing /\ gen' = gen
          BY <2>3, <3>4 DEF Quiet, Leaves, Joins
        <4>2. gen \in Gens
          BY <4>1, OngoingGen
        <4>3. Stream(gen)' = Stream(gen)
          BY <3>4, <4>1, <4>2 DEF Quiet, Leaves, Joins, SameStreams
        <4>4. QED
          BY <3>3, <4>1, <4>3
      <3>5. CASE Reads
        <4>1. gen' = gen /\ Ongoing
          BY <2>3, <3>5, ReadsLeave
        <4>2. gen \in Gens
          BY <4>1, OngoingGen
        <4>3. CASE Stream(gen)' = Stream(gen)
          BY <3>3, <4>1, <4>3
        <4>4. ASSUME NEW n \in Nat, n <= Len(Stream(gen)), RestOf(Stream(gen)', Stream(gen), n)
              PROVE  Ended(Stream(gen)', sizes')
          <5>1. Ended(Stream(gen), sizes) /\ Stream(gen) \in Seq(Byte)
            BY <1>1, <4>1, <4>2 DEF ShapeInv
          <5>2. QED
            BY <2>1, <4>4, <5>1, RestKeeps, Zenon
        <4>5. \/ Stream(gen)' = Stream(gen)
              \/ \E n \in Nat : n <= Len(Stream(gen)) /\ RestOf(Stream(gen)', Stream(gen), n)
          BY <3>5, <4>1, <4>2, ReadsLeave
        <4>6. QED
          BY <4>3, <4>4, <4>5
      <3>6. QED
        BY <1>3, <3>1, <3>2, <3>4, <3>5, SessionSteps
    <2>4. QED
      BY <2>2, <2>3 DEF ShapeInv, Gens
  <1>4. QED
    BY <1>2, <1>3

\* No byte is newer than the latest message, and no pipe than the latest start.
LEMMA Newest ==
    ASSUME TypeOK, SessionInv, KeepInv, ShapeInv, NEW g \in Gens
    PROVE  /\ \A i \in 1..Len(Stream(g)) : Stream(g)[i][1] \in 1..Len(sizes)
           /\ g > gen => Stream(g) = <<>>
  <1>1. Shaped(Stream(g), sizes)
    BY DEF ShapeInv
  <1>2. ASSUME g > gen PROVE Stream(g) = <<>>
    <2>1. gen \in Nat /\ fd["data"] \in Int /\ fd["data"] <= gen /\ g \in Nat
      BY Sorts, SMTT(20) DEF SessionInv, Gens
    <2>2. g # gen /\ g # fd["data"]
      BY <1>2, <2>1
    <2>3. QED
      BY <2>2 DEF KeepInv, Stream
  <1>3. QED
    BY <1>1, <1>2 DEF Shaped

\* Every step keeps later messages in later pipes.
LEMMA OrderStep ==
    ASSUME TypeOK, TypeOK', SessionInv, KeepInv, ShapeInv, OrderInv, Next
    PROVE  OrderInv'
  <1>1. \A g \in Gens : Stream(g) \in Seq(Byte)
    BY Sorts
  <1>2. ASSUME NEW s \in Sizes, SendAnswer(s) PROVE OrderInv'
    <2> DEFINE l == HeadLen + (s[1] + s[2])
               z == Stream(gen)
               f == out'
    <2>1. /\ gen \in Gens /\ gen' = gen /\ Stream(gen)' = z \o f
          /\ \A g \in Gens : g # gen => Stream(g)' = Stream(g)
      BY <1>2, SendStreams
    <2>2. /\ f \in Seq(Byte) /\ Len(f) = l /\ l \in Nat
          /\ \A i \in 1..l : f[i] = <<Len(sizes) + 1, i>>
      BY <1>2, SendTypes
    <2>3. z \in Seq(Byte) /\ Len(sizes) \in Nat
      BY <1>1, <2>1, Sorts
    <2>4. ASSUME NEW g \in Gens, g < gen PROVE Before(Stream(g), z \o f)
      <3>1. Before(Stream(g), z)
        BY <2>1, <2>4 DEF OrderInv
      <3>2. \A i \in 1..Len(Stream(g)) : Stream(g)[i][1] \in 1..Len(sizes)
        BY Newest
      <3> HIDE DEF f, z, l
      <3>3. /\ Len(z \o f) = Len(z) + l /\ \A i \in 1..Len(z) : (z \o f)[i] = z[i]
            /\ \A i \in 1..l : (z \o f)[Len(z) + i] = f[i]
        <4>1. f \in Seq(Byte)
          BY <2>2
        <4>2. Len(z \o f) = Len(z) + Len(f)
          BY <2>3, <4>1, Concat
        <4>3. \A i \in 1..Len(z) : (z \o f)[i] = z[i]
          BY <2>3, <4>1, Concat
        <4>4. \A i \in 1..Len(f) : (z \o f)[Len(z) + i] = f[i]
          BY <2>3, <4>1, Concat
        <4>5. QED
          BY <2>2, <4>2, <4>3, <4>4, Zenon
      <3>4. ASSUME NEW i \in 1..Len(Stream(g)), NEW j \in 1..Len(z \o f)
            PROVE  Stream(g)[i][1] < (z \o f)[j][1]
        <4>1. Len(z) \in Nat
          BY <2>3
        <4>2. CASE j <= Len(z)
          <5>1. j \in 1..Len(z)
            BY <4>1, <4>2
          <5>2. QED
            BY <3>1, <3>3, <5>1 DEF Before
        <4>3. CASE j > Len(z)
          <5>1. j - Len(z) \in 1..l /\ Len(z) + (j - Len(z)) = j
            BY <2>2, <3>3, <4>1, <4>3
          <5>2. (z \o f)[j] = <<Len(sizes) + 1, j - Len(z)>>
            BY <2>2, <3>3, <5>1
          <5>3. (z \o f)[j][1] = Len(sizes) + 1
            BY <5>2
          <5>4. QED
            BY <2>3, <3>2, <5>3
        <4>4. QED
          BY <3>3, <4>1, <4>2, <4>3
      <3>5. QED
        BY <3>4 DEF Before
    <2>5. ASSUME NEW g \in Gens, g > gen PROVE \A x : Before(x, Stream(g))
      <3>1. Stream(g) = <<>>
        BY <2>5, Newest
      <3>2. QED
        BY <3>1 DEF Before
    <2>6. ASSUME NEW g \in Gens, NEW h \in Gens, g < h PROVE Before(Stream(g)', Stream(h)')
      <3>1. g \in Nat /\ h \in Nat /\ gen \in Nat
        BY Sorts DEF Gens
      <3> HIDE DEF f, z
      <3>2. CASE h = gen
        <4>1. g < gen /\ g # gen
          BY <2>6, <3>1, <3>2
        <4>2. Before(Stream(g), z \o f) /\ Stream(g)' = Stream(g)
          BY <2>1, <2>4, <4>1
        <4>3. Stream(h)' = z \o f
          BY <2>1, <3>2
        <4>4. QED
          BY <4>2, <4>3
      <3>3. CASE h > gen
        BY <2>1, <2>5, <3>1, <3>3
      <3>4. CASE h < gen
        BY <2>1, <2>6, <3>1, <3>4 DEF OrderInv
      <3>5. QED
        BY <3>1, <3>2, <3>3, <3>4
    <2>7. QED
      BY <2>6 DEF OrderInv, Gens
  <1>3. ASSUME ~\E s \in Sizes : SendAnswer(s) PROVE OrderInv'
    <2>1. \A g \in Gens : Piece(Stream(g)', Stream(g))
      BY <1>3, Shrinks
    <2>2. ASSUME NEW g \in Gens, NEW h \in Gens, g < h PROVE Before(Stream(g)', Stream(h)')
      <3>1. Before(Stream(g), Stream(h))
        BY <2>2 DEF OrderInv
      <3>2. Before(Stream(g)', Stream(h))
        BY <1>1, <2>1, <3>1, PieceKeeps
      <3>3. QED
        BY <1>1, <2>1, <3>2, PieceKeeps
    <2>3. QED
      BY <2>2 DEF OrderInv, Gens
  <1>4. QED
    BY <1>2, <1>3

--------------------------------------------------------------------------------
(* What the reader has in hand, and what it returns *)

\* A stream that begins with a later message holds only later ones.
LEMMA LaterAbove ==
    ASSUME NEW z \in Seq(Byte), NEW sz, Sized(sz), Shaped(z, sz), NEW m \in Nat, Later(z, m)
    PROVE  Above(z, m)
  <1>1. CASE z = <<>>
    BY <1>1 DEF Above
  <1>2. CASE z # <<>>
    <2>1. Len(z) \in Nat /\ 1 \in 1..Len(z)
      BY <1>2
    <2> DEFINE a == z[1][1]
               b == z[1][2]
    <2>2. z[1] = <<a, b>> /\ a \in Nat /\ m < a
      BY <1>2, <2>1, ByteIs DEF Later
    <2> HIDE DEF a, b
    <2>3. Length(sz, a) \in Nat /\ b \in 1..Length(sz, a) /\ Continues(z, Length(sz, a), a, b)
      BY <1>2, <2>2, FromFirst
    <2>4. ASSUME NEW j \in 1..Len(z) PROVE m < z[j][1]
      <3>1. z[j][1] \in Nat
        BY ByteIs
      <3>2. CASE j - 1 <= Length(sz, a) - b
        <4>1. z[j] = <<a, b + (j - 1)>>
          BY <2>3, <3>2, Zenon DEF Continues
        <4>2. QED
          BY <2>2, <4>1
      <3>3. CASE j - 1 > Length(sz, a) - b
        <4>1. a < z[j][1]
          BY <2>3, <3>3, Zenon DEF Continues
        <4>2. QED
          BY <2>2, <3>1, <4>1
      <3>4. QED
        BY <2>3, <3>2, <3>3
    <2>5. QED
      BY <2>4 DEF Above
  <1>3. QED
    BY <1>1, <1>2

\* What comes after the first t bytes is the message after m.
NextAt(z, t, m) == t < Len(z) => z[t + 1] = <<m + 1, 1>>

\* A stream that resumes with the payload of m: the payload comes first, and then the
\* next message.
LEMMA Resumed ==
    ASSUME NEW z \in Seq(Byte), NEW sz, Sized(sz), Shaped(z, sz), z # <<>>, NEW m,
           z[1] = <<m, HeadLen + 1>>, NEW t, t = Length(sz, m) - HeadLen
    PROVE  /\ m \in 1..Len(sz) /\ t \in Nat /\ t > 0
           /\ \A j \in 1..Len(z) : j <= t => z[j] = <<m, HeadLen + j>>
           /\ \A j \in 1..Len(z) : j > t => m < z[j][1]
           /\ NextAt(z, t, m)
           /\ Ended(z, sz) => t <= Len(z) /\ (Len(z) = t <=> m = Len(sz))
  <1> DEFINE l == Length(sz, m)
             a == HeadLen + 1
  <1>1. m \in 1..Len(sz) /\ l \in Nat /\ a \in 1..l /\ Continues(z, l, m, a)
    BY FromFirst, Zenon
  <1>2. HeadLen \in Nat /\ HeadLen > 0 /\ Len(z) \in Nat
    BY ConstantsAssumption
  <1>3. t = l - HeadLen
    OBVIOUS
  <1>4. ASSUME Ended(z, sz)
        PROVE  (l - a) + 1 <= Len(z) /\ (Len(z) = (l - a) + 1 <=> m = Len(sz))
    BY <1>4, EndsLate
  <1> HIDE DEF l
  <1>5. t \in Nat /\ t > 0 /\ (l - a) + 1 = t /\ (l - a) + 2 = t + 1
    BY <1>1, <1>2, <1>3
  <1>6. ASSUME NEW j \in 1..Len(z), j <= t PROVE z[j] = <<m, HeadLen + j>>
    <2>1. j - 1 <= l - a /\ a + (j - 1) = HeadLen + j
      BY <1>1, <1>2, <1>3, <1>6
    <2> HIDE DEF a
    <2>2. z[j] = <<m, a + (j - 1)>>
      BY <1>1, <2>1, Zenon DEF Continues
    <2>3. QED
      BY <2>1, <2>2
  <1>7. ASSUME NEW j \in 1..Len(z), j > t PROVE m < z[j][1]
    <2>1. j - 1 > l - a
      BY <1>1, <1>2, <1>3, <1>7
    <2> HIDE DEF a
    <2>2. QED
      BY <1>1, <2>1, Zenon DEF Continues
  <1> HIDE DEF a
  <1>8. ASSUME t < Len(z) PROVE z[t + 1] = <<m + 1, 1>>
    <2>1. (l - a) + 2 <= Len(z)
      BY <1>2, <1>5, <1>8
    <2>2. z[(l - a) + 2] = <<m + 1, 1>>
      BY <1>1, <2>1 DEF Continues
    <2>3. QED
      BY <1>5, <2>2
  <1>9. Ended(z, sz) => t <= Len(z) /\ (Len(z) = t <=> m = Len(sz))
    BY <1>4, <1>5
  <1>10. NextAt(z, t, m)
    BY <1>8 DEF NextAt
  <1>11. QED
    BY <1>1, <1>5, <1>6, <1>7, <1>9, <1>10

\* A stream that begins with a header: what follows the header.
AfterHead(z, sz, m, t) ==
    /\ HeadLen < Len(z) => z[HeadLen + 1] = IF t > 0 THEN <<m, HeadLen + 1>> ELSE <<m + 1, 1>>
    /\ Ended(z, sz) => (t > 0 => HeadLen < Len(z)) /\ (t = 0 => (Len(z) = HeadLen <=> m = Len(sz)))

\* A stream that begins with the whole header of m.
LEMMA Headed ==
    ASSUME NEW z \in Seq(Byte), NEW sz, Sized(sz), Shaped(z, sz), z # <<>>, NEW m,
           z[1] = <<m, 1>>, HeadLen <= Len(z), NEW t, t = Length(sz, m) - HeadLen
    PROVE  m \in 1..Len(sz) /\ t \in Nat /\ AfterHead(z, sz, m, t)
  <1> DEFINE l == Length(sz, m)
  <1>1. m \in 1..Len(sz) /\ l \in Nat /\ Continues(z, l, m, 1)
    BY FromFirst, Zenon
  <1>2. HeadLen \in Nat /\ HeadLen > 0 /\ Len(z) \in Nat /\ l >= HeadLen
    BY <1>1, ConstantsAssumption, Lengths
  <1>3. t = l - HeadLen
    OBVIOUS
  <1>4. ASSUME Ended(z, sz)
        PROVE  (l - 1) + 1 <= Len(z) /\ (Len(z) = (l - 1) + 1 <=> m = Len(sz))
    BY <1>4, EndsLate
  <1> HIDE DEF l
  <1>5. t \in Nat
    BY <1>1, <1>2, <1>3
  <1>6. ASSUME HeadLen < Len(z)
        PROVE  z[HeadLen + 1] = IF t > 0 THEN <<m, HeadLen + 1>> ELSE <<m + 1, 1>>
    <2> DEFINE j == HeadLen + 1
    <2>1. j \in 1..Len(z) /\ 1 + (j - 1) = j
      BY <1>2, <1>6
    <2>2. CASE t > 0
      <3>1. j - 1 <= l - 1
        BY <1>1, <1>2, <1>3, <2>2
      <3> HIDE DEF j
      <3>2. z[j] = <<m, 1 + (j - 1)>>
        BY <1>1, <2>1, <3>1, Zenon DEF Continues
      <3>3. QED
        BY <2>1, <2>2, <3>2 DEF j
    <2>3. CASE ~(t > 0)
      <3>1. (l - 1) + 2 = j /\ (l - 1) + 2 <= Len(z)
        BY <1>1, <1>2, <1>3, <1>5, <1>6, <2>3
      <3>2. z[(l - 1) + 2] = <<m + 1, 1>>
        BY <1>1, <3>1 DEF Continues
      <3>3. QED
        BY <2>3, <3>1, <3>2
    <2>4. QED
      BY <2>2, <2>3
  <1>7. Ended(z, sz) => (t > 0 => HeadLen < Len(z)) /\ (t = 0 => (Len(z) = HeadLen <=> m = Len(sz)))
    BY <1>1, <1>2, <1>3, <1>4
  <1>8. QED
    BY <1>1, <1>5, <1>6, <1>7 DEF AfterHead

\* What the end of a call with an answer records.
LEMMA Recorded ==
    ASSUME TypeOK, NEW slip, NEW b, Return(slip, Answer(b))
    PROVE  /\ answer'.msg = inHand /\ answer'.bytes = b /\ answer'.sameOpen = sameOpen
           /\ newest' \in {newest, answer.msg}
           /\ newest' = IF newest < answer.msg THEN answer.msg ELSE newest
  <1>1. Answer(b) # <<>> /\ Answer(b)[1] = [msg |-> inHand, bytes |-> b, sameOpen |-> sameOpen]
    BY DEF Answer
  <1>2. /\ answer' = [msg |-> inHand, bytes |-> b, sameOpen |-> sameOpen]
        /\ newest' = IF newest < answer.msg THEN answer.msg ELSE newest
    BY <1>1 DEF Return
  <1>3. QED
    BY <1>2

\* readAnswer() returns an answer.
Given == GivesNone \/ GivesPayload

\* The answer is the payload of the message in hand, and what is left is later.
LEMMA GivenIs ==
    ASSUME TypeOK, SessionInv, ShapeInv, HandInv, Reads, Given
    PROVE  /\ inHand \in 1..Len(sizes)
           /\ answer'.msg = inHand /\ answer'.sameOpen = sameOpen
           /\ newest' = IF newest < answer.msg THEN answer.msg ELSE newest
           /\ sameOpen => answer'.bytes = Payload(inHand)
           /\ \A g \in Gens : Above(Stream(g)', inHand)
  <1> DEFINE m == inHand
             t == Total(inHand)
  <1>1. /\ inHand \in 1..Len(sizes) /\ m \in Nat /\ t \in Nat
        /\ t = Length(sizes, inHand) - HeadLen /\ HeadLen \in Nat
    <2>1. inHand \in 1..Len(sizes) /\ Len(sizes) \in Nat
      <3>1. readPc = "payload"
        BY Zenon DEF Given, GivesNone, GivesPayload
      <3>2. inHand # 0
        BY <3>1 DEF SessionInv
      <3>3. inHand \in 0..Len(sizes) /\ Len(sizes) \in Nat
        BY Sorts
      <3>4. QED
        BY <3>2, <3>3
    <2>2. QED
      BY <2>1, TotalNat
  <1>2. /\ \A g \in Gens : Stream(g) \in Seq(Byte) /\ Shaped(Stream(g), sizes)
        /\ Sized(sizes) /\ UNCHANGED <<gen, out, sizes>>
    BY Sorts, ReadSteps DEF ShapeInv
  <1>3. \A g \in Gens : Later(Stream(g), inHand) => Above(Stream(g), inHand)
    BY <1>1, <1>2, LaterAbove
  <1>4. m \in 1..MaxMsgs /\ MaxMsgs \in Nat
    <2>1. Len(sizes) <= MaxMsgs /\ MaxMsgs \in Nat /\ Len(sizes) \in Nat
      BY Sorts DEF SessionInv
    <2>2. QED
      BY <1>1, <2>1
  <1>5. /\ Payload(m) \in Seq(Byte) /\ Len(Payload(m)) = t
        /\ \A i \in 1..t : Payload(m)[i] = <<m, HeadLen + i>>
    <2> DEFINE a == HeadLen + 1
               b == HeadLen + t
    <2>1. a \in Nat \ {0} /\ b \in Nat /\ a <= b + 1 /\ (b - a) + 1 = t
      BY <1>1
    <2>2. \A i \in 1..t : (a + i) - 1 = HeadLen + i
      BY <1>1
    <2>3. Payload(m) = Bytes(m, a, b)
      BY DEF Payload
    <2> HIDE DEF a, b
    <2>4. /\ Bytes(m, a, b) \in Seq(Byte) /\ Len(Bytes(m, a, b)) = (b - a) + 1
          /\ \A i \in 1..((b - a) + 1) : Bytes(m, a, b)[i] = <<m, (a + i) - 1>>
      BY <1>4, <2>1, BytesOf, Zenon
    <2>5. QED
      BY <2>1, <2>2, <2>3, <2>4
  <1>6. CASE GivesNone
    <2>1. Return(FALSE, Answer(<<>>)) /\ t = 0 /\ UNCHANGED pipe
      BY <1>6, Zenon DEF GivesNone
    <2>2. /\ answer'.msg = inHand /\ answer'.bytes = <<>> /\ answer'.sameOpen = sameOpen
          /\ newest' = IF newest < answer.msg THEN answer.msg ELSE newest
      BY <2>1, Recorded, Zenon
    <2>3. Payload(m) = <<>>
      BY <1>5, <2>1
    <2>4. ASSUME NEW g \in Gens PROVE Above(Stream(g)', inHand)
      <3>1. Stream(g)' = Stream(g)
        BY <1>2, <2>1 DEF Stream
      <3>2. CASE Later(Stream(g), inHand)
        BY <1>3, <3>1, <3>2
      <3>3. CASE Resumes(Stream(g), inHand)
        <4>1. ASSUME Stream(g) # <<>> PROVE FALSE
          <5>1. Stream(g)[1] = <<inHand, HeadLen + 1>>
            BY <3>3, <4>1 DEF Resumes
          <5>2. t > 0
            BY <1>1, <1>2, <4>1, <5>1, Resumed
          <5>3. QED
            BY <2>1, <5>2
        <4>2. QED
          BY <3>1, <4>1 DEF Above
      <3>4. QED
        BY <1>1, <3>2, <3>3 DEF HandInv, Held
    <2>5. QED
      BY <1>1, <2>2, <2>3, <2>4
  <1>7. CASE GivesPayload
    <2>1. /\ Return(~sameOpen, Answer(SubSeq(pipe[fd["data"]], 1, t))) /\ t > 0
          /\ Take(t) /\ t <= Len(pipe[fd["data"]])
      BY <1>7 DEF GivesPayload, Took
    <2>2. PICK d \in Gens : d = fd["data"]
      BY <1>1, <2>1, TakeTypes
    <2>3. d > 0 /\ fd["data"] > 0
      BY <2>2 DEF Gens
    <2>4. /\ answer'.msg = inHand /\ answer'.bytes = SubSeq(pipe[d], 1, t)
          /\ answer'.sameOpen = sameOpen
          /\ newest' = IF newest < answer.msg THEN answer.msg ELSE newest
      BY <2>1, <2>2, Recorded, Zenon
    <2>5. RestOf(Stream(d)', Stream(d), t) /\ \A g \in Gens : g # d => Stream(g)' = Stream(g)
      BY <1>1, <1>2, <2>1, <2>2, TakeStreams
    <2>6. /\ Len(pipe[d]) \in Nat /\ Len(Stream(d)) \in Nat /\ Len(pipe[d]) <= Len(Stream(d))
          /\ t <= Len(Stream(d)) /\ Stream(d) # <<>>
          /\ \A i \in 1..Len(pipe[d]) : Stream(d)[i] = pipe[d][i]
      <3>1. /\ Len(pipe[d]) \in Nat /\ Len(Stream(d)) \in Nat /\ Len(pipe[d]) <= Len(Stream(d))
            /\ \A i \in 1..Len(pipe[d]) : Stream(d)[i] = pipe[d][i]
        BY FrontOf
      <3>2. t <= Len(pipe[d])
        BY <2>1, <2>2
      <3> HIDE DEF t
      <3>3. t <= Len(Stream(d)) /\ Len(Stream(d)) > 0
        BY <1>1, <2>1, <3>1, <3>2
      <3>4. QED
        BY <3>1, <3>3
    <2>7. ASSUME Resumes(Stream(d), inHand)
          PROVE  /\ \A j \in 1..Len(Stream(d)) : j <= t => Stream(d)[j] = <<m, HeadLen + j>>
                 /\ \A j \in 1..Len(Stream(d)) : j > t => m < Stream(d)[j][1]
      <3>1. Stream(d)[1] = <<inHand, HeadLen + 1>>
        BY <2>6, <2>7 DEF Resumes
      <3>2. QED
        BY <1>1, <1>2, <2>6, <3>1, Resumed
    <2>8. ASSUME sameOpen PROVE answer'.bytes = Payload(inHand)
      <3>1. Resumes(Stream(d), inHand)
        BY <1>1, <2>1, <2>2, <2>3, <2>8 DEF HandInv, Held
      <3> DEFINE p == SubSeq(pipe[d], 1, t)
      <3>2. p \in Seq(Byte) /\ Len(p) = t /\ \A i \in 1..t : p[i] = pipe[d][i]
        <4>1. pipe[d] \in Seq(Byte) /\ t <= Len(pipe[d])
          BY <2>1, <2>2, Sorts
        <4>2. QED
          BY <1>1, <4>1, Split
      <3> HIDE DEF p, t
      <3>3. t <= Len(pipe[d]) /\ t <= Len(Stream(d))
        BY <2>1, <2>2, <2>6
      <3>4. ASSUME NEW i \in 1..t PROVE p[i] = <<m, HeadLen + i>>
        <4>1. i \in 1..Len(pipe[d]) /\ i \in 1..Len(Stream(d)) /\ i <= t
          BY <1>1, <2>6, <3>3
        <4>2. p[i] = Stream(d)[i]
          BY <2>6, <3>2, <4>1
        <4>3. QED
          BY <2>7, <3>1, <4>1, <4>2
      <3>5. p = Payload(m)
        <4>1. \A i \in 1..Len(p) : p[i] = Payload(m)[i]
          BY <1>5, <3>2, <3>4, Zenon
        <4>2. QED
          BY <1>5, <3>2, <4>1, SameSeq
      <3>6. QED
        BY <2>4, <3>5 DEF p
    <2>9. ASSUME NEW g \in Gens PROVE Above(Stream(g)', inHand)
      <3>1. CASE g # d
        <4>1. Later(Stream(g), inHand)
          BY <1>1, <2>2, <2>3, <3>1 DEF HandInv, Held
        <4>2. QED
          BY <1>3, <2>5, <3>1, <4>1
      <3>2. CASE g = d
        <4>1. CASE Later(Stream(d), inHand)
          <5>1. Piece(Stream(d)', Stream(d))
            BY <1>1, <1>2, <2>5, <2>6, RestKeeps
          <5>2. Above(Stream(d)', inHand)
            BY <1>2, <1>3, <4>1, <5>1, PieceKeeps
          <5>3. QED
            BY <3>2, <5>2
        <4>2. CASE Resumes(Stream(d), inHand)
          <5> DEFINE y == Stream(d)'
          <5>1. Len(y) = Len(Stream(d)) - t /\ \A i \in 1..Len(y) : y[i] = Stream(d)[t + i]
            BY <2>5 DEF RestOf, Part
          <5> HIDE DEF y, t
          <5>2. ASSUME NEW i \in 1..Len(y) PROVE m < y[i][1]
            <6>1. t + i \in 1..Len(Stream(d)) /\ t + i > t
              BY <1>1, <2>6, <5>1
            <6>2. QED
              BY <2>7, <4>2, <5>1, <6>1
          <5>3. QED
            BY <3>2, <5>2 DEF Above, y
        <4>3. QED
          BY <1>1, <4>1, <4>2 DEF HandInv, Held
      <3>3. QED
        BY <3>1, <3>2
    <2>10. QED
      BY <1>1, <2>4, <2>8, <2>9
  <1>8. QED
    BY <1>6, <1>7 DEF Given

\* What is after m is after the messages before m.
LEMMA AboveLess ==
    ASSUME NEW z \in Seq(Byte), NEW m \in Nat, NEW n \in Nat, n <= m, Above(z, m)
    PROVE  Above(z, n)
  <1>1. \A i \in 1..Len(z) : z[i][1] \in Nat
    BY ByteIs
  <1>2. QED
    BY <1>1 DEF Above

\* No step brings back what was returned.
LEMMA SeenStep ==
    ASSUME TypeOK, TypeOK', SessionInv, KeepInv, ShapeInv, SeenInv, HandInv, Next
    PROVE  SeenInv'
  <1>1. /\ \A g \in Gens : Stream(g) \in Seq(Byte)
        /\ answer.msg \in Nat /\ newest \in Nat /\ Len(sizes) \in Nat /\ inHand \in Nat
        /\ answer.msg <= Len(sizes) /\ newest <= Len(sizes)
    BY Sorts DEF SeenInv
  <1>2. ASSUME NEW s \in Sizes, SendAnswer(s) PROVE SeenInv'
    <2> DEFINE l == HeadLen + (s[1] + s[2])
               z == Stream(gen)
               f == out'
    <2>1. /\ gen \in Gens /\ gen' = gen /\ Stream(gen)' = z \o f
          /\ \A g \in Gens : g # gen => Stream(g)' = Stream(g)
          /\ sizes' = Append(sizes, s) /\ UNCHANGED <<inHand, answer, newest>>
      BY <1>2, SendStreams
    <2>2. /\ f \in Seq(Byte) /\ Len(f) = l /\ l \in Nat
          /\ \A i \in 1..l : f[i] = <<Len(sizes) + 1, i>>
      BY <1>2, SendTypes
    <2>3. Len(sizes') = Len(sizes) + 1
      <3>1. sizes \in Seq(Sizes)
        BY DEF TypeOK
      <3>2. QED
        BY <2>1, <3>1, AppendIs
    <2>4. z \in Seq(Byte)
      BY <1>1, <2>1
    <2> HIDE DEF z, f, l
    <2>5. ASSUME NEW n \in Nat, n <= Len(sizes), Above(z, n) PROVE Above(z \o f, n)
      <3>1. /\ Len(z \o f) = Len(z) + l /\ Len(z) \in Nat
            /\ \A i \in 1..Len(z) : (z \o f)[i] = z[i]
            /\ \A i \in 1..l : (z \o f)[Len(z) + i] = f[i]
        <4>1. Len(z) \in Nat /\ f \in Seq(Byte)
          BY <2>2, <2>4
        <4>2. Len(z \o f) = Len(z) + Len(f)
          BY <2>4, <4>1, Concat
        <4>3. \A i \in 1..Len(z) : (z \o f)[i] = z[i]
          BY <2>4, <4>1, Concat
        <4>4. \A i \in 1..Len(f) : (z \o f)[Len(z) + i] = f[i]
          BY <2>4, <4>1, Concat
        <4>5. QED
          BY <2>2, <4>1, <4>2, <4>3, <4>4, Zenon
      <3>2. ASSUME NEW j \in 1..Len(z \o f) PROVE n < (z \o f)[j][1]
        <4>1. CASE j <= Len(z)
          <5>1. j \in 1..Len(z)
            BY <3>1, <4>1
          <5>2. QED
            BY <2>5, <3>1, <5>1 DEF Above
        <4>2. CASE j > Len(z)
          <5>1. j - Len(z) \in 1..l /\ Len(z) + (j - Len(z)) = j
            BY <2>2, <3>1, <4>2
          <5>2. (z \o f)[j] = <<Len(sizes) + 1, j - Len(z)>>
            BY <2>2, <3>1, <5>1
          <5>3. (z \o f)[j][1] = Len(sizes) + 1
            BY <5>2
          <5>4. QED
            BY <1>1, <2>5, <5>3
        <4>3. QED
          BY <3>1, <4>1, <4>2
      <3>3. QED
        BY <3>2 DEF Above
    <2>6. Above(z \o f, answer.msg) /\ Above(z \o f, newest)
      BY <1>1, <2>1, <2>5 DEF SeenInv, z
    <2>7. ASSUME NEW g \in Gens PROVE Above(Stream(g)', answer.msg) /\ Above(Stream(g)', newest)
      BY <2>1, <2>6, Zenon DEF SeenInv
    <2>8. QED
      BY <1>1, <2>1, <2>3, <2>7 DEF SeenInv, Gens
  <1>3. ASSUME ~\E s \in Sizes : SendAnswer(s) PROVE SeenInv'
    <2>1. UNCHANGED sizes /\ \A g \in Gens : Piece(Stream(g)', Stream(g))
      BY <1>3, Shrinks
    <2>2. \A g \in Gens : Above(Stream(g)', answer.msg) /\ Above(Stream(g)', newest)
      BY <1>1, <2>1, PieceKeeps DEF SeenInv
    <2>3. ASSUME UNCHANGED <<answer, newest>>, inHand' \in {inHand, 0} PROVE SeenInv'
      BY <2>1, <2>2, <2>3 DEF SeenInv, Gens
    <2>4. CASE Quiet \/ Opens \/ Ends \/ Leaves \/ Joins
      BY <2>3, <2>4 DEF Quiet, Opens, Ends, Leaves, Joins
    <2>5. CASE Reads
      <3>1. CASE GoesOn
        BY <2>3, <3>1 DEF GoesOn
      <3>2. CASE GivesUp
        <4>1. PICK slip : Return(slip, <<>>)
          BY <3>2, Zenon DEF GivesUp
        <4>2. UNCHANGED <<answer, newest>> /\ inHand' = 0
          BY <4>1 DEF Return, answerVars
        <4>3. QED
          BY <2>3, <4>2
      <3>3. CASE TakesHead
        <4>1. fd["data"] \in Gens /\ pipe[fd["data"]] # <<>>
          BY <3>3, Sorts DEF TakesHead, Took, Take, Gens
        <4> DEFINE z == Stream(fd["data"])
        <4>2. z # <<>> /\ z[1] = pipe[fd["data"]][1] /\ Len(z) \in Nat
          BY <4>1, FrontOf
        <4>3. inHand' = z[1][1] /\ 1 \in 1..Len(z)
          <5>1. z \in Seq(Byte)
            BY <1>1, <4>1
          <5>2. 1 \in 1..Len(z)
            BY <4>2, <5>1
          <5>3. QED
            BY <3>3, <4>2, <5>2 DEF TakesHead
        <4>4. answer.msg < inHand' /\ newest < inHand'
          BY <4>1, <4>3 DEF SeenInv, Above
        <4>5. UNCHANGED <<answer, newest>>
          BY <3>3 DEF TakesHead
        <4>6. QED
          BY <2>1, <2>2, <4>4, <4>5 DEF SeenInv, Gens
      <3>4. CASE Given
        <4>1. /\ inHand \in 1..Len(sizes) /\ answer'.msg = inHand
              /\ newest' = IF newest < answer.msg THEN answer.msg ELSE newest
              /\ \A g \in Gens : Above(Stream(g)', inHand)
          BY <2>5, <3>4, GivenIs
        <4>2. newest < inHand /\ answer.msg < inHand
          BY <4>1 DEF SeenInv
        <4>3. newest' \in Nat /\ newest' <= inHand
          BY <1>1, <4>1, <4>2
        <4>4. ASSUME NEW g \in Gens PROVE Above(Stream(g)', answer'.msg) /\ Above(Stream(g)', newest')
          <5>1. Stream(g)' \in Seq(Byte)
            BY <2>1 DEF Piece
          <5>2. Above(Stream(g)', newest')
            BY <1>1, <4>1, <4>3, <5>1, AboveLess
          <5>3. QED
            BY <4>1, <5>2
        <4>5. inHand' = 0
          <5>1. PICK slip, got : Return(slip, got)
            BY <3>4, Zenon DEF Given, GivesNone, GivesPayload
          <5>2. QED
            BY <5>1, ReturnLeaves, Zenon
        <4>6. newest' <= Len(sizes) /\ answer'.msg <= Len(sizes)
          BY <1>1, <4>1, <4>3
        <4>7. QED
          BY <2>1, <4>4, <4>5, <4>6 DEF SeenInv, Gens
      <3>5. QED
        BY <2>5, <3>1, <3>2, <3>3, <3>4, ReadSteps DEF Given
    <2>6. QED
      BY <1>3, <2>4, <2>5, SessionSteps
  <1>4. QED
    BY <1>2, <1>3

\* What was returned stays what it was, and what is returned is right.
LEMMA IntactStep ==
    ASSUME TypeOK, TypeOK', SessionInv, KeepInv, ShapeInv, SeenInv, HandInv, AnswersIntact, Next
    PROVE  AnswersIntact'
  <1>1. /\ answer.msg \in Nat /\ newest \in Nat /\ Len(sizes) \in Nat /\ answer.msg <= Len(sizes)
    BY Sorts DEF SeenInv
  <1>2. ASSUME UNCHANGED <<answer, newest, sizes>> PROVE AnswersIntact'
    BY <1>2 DEF AnswersIntact, Payload, Total
  <1>3. ASSUME NEW s \in Sizes, SendAnswer(s) PROVE AnswersIntact'
    <2>1. sizes' = Append(sizes, s) /\ UNCHANGED <<answer, newest>> /\ sizes \in Seq(Sizes)
      BY <1>3, SendStreams, Zenon DEF TypeOK
    <2>2. ASSUME answer.sameOpen PROVE sizes'[answer.msg] = sizes[answer.msg]
      <3>1. newest < answer.msg
        BY <2>2 DEF AnswersIntact
      <3>2. answer.msg \in 1..Len(sizes)
        BY <1>1, <3>1
      <3>3. QED
        BY <2>1, <3>2, AppendIs
    <2>3. QED
      BY <2>1, <2>2, Zenon DEF AnswersIntact, Payload, Total
  <1>4. CASE Quiet \/ Opens \/ Ends \/ Leaves \/ Joins
    BY <1>2, <1>4, Zenon DEF Quiet, Opens, Ends, Leaves, Joins
  <1>5. CASE Reads
    <2>1. UNCHANGED sizes
      BY <1>5, ReadsLeave
    <2>2. CASE GoesOn \/ TakesHead
      BY <1>2, <2>1, <2>2 DEF GoesOn, TakesHead
    <2>3. CASE GivesUp
      <3>1. PICK slip : Return(slip, <<>>)
        BY <2>3, Zenon DEF GivesUp
      <3>2. UNCHANGED <<answer, newest>>
        BY <3>1 DEF Return, answerVars
      <3>3. QED
        BY <1>2, <2>1, <3>2
    <2>4. CASE Given
      <3>1. /\ inHand \in 1..Len(sizes) /\ answer'.msg = inHand /\ answer'.sameOpen = sameOpen
            /\ newest' = IF newest < answer.msg THEN answer.msg ELSE newest
            /\ sameOpen => answer'.bytes = Payload(inHand)
        BY <1>5, <2>4, GivenIs
      <3>2. newest < inHand /\ answer.msg < inHand
        BY <3>1 DEF SeenInv
      <3>3. newest' < answer'.msg
        BY <1>1, <3>1, <3>2
      <3>4. Payload(answer.msg)' = Payload(inHand)
        BY <2>1, <3>1 DEF Payload, Total
      <3>5. QED
        BY <3>1, <3>3, <3>4 DEF AnswersIntact
    <2>5. QED
      BY <1>5, <2>2, <2>3, <2>4, ReadSteps DEF Given
  <1>6. QED
    BY <1>3, <1>4, <1>5, SessionSteps

\* A call that goes on changes nothing for the reader.
LEMMA GoesOnQuietly ==
    ASSUME TypeOK, SessionInv, Reads, GoesOn
    PROVE  Quiet
  <1>1. UNCHANGED <<gen, phase, link, sizes, out, fd>>
    BY ReadSteps
  <1>2. Ongoing' <=> Ongoing
    BY <1>1, OngoingIs
  <1>3. SameStreams
    BY <1>1 DEF GoesOn, SameStreams, Stream
  <1>4. QED
    BY <1>1, <1>2, <1>3 DEF GoesOn, Quiet

\* Cutting a stream short does not change how it begins.
LEMMA PrefixKeeps ==
    ASSUME NEW y \in Seq(Byte), NEW z \in Seq(Byte), Part(y, z, 0), NEW m
    PROVE  (Later(z, m) => Later(y, m)) /\ (Resumes(z, m) => Resumes(y, m))
  <1>1. y # <<>> => z # <<>> /\ y[1] = z[1]
    <2>1. Len(y) \in Nat /\ Len(z) \in Nat /\ Len(y) <= Len(z)
      BY DEF Part
    <2>2. ASSUME y # <<>> PROVE z # <<>> /\ y[1] = z[1]
      <3>1. 1 \in 1..Len(y) /\ Len(z) > 0 /\ 0 + 1 = 1
        BY <2>1, <2>2
      <3>2. y[1] = z[0 + 1]
        BY <3>1 DEF Part
      <3>3. QED
        BY <3>1, <3>2
    <2>3. QED
      BY <2>2
  <1>2. QED
    BY <1>1 DEF Later, Resumes

\* The header of message m is gone from the front of pipe d: what it was, and what
\* the pipes hold after it.
HeadGone(d, m) ==
    /\ d \in Gens /\ inHand = 0 /\ inHand' = m /\ m \in 1..Len(sizes) /\ d <= gen
    /\ \A g \in Gens : g # d => Stream(g)' = Stream(g) /\ Later(Stream(g), m)
    /\ Stream(d) # <<>> /\ Stream(d)[1] = <<m, 1>>
    /\ Stream(d)' # <<>> =>
          Stream(d)'[1] = IF Total(m) > 0 THEN <<m, HeadLen + 1>> ELSE <<m + 1, 1>>
    /\ d = gen /\ Ongoing =>
          /\ Total(m) > 0 => Stream(d)' # <<>>
          /\ Total(m) = 0 => (Stream(d)' = <<>> <=> m = Len(sizes))

\* A step that takes the header of message m out of pipe d.
LEMMA HeadTaken ==
    ASSUME TypeOK, SessionInv, KeepInv, ShapeInv, OrderInv, Reads, TakesHead,
           NEW d, d = fd["data"], NEW m, m = pipe[d][1][1]
    PROVE  HeadGone(d, m)
  <1>1. /\ UNCHANGED <<gen, sizes, out, fd>> /\ pipe[d][1][2] = 1 /\ Take(HeadLen)
        /\ HeadLen <= Len(pipe[d]) /\ HeadLen \in Nat /\ pipe[d] # <<>>
        /\ readPc = "head" /\ inHand' = m
    BY ReadSteps DEF TakesHead, Took, Take
  <1>2. d \in Gens /\ d <= gen /\ gen \in Nat /\ d \in Nat
    <2>1. fd["data"] \in -1..MaxGens /\ fd["data"] > 0 /\ fd["data"] <= gen /\ gen \in Nat
      BY <1>1, Sorts DEF Take, SessionInv
    <2>2. QED
      BY <2>1 DEF Gens
  <1>3. inHand = 0
    BY <1>1 DEF SessionInv
  <1>4. /\ m \in 1..Len(sizes) /\ Stream(d)[1] = <<m, 1>> /\ Stream(d) # <<>>
    <2>1. pipe[d][1] = Stream(d)[1] /\ m \in 1..Len(sizes) /\ pipe[d][1] = <<m, pipe[d][1][2]>>
      BY <1>1, <1>2, HeadIs
    <2>2. Stream(d) # <<>>
      BY <1>1, <1>2, FrontOf
    <2>3. QED
      BY <1>1, <2>1, <2>2
  <1>5. RestOf(Stream(d)', Stream(d), HeadLen) /\ \A g \in Gens : g # d => Stream(g)' = Stream(g)
    BY <1>1, <1>2, TakeStreams
  <1>6. /\ Stream(d) \in Seq(Byte) /\ Sized(sizes) /\ Shaped(Stream(d), sizes)
        /\ Len(Stream(d)) \in Nat /\ HeadLen <= Len(Stream(d))
    <2>1. Stream(d) \in Seq(Byte) /\ Sized(sizes) /\ Shaped(Stream(d), sizes)
      BY <1>2, Sorts, SMTT(20) DEF ShapeInv
    <2>2. Len(pipe[d]) \in Nat /\ Len(Stream(d)) \in Nat /\ Len(pipe[d]) <= Len(Stream(d))
      BY <1>2, FrontOf
    <2>3. QED
      BY <1>1, <2>1, <2>2
  <1>7. ASSUME NEW g \in Gens, g # d PROVE Later(Stream(g), m)
    <2>1. g \in Nat
      BY DEF Gens
    <2>2. CASE g < d
      <3>1. g # gen /\ g # fd["data"]
        BY <1>2, <2>1, <2>2
      <3>2. Stream(g) = <<>>
        BY <3>1 DEF KeepInv, Stream
      <3>3. QED
        BY <3>2 DEF Later
    <2>3. CASE d < g
      <3>1. Before(Stream(d), Stream(g))
        BY <1>2, <2>3 DEF OrderInv
      <3>2. ASSUME Stream(g) # <<>> PROVE m < Stream(g)[1][1]
        <4>1. Stream(g) \in Seq(Byte)
          BY Sorts
        <4>2. 1 \in 1..Len(Stream(g)) /\ 1 \in 1..Len(Stream(d)) /\ Stream(d)[1][1] = m
          BY <1>4, <1>6, <3>2, <4>1
        <4>3. QED
          BY <3>1, <4>2 DEF Before
      <3>3. QED
        BY <3>2 DEF Later
    <2>4. QED
      BY <1>2, <1>7, <2>1, <2>2, <2>3
  <1> DEFINE t == Total(m)
  <1>8. t \in Nat /\ t = Length(sizes, m) - HeadLen
    BY <1>1, <1>4, TotalNat
  <1> DEFINE z == Stream(d)
             y == Stream(d)'
  <1>9. AfterHead(z, sizes, m, t)
    <2>1. /\ z \in Seq(Byte) /\ Sized(sizes) /\ Shaped(z, sizes) /\ z # <<>> /\ z[1] = <<m, 1>>
          /\ HeadLen <= Len(z)
      BY <1>4, <1>6
    <2> HIDE DEF t, z
    <2>2. QED
      BY <1>8, <2>1, Headed
  <1>10. BeginsAt(y, z, HeadLen)
    <2>1. RestOf(y, z, HeadLen) /\ z \in Seq(Byte) /\ HeadLen <= Len(z)
      BY <1>5, <1>6
    <2> HIDE DEF y, z
    <2>2. QED
      BY <1>1, <2>1, RestKeeps, Zenon
  <1>11. Stream(d)' # <<>> => HeadLen < Len(Stream(d))
    BY <1>1, <1>6, <1>10 DEF BeginsAt
  <1>12. d = gen /\ Ongoing => Ended(Stream(d), sizes)
    BY DEF ShapeInv
  <1>13. d = gen /\ Ongoing => /\ t > 0 => Stream(d)' # <<>>
                               /\ t = 0 => (Stream(d)' = <<>> <=> m = Len(sizes))
    BY <1>1, <1>6, <1>9, <1>10, <1>12 DEF AfterHead, BeginsAt
  <1>14. y # <<>> => y[1] = IF t > 0 THEN <<m, HeadLen + 1>> ELSE <<m + 1, 1>>
    BY <1>9, <1>10, <1>11 DEF AfterHead, BeginsAt
  <1>15. QED
    BY <1>1, <1>2, <1>3, <1>4, <1>5, <1>7, <1>13, <1>14 DEF HeadGone

\* The payload of the message in hand stays in front, or is left behind for good.
LEMMA HandStep ==
    ASSUME TypeOK, TypeOK', SessionInv, KeepInv, ShapeInv, OrderInv, HandInv, Next
    PROVE  HandInv'
  <1>1. /\ \A g \in Gens : Stream(g) \in Seq(Byte) /\ g > 0
        /\ inHand \in 0..Len(sizes) /\ Len(sizes) \in Nat
    BY Sorts DEF Gens
  <1>2. SUFFICES ASSUME inHand' # 0, NEW g \in Gens PROVE Held(g)'
    BY DEF HandInv, Gens
  <1>3. inHand # 0 => Held(g)
    BY DEF HandInv
  <1>4. CASE Quiet
    BY <1>2, <1>3, <1>4 DEF Quiet, SameStreams, Held, Total
  <1>5. CASE Opens
    BY <1>2, <1>3, <1>5 DEF Opens, SameStreams, Held, Total
  <1>6. CASE Ends
    <2>1. /\ ~Ongoing' /\ UNCHANGED <<fd, sizes, inHand, sameOpen>>
          /\ Stream(g)' \in Seq(Byte) /\ Part(Stream(g)', Stream(g), 0)
      BY <1>6 DEF Ends
    <2>2. /\ Later(Stream(g), inHand) => Later(Stream(g)', inHand)
          /\ Resumes(Stream(g), inHand) => Resumes(Stream(g)', inHand)
      BY <1>1, <2>1, PrefixKeeps
    <2>3. QED
      BY <1>2, <1>3, <2>1, <2>2 DEF Held, Total
  <1>7. CASE Leaves
    <2>1. /\ fd'["data"] = 0 /\ UNCHANGED inHand
          /\ Stream(g)' = Stream(g) \/ Stream(g)' = <<>>
      BY <1>7 DEF Leaves
    <2>2. Later(Stream(g)', inHand) \/ Resumes(Stream(g)', inHand)
      BY <1>2, <1>3, <2>1 DEF Held, Later
    <2>3. g # fd'["data"] /\ ~(fd'["data"] > 0)
      BY <1>1, <2>1
    <2>4. QED
      BY <2>1, <2>2, <2>3 DEF Held
  <1>8. CASE Joins
    <2>1. /\ Stream(g)' = Stream(g) /\ UNCHANGED inHand /\ ~sameOpen'
          /\ fd'["data"] = -1 \/ fd'["data"] = file["data"]
          /\ Stream(g) # <<>> => g = gen /\ file["data"] = gen
      BY <1>2, <1>8 DEF Joins, SameStreams
    <2>2. Stream(g) # <<>> => (fd'["data"] > 0 => g = fd'["data"])
      BY <2>1
    <2>3. Stream(g) = <<>> => Later(Stream(g), inHand)
      BY DEF Later
    <2>4. QED
      BY <1>2, <1>3, <2>1, <2>2, <2>3 DEF Held
  <1>9. ASSUME NEW s \in Sizes, SendAnswer(s) PROVE Held(g)'
    <2> DEFINE l == HeadLen + (s[1] + s[2])
               f == out'
    <2>1. /\ gen \in Gens /\ gen' = gen /\ Ongoing /\ Stream(gen)' = Stream(gen) \o f
          /\ g # gen => Stream(g)' = Stream(g)
          /\ sizes' = Append(sizes, s) /\ UNCHANGED <<fd, inHand, sameOpen>>
      BY <1>9, SendStreams
    <2>2. /\ f \in Seq(Byte) /\ Len(f) = l /\ l \in Nat /\ s \in Nat \X Nat
          /\ \A i \in 1..l : f[i] = <<Len(sizes) + 1, i>>
      BY <1>9, SendTypes
    <2>3. l > 0
      <3>1. HeadLen \in Nat /\ HeadLen > 0 /\ s[1] \in Nat /\ s[2] \in Nat
        BY <2>2, ConstantsAssumption
      <3>2. QED
        BY <3>1
    <2> HIDE DEF f, l
    <2>4. Held(g) /\ inHand \in 1..Len(sizes)
      BY <1>1, <1>2, <1>3, <2>1
    <2>5. Total(inHand)' = Total(inHand)
      <3>1. sizes \in Seq(Sizes)
        BY DEF TypeOK
      <3>2. sizes'[inHand] = sizes[inHand]
        BY <2>1, <2>4, <3>1, AppendIs
      <3>3. QED
        BY <2>1, <3>2 DEF Total
    <2>6. CASE g # gen
      BY <2>1, <2>4, <2>5, <2>6 DEF Held
    <2>7. CASE g = gen /\ Stream(g) # <<>>
      <3>1. Stream(g)' # <<>> /\ Stream(g)'[1] = Stream(g)[1]
        <4>1. Stream(g) \in Seq(Byte) /\ f \in Seq(Byte)
          BY <1>1, <2>2
        <4>2. Len(Stream(g) \o f) = Len(Stream(g)) + Len(f)
          BY <4>1, Concat
        <4>3. \A i \in 1..Len(Stream(g)) : (Stream(g) \o f)[i] = Stream(g)[i]
          BY <4>1, Concat
        <4>4. 1 \in 1..Len(Stream(g)) /\ Len(Stream(g)) + Len(f) > 0
          BY <2>7, <4>1
        <4>5. (Stream(g) \o f)[1] = Stream(g)[1] /\ Stream(g) \o f # <<>>
          BY <4>2, <4>3, <4>4
        <4>6. Stream(g)' = Stream(g) \o f
          BY <2>1, <2>7
        <4>7. QED
          BY <4>5, <4>6
      <3>2. QED
        BY <2>1, <2>4, <2>5, <2>7, <3>1 DEF Held, Later, Resumes
    <2>8. CASE g = gen /\ Stream(g) = <<>>
      <3>1. Stream(g)' = f
        <4>1. <<>> \o f = f
          BY <2>2
        <4>2. QED
          BY <2>1, <2>8, <4>1
      <3>2. f[1] = <<Len(sizes) + 1, 1>> /\ f # <<>>
        BY <2>2, <2>3
      <3>3. Later(f, inHand)
        BY <1>1, <2>4, <3>2 DEF Later
      <3>4. ~(sameOpen /\ g = fd["data"] /\ Total(inHand) > 0)
        BY <2>1, <2>4, <2>8 DEF Held
      <3>5. QED
        BY <2>1, <2>5, <3>1, <3>3, <3>4 DEF Held
    <2>9. QED
      BY <2>6, <2>7, <2>8
  <1>10. CASE Reads
    <2>1. CASE GoesOn
      BY <1>4, <1>10, <2>1, GoesOnQuietly
    <2>2. CASE GivesUp \/ GivesNone \/ GivesPayload
      <3>1. PICK slip, got : Return(slip, got)
        BY <2>2, Zenon DEF GivesUp, GivesNone, GivesPayload
      <3>2. QED
        BY <1>2, <3>1, ReturnLeaves, Zenon
    <2>3. CASE TakesHead
      <3>1. UNCHANGED <<gen, sizes, fd>> /\ (Ongoing' <=> Ongoing)
        BY <1>10, ReadsLeave
      <3>2. PICK d : d = fd["data"]
        OBVIOUS
      <3>3. PICK m : m = pipe[d][1][1]
        OBVIOUS
      <3>4. HeadGone(d, m)
        BY <1>10, <2>3, <3>2, <3>3, HeadTaken
      <3>5. /\ d \in Gens /\ inHand' = m /\ m \in 1..Len(sizes)
            /\ \A h \in Gens : h # d => Stream(h)' = Stream(h) /\ Later(Stream(h), m)
            /\ Stream(d)' # <<>> =>
                  Stream(d)'[1] = IF Total(m) > 0 THEN <<m, HeadLen + 1>> ELSE <<m + 1, 1>>
            /\ d = gen /\ Ongoing => (Total(m) > 0 => Stream(d)' # <<>>)
        BY <3>4 DEF HeadGone
      <3>6. Total(inHand)' = Total(m) /\ fd'["data"] = d /\ m \in Nat
        BY <3>1, <3>2, <3>5 DEF Total
      <3>7. CASE g # d
        BY <3>5, <3>6, <3>7 DEF Held
      <3>8. CASE g = d
        <4>1. CASE Total(m) > 0
          <5>1. Resumes(Stream(g)', m)
            BY <3>5, <3>8, <4>1 DEF Resumes
          <5>2. g = gen /\ Ongoing => Stream(g)' # <<>>
            BY <3>5, <3>8, <4>1
          <5>3. QED
            BY <3>1, <3>5, <3>6, <3>8, <5>1, <5>2 DEF Held
        <4>2. CASE ~(Total(m) > 0)
          <5>1. Later(Stream(g)', m)
            BY <3>5, <3>6, <3>8, <4>2 DEF Later
          <5>2. QED
            BY <3>5, <3>6, <4>2, <5>1 DEF Held
        <4>3. QED
          BY <4>1, <4>2
      <3>9. QED
        BY <3>7, <3>8
    <2>4. QED
      BY <1>10, <2>1, <2>2, <2>3, ReadSteps
  <1>11. QED
    BY <1>4, <1>5, <1>6, <1>7, <1>8, <1>9, <1>10, SessionSteps

--------------------------------------------------------------------------------
(* The reader keeps its place *)

\* Nothing is owed and nothing is there.
LEMMA PlacedNone ==
    ASSUME NEW sz, Sized(sz), NEW m
    PROVE  Placed(<<>>, <<>>, sz, m)
  <1>1. Len(<<>>) = 0 /\ Len(sz) \in Nat
    BY DEF Sized
  <1>2. QED
    BY <1>1 DEF Placed, Counted, Begun

\* Where the first of the messages that are owed is.
LEMMA FirstOwed ==
    ASSUME NEW sz, Sized(sz), NEW ow \in Seq(Nat), Counted(ow, sz), ow # <<>>
    PROVE  /\ Len(ow) \in Nat /\ Len(ow) > 0 /\ Len(sz) \in Nat /\ ow[1] \in 1..Len(sz)
           /\ (Len(ow) = 1 <=> ow[1] = Len(sz))
  <1>1. Len(ow) \in Nat /\ Len(ow) > 0 /\ Len(sz) \in Nat /\ 1 \in 1..Len(ow)
    BY DEF Sized
  <1>2. ow[1] = (Len(sz) - Len(ow)) + 1 /\ Len(ow) <= Len(sz)
    BY <1>1 DEF Counted
  <1> DEFINE n == Len(ow)
             N == Len(sz)
             a == ow[1]
  <1>3. n \in Nat /\ n > 0 /\ N \in Nat /\ a = (N - n) + 1 /\ n <= N
    BY <1>1, <1>2
  <1> HIDE DEF n, N, a
  <1>4. a \in 1..N /\ (n = 1 <=> a = N)
    BY <1>3
  <1>5. QED
    BY <1>3, <1>4 DEF n, N, a

\* Another message is owed.
LEMMA CountedMore ==
    ASSUME NEW sz, Sized(sz), NEW ow \in Seq(Nat), Counted(ow, sz), NEW s \in Nat \X Nat
    PROVE  Counted(Append(ow, Len(sz) + 1), Append(sz, s))
  <1>1. Len(ow) \in Nat /\ Len(sz) \in Nat /\ Len(ow) <= Len(sz)
    BY DEF Sized, Counted
  <1> DEFINE wo == Append(ow, Len(sz) + 1)
             tz == Append(sz, s)
  <1>2. /\ Len(wo) = Len(ow) + 1 /\ wo[Len(ow) + 1] = Len(sz) + 1
        /\ \A j \in 1..Len(ow) : wo[j] = ow[j]
    <2>1. Len(sz) + 1 \in Nat
      BY <1>1
    <2>2. QED
      BY <2>1, AppendIs
  <1>3. Len(tz) = Len(sz) + 1
    BY DEF Sized
  <1> HIDE DEF wo, tz
  <1>4. ASSUME NEW j \in 1..Len(wo) PROVE wo[j] = (Len(tz) - Len(wo)) + j
    <2>1. CASE j \in 1..Len(ow)
      BY <1>1, <1>2, <1>3, <2>1 DEF Counted
    <2>2. CASE j = Len(ow) + 1
      BY <1>1, <1>2, <1>3, <2>2
    <2>3. QED
      BY <1>1, <1>2, <2>1, <2>2
  <1>5. Counted(wo, tz)
    BY <1>1, <1>2, <1>3, <1>4 DEF Counted
  <1>6. QED
    BY <1>5 DEF wo, tz

\* The first message that is owed is returned.
LEMMA CountedTail ==
    ASSUME NEW sz, Sized(sz), NEW ow \in Seq(Nat), Counted(ow, sz), ow # <<>>
    PROVE  Counted(Tail(ow), sz)
  <1>1. Len(ow) \in Nat /\ Len(ow) > 0 /\ Len(sz) \in Nat /\ Len(ow) <= Len(sz)
    BY DEF Sized, Counted
  <1>2. Len(Tail(ow)) = Len(ow) - 1 /\ \A j \in 1..(Len(ow) - 1) : Tail(ow)[j] = ow[j + 1]
    BY TailIs
  <1>3. ASSUME NEW j \in 1..Len(Tail(ow)) PROVE Tail(ow)[j] = (Len(sz) - Len(Tail(ow))) + j
    <2>1. j + 1 \in 1..Len(ow) /\ Tail(ow)[j] = ow[j + 1]
      BY <1>1, <1>2
    <2>2. ow[j + 1] = (Len(sz) - Len(ow)) + (j + 1)
      BY <2>1 DEF Counted
    <2>3. QED
      BY <1>1, <1>2, <2>1, <2>2
  <1>4. QED
    BY <1>1, <1>2, <1>3 DEF Counted

\* sendAnswer(): another message is owed, and its frame is appended.
LEMMA PlacedMore ==
    ASSUME NEW z \in Seq(Byte), NEW f \in Seq(Byte), NEW sz, Sized(sz), NEW s \in Nat \X Nat,
           NEW ow \in Seq(Nat), NEW m \in 0..Len(sz), Placed(z, ow, sz, m),
           f # <<>>, f[1] = <<Len(sz) + 1, 1>>
    PROVE  Placed(z \o f, Append(ow, Len(sz) + 1), Append(sz, s), m)
  <1> DEFINE wo == Append(ow, Len(sz) + 1)
             tz == Append(sz, s)
             y == z \o f
  <1>1. Counted(wo, tz) /\ Counted(ow, sz) /\ Begun(z, ow, sz, m)
    BY CountedMore DEF Placed
  <1>2. /\ Len(ow) \in Nat /\ Len(sz) \in Nat /\ Len(wo) = Len(ow) + 1
        /\ ow # <<>> => Len(ow) > 0 /\ wo[1] = ow[1]
        /\ ow = <<>> => wo[1] = Len(sz) + 1
        /\ wo # <<>>
    <2>1. Len(ow) \in Nat /\ Len(sz) \in Nat /\ Len(sz) + 1 \in Nat
      BY DEF Sized
    <2>2. /\ wo \in Seq(Nat) /\ Len(wo) = Len(ow) + 1 /\ wo[Len(ow) + 1] = Len(sz) + 1
          /\ \A j \in 1..Len(ow) : wo[j] = ow[j]
      BY <2>1, AppendIs
    <2> HIDE DEF wo
    <2>3. (ow = <<>> <=> Len(ow) = 0) /\ (wo = <<>> <=> Len(wo) = 0)
      BY <2>2, EmptyIs
    <2>4. ow # <<>> => Len(ow) > 0 /\ 1 \in 1..Len(ow)
      BY <2>1, <2>3
    <2>5. ow = <<>> => wo[1] = Len(sz) + 1
      BY <2>1, <2>2, <2>3
    <2>6. QED
      BY <2>1, <2>2, <2>3, <2>4, <2>5
  <1>3. m # 0 => Length(tz, m) = Length(sz, m)
    <2>1. m # 0 => m \in 1..Len(sz)
      BY <1>2
    <2>2. QED
      BY <2>1, MoreSizes
  <1>4. y # <<>> /\ (z # <<>> => y[1] = z[1]) /\ (z = <<>> => y[1] = f[1])
    <2>1. /\ Len(y) = Len(z) + Len(f) /\ Len(z) \in Nat /\ Len(f) \in Nat /\ Len(f) > 0
          /\ \A i \in 1..Len(z) : y[i] = z[i]
      BY Concat
    <2>2. z = <<>> => y = f
      OBVIOUS
    <2>3. z # <<>> => 1 \in 1..Len(z)
      OBVIOUS
    <2> HIDE DEF y
    <2>4. QED
      BY <2>1, <2>2, <2>3
  <1>5. ow # <<>> => ow[1] \in 1..Len(sz) /\ (Len(ow) = 1 <=> ow[1] = Len(sz))
    BY <1>1, FirstOwed
  <1> HIDE DEF wo, tz, y
  <1>6. Begun(y, wo, tz, m)
    <2>1. CASE ow = <<>>
      <3>1. z = <<>> /\ wo[1] # m
        BY <1>1, <1>2, <2>1 DEF Begun
      <3>2. QED
        BY <1>2, <1>4, <2>1, <3>1 DEF Begun
    <2>2. CASE ow # <<>> /\ ~(m # 0 /\ ow[1] = m)
      <3>1. z # <<>> /\ z[1] = <<ow[1], 1>>
        BY <1>1, <2>2 DEF Begun
      <3>2. QED
        BY <1>2, <1>4, <2>2, <3>1 DEF Begun
    <2>3. CASE ow # <<>> /\ m # 0 /\ ow[1] = m /\ Length(sz, m) > HeadLen
      <3>1. z # <<>> /\ z[1] = <<m, HeadLen + 1>>
        BY <1>1, <2>3 DEF Begun
      <3>2. QED
        BY <1>2, <1>3, <1>4, <2>3, <3>1 DEF Begun
    <2>4. CASE ow # <<>> /\ m # 0 /\ ow[1] = m /\ ~(Length(sz, m) > HeadLen)
      <3>1. (z = <<>> <=> Len(ow) = 1) /\ (z # <<>> => z[1] = <<m + 1, 1>>)
        BY <1>1, <2>4 DEF Begun
      <3>2. y[1] = <<m + 1, 1>> /\ Len(wo) # 1
        BY <1>2, <1>4, <1>5, <2>4, <3>1, SMTT(20)
      <3>3. QED
        BY <1>2, <1>3, <1>4, <2>4, <3>2 DEF Begun
    <2>5. QED
      BY <2>1, <2>2, <2>3, <2>4
  <1>7. Placed(y, wo, tz, m)
    BY <1>1, <1>6 DEF Placed
  <1>8. QED
    BY <1>7 DEF y, wo, tz

\* The first message that is owed is returned.
LEMMA PlacedTail ==
    ASSUME NEW y, NEW sz, Sized(sz), NEW ow \in Seq(Nat), Counted(ow, sz), ow # <<>>,
           y = <<>> <=> ow[1] = Len(sz), y # <<>> => y[1] = <<ow[1] + 1, 1>>
    PROVE  Placed(y, Tail(ow), sz, 0)
  <1>1. Counted(Tail(ow), sz)
    BY CountedTail
  <1>2. /\ Len(ow) \in Nat /\ Len(ow) > 0 /\ ow[1] \in 1..Len(sz) /\ Len(sz) \in Nat
        /\ (Len(ow) = 1 <=> ow[1] = Len(sz))
    BY FirstOwed
  <1>3. /\ Tail(ow) = <<>> <=> Len(ow) = 1
        /\ Tail(ow) # <<>> => Tail(ow)[1] = ow[1] + 1
    <2>1. Len(Tail(ow)) = Len(ow) - 1 /\ \A j \in 1..(Len(ow) - 1) : Tail(ow)[j] = ow[j + 1]
      BY TailIs
    <2> DEFINE v == Tail(ow)
               n == Len(ow)
               N == Len(sz)
    <2>2. v \in Seq(Nat)
      BY TailIs
    <2>3. v = <<>> <=> Len(v) = 0
      BY <2>2, EmptyIs, Zenon
    <2>4. n \in Nat /\ n > 0 /\ N \in Nat /\ Len(v) = n - 1
      BY <1>2, <2>1
    <2>5. \A j \in 1..(n - 1) : v[j] = ow[j + 1]
      BY <2>1
    <2>6. \A j \in 1..n : ow[j] = (N - n) + j
      BY DEF Counted
    <2> HIDE DEF v, n, N
    <2>7. ASSUME n # 1 PROVE v[1] = ow[1] + 1
      <3>1. 1 \in 1..(n - 1) /\ 1 \in 1..n /\ 2 \in 1..n /\ 1 + 1 = 2
        BY <2>4, <2>7
      <3>2. ow[1] = (N - n) + 1 /\ ow[2] = (N - n) + 2 /\ v[1] = ow[2]
        BY <2>5, <2>6, <3>1
      <3>3. QED
        BY <2>4, <3>2
    <2>8. (v = <<>> <=> n = 1) /\ (v # <<>> => v[1] = ow[1] + 1)
      BY <2>3, <2>4, <2>7
    <2>9. QED
      BY <2>8 DEF v, n
  <1> DEFINE v == Tail(ow)
  <1>4. Begun(y, v, sz, 0)
    <2> HIDE DEF v
    <2>1. (v = <<>> <=> Len(ow) = 1) /\ (v # <<>> => v[1] = ow[1] + 1)
      BY <1>3 DEF v
    <2>2. QED
      BY <1>2, <2>1 DEF Begun
  <1>5. QED
    BY <1>1, <1>4 DEF Placed

\* The messages that are owed are numbers.
LEMMA OwedNats ==
    ASSUME TypeOK
    PROVE  owed \in Seq(Nat)
  <1>1. owed \in Seq(1..MaxMsgs) /\ MaxMsgs \in Nat
    BY Sorts DEF TypeOK
  <1>2. QED
    BY <1>1

\* What is owed once m is returned.
Without(ow, m) == IF ow # <<>> /\ ow[1] = m THEN Tail(ow) ELSE ow

\* The end of a call: a reader that lost its place is in place again if the stream
\* of the server is empty.
LEMMA ReturnPlaces ==
    ASSUME TypeOK, SessionInv, NEW slip \in BOOLEAN, NEW got, Return(slip, got), ~slipped',
           UNCHANGED <<gen, out>>
    PROVE  /\ inHand' = 0
           /\ slipped \/ slip => owed' = <<>> /\ \A g \in Gens : g = gen => Stream(g)' = <<>>
           /\ ~(slipped \/ slip) =>
                 owed' = IF got = <<>> THEN owed ELSE Without(owed, inHand)
  <1>1. slipped' = ((slipped \/ slip) /\ ~(phase = "up" /\ pipe'[gen] = <<>>)) /\ inHand' = 0
    BY Zenon DEF Return
  <1>2. slipped \in BOOLEAN
    BY DEF TypeOK
  <1>3. ASSUME slipped \/ slip
        PROVE  owed' = <<>> /\ \A g \in Gens : g = gen => Stream(g)' = <<>>
    <2>1. phase = "up" /\ pipe'[gen] = <<>>
      BY <1>1, <1>3, Zenon
    <2>2. out' = <<>>
      BY <2>1 DEF SessionInv
    <2>3. <<>> \o <<>> = <<>>
      OBVIOUS
    <2>4. owed' = <<>>
      BY <1>3 DEF Return
    <2>5. QED
      BY <2>1, <2>2, <2>3, <2>4 DEF Stream
  <1>4. ASSUME ~(slipped \/ slip)
        PROVE  owed' = IF got = <<>> THEN owed ELSE Without(owed, inHand)
    <2>1. owed # <<>> => Head(owed) = owed[1]
      BY OwedNats, TailIs
    <2>2. QED
      BY <1>4, <2>1 DEF Return, Without
  <1>5. QED
    BY <1>1, <1>3, <1>4

\* readAnswer() takes a header.
LEMMA HeadPlaces ==
    ASSUME TypeOK, SessionInv, KeepInv, ShapeInv, OrderInv, PlaceInv, Reads, TakesHead,
           NEW g \in Gens, g = gen, ~slipped, Ongoing
    PROVE  Placed(Stream(g)', owed, sizes, inHand')
  <1>1. PICK d : d = fd["data"]
    OBVIOUS
  <1>2. PICK m : m = pipe[d][1][1]
    OBVIOUS
  <1>3. /\ d \in Gens /\ inHand = 0 /\ inHand' = m /\ m \in 1..Len(sizes)
        /\ \A h \in Gens : h # d => Stream(h)' = Stream(h) /\ Later(Stream(h), m)
        /\ Stream(d) # <<>> /\ Stream(d)[1] = <<m, 1>>
        /\ Stream(d)' # <<>> =>
              Stream(d)'[1] = IF Total(m) > 0 THEN <<m, HeadLen + 1>> ELSE <<m + 1, 1>>
        /\ d = gen /\ Ongoing =>
              /\ Total(m) > 0 => Stream(d)' # <<>>
              /\ Total(m) = 0 => (Stream(d)' = <<>> <=> m = Len(sizes))
    <2>1. HeadGone(d, m)
      BY <1>1, <1>2, HeadTaken
    <2>2. QED
      BY <2>1 DEF HeadGone
  <1>4. Counted(owed, sizes) /\ Begun(Stream(g), owed, sizes, 0)
    BY <1>3 DEF PlaceInv, Placed
  <1>5. /\ Total(m) \in Nat /\ Length(sizes, m) = HeadLen + Total(m) /\ HeadLen \in Nat
    BY <1>3, TotalNat
  <1>6. /\ Stream(g) = <<>> <=> owed = <<>>
        /\ Stream(g) # <<>> => Stream(g)[1] = <<owed[1], 1>>
    BY <1>4 DEF Begun
  <1>7. owed # <<>> => owed[1] \in 1..Len(sizes) /\ (Len(owed) = 1 <=> owed[1] = Len(sizes))
    <2>1. Sized(sizes)
      BY Sorts
    <2>2. QED
      BY <1>4, <2>1, OwedNats, FirstOwed
  <1>8. CASE d = g
    <2>1. owed # <<>> /\ owed[1] = m /\ (Len(owed) = 1 <=> m = Len(sizes))
      BY <1>3, <1>6, <1>7, <1>8
    <2>2. CASE Total(m) > 0
      <3>1. Stream(g)' # <<>> /\ Stream(g)'[1] = <<m, HeadLen + 1>> /\ Length(sizes, m) > HeadLen
        BY <1>3, <1>5, <1>8, <2>2
      <3>2. Begun(Stream(g)', owed, sizes, m)
        BY <1>3, <2>1, <3>1 DEF Begun
      <3>3. QED
        BY <1>3, <1>4, <3>2 DEF Placed
    <2>3. CASE Total(m) = 0
      <3>1. /\ Stream(g)' = <<>> <=> Len(owed) = 1
            /\ Stream(g)' # <<>> => Stream(g)'[1] = <<m + 1, 1>>
            /\ ~(Length(sizes, m) > HeadLen)
        BY <1>3, <1>5, <1>8, <2>1, <2>3
      <3>2. Begun(Stream(g)', owed, sizes, m)
        BY <1>3, <2>1, <3>1 DEF Begun
      <3>3. QED
        BY <1>3, <1>4, <3>2 DEF Placed
    <2>4. QED
      BY <1>5, <2>2, <2>3
  <1>9. CASE d # g
    <2>1. Stream(g)' = Stream(g) /\ (Stream(g) # <<>> => m < Stream(g)[1][1])
      BY <1>3, <1>9 DEF Later
    <2>2. owed # <<>> => owed[1] # m
      BY <1>3, <1>6, <1>7, <2>1
    <2>3. Begun(Stream(g), owed, sizes, m)
      BY <1>6, <2>2 DEF Begun
    <2>4. QED
      BY <1>3, <1>4, <2>1, <2>3 DEF Placed
  <1>10. QED
    BY <1>8, <1>9

\* readAnswer() returns the payload of the message in hand, from the pipe its header
\* came from.
LEMMA PayloadPlaces ==
    ASSUME TypeOK, SessionInv, ShapeInv, HandInv, PlaceInv, Reads, GivesPayload, sameOpen,
           NEW g \in Gens, g = gen, ~slipped, Ongoing
    PROVE  Placed(Stream(g)', Without(owed, inHand), sizes, 0)
  <1>1. PICK m : m = inHand
    OBVIOUS
  <1>2. PICK t : t = Total(m)
    OBVIOUS
  <1>3. PICK d : d = fd["data"]
    OBVIOUS
  <1>4. /\ m # 0 /\ t > 0 /\ t \in Nat /\ Take(t) /\ t <= Len(pipe[d])
        /\ UNCHANGED <<gen, out, sizes, fd>>
    BY <1>1, <1>2, <1>3, ReadSteps DEF GivesPayload, Took, SessionInv
  <1>5. m \in 1..Len(sizes) /\ Length(sizes, m) = HeadLen + t /\ HeadLen \in Nat /\ HeadLen > 0
    <2>1. m \in 1..Len(sizes)
      BY <1>1, <1>4, Sorts
    <2>2. QED
      BY <1>2, <2>1, TotalNat
  <1>6. d \in Gens /\ d > 0
    <2>1. fd["data"] \in -1..MaxGens /\ fd["data"] > 0
      BY <1>4, Sorts DEF Take
    <2>2. QED
      BY <1>3, <2>1 DEF Gens
  <1>7. Stream(d) # <<>> /\ t <= Len(Stream(d))
    <2>1. Len(pipe[d]) \in Nat /\ Len(Stream(d)) \in Nat /\ Len(pipe[d]) <= Len(Stream(d))
      BY <1>6, FrontOf
    <2>2. t <= Len(Stream(d)) /\ Len(Stream(d)) # 0
      BY <1>4, <2>1
    <2>3. QED
      BY <1>6, <2>2, Sorts, EmptyIs
  <1>8. Stream(d)[1] = <<m, HeadLen + 1>>
    BY <1>1, <1>2, <1>3, <1>4, <1>6, <1>7 DEF HandInv, Held, Resumes
  <1>9. RestOf(Stream(d)', Stream(d), t) /\ \A h \in Gens : h # d => Stream(h)' = Stream(h)
    BY <1>3, <1>4, <1>6, TakeStreams
  <1>10. Counted(owed, sizes) /\ Begun(Stream(g), owed, sizes, m)
    BY <1>1 DEF PlaceInv, Placed
  <1>11. Sized(sizes) /\ Stream(g) \in Seq(Byte) /\ owed \in Seq(Nat)
    BY Sorts, OwedNats
  <1>12. CASE owed # <<>> /\ owed[1] = m
    <2>1. Stream(g) # <<>> /\ Stream(g)[1] = <<m, HeadLen + 1>>
      BY <1>4, <1>5, <1>10, <1>12 DEF Begun
    <2>2. ~Later(Stream(g), m)
      BY <1>5, <2>1 DEF Later
    <2>3. g = d
      BY <1>1, <1>3, <1>4, <1>6, <2>2 DEF HandInv, Held
    <2>4. Shaped(Stream(g), sizes) /\ Ended(Stream(g), sizes)
      BY DEF ShapeInv
    <2>5. t = Length(sizes, m) - HeadLen
      BY <1>4, <1>5
    <2>6. /\ t < Len(Stream(g)) => Stream(g)[t + 1] = <<m + 1, 1>>
          /\ Len(Stream(g)) = t <=> m = Len(sizes)
      <3>1. NextAt(Stream(g), t, m)
        BY <1>11, <2>1, <2>4, <2>5, Resumed
      <3>2. Len(Stream(g)) = t <=> m = Len(sizes)
        BY <1>11, <2>1, <2>4, <2>5, Resumed
      <3>3. QED
        BY <3>1, <3>2 DEF NextAt
    <2>7. BeginsAt(Stream(g)', Stream(g), t)
      BY <1>4, <1>7, <1>9, <1>11, <2>3, RestKeeps, Zenon
    <2>8. /\ Stream(g)' = <<>> <=> owed[1] = Len(sizes)
          /\ Stream(g)' # <<>> => Stream(g)'[1] = <<owed[1] + 1, 1>>
      <3>1. Len(Stream(g)) \in Nat /\ t <= Len(Stream(g))
        BY <1>7, <1>11, <2>3
      <3>2. QED
        BY <1>4, <1>12, <2>6, <2>7, <3>1 DEF BeginsAt
    <2>9. Placed(Stream(g)', Tail(owed), sizes, 0)
      BY <1>10, <1>11, <1>12, <2>8, PlacedTail, Zenon
    <2>10. QED
      BY <1>1, <1>12, <2>9 DEF Without
  <1>13. CASE ~(owed # <<>> /\ owed[1] = m)
    <2>1. /\ Stream(g) = <<>> <=> owed = <<>>
          /\ Stream(g) # <<>> => Stream(g)[1] = <<owed[1], 1>>
      BY <1>10, <1>13 DEF Begun
    <2>2. g # d
      <3>1. HeadLen + 1 # 1
        BY <1>5
      <3>2. QED
        BY <1>7, <1>8, <2>1, <3>1
    <2>3. Stream(g)' = Stream(g)
      BY <1>9, <2>2
    <2>4. Begun(Stream(g), owed, sizes, 0)
      BY <2>1 DEF Begun
    <2>5. QED
      BY <1>1, <1>10, <1>13, <2>3, <2>4 DEF Placed, Without
  <1>14. QED
    BY <1>12, <1>13

\* Every step keeps the reader in its place, or puts it there again.
LEMMA PlaceStep ==
    ASSUME TypeOK, SessionInv, KeepInv, ShapeInv, OrderInv, HandInv, PlaceInv, Next
    PROVE  PlaceInv'
  <1>1. SUFFICES ASSUME NEW g \in Gens, g = gen', ~slipped', Ongoing'
                 PROVE  Placed(Stream(g)', owed', sizes', inHand')
    BY DEF PlaceInv, Gens
  <1>2. Sized(sizes) /\ Len(sizes) \in Nat /\ inHand \in 0..Len(sizes) /\ Stream(g) \in Seq(Byte)
    BY Sorts
  <1>3. g = gen /\ ~slipped /\ Ongoing => Placed(Stream(g), owed, sizes, inHand)
    BY DEF PlaceInv
  <1>4. CASE Quiet \/ Joins
    BY <1>1, <1>3, <1>4 DEF Quiet, Joins, SameStreams
  <1>5. CASE Leaves
    BY <1>1, <1>3, <1>5 DEF Leaves
  <1>6. CASE Opens
    <2>1. Stream(g)' = <<>> /\ owed' = <<>> /\ sizes' = sizes
      BY <1>1, <1>6 DEF Opens, SameStreams
    <2>2. QED
      BY <1>2, <2>1, PlacedNone
  <1>7. CASE Ends
    BY <1>1, <1>7 DEF Ends
  <1>8. ASSUME NEW s \in Sizes, SendAnswer(s)
        PROVE  Placed(Stream(g)', owed', sizes', inHand')
    <2>1. /\ gen' = gen /\ Ongoing /\ Stream(gen)' = Stream(gen) \o out'
          /\ sizes' = Append(sizes, s) /\ inHand' = inHand /\ slipped' = slipped
      BY <1>8, SendStreams
    <2>2. /\ out' \in Seq(Byte) /\ s \in Nat \X Nat /\ Len(out') = HeadLen + (s[1] + s[2])
          /\ \A i \in 1..(HeadLen + (s[1] + s[2])) : out'[i] = <<Len(sizes) + 1, i>>
      BY <1>8, SendTypes
    <2> DEFINE f == out'
               l == HeadLen + (s[1] + s[2])
    <2>3. f \in Seq(Byte) /\ Len(f) = l /\ \A i \in 1..l : f[i] = <<Len(sizes) + 1, i>>
      BY <2>2
    <2>4. l \in Nat /\ l > 0
      <3>1. HeadLen \in Nat /\ HeadLen > 0 /\ s[1] \in Nat /\ s[2] \in Nat
        BY <2>2, ConstantsAssumption
      <3>2. QED
        BY <3>1
    <2> HIDE DEF l, f
    <2>5. f # <<>> /\ f[1] = <<Len(sizes) + 1, 1>>
      BY <2>3, <2>4
    <2>6. owed' = Append(owed, Len(sizes) + 1)
      <3>1. Len(Append(sizes, s)) = Len(sizes) + 1
        BY <1>2, <2>2, MoreSizes
      <3>2. QED
        BY <1>1, <1>8, <2>1, <3>1 DEF SendAnswer
    <2>7. Placed(Stream(g) \o f, Append(owed, Len(sizes) + 1), Append(sizes, s), inHand)
      BY <1>1, <1>2, <1>3, <2>1, <2>2, <2>3, <2>5, OwedNats, PlacedMore, Zenon
    <2>8. Stream(g)' = Stream(g) \o f
      BY <1>1, <2>1 DEF f
    <2>9. QED
      BY <2>1, <2>6, <2>7, <2>8
  <1>9. CASE Reads
    <2>1. UNCHANGED <<gen, sizes, out>> /\ (Ongoing' <=> Ongoing)
      BY <1>9, ReadsLeave, ReadSteps
    <2>2. g = gen /\ Ongoing
      BY <1>1, <2>1
    <2>3. CASE GoesOn
      BY <1>4, <1>9, <2>3, GoesOnQuietly
    <2>4. CASE TakesHead
      <3>1. owed' = owed /\ slipped' = slipped
        BY <2>4 DEF TakesHead
      <3>2. Placed(Stream(g)', owed, sizes, inHand')
        BY <1>1, <1>9, <2>2, <2>4, <3>1, HeadPlaces
      <3>3. QED
        BY <2>1, <3>1, <3>2
    <2>5. ASSUME NEW slip \in BOOLEAN, NEW got, Return(slip, got), slipped \/ slip
          PROVE  Placed(Stream(g)', owed', sizes', inHand')
      <3>1. owed' = <<>> /\ Stream(g)' = <<>>
        BY <1>1, <2>1, <2>2, <2>5, ReturnPlaces
      <3>2. QED
        BY <1>2, <2>1, <3>1, PlacedNone
    <2>6. ASSUME NEW slip \in BOOLEAN, NEW got, Return(slip, got), ~(slipped \/ slip)
          PROVE  /\ inHand' = 0 /\ Placed(Stream(g), owed, sizes, inHand)
                 /\ got = <<>> => owed' = owed
                 /\ got # <<>> => owed' = Without(owed, inHand)
      BY <1>1, <1>3, <2>1, <2>2, <2>6, ReturnPlaces
    <2>7. CASE GivesUp
      <3>1. CASE Return(TRUE, <<>>)
        BY <2>5, <3>1, Zenon
      <3>2. CASE UNCHANGED pipe /\ Return(readPc = "payload", <<>>)
        <4> DEFINE slip == readPc = "payload"
        <4>1. slip \in BOOLEAN /\ Return(slip, <<>>)
          BY <3>2
        <4>2. CASE slipped \/ slip
          BY <2>5, <4>1, <4>2, Zenon
        <4>3. CASE ~(slipped \/ slip)
          <5>1. inHand = 0
            BY <4>3 DEF SessionInv
          <5>2. inHand' = 0 /\ owed' = owed /\ Placed(Stream(g), owed, sizes, 0)
            BY <2>6, <4>1, <4>3, <5>1, Zenon
          <5>3. Stream(g)' = Stream(g)
            BY <2>1, <3>2 DEF Stream
          <5>4. QED
            BY <2>1, <5>2, <5>3
        <4>4. QED
          BY <4>2, <4>3
      <3>3. QED
        BY <2>7, <3>1, <3>2, Zenon DEF GivesUp
    <2>8. CASE GivesNone
      <3> DEFINE got == Answer(<<>>)
      <3>1. /\ Return(FALSE, got) /\ FALSE \in BOOLEAN /\ got # <<>>
            /\ inHand # 0 /\ Total(inHand) = 0 /\ UNCHANGED pipe
        BY <2>8, Zenon DEF GivesNone, SessionInv, Answer
      <3> HIDE DEF got
      <3>2. CASE slipped
        BY <2>5, <3>1, <3>2, Zenon
      <3>3. CASE ~slipped
        <4>1. /\ inHand' = 0 /\ Placed(Stream(g), owed, sizes, inHand)
              /\ owed' = Without(owed, inHand)
          BY <2>6, <3>1, <3>3, Zenon
        <4>2. Stream(g)' = Stream(g)
          BY <2>1, <3>1 DEF Stream
        <4>3. Counted(owed, sizes) /\ Begun(Stream(g), owed, sizes, inHand)
          BY <4>1 DEF Placed
        <4>4. ~(Length(sizes, inHand) > HeadLen)
          <5>1. inHand \in 1..Len(sizes)
            BY <1>2, <3>1
          <5>2. QED
            BY <3>1, <5>1, TotalNat
        <4>5. CASE owed # <<>> /\ owed[1] = inHand
          <5>1. /\ Stream(g) = <<>> <=> Len(owed) = 1
                /\ Stream(g) # <<>> => Stream(g)[1] = <<owed[1] + 1, 1>>
            BY <3>1, <4>3, <4>4, <4>5 DEF Begun
          <5>2. Len(owed) = 1 <=> owed[1] = Len(sizes)
            BY <1>2, <4>3, <4>5, OwedNats, FirstOwed
          <5>3. Placed(Stream(g), Tail(owed), sizes, 0)
            BY <1>2, <4>3, <4>5, <5>1, <5>2, OwedNats, PlacedTail, Zenon
          <5>4. QED
            BY <2>1, <4>1, <4>2, <4>5, <5>3 DEF Without
        <4>6. CASE ~(owed # <<>> /\ owed[1] = inHand)
          <5>1. Begun(Stream(g), owed, sizes, 0)
            BY <4>3, <4>6 DEF Begun
          <5>2. QED
            BY <2>1, <4>1, <4>2, <4>3, <4>6, <5>1 DEF Placed, Without
        <4>7. QED
          BY <4>5, <4>6
      <3>4. QED
        BY <3>2, <3>3
    <2>9. CASE GivesPayload
      <3> DEFINE slip == ~sameOpen
                 got == Answer(SubSeq(pipe[fd["data"]], 1, Total(inHand)))
      <3>1. slip \in BOOLEAN /\ Return(slip, got) /\ got # <<>>
        BY <2>9, Zenon DEF GivesPayload, Answer
      <3> HIDE DEF got
      <3>2. CASE slipped \/ slip
        BY <2>5, <3>1, <3>2, Zenon
      <3>3. CASE ~(slipped \/ slip)
        <4>1. inHand' = 0 /\ owed' = Without(owed, inHand)
          BY <2>6, <3>1, <3>3, Zenon
        <4>2. Placed(Stream(g)', Without(owed, inHand), sizes, 0)
          BY <1>9, <2>2, <2>9, <3>3, PayloadPlaces
        <4>3. QED
          BY <2>1, <4>1, <4>2
      <3>4. QED
        BY <3>2, <3>3
    <2>10. QED
      BY <1>9, <2>3, <2>4, <2>7, <2>8, <2>9, ReadSteps
  <1>10. QED
    BY <1>4, <1>5, <1>6, <1>7, <1>8, <1>9, SessionSteps

--------------------------------------------------------------------------------
(* What a reader in step has before it *)

\* The two ways to say how long a frame is.
LEMMA FrameLenIs ==
    ASSUME TypeOK, NEW m \in 1..Len(sizes)
    PROVE  FrameLen(m) = Length(sizes, m) /\ FrameLen(m) \in Nat /\ FrameLen(m) >= HeadLen
  <1>1. Total(m) \in Nat /\ Length(sizes, m) = HeadLen + Total(m) /\ HeadLen \in Nat
    BY TotalNat
  <1>2. QED
    BY <1>1 DEF FrameLen

\* In consecutive frames every byte follows the one before.
LEMMA FollowsIn ==
    ASSUME TypeOK, NEW z \in Seq(Byte), Shaped(z, sizes), NEW i \in 1..(Len(z) - 1)
    PROVE  Follows(z[i], z[i + 1])
  <1>1. /\ Len(z) \in Nat /\ i \in 1..Len(z) /\ i + 1 \in 1..Len(z) /\ i < i + 1
        /\ (i + 1) - i = 1
    OBVIOUS
  <1> DEFINE a == z[i][1]
             b == z[i][2]
             l == Length(sizes, a)
             y == z[i + 1]
  <1>2. a \in 1..Len(sizes) /\ b \in 1..l
    BY <1>1 DEF Shaped
  <1>3. FrameLen(a) = l /\ l \in Nat
    BY <1>2, FrameLenIs
  <1>4. 1 <= l - b => y = <<a, b + 1>>
    <2>1. IF (i + 1) - i <= l - b THEN y = <<a, b + ((i + 1) - i)>> ELSE a < y[1]
      BY <1>1, Zenon DEF Shaped
    <2>2. QED
      BY <1>1, <2>1
  <1>5. b = l => y = <<a + 1, 1>>
    BY DEF Shaped
  <1> HIDE DEF a, b, l, y
  <1>6. y = IF b < FrameLen(a) THEN <<a, b + 1>> ELSE <<a + 1, 1>>
    BY <1>2, <1>3, <1>4, <1>5
  <1>7. QED
    BY <1>6 DEF Follows, a, b, y

\* The unread bytes as three parts.
All(x, y, z) == (x \o y) \o z

\* The parts may be joined from either end.
LEMMA Associates ==
    ASSUME NEW x \in Seq(Byte), NEW y \in Seq(Byte), NEW z \in Seq(Byte)
    PROVE  All(x, y, z) = x \o (y \o z)
  <1>1. (x \o y) \o z = x \o (y \o z)
    OBVIOUS
  <1>2. QED
    BY <1>1 DEF All

\* The header in hand, and then the stream of the server.
LEMMA UnreadIs ==
    ASSUME HeadRead, NEW h, h = Bytes(inHand, 1, HeadLen), h \in Seq(Byte),
           pipe[gen] \in Seq(Byte), out \in Seq(Byte), NEW z, z = pipe[gen] \o out
    PROVE  Unread = h \o z
  <1>1. Unread = All(h, pipe[gen], out)
    BY DEF Unread, All
  <1>2. All(h, pipe[gen], out) = h \o (pipe[gen] \o out)
    BY Associates, Zenon
  <1>3. QED
    BY <1>1, <1>2, Zenon

\* What InStep says of the unread bytes u.
Framed(u) ==
    /\ u = <<>> <=> owed = <<>>
    /\ u # <<>> => /\ u[1] = <<Head(owed), 1>>
                   /\ u[Len(u)] = <<Len(sizes), FrameLen(Len(sizes))>>
    /\ \A i \in 1..(Len(u) - 1) : Follows(u[i], u[i + 1])

\* The stream of the server is what is owed, if no header is in hand.
LEMMA FramedStream ==
    ASSUME TypeOK, NEW z \in Seq(Byte), Shaped(z, sizes), Ended(z, sizes),
           Placed(z, owed, sizes, inHand), ~HeadRead
    PROVE  Framed(z)
  <1>1. owed # <<>> => Head(owed) = owed[1]
    BY OwedNats, TailIs
  <1>2. (z = <<>> <=> owed = <<>>) /\ (z # <<>> => z[1] = <<owed[1], 1>>)
    BY <1>1 DEF Placed, Begun, HeadRead
  <1>3. z # <<>> => z[Len(z)] = <<Len(sizes), FrameLen(Len(sizes))>>
    <2>1. SUFFICES ASSUME z # <<>> PROVE z[Len(z)] = <<Len(sizes), FrameLen(Len(sizes))>>
      OBVIOUS
    <2>2. 1 \in 1..Len(z) /\ Len(sizes) \in Nat
      BY <2>1, Sorts
    <2>3. z[1][1] \in 1..Len(sizes)
      BY <2>2, Zenon DEF Shaped
    <2>4. Len(sizes) \in 1..Len(sizes)
      BY <2>2, <2>3
    <2>5. QED
      BY <2>1, <2>4, FrameLenIs DEF Ended
  <1>4. \A i \in 1..(Len(z) - 1) : Follows(z[i], z[i + 1])
    BY FollowsIn
  <1>5. QED
    BY <1>1, <1>2, <1>3, <1>4 DEF Framed

\* With the header that readAnswer() has already taken.
LEMMA FramedPayload ==
    ASSUME TypeOK, NEW z \in Seq(Byte), Shaped(z, sizes), Ended(z, sizes),
           Placed(z, owed, sizes, inHand), HeadRead
    PROVE  Framed(Bytes(inHand, 1, HeadLen) \o z) /\ Bytes(inHand, 1, HeadLen) \in Seq(Byte)
  <1> DEFINE m == inHand
             h == Bytes(inHand, 1, HeadLen)
             u == h \o z
             N == Len(sizes)
             n == Len(z)
  <1>1. Head(owed) = m /\ owed[1] = m /\ owed # <<>> /\ m # 0
    <2>1. owed # <<>> => Head(owed) = owed[1]
      BY OwedNats, TailIs
    <2>2. QED
      BY <2>1 DEF HeadRead
  <1>2. m \in 1..N /\ N \in Nat /\ HeadLen \in Nat /\ HeadLen > 0 /\ n \in Nat /\ m \in 1..MaxMsgs
    <2>1. m \in 1..N /\ N \in Nat /\ HeadLen \in Nat /\ HeadLen > 0
      BY <1>1, Sorts
    <2>2. owed \in Seq(1..MaxMsgs) /\ 1 \in 1..Len(owed)
      BY <1>1 DEF TypeOK
    <2>3. owed[1] \in 1..MaxMsgs
      BY <2>2, ElementOf, Zenon
    <2>4. n \in Nat
      OBVIOUS
    <2>5. QED
      BY <1>1, <2>1, <2>3, <2>4
  <1>3. h \in Seq(Byte) /\ Len(h) = HeadLen /\ \A i \in 1..HeadLen : h[i] = <<m, i>>
    <2>1. /\ 1 \in Nat \ {0} /\ 1 <= HeadLen + 1 /\ (HeadLen - 1) + 1 = HeadLen
          /\ \A i \in 1..HeadLen : (1 + i) - 1 = i
      BY <1>2
    <2> HIDE DEF m
    <2>2. /\ Bytes(m, 1, HeadLen) \in Seq(Byte) /\ Len(Bytes(m, 1, HeadLen)) = (HeadLen - 1) + 1
          /\ \A i \in 1..((HeadLen - 1) + 1) : Bytes(m, 1, HeadLen)[i] = <<m, (1 + i) - 1>>
      BY <1>2, <2>1, BytesOf, Zenon
    <2>3. h = Bytes(m, 1, HeadLen)
      BY DEF m
    <2> HIDE DEF h
    <2>4. QED
      BY <2>1, <2>2, <2>3
  <1>4. FrameLen(m) = Length(sizes, m) /\ FrameLen(m) \in Nat /\ FrameLen(m) >= HeadLen
    BY <1>2, FrameLenIs
  <1>5. Len(owed) = 1 <=> m = N
    BY <1>1, Sorts, OwedNats, FirstOwed, Zenon DEF Placed
  <1>6. Begun(z, owed, sizes, m)
    BY DEF Placed
  <1> HIDE DEF m, h, N, n
  <1>7. /\ FrameLen(m) > HeadLen => z # <<>> /\ z[1] = <<m, HeadLen + 1>>
        /\ FrameLen(m) = HeadLen => (z = <<>> <=> m = N) /\ (z # <<>> => z[1] = <<m + 1, 1>>)
    BY <1>1, <1>2, <1>4, <1>5, <1>6 DEF Begun
  <1>8. z # <<>> => z[n] = <<N, FrameLen(N)>> /\ n > 0
    <2>1. N \in 1..N
      BY <1>2
    <2>2. FrameLen(N) = Length(sizes, N)
      BY <2>1, FrameLenIs DEF N
    <2>3. QED
      BY <2>2 DEF Ended, N, n
  <1>9. /\ Len(u) = HeadLen + n /\ \A i \in 1..HeadLen : u[i] = <<m, i>>
        /\ \A i \in 1..n : u[HeadLen + i] = z[i]
        /\ u # <<>>
    <2>1. /\ Len(u) = Len(h) + n /\ \A i \in 1..Len(h) : u[i] = h[i]
          /\ \A i \in 1..n : u[Len(h) + i] = z[i]
          /\ u \in Seq(Byte)
      <3>1. h \in Seq(Byte)
        BY <1>3
      <3>2. u \in Seq(Byte) /\ Len(u) = Len(h) + n
        BY <3>1, Concat DEF n
      <3>3. \A i \in 1..Len(h) : u[i] = h[i]
        BY <3>1, Concat
      <3>4. \A i \in 1..n : u[Len(h) + i] = z[i]
        BY <3>1, Concat DEF n
      <3>5. QED
        BY <3>2, <3>3, <3>4, Zenon
    <2> HIDE DEF u
    <2>2. u = <<>> <=> Len(u) = 0
      BY <2>1, EmptyIs
    <2>3. QED
      BY <1>2, <1>3, <2>1, <2>2
  <1>10. z = <<>> <=> n = 0
    BY EmptyIs DEF n
  <1> HIDE DEF u
  <1>11. u[Len(u)] = <<N, FrameLen(N)>>
    <2>1. CASE z # <<>>
      <3>1. n \in 1..n /\ u[HeadLen + n] = z[n]
        BY <1>2, <1>8, <1>9, <2>1
      <3>2. QED
        BY <1>8, <1>9, <2>1, <3>1
    <2>2. CASE z = <<>>
      <3>1. n = 0 /\ FrameLen(m) = HeadLen /\ m = N
        BY <1>2, <1>4, <1>7, <1>10, <2>2
      <3>2. HeadLen \in 1..HeadLen /\ Len(u) = HeadLen
        BY <1>2, <1>9, <3>1
      <3>3. QED
        BY <1>9, <3>1, <3>2
    <2>3. QED
      BY <2>1, <2>2
  <1>12. ASSUME NEW i \in 1..(Len(u) - 1) PROVE Follows(u[i], u[i + 1])
    <2>1. i \in Nat /\ i >= 1 /\ i < HeadLen + n
      BY <1>2, <1>9
    <2>2. CASE i < HeadLen
      <3>1. u[i] = <<m, i>> /\ u[i + 1] = <<m, i + 1>> /\ i < FrameLen(m)
        BY <1>2, <1>4, <1>9, <2>1, <2>2
      <3>2. QED
        BY <3>1 DEF Follows
    <2>3. CASE i = HeadLen
      <3>1. u[i] = <<m, HeadLen>> /\ u[i + 1] = z[1] /\ z # <<>>
        <4>1. i \in 1..HeadLen /\ 1 \in 1..n /\ n # 0
          BY <1>2, <2>1, <2>3
        <4>2. QED
          BY <1>9, <1>10, <2>3, <4>1
      <3>2. z[1] = IF HeadLen < FrameLen(m) THEN <<m, HeadLen + 1>> ELSE <<m + 1, 1>>
        BY <1>2, <1>4, <1>7, <3>1
      <3>3. QED
        BY <3>1, <3>2 DEF Follows
    <2>4. CASE i > HeadLen
      <3> DEFINE j == i - HeadLen
      <3>1. /\ j \in 1..(n - 1) /\ j \in 1..n /\ j + 1 \in 1..n
            /\ HeadLen + j = i /\ HeadLen + (j + 1) = i + 1
        BY <1>2, <2>1, <2>4
      <3> HIDE DEF j
      <3>2. Follows(z[j], z[j + 1])
        BY <3>1, FollowsIn DEF n
      <3>3. u[i] = z[j] /\ u[i + 1] = z[j + 1]
        BY <1>9, <3>1
      <3>4. QED
        BY <3>2, <3>3, Zenon
    <2>5. QED
      BY <1>2, <2>1, <2>2, <2>3, <2>4
  <1>13. u[1] = <<Head(owed), 1>>
    BY <1>1, <1>2, <1>9
  <1>14. Framed(u)
    BY <1>1, <1>9, <1>11, <1>12, <1>13 DEF Framed, N
  <1>15. QED
    BY <1>3, <1>14 DEF u, h

\* A reader in its place is in step.
LEMMA PlaceInStep ==
    ASSUME TypeOK, SessionInv, ShapeInv, PlaceInv
    PROVE  InStep
  <1>1. SUFFICES ASSUME ~slipped, Ongoing PROVE Counted(owed, sizes) /\ Framed(Unread)
    BY DEF InStep, Ongoing, Counted, Framed
  <1> DEFINE z == pipe[gen] \o out
  <1>2. gen \in Gens
    BY <1>1, OngoingGen
  <1>3. Stream(gen) = z
    BY DEF Stream
  <1>4. z \in Seq(Byte) /\ pipe[gen] \in Seq(Byte) /\ out \in Seq(Byte)
    <2>1. Stream(gen) \in Seq(Byte) /\ pipe[gen] \in Seq(Byte)
      BY <1>2, Sorts
    <2>2. QED
      BY <1>3, <2>1 DEF TypeOK
  <1>5. Shaped(z, sizes) /\ Ended(z, sizes)
    BY <1>1, <1>2, <1>3, Zenon DEF ShapeInv
  <1>6. Placed(z, owed, sizes, inHand)
    BY <1>1, <1>2, <1>3, Zenon DEF PlaceInv
  <1>7. CASE HeadRead
    <2>1. /\ Framed(Bytes(inHand, 1, HeadLen) \o z) /\ Bytes(inHand, 1, HeadLen) \in Seq(Byte)
      BY <1>4, <1>5, <1>6, <1>7, FramedPayload, Zenon
    <2>2. Unread = Bytes(inHand, 1, HeadLen) \o z
      BY <1>4, <1>7, <2>1, UnreadIs, Zenon
    <2>3. QED
      BY <1>6, <2>1, <2>2 DEF Placed
  <1>8. CASE ~HeadRead
    <2>1. <<>> \o pipe[gen] = pipe[gen]
      BY <1>4
    <2>2. Unread = z
      BY <1>8, <2>1 DEF Unread
    <2>3. Framed(z)
      BY <1>4, <1>5, <1>6, <1>8, FramedStream, Zenon
    <2>4. QED
      BY <1>6, <2>2, <2>3 DEF Placed
  <1>9. QED
    BY <1>7, <1>8

--------------------------------------------------------------------------------
(* The invariant *)

\* At first there are no pipes and no answers.
LEMMA AnswersInit ==
    ASSUME Init
    PROVE  AnswersInv
  <1>1. /\ HeadLen \in Nat /\ HeadLen > 0 /\ MaxMsgs \in Nat /\ MaxGens \in Nat
        /\ InitPipeSize \in Nat /\ PipeLimit \in Nat
    BY ConstantsAssumption
  <1>2. /\ \A S : <<>> \in Seq(S)
        /\ Len(<<>>) = 0 /\ <<>> \o <<>> = <<>>
    OBVIOUS
  <1>3. \A g \in Gens : pipe[g] = <<>> /\ Stream(g) = <<>>
    BY <1>2 DEF Init, Gens, Stream
  <1>4. ~Ongoing
    BY DEF Init, Ongoing, Serves
  <1>5. SessionTypes
    <2>1. sizes \in Seq(Sizes) /\ out \in Seq(Byte)
      BY <1>2, Zenon DEF Init
    <2>2. hears \in BOOLEAN /\ isOpen \in [Pipes -> BOOLEAN]
      BY Zenon DEF Init
    <2>3. /\ gen \in 0..MaxGens /\ phase = "down" /\ link \in Pipes /\ maxSize \in Nat
          /\ file \in [Pipes -> 0..MaxGens] /\ fd \in [Pipes -> -1..MaxGens] /\ runPc = "openData"
      BY <1>1 DEF Init, Pipes
    <2>4. QED
      BY <2>1, <2>2, <2>3 DEF SessionTypes
  <1>6. PipeTypes
    <2>1. <<>> \in Seq(Byte)
      OBVIOUS
    <2>2. Fits(<<>>)
      BY <1>1, <1>2 DEF Fits
    <2>3. QED
      BY <1>3, <2>1, <2>2 DEF Init, PipeTypes, Gens
  <1>7. ReaderTypes
    <2>1. <<>> \in Seq(Byte) /\ <<>> \in Seq(1..MaxMsgs)
      OBVIOUS
    <2>2. answer \in [msg : 0..MaxMsgs, bytes : Seq(Byte), sameOpen : BOOLEAN]
      BY <1>1, <2>1 DEF Init
    <2>3. QED
      <3>1. owed \in Seq(1..MaxMsgs) /\ Len(sizes) = 0
        BY <1>2, <2>1, Zenon DEF Init
      <3>2. QED
        <4>1. sameOpen \in BOOLEAN /\ slipped \in BOOLEAN
          BY Zenon DEF Init
        <4>2. readPc = "idle" /\ event = "none" /\ room = 0 /\ inHand = 0 /\ newest = 0
          BY DEF Init
        <4>3. QED
          BY <1>1, <2>2, <3>1, <4>1, <4>2 DEF ReaderTypes
  <1>8. TypeOK
    BY <1>5, <1>6, <1>7, TypeParts
  <1>9. SessionInv
    BY <1>1, <1>2, <1>4 DEF Init, SessionInv, Pipes
  <1>10. KeepInv
    BY <1>3, Zenon DEF Init, KeepInv
  <1>11. ShapeInv
    <2>1. \A sz : Shaped(<<>>, sz)
      BY <1>2 DEF Shaped
    <2>2. QED
      BY <1>3, <1>4, <2>1 DEF ShapeInv
  <1>12. OrderInv
    BY <1>2, <1>3 DEF OrderInv, Before
  <1>13. SeenInv
    <2>1. answer.msg = 0 /\ newest = 0 /\ inHand = 0 /\ Len(sizes) = 0
      BY <1>2 DEF Init
    <2>2. \A n : Above(<<>>, n)
      BY <1>2 DEF Above
    <2>3. QED
      BY <1>3, <2>1, <2>2 DEF SeenInv
  <1>14. HandInv /\ PlaceInv /\ AnswersIntact
    BY <1>4 DEF Init, HandInv, PlaceInv, AnswersIntact
  <1>15. QED
    BY <1>8, <1>9, <1>10, <1>11, <1>12, <1>13, <1>14 DEF AnswersInv

\* Every step keeps the invariant.
LEMMA AnswersStep ==
    ASSUME AnswersInv, [Next]_vars
    PROVE  AnswersInv'
  <1>1. /\ TypeOK /\ SessionInv /\ KeepInv /\ ShapeInv /\ OrderInv /\ SeenInv /\ HandInv
        /\ PlaceInv /\ AnswersIntact
    BY DEF AnswersInv
  <1>2. CASE UNCHANGED vars
    <2>1. UNCHANGED <<file, gen, phase, link, maxSize, sizes, out, pipe, fd, isOpen, hears, runPc,
                      readPc, event, room, inHand, sameOpen, answer, newest, owed, slipped>>
      BY <1>2 DEF vars, serverVars, runVars, readVars, placeVars, answerVars
    <2>2. TypeOK'
      BY <1>1, <2>1 DEF TypeOK
    <2>3. AnswersIntact'
      BY <1>1, <2>1, Zenon DEF AnswersIntact, Payload, Total
    <2>4. SessionInv' /\ KeepInv'
      BY <1>1, <2>1, Zenon DEF SessionInv, KeepInv, Ongoing, Serves
    <2>5. ShapeInv' /\ OrderInv' /\ SeenInv'
      BY <1>1, <2>1 DEF ShapeInv, OrderInv, SeenInv, Stream, Ongoing, Serves
    <2>6. HandInv' /\ PlaceInv'
      BY <1>1, <2>1, Zenon DEF HandInv, Held, PlaceInv, Stream, Ongoing, Serves, Total
    <2>7. QED
      BY <2>2, <2>3, <2>4, <2>5, <2>6 DEF AnswersInv
  <1>3. CASE Next
    <2>1. TypeOK'
      <3>1. CASE Starting \/ Stopping \/ Crash
        BY <1>1, <3>1, ServerTypes
      <3>2. CASE \E s \in Sizes : SendAnswer(s)
        BY <1>1, <3>2, SendTypes
      <3>3. CASE Write
        BY <1>1, <3>3, WriteTypes
      <3>4. CASE Run
        BY <1>1, <3>4, RunTypes
      <3>5. CASE Reads
        BY <1>1, <3>5, ReadTypes
      <3>6. QED
        BY <1>3, <3>1, <3>2, <3>3, <3>4, <3>5 DEF Next, Reads
    <2>2. SessionInv' /\ KeepInv' /\ ShapeInv' /\ OrderInv'
      BY <1>1, <1>3, <2>1, SessionStep, KeepStep, ShapeStep, OrderStep
    <2>3. SeenInv' /\ HandInv' /\ AnswersIntact'
      BY <1>1, <1>3, <2>1, SeenStep, HandStep, IntactStep
    <2>4. PlaceInv'
      BY <1>1, <1>3, PlaceStep
    <2>5. QED
      BY <2>1, <2>2, <2>3, <2>4 DEF AnswersInv
  <1>4. QED
    BY <1>2, <1>3

\* Whatever the sizes, the buffers, the number of starts and of messages: an answer
\* that readAnswer() returns within one connection is the whole payload of one
\* sendAnswer(), in order and once, and a reader that did not slip, or that found an
\* empty pipe since, has before it exactly the frames of the answers it is owed.
THEOREM AnswersAlwaysHold == Spec => []AnswersHold
  <1>1. AnswersInv => AnswersHold
    BY PlaceInStep DEF AnswersInv, AnswersHold
  <1>2. QED
    BY <1>1, AnswersInit, AnswersStep, PTL DEF Spec

================================================================================
