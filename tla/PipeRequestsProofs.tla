-------------------------- MODULE PipeRequestsProofs --------------------------
(***************************************************************************)
(* Proofs about PipeRequests for any header length, payload sizes, pipe    *)
(* capacity and number of messages and crashes: as long as no frame was    *)
(* cut short, and up to the first one that was, startListen() hands over   *)
(* exactly what sendToStream() was given.                                  *)
(***************************************************************************)
EXTENDS PipeRequests, SequenceTheorems, TLAPS

\* In z the frames k, ..., l of fr lie one after the other from the first byte on:
\* frame f begins after off[f] bytes, and off[l + 1] bytes are theirs.
Laid(z, fr, sz, k, l, off) ==
    /\ off \in [k..(l + 1) -> Nat]
    /\ off[k] = 0
    /\ \A f \in k..l : off[f + 1] = off[f] + HeadLen + sz[fr[f]]
    /\ \A f, g \in k..(l + 1) : f <= g => off[f] <= off[g]
    /\ off[l + 1] <= Len(z)
    /\ \A f \in k..l : \A j \in 1..(HeadLen + sz[fr[f]]) : z[off[f] + j] = <<fr[f], j>>
    /\ \A i \in 1..off[l + 1] : \E f \in k..l : off[f] < i /\ i <= off[f + 1]

\* The frame startListen() is at, and the last one that is whole.
Current == Len(requests) + 1
LastWhole == IF cut = 0 THEN Len(frames) ELSE cut - 1

\* The current frame was, or will be, written whole.
Ready == cut = 0 \/ Current < cut

\* The bytes the whole frames are among.
Bytestream == IF cut = 0 THEN Pending ELSE Arrived

\* Messages are numbered, and bytes are bytes of messages.
HistInv ==
    /\ Len(sizes) <= MaxMsgs
    /\ \A f \in 1..Len(frames) : frames[f] <= Len(sizes)
    /\ clientPc = "payload" => Len(frames) > 0 /\ frames[Len(frames)] = Len(sizes)
    /\ \A i \in 1..Len(pipe) : pipe[i][1] <= Len(sizes)
    /\ \A i \in 1..Len(buf) : buf[i][1] <= Len(sizes)

\* At a frame that is whole startListen() reads header and payload with one read each.
BlockInv ==
    Ready =>
        /\ buf = <<>> /\ serverPc = "reading"
        /\ Current <= LastWhole + 1
        /\ cut = 0 /\ clientPc = "payload" => Current <= LastWhole
        /\ ~isPrimeHeadReaded => needReadBytes = HeadLen
        /\ isPrimeHeadReaded => /\ Current <= LastWhole
                                /\ dataSize = sizes[frames[Current]]
                                /\ needReadBytes = dataSize

LayInv ==
    Ready => \E off : /\ Laid(Bytestream, frames, sizes, Current, LastWhole, off)
                      /\ cut = 0 => off[LastWhole + 1] = Len(Bytestream)

FrameInv == TypeOK /\ HistInv /\ BlockInv /\ LayInv /\ IntactBeforeCut

-----------------------------------------------------------------------------
(* Frames in a sequence of bytes                                          *)

\* A byte of a frame that ends before the e-th byte.
LEMMA Within ==
    ASSUME NEW a \in Nat, NEW h \in Nat, NEW s \in Nat, NEW b, b = a + h + s,
           NEW e \in Nat, b <= e, NEW j \in 1..(h + s)
    PROVE  a + j \in 1..e /\ a + j <= b
  OBVIOUS

\* The same byte once d bytes before it have gone.
LEMMA Moved ==
    ASSUME NEW a \in Nat, NEW d \in Nat, d <= a, NEW j \in Nat, NEW e \in Nat,
           a + j \in 1..e, NEW n \in Nat, e <= n, j > 0
    PROVE  (a - d) + j \in 1..(n - d) /\ ((a - d) + j) + d = a + j
  OBVIOUS

\* The frames k, ..., l are the same; the first n bytes are; y is z without d bytes.
Alike(fr, sz, fr2, sz2, k, l) ==
    \A f \in k..l : sz[fr[f]] \in Nat /\ fr2[f] = fr[f] /\ sz2[fr2[f]] = sz[fr[f]]
Sized(fr, sz, k, l) == \A f \in k..l : sz[fr[f]] \in Nat
Remains(y, z, d) == Len(y) = Len(z) - d /\ \A i \in 1..Len(y) : y[i] = z[i + d]
Begins(y, z, n) == Len(y) \in Nat /\ n <= Len(y) /\ \A i \in 1..n : y[i] = z[i]
\* y is z and the frame of m, with n bytes of payload.
Extends(y, z, m, n) ==
    /\ Len(y) = Len(z) + HeadLen + n /\ Begins(y, z, Len(z))
    /\ \A j \in 1..(HeadLen + n) : y[Len(z) + j] = <<m, j>>
\* The frames k, ..., l are all there is in z.
Filled(z, fr, sz, k, l) == \E off : Laid(z, fr, sz, k, l, off) /\ off[l + 1] = Len(z)
\* The frames k, ..., l are in y, up to its end if they went up to the end of z.
LaidAgain(y, z, fr, sz, k, l, off) ==
    \E o : Laid(y, fr, sz, k, l, o) /\ (off[l + 1] = Len(z) => o[l + 1] = Len(y))

\* Whatever begins with the same bytes has the same frames.
LEMMA LaidStays ==
    ASSUME NEW z, NEW y, NEW fr, NEW sz, NEW fr2, NEW sz2, NEW k \in Nat, NEW l \in Nat,
           k <= l + 1, NEW off, Laid(z, fr, sz, k, l, off),
           Alike(fr, sz, fr2, sz2, k, l), Begins(y, z, off[l + 1])
    PROVE  Laid(y, fr2, sz2, k, l, off)
  <1>1. /\ \A f \in k..l : sz[fr[f]] \in Nat /\ fr2[f] = fr[f] /\ sz2[fr2[f]] = sz[fr[f]]
        /\ Len(y) \in Nat /\ off[l + 1] <= Len(y)
        /\ \A i \in 1..off[l + 1] : y[i] = z[i]
    BY DEF Alike, Begins
  <1>2. \A f \in k..(l + 1) : off[f] \in Nat /\ off[f] <= off[l + 1]
    BY DEF Laid
  <1>3. \A f \in k..l : f + 1 \in k..(l + 1) /\ f \in k..(l + 1)
    OBVIOUS
  <1>4. ASSUME NEW f \in k..l, NEW j \in 1..(HeadLen + sz2[fr2[f]])
        PROVE  y[off[f] + j] = <<fr2[f], j>>
    <2>1. j \in 1..(HeadLen + sz[fr[f]]) /\ z[off[f] + j] = <<fr[f], j>>
      BY <1>1 DEF Laid
    <2>2. off[f + 1] = off[f] + HeadLen + sz[fr[f]]
      BY DEF Laid
    <2>3. sz[fr[f]] \in Nat /\ HeadLen \in Nat
      BY <1>1, ConstantsAssumption
    <2>4. off[f] \in Nat /\ off[f + 1] <= off[l + 1] /\ off[l + 1] \in Nat
      BY <1>2, <1>3
    <2>5. off[f] + j \in 1..off[l + 1]
      BY <2>1, <2>2, <2>3, <2>4, Within
    <2>6. QED
      BY <1>1, <2>1, <2>5
  <1>5. \A f \in k..l : off[f + 1] = off[f] + HeadLen + sz2[fr2[f]]
    BY <1>1 DEF Laid
  <1>6. QED
    BY <1>1, <1>4, <1>5 DEF Laid

\* A frame more at the end.
LEMMA LaidAppend ==
    ASSUME NEW z, NEW y, NEW fr, NEW sz, NEW fr2, NEW sz2, NEW k \in Nat, NEW l \in Nat,
           k <= l + 1, Filled(z, fr, sz, k, l), Alike(fr, sz, fr2, sz2, k, l), Len(z) \in Nat,
           NEW n \in Nat, sz2[fr2[l + 1]] = n, Extends(y, z, fr2[l + 1], n)
    PROVE  Filled(y, fr2, sz2, k, l + 1)
  <1>1. PICK off : Laid(z, fr, sz, k, l, off) /\ off[l + 1] = Len(z)
    BY DEF Filled
  <1> DEFINE o == [f \in k..((l + 1) + 1) |-> IF f = l + 2 THEN Len(y) ELSE off[f]]
  <1>2. HeadLen \in Nat /\ HeadLen > 0
    BY ConstantsAssumption
  <1>3. /\ Len(y) = Len(z) + HeadLen + sz2[fr2[l + 1]] /\ Begins(y, z, Len(z))
        /\ \A j \in 1..(HeadLen + sz2[fr2[l + 1]]) : y[Len(z) + j] = <<fr2[l + 1], j>>
    BY DEF Extends
  <1>4. Len(y) \in Nat /\ Len(z) < Len(y) /\ HeadLen \in Nat
    BY <1>2, <1>3
  <1>5. Laid(y, fr2, sz2, k, l, off)
    BY <1>1, <1>3, LaidStays
  <1>6. \A f \in k..(l + 1) : off[f] \in Nat /\ off[f] <= Len(z)
    <2>1. \A f \in k..(l + 1) : f <= l + 1 /\ l + 1 \in k..(l + 1)
      OBVIOUS
    <2>2. \A f \in k..(l + 1) : off[f] \in Nat /\ off[f] <= off[l + 1]
      BY <1>1, <2>1 DEF Laid
    <2>3. QED
      BY <1>1, <2>2
  <1>7. /\ (l + 1) + 1 = l + 2 /\ l + 1 \in k..(l + 1) /\ k \in k..(l + 1)
        /\ \A f \in k..(l + 1) : f # l + 2 /\ f \in k..((l + 1) + 1) /\ f + 1 \in k..((l + 1) + 1)
        /\ \A f \in k..((l + 1) + 1) : f # l + 2 => f \in k..(l + 1)
        /\ \A f \in k..(l + 1) : f # l + 1 => f \in k..l
        /\ \A f \in k..l : f \in k..(l + 1) /\ f + 1 \in k..(l + 1)
    OBVIOUS
  <1>8. /\ \A f \in k..(l + 1) : o[f] = off[f]
        /\ o[l + 2] = Len(y)
        /\ o \in [k..((l + 1) + 1) -> Nat]
    BY <1>4, <1>6, <1>7
  <1> HIDE DEF o
  <1>9. o[k] = 0 /\ o[l + 1] = Len(z) /\ o[(l + 1) + 1] = Len(y)
    BY <1>1, <1>7, <1>8 DEF Laid
  <1>10. ASSUME NEW f \in k..(l + 1)
        PROVE  /\ o[f + 1] = o[f] + HeadLen + sz2[fr2[f]]
               /\ \A j \in 1..(HeadLen + sz2[fr2[f]]) : y[o[f] + j] = <<fr2[f], j>>
    <2>1. CASE f = l + 1
      BY <2>1, <1>3, <1>9
    <2>2. CASE f \in k..l
      <3>1. o[f + 1] = off[f + 1] /\ o[f] = off[f]
        BY <2>2, <1>7, <1>8
      <3>2. /\ off[f + 1] = off[f] + HeadLen + sz2[fr2[f]]
            /\ \A j \in 1..(HeadLen + sz2[fr2[f]]) : y[off[f] + j] = <<fr2[f], j>>
        BY <2>2, <1>5, Zenon DEF Laid
      <3>3. QED
        BY <3>1, <3>2
    <2>3. QED
      BY <2>1, <2>2, <1>7
  <1>11. ASSUME NEW f \in k..((l + 1) + 1), NEW g \in k..((l + 1) + 1), f <= g
        PROVE  o[f] <= o[g]
    <2>1. CASE f \in k..(l + 1) /\ g \in k..(l + 1)
      <3>1. o[f] = off[f] /\ o[g] = off[g]
        BY <2>1, <1>8
      <3>2. QED
        BY <2>1, <3>1, <1>11, <1>1 DEF Laid
    <2>2. CASE f \in k..(l + 1) /\ g = l + 2
      <3>1. off[f] \in Nat /\ off[f] <= Len(z)
        BY <2>2, <1>6
      <3>2. o[f] = off[f] /\ o[g] = Len(y)
        BY <2>2, <1>8
      <3>3. QED
        BY <3>1, <3>2, <1>4
    <2>3. CASE f = l + 2 /\ g = l + 2
      BY <2>3, <1>4, <1>8
    <2>4. f = l + 2 => g = l + 2
      BY <1>11
    <2>5. QED
      BY <2>1, <2>2, <2>3, <2>4, <1>7
  <1>12. ASSUME NEW i \in 1..o[(l + 1) + 1]
        PROVE  \E f \in k..(l + 1) : o[f] < i /\ i <= o[f + 1]
    <2>1. CASE i > Len(z)
      <3>1. o[l + 1] < i /\ i <= o[(l + 1) + 1]
        BY <2>1, <1>9, <1>4
      <3>2. QED
        BY <3>1, <1>7
    <2>2. CASE i <= Len(z)
      <3>1. i \in 1..off[l + 1]
        BY <2>2, <1>9, <1>4, <1>1
      <3>2. PICK f \in k..l : off[f] < i /\ i <= off[f + 1]
        BY <3>1, <1>1 DEF Laid
      <3>3. f \in k..(l + 1) /\ o[f] = off[f] /\ o[f + 1] = off[f + 1]
        BY <1>7, <1>8
      <3>4. QED
        BY <3>2, <3>3
    <2>3. QED
      BY <2>1, <2>2, <1>4, <1>9
  <1>13. Laid(y, fr2, sz2, k, l + 1, o)
    <2>1. o[(l + 1) + 1] <= Len(y)
      BY <1>9, <1>4
    <2>2. QED
      BY <1>8, <1>9, <1>10, <1>11, <1>12, <2>1, Zenon DEF Laid
  <1>14. QED
    BY <1>9, <1>13 DEF Filled

\* The last frame no longer counts.
LEMMA LaidShorter ==
    ASSUME NEW z, NEW fr, NEW sz, NEW k \in Nat, NEW l \in Nat \ {0}, k <= l,
           NEW off, Laid(z, fr, sz, k, l, off), Len(z) \in Nat
    PROVE  \E o : /\ Laid(z, fr, sz, k, l - 1, o)
                  /\ o[l] = off[l]
  <1> DEFINE o == [f \in k..((l - 1) + 1) |-> off[f]]
  <1>1. /\ \A f \in k..l : o[f] = off[f] /\ f \in k..(l + 1)
        /\ \A f \in k..(l - 1) : f \in k..l /\ f + 1 \in k..l
        /\ (l - 1) + 1 = l /\ l + 1 \in k..(l + 1) /\ k \in k..(l + 1)
    OBVIOUS
  <1>2. off[l] <= off[l + 1] /\ \A f \in k..(l + 1) : off[f] \in Nat
    BY <1>1 DEF Laid
  <1>3. o \in [k..((l - 1) + 1) -> Nat] /\ o[k] = 0 /\ o[(l - 1) + 1] <= Len(z)
    BY <1>1, <1>2 DEF Laid
  <1>4. \A f \in k..(l - 1) : o[f + 1] = o[f] + HeadLen + sz[fr[f]]
    BY <1>1 DEF Laid
  <1>5. \A f, g \in k..((l - 1) + 1) : f <= g => o[f] <= o[g]
    BY <1>1 DEF Laid
  <1>6. \A f \in k..(l - 1) : \A j \in 1..(HeadLen + sz[fr[f]]) : z[o[f] + j] = <<fr[f], j>>
    BY <1>1, Zenon DEF Laid
  <1>7. ASSUME NEW i \in 1..o[(l - 1) + 1]
        PROVE  \E f \in k..(l - 1) : o[f] < i /\ i <= o[f + 1]
    <2>1. i \in 1..off[l + 1] /\ i <= off[l]
      BY <1>1, <1>2
    <2>2. PICK f \in k..l : off[f] < i /\ i <= off[f + 1]
      BY <2>1 DEF Laid
    <2>3. f # l
      BY <2>1, <2>2, <1>2
    <2>4. f \in k..(l - 1)
      BY <2>3
    <2>5. QED
      BY <2>2, <2>4, <1>1
  <1>8. Laid(z, fr, sz, k, l - 1, o)
    <2> HIDE DEF o
    <2>1. QED
      BY <1>3, <1>4, <1>5, <1>6, <1>7, Zenon DEF Laid
  <1>9. QED
    BY <1>1, <1>8

\* The first frame has been taken.
LEMMA LaidDrop ==
    ASSUME NEW z, NEW y, NEW fr, NEW sz, NEW k \in Nat, NEW l \in Nat, k <= l,
           NEW off, Laid(z, fr, sz, k, l, off), Len(z) \in Nat,
           Remains(y, z, HeadLen + sz[fr[k]]), Sized(fr, sz, k, l)
    PROVE  LaidAgain(y, z, fr, sz, k + 1, l, off)
  <1> DEFINE o == [f \in (k + 1)..(l + 1) |-> off[f] - off[k + 1]]
  <1>1. PICK d : d = off[k + 1] /\ Remains(y, z, d)
    <2>1. k \in k..l /\ off[k] = 0 /\ off[k + 1] = off[k] + HeadLen + sz[fr[k]]
      BY DEF Laid
    <2>2. off[k + 1] = HeadLen + sz[fr[k]]
      BY <2>1, ConstantsAssumption DEF Sized
    <2>3. QED
      BY <2>2
  <1>2. /\ \A f \in (k + 1)..(l + 1) : f \in k..(l + 1) /\ k + 1 <= f /\ f <= l + 1
        /\ \A f \in (k + 1)..l : f \in k..l /\ f + 1 \in (k + 1)..(l + 1) /\ f \in (k + 1)..(l + 1)
        /\ k + 1 \in (k + 1)..(l + 1) /\ l + 1 \in (k + 1)..(l + 1)
    OBVIOUS
  <1>3. \A f \in k..(l + 1) : off[f] \in Nat
    BY DEF Laid
  <1>4. d \in Nat /\ \A f \in (k + 1)..(l + 1) : off[f] \in Nat
    BY <1>1, <1>2, <1>3
  <1>5. \A f, g \in (k + 1)..(l + 1) : f <= g => off[f] <= off[g]
    BY <1>2 DEF Laid
  <1>6. \A f \in (k + 1)..(l + 1) : d <= off[f] /\ off[f] <= off[l + 1]
    BY <1>1, <1>2, <1>5
  <1>7. off[l + 1] <= Len(z) /\ off[l + 1] \in Nat /\ Len(y) = Len(z) - d
    BY <1>1, <1>2, <1>4 DEF Laid, Remains
  <1>8. /\ \A f \in (k + 1)..(l + 1) : o[f] = off[f] - d
        /\ o \in [(k + 1)..(l + 1) -> Nat]
    BY <1>1, <1>4, <1>6
  <1> HIDE DEF o
  <1>9. o[k + 1] = 0 /\ o[l + 1] <= Len(y) /\ o[l + 1] = off[l + 1] - d
    <2>1. o[k + 1] = off[k + 1] - d /\ o[l + 1] = off[l + 1] - d
      BY <1>2, <1>8
    <2>2. off[k + 1] \in Nat /\ off[k + 1] = d /\ Len(z) \in Nat
      BY <1>1, <1>2, <1>4
    <2>3. QED
      BY <2>1, <2>2, <1>7
  <1>10. ASSUME NEW f \in (k + 1)..l
         PROVE  o[f + 1] = o[f] + HeadLen + sz[fr[f]]
    <2>1. off[f + 1] = off[f] + HeadLen + sz[fr[f]]
      BY <1>2 DEF Laid
    <2>2. off[f] \in Nat /\ HeadLen \in Nat /\ sz[fr[f]] \in Nat
      BY <1>2, <1>4, ConstantsAssumption DEF Sized
    <2>3. o[f] = off[f] - d /\ o[f + 1] = off[f + 1] - d
      BY <1>2, <1>8
    <2>4. QED
      BY <2>1, <2>2, <2>3, <1>4
  <1>11. \A f, g \in (k + 1)..(l + 1) : f <= g => o[f] <= o[g]
    <2>1. ASSUME NEW f \in (k + 1)..(l + 1), NEW g \in (k + 1)..(l + 1), f <= g
          PROVE  o[f] <= o[g]
      <3>1. off[f] \in Nat /\ off[g] \in Nat /\ off[f] <= off[g]
        BY <2>1, <1>4, <1>5
      <3>2. o[f] = off[f] - d /\ o[g] = off[g] - d
        BY <1>8
      <3>3. QED
        BY <3>1, <3>2, <1>4
    <2>2. QED
      BY <2>1
  <1>12. ASSUME NEW f \in (k + 1)..l, NEW j \in 1..(HeadLen + sz[fr[f]])
         PROVE  y[o[f] + j] = <<fr[f], j>>
    <2>1. off[f + 1] = off[f] + HeadLen + sz[fr[f]] /\ z[off[f] + j] = <<fr[f], j>>
      BY <1>2, Zenon DEF Laid
    <2>2. /\ off[f] \in Nat /\ HeadLen \in Nat /\ sz[fr[f]] \in Nat
          /\ off[f + 1] <= off[l + 1] /\ d <= off[f] /\ o[f] = off[f] - d
      BY <1>2, <1>4, <1>6, <1>8, ConstantsAssumption, Zenon DEF Sized
    <2>3. off[f] + j \in 1..off[l + 1]
      BY <2>1, <2>2, <1>7, Within, Zenon
    <2>4. j \in Nat /\ j > 0
      BY <2>2
    <2>5. off[f] \in Nat /\ d \in Nat /\ d <= off[f] /\ off[l + 1] \in Nat
      BY <2>2, <1>4, <1>7
    <2>6. Len(z) \in Nat /\ off[l + 1] <= Len(z)
      BY <1>7
    <2>7. PICK a \in Nat, e \in Nat, n \in Nat : a = off[f] /\ e = off[l + 1] /\ n = Len(z)
      BY <2>5, <2>6
    <2>8. /\ d \in Nat /\ d <= a /\ j \in Nat /\ j > 0 /\ a + j \in 1..e /\ e <= n
           /\ o[f] = a - d /\ Len(y) = n - d
      BY <2>2, <2>3, <2>4, <2>5, <2>6, <2>7, <1>7
    <2>9. (a - d) + j \in 1..(n - d) /\ ((a - d) + j) + d = a + j
      BY <2>8, Moved
    <2>10. o[f] + j \in 1..Len(y) /\ (o[f] + j) + d = off[f] + j
      BY <2>7, <2>8, <2>9
    <2>11. y[o[f] + j] = z[(o[f] + j) + d]
      BY <2>10, <1>1 DEF Remains
    <2>12. QED
      BY <2>1, <2>10, <2>11
  <1>13. ASSUME NEW i \in 1..o[l + 1]
         PROVE  \E f \in (k + 1)..l : o[f] < i /\ i <= o[f + 1]
    <2>1. i + d \in 1..off[l + 1] /\ i > 0
      BY <1>4, <1>7, <1>9
    <2>2. PICK f \in k..l : off[f] < i + d /\ i + d <= off[f + 1]
      BY <2>1, Zenon DEF Laid
    <2>3. f # k
      BY <2>1, <2>2, <1>1, <1>4
    <2>4. f \in (k + 1)..l
      BY <2>3
    <2>5. /\ off[f] \in Nat /\ off[f + 1] \in Nat
          /\ o[f] = off[f] - d /\ o[f + 1] = off[f + 1] - d
      BY <2>4, <1>2, <1>4, <1>8
    <2>6. o[f] < i /\ i <= o[f + 1]
      BY <2>2, <2>5, <1>4
    <2>7. QED
      BY <2>4, <2>6
  <1>14. Laid(y, fr, sz, k + 1, l, o)
    BY <1>8, <1>9, <1>10, <1>11, <1>12, <1>13, Zenon DEF Laid
  <1>15. QED
    BY <1>7, <1>9, <1>14 DEF LaidAgain

-----------------------------------------------------------------------------
(* Bytes, and what the steps are about                                    *)

\* A function on 1..n is a sequence of length n.
LEMMA SeqOf ==
    ASSUME NEW S, NEW n \in Nat, NEW s \in [1..n -> S]
    PROVE  s \in Seq(S) /\ Len(s) = n
  OBVIOUS

\* Bytes of a frame are bytes.
LEMMA BytesOf ==
    ASSUME NEW m \in 1..MaxMsgs, NEW a \in Nat \ {0}, NEW b \in Nat, a <= b + 1
    PROVE  /\ Bytes(m, a, b) \in Seq(Byte)
           /\ Len(Bytes(m, a, b)) = (b - a) + 1
           /\ \A i \in 1..((b - a) + 1) : Bytes(m, a, b)[i] = <<m, (a + i) - 1>>
  <1>1. (b - a) + 1 \in Nat
    OBVIOUS
  <1>2. \A i \in 1..((b - a) + 1) : <<m, (a + i) - 1>> \in Byte
    BY DEF Byte
  <1>3. Bytes(m, a, b) = [i \in 1..((b - a) + 1) |-> <<m, (a + i) - 1>>]
    BY DEF Bytes
  <1>4. Bytes(m, a, b) \in [1..((b - a) + 1) -> Byte]
    BY <1>2, <1>3, Zenon
  <1>5. Bytes(m, a, b) \in Seq(Byte) /\ Len(Bytes(m, a, b)) = (b - a) + 1
    BY <1>1, <1>4, SeqOf
  <1>6. QED
    BY <1>3, <1>5, Zenon

\* The header of a frame.
LEMMA HeadOf ==
    ASSUME NEW m \in 1..MaxMsgs
    PROVE  /\ Head_(m) \in Seq(Byte) /\ Len(Head_(m)) = HeadLen
           /\ \A i \in 1..HeadLen : Head_(m)[i] = <<m, i>>
  <1>1. HeadLen \in Nat /\ HeadLen > 0
    BY ConstantsAssumption
  <1>2. /\ 1 \in Nat \ {0} /\ 1 <= HeadLen + 1 /\ (HeadLen - 1) + 1 = HeadLen
        /\ \A i \in 1..HeadLen : (1 + i) - 1 = i
    BY <1>1
  <1>3. /\ Head_(m) \in Seq(Byte) /\ Len(Head_(m)) = (HeadLen - 1) + 1
        /\ \A i \in 1..((HeadLen - 1) + 1) : Head_(m)[i] = <<m, (1 + i) - 1>>
    BY <1>1, <1>2, BytesOf, Zenon DEF Head_
  <1>4. QED
    BY <1>2, <1>3

\* The bytes of a frame after the header.
LEMMA RestOf ==
    ASSUME NEW m \in 1..MaxMsgs, NEW n \in Nat, NEW r, r = Bytes(m, HeadLen + 1, HeadLen + n)
    PROVE  /\ r \in Seq(Byte) /\ Len(r) = n
           /\ \A i \in 1..n : r[i] = <<m, HeadLen + i>>
  <1> DEFINE a == HeadLen + 1
             b == HeadLen + n
  <1>1. HeadLen \in Nat
    BY ConstantsAssumption
  <1>2. a \in Nat \ {0} /\ b \in Nat /\ a <= b + 1 /\ (b - a) + 1 = n
    BY <1>1
  <1>3. \A i \in 1..n : (a + i) - 1 = HeadLen + i
    BY <1>1
  <1>4. r = Bytes(m, a, b)
    OBVIOUS
  <1> HIDE DEF a, b
  <1>5. /\ Bytes(m, a, b) \in Seq(Byte) /\ Len(Bytes(m, a, b)) = (b - a) + 1
        /\ \A i \in 1..((b - a) + 1) : Bytes(m, a, b)[i] = <<m, (a + i) - 1>>
    BY <1>2, BytesOf, Zenon
  <1>6. QED
    BY <1>2, <1>3, <1>4, <1>5

\* How much of the current frame startListen() has taken out of the pipe.
Taken == IF isPrimeHeadReaded THEN HeadLen ELSE 0

\* Numbers and sequences that the steps are about.
LEMMA Sorts ==
    ASSUME TypeOK, HistInv
    PROVE  /\ HeadLen \in Nat /\ HeadLen > 0 /\ MaxMsgs \in Nat /\ Taken \in Nat
           /\ Len(sizes) \in Nat /\ Len(frames) \in Nat /\ Len(requests) \in Nat
           /\ Len(pipe) \in Nat /\ Current \in Nat /\ Current > 0
           /\ \A m \in 1..Len(sizes) : sizes[m] \in Nat /\ m \in 1..MaxMsgs
           /\ \A f \in 1..Len(frames) : frames[f] \in 1..Len(sizes)
           /\ cut \in 0..Len(frames) /\ LastWhole \in Nat /\ LastWhole <= Len(frames)
  <1>1. HeadLen \in Nat /\ HeadLen > 0 /\ MaxMsgs \in Nat /\ Taken \in Nat /\ Sizes \subseteq Nat
    BY ConstantsAssumption DEF Taken
  <1>2. /\ sizes \in Seq(Sizes) /\ frames \in Seq(1..MaxMsgs) /\ cut \in 0..Len(frames)
        /\ Len(sizes) <= MaxMsgs
    BY DEF TypeOK, HistInv
  <1>3. Len(pipe) \in Nat /\ Len(requests) \in Nat
    BY DEF TypeOK
  <1>4. Len(sizes) \in Nat /\ Len(frames) \in Nat
    BY <1>2
  <1>5. \A m \in 1..Len(sizes) : sizes[m] \in Nat /\ m \in 1..MaxMsgs
    <2>1. \A m \in 1..Len(sizes) : sizes[m] \in Sizes
      BY <1>2, ElementOfSeq
    <2>2. \A x : x \in Sizes => x \in Nat
      BY <1>1
    <2>3. Len(sizes) <= MaxMsgs
      BY <1>2
    <2>4. \A m \in 1..Len(sizes) : m \in 1..MaxMsgs
      BY <2>3, <1>1, <1>4
    <2>5. QED
      BY <2>1, <2>2, <2>4
  <1>6. \A f \in 1..Len(frames) : frames[f] \in 1..MaxMsgs
    BY <1>2, ElementOfSeq, Zenon
  <1>7. \A f \in 1..Len(frames) : frames[f] \in 1..Len(sizes)
    BY <1>6, <1>4, <1>1 DEF HistInv
  <1>8. LastWhole \in Nat /\ LastWhole <= Len(frames)
    BY <1>2, <1>4 DEF LastWhole
  <1>9. Current \in Nat /\ Current > 0
    BY <1>3 DEF Current
  <1>10. QED
    BY <1>1, <1>2, <1>3, <1>4, <1>5, <1>7, <1>8, <1>9

\* The bytes of a frame that are in the pipe.
LEMMA ArrivedIs ==
    ASSUME TypeOK, HistInv, buf = <<>>, isPrimeHeadReaded => Current <= Len(frames)
    PROVE  /\ Arrived \in Seq(Byte)
           /\ Len(Arrived) = Taken + Len(pipe)
           /\ \A i \in 1..Len(pipe) : Arrived[Taken + i] = pipe[i]
           /\ \A i \in 1..Taken : Arrived[i] = <<frames[Current], i>>
  <1>1. pipe \in Seq(Byte) /\ Len(pipe) \in Nat
    BY DEF TypeOK
  <1>2. CASE ~isPrimeHeadReaded
    <2>1. HeadRead = <<>> /\ Taken = 0
      BY <1>2 DEF HeadRead, Taken
    <2>2. Arrived = pipe
      BY <2>1, <1>1 DEF Arrived
    <2>3. QED
      BY <2>1, <2>2, <1>1
  <1>3. CASE isPrimeHeadReaded
    <2>1. HeadRead = Head_(frames[Current]) /\ Taken = HeadLen
      BY <1>3 DEF HeadRead, Taken, Current
    <2>2. frames[Current] \in 1..MaxMsgs /\ HeadLen \in Nat /\ HeadLen > 0
      BY <1>3, Sorts
    <2>3. /\ HeadRead \in Seq(Byte) /\ Len(HeadRead) = HeadLen
          /\ \A i \in 1..HeadLen : HeadRead[i] = <<frames[Current], i>>
      BY <2>1, <2>2, HeadOf
    <2>4. HeadRead \o buf = HeadRead
      BY <2>3
    <2>5. Arrived = HeadRead \o pipe
      BY <2>4 DEF Arrived
    <2>6. /\ Arrived \in Seq(Byte) /\ Len(Arrived) = HeadLen + Len(pipe)
          /\ \A i \in 1..(HeadLen + Len(pipe)) :
                Arrived[i] = IF i <= HeadLen THEN HeadRead[i] ELSE pipe[i - HeadLen]
      BY <2>3, <2>5, <1>1, ConcatProperties, Zenon
    <2>7. \A i \in 1..Len(pipe) : Arrived[HeadLen + i] = pipe[i]
      <3>1. \A i \in 1..Len(pipe) : /\ HeadLen + i \in 1..(HeadLen + Len(pipe))
                                    /\ ~(HeadLen + i <= HeadLen) /\ (HeadLen + i) - HeadLen = i
        BY <2>2, <1>1
      <3>2. QED
        BY <3>1, <2>6
    <2>8. \A i \in 1..HeadLen : Arrived[i] = <<frames[Current], i>>
      <3>1. \A i \in 1..HeadLen : i \in 1..(HeadLen + Len(pipe)) /\ i <= HeadLen
        BY <2>2, <1>1
      <3>2. QED
        BY <3>1, <2>3, <2>6
    <2>9. QED
      BY <2>1, <2>6, <2>7, <2>8
  <1>4. QED
    BY <1>2, <1>3

\* The bytes the client is about to write.
LEMMA UnwrittenIs ==
    ASSUME TypeOK, HistInv
    PROVE  /\ Unwritten \in Seq(Byte)
           /\ clientPc # "payload" => Unwritten = <<>>
           /\ clientPc = "payload" =>
                /\ Len(frames) > 0 /\ frames[Len(frames)] \in 1..MaxMsgs
                /\ sizes[frames[Len(frames)]] \in Nat /\ frames[Len(frames)] = Len(sizes)
                /\ Unwritten = Payload(Len(sizes))
                /\ Len(Unwritten) = sizes[frames[Len(frames)]]
                /\ \A i \in 1..Len(Unwritten) :
                      Unwritten[i] = <<frames[Len(frames)], HeadLen + i>>
  <1>1. CASE clientPc # "payload"
    BY <1>1 DEF Unwritten
  <1>2. CASE clientPc = "payload"
    <2>1. /\ Len(frames) > 0 /\ frames[Len(frames)] = Len(sizes)
          /\ Unwritten = Bytes(Len(sizes), HeadLen + 1, HeadLen + sizes[Len(sizes)])
          /\ Unwritten = Payload(Len(sizes))
      BY <1>2 DEF HistInv, Unwritten, Payload
    <2>2. frames[Len(frames)] \in 1..Len(sizes) /\ HeadLen \in Nat /\ Len(sizes) \in Nat
      BY <2>1, Sorts
    <2>3. Len(sizes) \in 1..MaxMsgs /\ sizes[Len(sizes)] \in Nat
      BY <2>1, <2>2, Sorts
    <2>4. /\ Unwritten \in Seq(Byte) /\ Len(Unwritten) = sizes[Len(sizes)]
          /\ \A i \in 1..sizes[Len(sizes)] : Unwritten[i] = <<Len(sizes), HeadLen + i>>
      <3>1. PICK m \in 1..MaxMsgs, n \in Nat : m = Len(sizes) /\ n = sizes[Len(sizes)]
        BY <2>3
      <3>2. Unwritten = Bytes(m, HeadLen + 1, HeadLen + n)
        BY <2>1, <3>1
      <3>3. /\ Unwritten \in Seq(Byte) /\ Len(Unwritten) = n
            /\ \A i \in 1..n : Unwritten[i] = <<m, HeadLen + i>>
        BY <3>2, RestOf
      <3>4. QED
        BY <3>1, <3>3
    <2>5. QED
      BY <1>2, <2>1, <2>3, <2>4
  <1>3. QED
    BY <1>1, <1>2

\* What was written comes before what is to be written.
LEMMA PendingIs ==
    ASSUME TypeOK, HistInv, Arrived \in Seq(Byte)
    PROVE  /\ Pending \in Seq(Byte)
           /\ Len(Pending) = Len(Arrived) + Len(Unwritten)
           /\ \A i \in 1..Len(Arrived) : Pending[i] = Arrived[i]
           /\ \A i \in 1..Len(Unwritten) : Pending[Len(Arrived) + i] = Unwritten[i]
           /\ clientPc # "payload" => Pending = Arrived
  <1>1. Unwritten \in Seq(Byte) /\ (clientPc # "payload" => Unwritten = <<>>)
    BY UnwrittenIs
  <1>2. Len(Arrived) \in Nat /\ Len(Unwritten) \in Nat
    BY <1>1
  <1>3. QED
    BY <1>1, <1>2, ConcatProperties DEF Pending

-----------------------------------------------------------------------------
(* Types                                                                   *)

\* The first n bytes and the others.
LEMMA Split ==
    ASSUME NEW S, NEW s \in Seq(S), NEW n \in Nat, n <= Len(s)
    PROVE  /\ SubSeq(s, 1, n) \in Seq(S) /\ Len(SubSeq(s, 1, n)) = n
           /\ \A i \in 1..n : SubSeq(s, 1, n)[i] = s[i]
           /\ SubSeq(s, n + 1, Len(s)) \in Seq(S) /\ Len(SubSeq(s, n + 1, Len(s))) = Len(s) - n
           /\ \A i \in 1..(Len(s) - n) : SubSeq(s, n + 1, Len(s))[i] = s[n + i]
  <1>1. Len(s) \in Nat /\ \A i \in 1..Len(s) : s[i] \in S
    BY ElementOfSeq
  <1>2. \A i \in 1..n : s[i] \in S
    BY <1>1
  <1>3. \A i \in (n + 1)..Len(s) : s[i] \in S
    BY <1>1
  <1>4. /\ SubSeq(s, 1, n) \in Seq(S)
        /\ Len(SubSeq(s, 1, n)) = IF 1 <= n THEN (n - 1) + 1 ELSE 0
        /\ \A i \in 1..((n - 1) + 1) : SubSeq(s, 1, n)[i] = s[(1 + i) - 1]
    BY <1>2, SubSeqProperties
  <1>5. /\ SubSeq(s, n + 1, Len(s)) \in Seq(S)
        /\ Len(SubSeq(s, n + 1, Len(s))) =
              IF n + 1 <= Len(s) THEN (Len(s) - (n + 1)) + 1 ELSE 0
        /\ \A i \in 1..((Len(s) - (n + 1)) + 1) :
              SubSeq(s, n + 1, Len(s))[i] = s[((n + 1) + i) - 1]
    BY <1>1, <1>3, SubSeqProperties
  <1>6. /\ (n - 1) + 1 = n /\ (Len(s) - (n + 1)) + 1 = Len(s) - n
        /\ \A i \in 1..n : (1 + i) - 1 = i
        /\ \A i \in 1..(Len(s) - n) : ((n + 1) + i) - 1 = n + i
    BY <1>1
  <1>7. /\ Len(SubSeq(s, 1, n)) = n
        /\ \A i \in 1..n : SubSeq(s, 1, n)[i] = s[i]
    BY <1>4, <1>6
  <1>8. Len(SubSeq(s, n + 1, Len(s))) = Len(s) - n
    BY <1>1, <1>5
  <1>9. \A i \in 1..(Len(s) - n) : SubSeq(s, n + 1, Len(s))[i] = s[n + i]
    BY <1>5, <1>6
  <1>10. QED
    BY <1>4, <1>5, <1>7, <1>8, <1>9

\* Bytes of messages that were given to sendToStream().
Known(s, n) == s \in Seq(Byte) /\ \A i \in 1..Len(s) : s[i][1] <= n

\* Such bytes one after the other.
LEMMA KnownConcat ==
    ASSUME NEW s, NEW t, NEW n, Known(s, n), Known(t, n)
    PROVE  Known(s \o t, n)
  <1>1. s \in Seq(Byte) /\ t \in Seq(Byte) /\ Len(s) \in Nat /\ Len(t) \in Nat
    BY DEF Known
  <1>2. /\ s \o t \in Seq(Byte) /\ Len(s \o t) = Len(s) + Len(t)
        /\ \A i \in 1..(Len(s) + Len(t)) : (s \o t)[i] = IF i <= Len(s) THEN s[i] ELSE t[i - Len(s)]
    BY <1>1, ConcatProperties
  <1>3. ASSUME NEW i \in 1..Len(s \o t)
        PROVE  (s \o t)[i][1] <= n
    <2>1. CASE i <= Len(s)
      <3>1. i \in 1..Len(s) /\ (s \o t)[i] = s[i]
        BY <2>1, <1>1, <1>2
      <3>2. QED
        BY <3>1 DEF Known
    <2>2. CASE ~(i <= Len(s))
      <3>1. i - Len(s) \in 1..Len(t) /\ (s \o t)[i] = t[i - Len(s)]
        BY <2>2, <1>1, <1>2
      <3>2. QED
        BY <3>1 DEF Known
    <2>3. QED
      BY <2>1, <2>2
  <1>4. QED
    BY <1>2, <1>3 DEF Known

\* A beginning and a rest of such bytes.
LEMMA KnownSplit ==
    ASSUME NEW s, NEW n, Known(s, n), NEW k \in Nat, k <= Len(s)
    PROVE  Known(SubSeq(s, 1, k), n) /\ Known(SubSeq(s, k + 1, Len(s)), n)
  <1>1. s \in Seq(Byte) /\ Len(s) \in Nat
    BY DEF Known
  <1>2. /\ SubSeq(s, 1, k) \in Seq(Byte) /\ Len(SubSeq(s, 1, k)) = k
        /\ \A i \in 1..k : SubSeq(s, 1, k)[i] = s[i]
        /\ SubSeq(s, k + 1, Len(s)) \in Seq(Byte) /\ Len(SubSeq(s, k + 1, Len(s))) = Len(s) - k
        /\ \A i \in 1..(Len(s) - k) : SubSeq(s, k + 1, Len(s))[i] = s[k + i]
    BY <1>1, Split
  <1>3. /\ \A i \in 1..k : i \in 1..Len(s)
        /\ \A i \in 1..(Len(s) - k) : k + i \in 1..Len(s)
    BY <1>1
  <1>4. QED
    BY <1>2, <1>3 DEF Known

\* A part of one frame.
LEMMA KnownBytes ==
    ASSUME NEW m \in 1..MaxMsgs, NEW a \in Nat \ {0}, NEW b \in Nat, a <= b + 1, NEW n \in Nat, m <= n
    PROVE  Known(Bytes(m, a, b), n)
  <1>1. /\ Bytes(m, a, b) \in Seq(Byte)
        /\ Len(Bytes(m, a, b)) = (b - a) + 1
        /\ \A i \in 1..((b - a) + 1) : Bytes(m, a, b)[i] = <<m, (a + i) - 1>>
    BY BytesOf, Zenon
  <1>2. QED
    BY <1>1 DEF Known

\* More messages are known later.
LEMMA KnownMore ==
    ASSUME NEW s, NEW n \in Nat, NEW k \in Nat, n <= k, Known(s, n)
    PROVE  Known(s, k)
  <1>1. \A i \in 1..Len(s) : s[i] \in Byte
    BY ElementOfSeq DEF Known
  <1>2. \A i \in 1..Len(s) : s[i][1] \in Nat
    BY <1>1 DEF Byte
  <1>3. QED
    BY <1>2 DEF Known

\* A header of the next message, or nothing.
LEMMA SendHeadTypes ==
    ASSUME TypeOK, HistInv, NEW n \in Sizes, SendHead(n)
    PROVE  TypeOK' /\ HistInv'
  <1> DEFINE m == Len(sizes) + 1
  <1>1. /\ sizes \in Seq(Sizes) /\ frames \in Seq(1..MaxMsgs) /\ maxSize \in Nat
        /\ Known(pipe, Len(sizes)) /\ Known(buf, Len(sizes)) /\ Len(pipe) <= maxSize
        /\ clientPc = "idle" /\ Len(sizes) < MaxMsgs /\ sizes' = Append(sizes, n)
    BY DEF TypeOK, HistInv, Known, SendHead
  <1>2. /\ sizes' \in Seq(Sizes) /\ Len(sizes') = m /\ m \in 1..MaxMsgs /\ m \in Nat
        /\ Len(sizes) \in Nat /\ Len(sizes) <= m /\ HeadLen \in Nat /\ HeadLen > 0
        /\ Len(pipe) \in Nat /\ Len(frames) \in Nat
    BY <1>1, Sorts
  <1>3. maxSize' \in Nat /\ maxSize <= maxSize'
    BY <1>1, ConstantsAssumption DEF SendHead, ChangeMaxSize
  <1>4. Known(pipe, m) /\ Known(buf, m) /\ Known(Head_(m), m)
    BY <1>1, <1>2, KnownMore, KnownBytes DEF Head_
  <1>5. UNCHANGED <<cut, crashes, buf, dataSize, needReadBytes, isPrimeHeadReaded, serverPc, requests>>
    BY DEF SendHead, serverVars
  <1>6. ASSUME pipe' = pipe, frames' = frames, clientPc' = clientPc
        PROVE  TypeOK' /\ HistInv'
    <2>1. TypeOK'
      BY <1>1, <1>2, <1>3, <1>5, <1>6 DEF TypeOK
    <2>2. \A f \in 1..Len(frames) : frames[f] <= m
      BY <1>2, Sorts
    <2>3. HistInv'
      BY <1>1, <1>2, <1>4, <1>5, <1>6, <2>2 DEF HistInv, Known
    <2>4. QED
      BY <2>1, <2>3
  <1>7. ASSUME Space(maxSize') >= HeadLen, pipe' = pipe \o Head_(m), frames' = Append(frames, m),
               clientPc' = "payload"
        PROVE  TypeOK' /\ HistInv'
    <2>1. Known(pipe', m) /\ Len(Head_(m)) = HeadLen /\ Head_(m) \in Seq(Byte) /\ pipe \in Seq(Byte)
      <3>1. Len(Head_(m)) = HeadLen /\ Head_(m) \in Seq(Byte)
        BY <1>2, HeadOf
      <3>2. QED
        BY <1>2, <1>4, <1>7, <3>1, KnownConcat DEF Known
    <2>2. Len(pipe') = Len(pipe) + HeadLen
      BY <1>7, <2>1, ConcatProperties, Zenon
    <2>3. Len(pipe') <= maxSize'
      BY <1>1, <1>2, <1>3, <1>7, <2>2 DEF Space
    <2>4. /\ frames' \in Seq(1..MaxMsgs) /\ Len(frames') = Len(frames) + 1
          /\ \A f \in 1..Len(frames) : frames'[f] = frames[f]
          /\ frames'[Len(frames) + 1] = m
      BY <1>1, <1>2, <1>7, AppendProperties
    <2>5. \A f \in 1..Len(frames) : frames[f] <= m
      BY <1>2, Sorts
    <2>6. \A f \in 1..Len(frames') : frames'[f] <= m
      <3>1. \A f \in 1..Len(frames') : f \in 1..Len(frames) \/ f = Len(frames) + 1
        BY <2>4, <1>2
      <3>2. m <= m
        BY <1>2
      <3>3. QED
        BY <3>1, <3>2, <2>4, <2>5
    <2>7. cut' \in 0..Len(frames')
      BY <1>2, <1>5, <2>4 DEF TypeOK
    <2>8. TypeOK'
      BY <1>2, <1>3, <1>5, <1>7, <2>1, <2>3, <2>4, <2>7 DEF TypeOK, Known
    <2>9. HistInv'
      BY <1>2, <1>4, <1>5, <1>7, <2>1, <2>4, <2>6 DEF HistInv, Known
    <2>10. QED
      BY <2>8, <2>9
  <1>8. QED
    BY <1>2, <1>6, <1>7 DEF SendHead

\* A payload, or a part of it.
LEMMA SendPayloadTypes ==
    ASSUME TypeOK, HistInv, SendPayload
    PROVE  TypeOK' /\ HistInv'
  <1> DEFINE m == Len(sizes)
             k == PayloadBytes(sizes[m])
             part == SubSeq(Payload(m), 1, k)
  <1>1. /\ clientPc = "payload" /\ clientPc' = "idle" /\ pipe' = pipe \o part /\ EndFrame(k = sizes[m])
        /\ UNCHANGED <<sizes, maxSize, frames, crashes, buf, dataSize, needReadBytes,
                       isPrimeHeadReaded, serverPc, requests>>
    BY DEF SendPayload, serverVars
  <1>2. /\ m \in 1..MaxMsgs /\ m \in Nat /\ sizes[m] \in Nat /\ HeadLen \in Nat
        /\ Payload(m) \in Seq(Byte) /\ Len(Payload(m)) = sizes[m]
    BY <1>1, UnwrittenIs, Sorts
  <1>3. /\ maxSize \in Nat /\ Len(pipe) \in Nat /\ Len(pipe) <= maxSize /\ pipe \in Seq(Byte)
        /\ Len(frames) \in Nat /\ cut \in 0..Len(frames)
    BY Sorts DEF TypeOK
  <1>4. k \in Nat /\ k <= sizes[m] /\ Len(pipe) + k <= maxSize
    BY <1>2, <1>3 DEF PayloadBytes, Space
  <1>5. part \in Seq(Byte) /\ Len(part) = k
    BY <1>2, <1>4, Split
  <1>6. Known(part, m)
    <2>1. Known(Payload(m), m)
      <3>1. HeadLen + 1 \in Nat \ {0} /\ HeadLen + sizes[m] \in Nat
            /\ HeadLen + 1 <= (HeadLen + sizes[m]) + 1 /\ m <= m
        BY <1>2
      <3>2. QED
        BY <3>1, <1>2, KnownBytes DEF Payload
    <2>2. QED
      BY <2>1, <1>2, <1>4, KnownSplit
  <1>7. Known(pipe', m) /\ Len(pipe') = Len(pipe) + k
    <2>1. Known(pipe, m)
      BY <1>3 DEF HistInv, Known
    <2>2. QED
      BY <2>1, <1>1, <1>3, <1>5, <1>6, KnownConcat, ConcatProperties
  <1> HIDE DEF part, k
  <1>8. cut' \in 0..Len(frames)
    BY <1>1, <1>3 DEF EndFrame
  <1>9. TypeOK'
    BY <1>1, <1>4, <1>7, <1>8 DEF TypeOK, Known
  <1>10. HistInv'
    BY <1>1, <1>7 DEF HistInv, Known
  <1>11. QED
    BY <1>9, <1>10

\* What one read() takes.
LEMMA ReadIs ==
    ASSUME TypeOK, HistInv
    PROVE  /\ ReadLen \in Nat /\ ReadLen <= Len(pipe) /\ needReadBytes \in Nat
           /\ Known(SubSeq(pipe, ReadLen + 1, Len(pipe)), Len(sizes))
           /\ Len(SubSeq(pipe, ReadLen + 1, Len(pipe))) = Len(pipe) - ReadLen
           /\ Known(buf \o SubSeq(pipe, 1, ReadLen), Len(sizes))
           /\ Len(buf \o SubSeq(pipe, 1, ReadLen)) = Len(buf) + ReadLen
           /\ Len(buf) \in Nat /\ Len(pipe) \in Nat
  <1>1. pipe \in Seq(Byte) /\ Len(pipe) \in Nat /\ buf \in Seq(Byte) /\ Len(buf) \in Nat
    BY DEF TypeOK
  <1>2. needReadBytes \in Nat
    BY ConstantsAssumption DEF TypeOK
  <1>3. ReadLen \in Nat /\ ReadLen <= Len(pipe)
    BY <1>1, <1>2 DEF ReadLen
  <1>4. Known(pipe, Len(sizes)) /\ Known(buf, Len(sizes))
    BY <1>1 DEF HistInv, Known
  <1>5. /\ Known(SubSeq(pipe, 1, ReadLen), Len(sizes))
        /\ Known(SubSeq(pipe, ReadLen + 1, Len(pipe)), Len(sizes))
    BY <1>3, <1>4, KnownSplit
  <1>6. /\ SubSeq(pipe, 1, ReadLen) \in Seq(Byte) /\ Len(SubSeq(pipe, 1, ReadLen)) = ReadLen
        /\ Len(SubSeq(pipe, ReadLen + 1, Len(pipe))) = Len(pipe) - ReadLen
    BY <1>1, <1>3, Split
  <1>7. /\ Known(buf \o SubSeq(pipe, 1, ReadLen), Len(sizes))
        /\ Len(buf \o SubSeq(pipe, 1, ReadLen)) = Len(buf) + ReadLen
    BY <1>1, <1>4, <1>5, <1>6, KnownConcat, ConcatProperties
  <1>8. QED
    BY <1>1, <1>2, <1>3, <1>5, <1>6, <1>7

\* An iteration of startListen().
LEMMA ListenTypes ==
    ASSUME TypeOK, HistInv, Listen
    PROVE  TypeOK' /\ HistInv'
  <1> DEFINE read == buf \o SubSeq(pipe, 1, ReadLen)
  <1>1. /\ pipe' = SubSeq(pipe, ReadLen + 1, Len(pipe)) /\ ReadLen > 0
        /\ UNCHANGED <<sizes, clientPc, maxSize, frames, cut, crashes>>
        /\ Overrun \/ (/\ PartialBlock(read) \/ HeadBlock(read) \/ PayloadBlock(read)
                       /\ UNCHANGED serverPc)
    BY DEF Listen, clientVars
  <1>2. /\ ReadLen \in Nat /\ ReadLen <= Len(pipe) /\ Len(pipe) \in Nat /\ Len(buf) \in Nat
        /\ Known(pipe', Len(sizes)) /\ Len(pipe') = Len(pipe) - ReadLen
        /\ Known(read, Len(sizes)) /\ Len(read) = Len(buf) + ReadLen
    BY <1>1, ReadIs
  <1> HIDE DEF read
  <1>3. pipe' \in Seq(Byte) /\ Len(pipe') <= maxSize
    <2>1. pipe' \in Seq(Byte)
      BY <1>2 DEF Known
    <2>2. Len(pipe) <= maxSize /\ maxSize \in Nat
      BY Sorts, ConstantsAssumption DEF TypeOK
    <2>3. Len(pipe') <= maxSize
      BY <1>2, <2>2
    <2>4. QED
      BY <2>1, <2>3
  <1>4. SUFFICES /\ buf' \in Seq(Byte) /\ dataSize' \in Sizes \cup {0}
                 /\ needReadBytes' \in Sizes \cup {HeadLen} /\ isPrimeHeadReaded' \in BOOLEAN
                 /\ serverPc' \in {"reading", "undefined"} /\ requests' \in Seq(Seq(Byte))
                 /\ Known(buf', Len(sizes))
    <2>1. TypeOK'
      BY <1>1, <1>3, <1>4 DEF TypeOK
    <2>2. HistInv'
      BY <1>1, <1>2, <1>4 DEF HistInv, Known
    <2>3. QED
      BY <2>1, <2>2
  <1>5. /\ buf \in Seq(Byte) /\ dataSize \in Sizes \cup {0}
        /\ needReadBytes \in Sizes \cup {HeadLen} /\ isPrimeHeadReaded \in BOOLEAN
        /\ serverPc \in {"reading", "undefined"} /\ requests \in Seq(Seq(Byte))
        /\ Known(buf, Len(sizes)) /\ read \in Seq(Byte)
    BY <1>2 DEF TypeOK, HistInv, Known
  <1>6. CASE Overrun
    BY <1>5, <1>6 DEF Overrun
  <1>7. CASE PartialBlock(read) /\ UNCHANGED serverPc
    BY <1>2, <1>5, <1>7 DEF PartialBlock
  <1>8. CASE HeadBlock(read) /\ UNCHANGED serverPc
    <2>1. sizes[read[1][1]] \in Sizes
      <3>1. 1 \in 1..Len(read)
        BY <1>1, <1>2
      <3>2. read[1] \in Byte /\ read[1][1] <= Len(sizes)
        BY <3>1, <1>2, <1>5, ElementOfSeq DEF Known
      <3>3. read[1][1] \in 1..Len(sizes)
        BY <3>2, Sorts DEF Byte
      <3>4. QED
        BY <3>3, ElementOfSeq DEF TypeOK
    <2>2. Known(<<>>, Len(sizes)) /\ <<>> \in Seq(Byte)
      BY DEF Known
    <2>3. QED
      BY <1>2, <1>5, <1>8, <2>1, <2>2, Zenon DEF HeadBlock
  <1>9. CASE PayloadBlock(read) /\ UNCHANGED serverPc
    <2>1. Known(<<>>, Len(sizes)) /\ <<>> \in Seq(Byte)
      BY DEF Known
    <2>2. Append(requests, read) \in Seq(Seq(Byte))
      BY <1>5
    <2>3. QED
      BY <1>5, <1>9, <2>1, <2>2, Zenon DEF PayloadBlock
  <1>10. QED
    BY <1>1, <1>6, <1>7, <1>8, <1>9

\* Types and numbering are kept by every step.
LEMMA StepTypes == TypeOK /\ HistInv /\ [Next]_vars => TypeOK' /\ HistInv'
  <1> SUFFICES ASSUME TypeOK, HistInv, [Next]_vars PROVE TypeOK' /\ HistInv'
    OBVIOUS
  <1>1. CASE \E n \in Sizes : SendHead(n)
    BY <1>1, SendHeadTypes
  <1>2. CASE SendPayload
    BY <1>2, SendPayloadTypes
  <1>3. CASE ClientCrash
    <2>1. cut' \in 0..Len(frames) /\ crashes' \in 0..MaxCrashes
      <3>1. Len(frames) \in Nat /\ cut \in 0..Len(frames)
        BY Sorts
      <3>2. crashes \in 0..MaxCrashes /\ MaxCrashes \in Nat
        BY ConstantsAssumption DEF TypeOK
      <3>3. cut' \in {cut, Len(frames)} /\ crashes < MaxCrashes /\ crashes' = crashes + 1
        BY <1>3 DEF ClientCrash, EndFrame
      <3>4. QED
        BY <3>1, <3>2, <3>3
    <2>2. clientPc' = "crashed" /\ UNCHANGED <<sizes, maxSize, frames, pipe, serverVars>>
      BY <1>3 DEF ClientCrash
    <2>3. QED
      BY <2>1, <2>2 DEF TypeOK, HistInv, serverVars
  <1>4. CASE ClientRestart
    BY <1>4 DEF ClientRestart, TypeOK, HistInv, serverVars
  <1>5. CASE Listen
    BY <1>5, ListenTypes
  <1>6. CASE UNCHANGED vars
    BY <1>6 DEF vars, clientVars, serverVars, TypeOK, HistInv
  <1>7. QED
    BY <1>1, <1>2, <1>3, <1>4, <1>5, <1>6 DEF Next

-----------------------------------------------------------------------------
(* The frame startListen() is at                                           *)

\* What holds as long as the current frame was, or will be, written whole.
LEMMA AtReady ==
    ASSUME FrameInv, Ready
    PROVE  /\ buf = <<>> /\ Current <= LastWhole + 1
           /\ isPrimeHeadReaded => Current <= LastWhole /\ Current <= Len(frames)
           /\ cut # 0 => Current <= LastWhole
           /\ Arrived \in Seq(Byte) /\ Len(Arrived) \in Nat /\ Len(Arrived) = Taken + Len(pipe)
           /\ Pending \in Seq(Byte) /\ Len(Pending) \in Nat
           /\ Len(Bytestream) \in Nat /\ Len(Arrived) <= Len(Bytestream)
           /\ \A i \in 1..Len(Arrived) : Bytestream[i] = Arrived[i]
           /\ clientPc # "payload" => Bytestream = Arrived
           /\ Sized(frames, sizes, Current, LastWhole)
  <1>1. /\ TypeOK /\ HistInv /\ buf = <<>> /\ Current <= LastWhole + 1
        /\ isPrimeHeadReaded => Current <= LastWhole
    BY DEF FrameInv, BlockInv
  <1>2. /\ LastWhole \in Nat /\ LastWhole <= Len(frames) /\ Len(frames) \in Nat
        /\ Current \in Nat /\ Current > 0 /\ Taken \in Nat /\ Len(pipe) \in Nat
    BY <1>1, Sorts
  <1>3. isPrimeHeadReaded => Current <= Len(frames)
    BY <1>1, <1>2
  <1>4. cut # 0 => Current <= LastWhole
    BY <1>1, <1>2, Sorts DEF Ready, LastWhole
  <1>5. Arrived \in Seq(Byte) /\ Len(Arrived) = Taken + Len(pipe) /\ Len(Arrived) \in Nat
    BY <1>1, <1>2, <1>3, ArrivedIs
  <1>6. /\ Pending \in Seq(Byte) /\ Len(Pending) = Len(Arrived) + Len(Unwritten)
        /\ \A i \in 1..Len(Arrived) : Pending[i] = Arrived[i]
        /\ clientPc # "payload" => Pending = Arrived
    BY <1>1, <1>5, PendingIs
  <1>7. Len(Unwritten) \in Nat /\ Len(Pending) \in Nat
    BY <1>1, <1>6, UnwrittenIs
  <1>8. Len(Arrived) <= Len(Pending) /\ Len(Arrived) <= Len(Arrived)
    BY <1>5, <1>6, <1>7
  <1>9. /\ Len(Bytestream) \in Nat /\ Len(Arrived) <= Len(Bytestream)
        /\ \A i \in 1..Len(Arrived) : Bytestream[i] = Arrived[i]
        /\ clientPc # "payload" => Bytestream = Arrived
    BY <1>5, <1>6, <1>7, <1>8 DEF Bytestream
  <1>10. Sized(frames, sizes, Current, LastWhole)
    <2>1. \A f \in Current..LastWhole : f \in 1..Len(frames)
      BY <1>2
    <2>2. QED
      BY <2>1, <1>1, Sorts DEF Sized
  <1>11. QED
    BY <1>1, <1>3, <1>4, <1>5, <1>6, <1>7, <1>9, <1>10

\* Where the bytes end that were written of the last frame.
LEMMA LastFrame ==
    ASSUME FrameInv, cut = 0, clientPc = "payload", NEW off,
           Laid(Pending, frames, sizes, Current, Len(frames), off),
           off[Len(frames) + 1] = Len(Pending)
    PROVE  /\ Current <= Len(frames)
           /\ off[Len(frames)] \in Nat /\ Len(Arrived) = off[Len(frames)] + HeadLen
  <1>1. Ready /\ TypeOK /\ HistInv /\ LastWhole = Len(frames)
    BY DEF Ready, FrameInv, LastWhole
  <1>2. Arrived \in Seq(Byte) /\ Len(Arrived) \in Nat /\ Current <= Len(frames) + 1
    BY <1>1, AtReady
  <1>3. /\ Len(frames) > 0 /\ sizes[frames[Len(frames)]] \in Nat
        /\ Len(Unwritten) = sizes[frames[Len(frames)]]
    BY <1>1, UnwrittenIs
  <1>4. Len(Pending) = Len(Arrived) + sizes[frames[Len(frames)]]
    BY <1>1, <1>2, <1>3, PendingIs
  <1>5. Len(frames) \in Nat /\ Current \in Nat /\ Current > 0 /\ HeadLen \in Nat /\ HeadLen > 0
    BY <1>1, Sorts
  <1>6. Current <= Len(frames)
    BY <1>1 DEF FrameInv, BlockInv
  <1>7. Len(frames) \in Current..Len(frames) /\ Len(frames) \in Current..(Len(frames) + 1)
    BY <1>5, <1>6
  <1>8. /\ off[Len(frames)] \in Nat
        /\ off[Len(frames) + 1] = off[Len(frames)] + HeadLen + sizes[frames[Len(frames)]]
    BY <1>7 DEF Laid
  <1>9. QED
    BY <1>2, <1>3, <1>4, <1>5, <1>6, <1>8

\* The first frame that startListen() has not handed over: if a byte of it, or of what
\* comes next, is in the pipe, then its header has arrived, and all of it unless the
\* client has yet to write the payload.
LEMMA FirstFrame ==
    ASSUME FrameInv, Ready, Len(pipe) > 0, NEW off,
           Laid(Bytestream, frames, sizes, Current, LastWhole, off),
           cut = 0 => off[LastWhole + 1] = Len(Bytestream)
    PROVE  /\ Current <= LastWhole
           /\ off[Current + 1] = HeadLen + sizes[frames[Current]]
           /\ \/ Len(Arrived) >= HeadLen + sizes[frames[Current]]
              \/ Len(Arrived) = HeadLen /\ cut = 0 /\ clientPc = "payload"
           /\ \A j \in 1..(HeadLen + sizes[frames[Current]]) :
                 j <= Len(Arrived) => Arrived[j] = <<frames[Current], j>>
  <1>1. TypeOK /\ HistInv
    BY DEF FrameInv
  <1>2. /\ LastWhole \in Nat /\ LastWhole <= Len(frames) /\ Len(frames) \in Nat
        /\ Current \in Nat /\ Current > 0 /\ Taken \in Nat /\ Len(pipe) \in Nat
        /\ HeadLen \in Nat /\ HeadLen > 0
    BY <1>1, Sorts
  <1>3. /\ Current <= LastWhole + 1 /\ (cut # 0 => Current <= LastWhole)
        /\ Len(Arrived) \in Nat /\ Len(Arrived) = Taken + Len(pipe)
        /\ Len(Bytestream) \in Nat /\ Len(Arrived) <= Len(Bytestream)
        /\ \A i \in 1..Len(Arrived) : Bytestream[i] = Arrived[i]
        /\ clientPc # "payload" => Bytestream = Arrived
        /\ Sized(frames, sizes, Current, LastWhole)
    BY AtReady
  <1>4. Current <= LastWhole
    <2>1. Current = LastWhole + 1 => off[LastWhole + 1] = 0
      BY DEF Laid
    <2>2. Len(Bytestream) > 0
      BY <1>2, <1>3
    <2>3. QED
      BY <2>1, <2>2, <1>2, <1>3
  <1>5. /\ Current \in Current..LastWhole /\ Current + 1 \in Current..(LastWhole + 1)
        /\ LastWhole + 1 \in Current..(LastWhole + 1) /\ LastWhole \in Current..(LastWhole + 1)
        /\ Current \in Current..(LastWhole + 1)
    BY <1>2, <1>4
  <1>6. sizes[frames[Current]] \in Nat
    BY <1>3, <1>5 DEF Sized
  <1>7. off[Current] = 0 /\ off[Current + 1] = off[Current] + HeadLen + sizes[frames[Current]]
    BY <1>5 DEF Laid
  <1>8. off[Current + 1] = HeadLen + sizes[frames[Current]]
    BY <1>2, <1>6, <1>7
  <1>9. \/ Len(Arrived) >= HeadLen + sizes[frames[Current]]
        \/ Len(Arrived) = HeadLen /\ cut = 0 /\ clientPc = "payload"
    <2>1. off[Current + 1] <= off[LastWhole + 1] /\ off[LastWhole + 1] \in Nat
      <3>1. Current + 1 <= LastWhole + 1
        BY <1>2, <1>4
      <3>2. QED
        BY <3>1, <1>5 DEF Laid
    <2>2. off[LastWhole + 1] <= Len(Bytestream)
      BY DEF Laid
    <2>3. CASE cut # 0 \/ clientPc # "payload"
      <3>1. Bytestream = Arrived
        BY <2>3, <1>3 DEF Bytestream
      <3>2. QED
        BY <3>1, <2>1, <2>2, <1>2, <1>3, <1>6, <1>8
    <2>4. CASE cut = 0 /\ clientPc = "payload"
      <3>1. LastWhole = Len(frames) /\ Bytestream = Pending
        BY <2>4 DEF LastWhole, Bytestream
      <3>2. off[LastWhole] \in Nat /\ Len(Arrived) = off[LastWhole] + HeadLen
        BY <2>4, <3>1, LastFrame
      <3>3. CASE Current = LastWhole
        BY <3>2, <3>3, <1>2, <1>7, <2>4
      <3>4. CASE Current # LastWhole
        <4>1. Current + 1 <= LastWhole
          BY <3>4, <1>2, <1>4
        <4>2. off[Current + 1] <= off[LastWhole]
          BY <4>1, <1>5 DEF Laid
        <4>3. QED
          BY <4>2, <3>2, <1>2, <1>6, <1>8
      <3>5. QED
        BY <3>3, <3>4
    <2>5. QED
      BY <2>3, <2>4
  <1>10. ASSUME NEW j \in 1..(HeadLen + sizes[frames[Current]]), j <= Len(Arrived)
         PROVE  Arrived[j] = <<frames[Current], j>>
    <2>1. Bytestream[off[Current] + j] = <<frames[Current], j>>
      BY <1>5, Zenon DEF Laid
    <2>2. j \in 1..Len(Arrived) /\ off[Current] + j = j
      BY <1>2, <1>3, <1>6, <1>7, <1>10
    <2>3. QED
      BY <2>1, <2>2, <1>3
  <1>11. QED
    BY <1>4, <1>8, <1>9, <1>10

-----------------------------------------------------------------------------
(* Steps of the client                                                     *)

\* What the pipe takes in comes after all that has arrived.
LEMMA ArrivedGrows ==
    ASSUME TypeOK, HistInv, buf = <<>>, isPrimeHeadReaded => Current <= Len(frames),
           NEW t \in Seq(Byte), pipe' = pipe \o t, UNCHANGED serverVars,
           Alike(frames, sizes, frames', sizes', 1, Len(frames))
    PROVE  Arrived' = Arrived \o t
  <1>1. pipe \in Seq(Byte) /\ buf \in Seq(Byte) /\ Current \in Nat /\ Current > 0 /\ Len(frames) \in Nat
    BY Sorts DEF TypeOK
  <1>2. UNCHANGED <<buf, isPrimeHeadReaded, requests>>
    BY DEF serverVars
  <1>3. HeadRead \in Seq(Byte) /\ HeadRead' = HeadRead
    <2>1. CASE ~isPrimeHeadReaded
      BY <2>1, <1>2 DEF HeadRead
    <2>2. CASE isPrimeHeadReaded
      <3>1. Current \in 1..Len(frames)
        BY <2>2, <1>1
      <3>2. frames[Current] \in 1..MaxMsgs /\ frames'[Current] = frames[Current]
        BY <3>1, Sorts DEF Alike
      <3>3. Head_(frames[Current]) \in Seq(Byte)
        BY <3>2, HeadOf
      <3>4. QED
        BY <2>2, <3>2, <3>3, <1>2 DEF HeadRead, Current, Head_, Bytes
    <2>3. QED
      BY <2>1, <2>2
  <1>4. HeadRead \o buf \in Seq(Byte)
    BY <1>1, <1>3
  <1>5. Arrived' = (HeadRead \o buf) \o (pipe \o t)
    BY <1>2, <1>3 DEF Arrived
  <1>6. ((HeadRead \o buf) \o pipe) \o t = (HeadRead \o buf) \o (pipe \o t)
    <2>1. ASSUME NEW a \in Seq(Byte), NEW b \in Seq(Byte), NEW c \in Seq(Byte)
          PROVE  (a \o b) \o c = a \o (b \o c)
      OBVIOUS
    <2>2. QED
      BY <2>1, <1>1, <1>4
  <1>7. Arrived = (HeadRead \o buf) \o pipe
    BY DEF Arrived
  <1>8. QED
    BY <1>5, <1>6, <1>7

\* A step of the client that leaves the frames as they are, or adds one, or makes the
\* last one the first that is cut short.
ClientStep ==
    /\ UNCHANGED serverVars
    /\ Alike(frames, sizes, frames', sizes', 1, Len(frames))
    /\ Len(frames') \in Nat /\ Len(frames) <= Len(frames')
    /\ clientPc' = "payload" => Len(frames) < Len(frames')
    /\ cut' = cut \/ (cut = 0 /\ cut' = Len(frames) /\ Len(frames) > 0)

\* Such a step leaves startListen()'s block and the requests as they are.
LEMMA BlockStays ==
    ASSUME FrameInv, ClientStep
    PROVE  BlockInv' /\ IntactBeforeCut' /\ (Ready' => Ready) /\ Current' = Current
  <1>1. TypeOK /\ HistInv
    BY DEF FrameInv
  <1>2. /\ LastWhole \in Nat /\ LastWhole <= Len(frames) /\ Len(frames) \in Nat
        /\ Current \in Nat /\ Current > 0 /\ cut \in 0..Len(frames) /\ Len(requests) \in Nat
    BY <1>1, Sorts
  <1>3. /\ UNCHANGED <<buf, dataSize, needReadBytes, isPrimeHeadReaded, serverPc, requests>>
        /\ Current' = Current
    BY DEF ClientStep, serverVars, Current
  <1>4. Ready' => Ready
    BY <1>2, <1>3 DEF Ready, ClientStep
  <1>5. ASSUME Ready' PROVE BlockInv'
    <2>1. /\ buf = <<>> /\ serverPc = "reading" /\ Current <= LastWhole + 1
          /\ ~isPrimeHeadReaded => needReadBytes = HeadLen
          /\ isPrimeHeadReaded => /\ Current <= LastWhole
                                  /\ dataSize = sizes[frames[Current]]
                                  /\ needReadBytes = dataSize
      BY <1>4, <1>5 DEF FrameInv, BlockInv
    <2>2. /\ Current <= LastWhole' + 1
          /\ cut' = 0 /\ clientPc' = "payload" => Current <= LastWhole'
          /\ isPrimeHeadReaded => Current <= LastWhole'
      <3>1. CASE cut # 0 /\ cut' = cut
        BY <3>1, <2>1 DEF LastWhole
      <3>2. CASE cut = 0 /\ cut' = 0
        <4>1. LastWhole = Len(frames) /\ LastWhole' = Len(frames')
          BY <3>2 DEF LastWhole
        <4>2. QED
          BY <4>1, <2>1, <1>2 DEF ClientStep
      <3>3. CASE cut = 0 /\ cut' = Len(frames) /\ Len(frames) > 0
        <4>1. cut' # 0 /\ LastWhole' = Len(frames) - 1 /\ Current < Len(frames)
          BY <3>3, <1>2, <1>3, <1>5 DEF LastWhole, Ready
        <4>2. QED
          BY <4>1, <1>2
      <3>4. QED
        BY <3>1, <3>2, <3>3, <1>2 DEF ClientStep
    <2>3. isPrimeHeadReaded => sizes'[frames'[Current]] = sizes[frames[Current]]
      <3>1. isPrimeHeadReaded => Current \in 1..Len(frames)
        BY <2>1, <1>2
      <3>2. QED
        BY <3>1 DEF ClientStep, Alike
    <2>4. QED
      BY <2>1, <2>2, <2>3, <1>3 DEF BlockInv
  <1>6. BlockInv'
    BY <1>5 DEF BlockInv
  <1>7. ASSUME NEW i \in 1..Len(requests), Whole(i)'
        PROVE  i <= Len(frames') /\ requests[i] = Payload(frames[i])'
    <2>1. Whole(i)
      BY <1>2, <1>7 DEF Whole, ClientStep
    <2>2. i <= Len(frames) /\ requests[i] = Payload(frames[i])
      BY <2>1 DEF FrameInv, IntactBeforeCut
    <2>3. i \in 1..Len(frames) /\ i <= Len(frames')
      BY <2>2, <1>2 DEF ClientStep
    <2>4. frames'[i] = frames[i] /\ sizes'[frames'[i]] = sizes[frames[i]]
      BY <2>3 DEF ClientStep, Alike
    <2>5. QED
      BY <2>2, <2>3, <2>4 DEF Payload
  <1>8. IntactBeforeCut'
    BY <1>3, <1>7 DEF IntactBeforeCut
  <1>9. QED
    BY <1>3, <1>4, <1>6, <1>8

\* The same frames in a byte stream that begins alike.
LEMMA LayStays ==
    ASSUME FrameInv, ClientStep, Ready', cut' = cut, LastWhole' = LastWhole,
           \A n \in Nat : n <= Len(Bytestream) => Begins(Bytestream', Bytestream, n),
           cut = 0 => Len(Bytestream') = Len(Bytestream)
    PROVE  LayInv'
  <1>1. Ready /\ Current' = Current /\ TypeOK /\ HistInv
    BY BlockStays DEF FrameInv
  <1>2. PICK off : /\ Laid(Bytestream, frames, sizes, Current, LastWhole, off)
                   /\ cut = 0 => off[LastWhole + 1] = Len(Bytestream)
    BY <1>1 DEF FrameInv, LayInv
  <1>3. /\ LastWhole \in Nat /\ LastWhole <= Len(frames) /\ Len(frames) \in Nat
        /\ Current \in Nat /\ Current > 0 /\ Current <= LastWhole + 1
    BY <1>1, Sorts, AtReady
  <1>4. Alike(frames, sizes, frames', sizes', Current, LastWhole)
    <2>1. \A f \in Current..LastWhole : f \in 1..Len(frames)
      BY <1>3
    <2>2. QED
      BY <2>1 DEF ClientStep, Alike
  <1>5. off[LastWhole + 1] \in Nat /\ off[LastWhole + 1] <= Len(Bytestream)
    BY <1>2, <1>3 DEF Laid
  <1>6. Begins(Bytestream', Bytestream, off[LastWhole + 1])
    BY <1>5
  <1>7. Laid(Bytestream', frames', sizes', Current, LastWhole, off)
    BY <1>2, <1>3, <1>4, <1>6, LaidStays
  <1>8. QED
    BY <1>1, <1>2, <1>7 DEF LayInv

\* Without the last frame, which is cut short.
LEMMA LayCut ==
    ASSUME FrameInv, ClientStep, Ready', cut = 0, clientPc = "payload",
           cut' = Len(frames), Len(frames) > 0,
           NEW t \in Seq(Byte), pipe' = pipe \o t
    PROVE  LayInv'
  <1>1. /\ Ready /\ Current' = Current /\ TypeOK /\ HistInv
        /\ LastWhole = Len(frames) /\ Bytestream = Pending
    BY BlockStays DEF FrameInv, LastWhole, Bytestream
  <1>2. PICK off : /\ Laid(Pending, frames, sizes, Current, Len(frames), off)
                   /\ off[Len(frames) + 1] = Len(Pending)
    BY <1>1 DEF FrameInv, LayInv
  <1>3. /\ Len(frames) \in Nat /\ Len(frames) \in Nat \ {0} /\ Current \in Nat /\ Current > 0
        /\ cut' # 0 /\ Current < Len(frames) /\ HeadLen \in Nat
    BY <1>1, Sorts DEF Ready
  <1>4. /\ buf = <<>> /\ Arrived \in Seq(Byte) /\ Len(Arrived) \in Nat /\ Len(Pending) \in Nat
        /\ isPrimeHeadReaded => Current <= Len(frames)
        /\ \A i \in 1..Len(Arrived) : Pending[i] = Arrived[i]
    BY <1>1, AtReady
  <1>5. off[Len(frames)] \in Nat /\ Len(Arrived) = off[Len(frames)] + HeadLen
    BY <1>2, LastFrame
  <1>6. PICK o : /\ Laid(Pending, frames, sizes, Current, Len(frames) - 1, o)
                 /\ o[Len(frames)] = off[Len(frames)]
    BY <1>2, <1>3, <1>4, LaidShorter
  <1>7. Arrived' = Arrived \o t
    BY <1>1, <1>4, ArrivedGrows, Zenon DEF ClientStep
  <1>8. Begins(Arrived', Pending, off[Len(frames)])
    <2>1. /\ Len(Arrived') = Len(Arrived) + Len(t) /\ Len(t) \in Nat
          /\ \A i \in 1..(Len(Arrived) + Len(t)) :
                Arrived'[i] = IF i <= Len(Arrived) THEN Arrived[i] ELSE t[i - Len(Arrived)]
      BY <1>4, <1>7, ConcatProperties
    <2>2. \A i \in 1..off[Len(frames)] :
             i \in 1..Len(Arrived) /\ i \in 1..(Len(Arrived) + Len(t)) /\ i <= Len(Arrived)
      BY <1>3, <1>4, <1>5, <2>1
    <2>3. Len(Arrived') \in Nat /\ off[Len(frames)] <= Len(Arrived')
      BY <1>3, <1>4, <1>5, <2>1
    <2>4. QED
      BY <2>1, <2>2, <2>3, <1>4 DEF Begins
  <1>9. Alike(frames, sizes, frames', sizes', Current, Len(frames) - 1)
    <2>1. \A f \in Current..(Len(frames) - 1) : f \in 1..Len(frames)
      BY <1>3
    <2>2. QED
      BY <2>1 DEF ClientStep, Alike
  <1>10. Laid(Arrived', frames', sizes', Current, Len(frames) - 1, o)
    <2>1. /\ Len(frames) - 1 \in Nat /\ Current <= (Len(frames) - 1) + 1
          /\ (Len(frames) - 1) + 1 = Len(frames)
      BY <1>3
    <2>2. Begins(Arrived', Pending, o[(Len(frames) - 1) + 1])
      BY <2>1, <1>6, <1>8
    <2>3. Current \in Nat /\ Laid(Pending, frames, sizes, Current, Len(frames) - 1, o)
      BY <1>3, <1>6
    <2>4. QED
      BY <2>1, <2>2, <2>3, <1>9, LaidStays
  <1>11. LastWhole' = Len(frames) - 1 /\ Bytestream' = Arrived'
    BY <1>3 DEF LastWhole, Bytestream
  <1>12. QED
    BY <1>1, <1>3, <1>10, <1>11 DEF LayInv

\* What is added at the end leaves the beginning.
LEMMA BeginsConcat ==
    ASSUME NEW z \in Seq(Byte), NEW t \in Seq(Byte)
    PROVE  \A n \in Nat : n <= Len(z) => Begins(z \o t, z, n)
  <1>1. /\ Len(z \o t) = Len(z) + Len(t) /\ Len(z) \in Nat /\ Len(t) \in Nat
        /\ \A i \in 1..(Len(z) + Len(t)) : (z \o t)[i] = IF i <= Len(z) THEN z[i] ELSE t[i - Len(z)]
    BY ConcatProperties
  <1>2. ASSUME NEW n \in Nat, n <= Len(z) PROVE Begins(z \o t, z, n)
    <2>1. \A i \in 1..n : i \in 1..(Len(z) + Len(t)) /\ i <= Len(z)
      BY <1>1, <1>2
    <2>2. Len(z \o t) \in Nat /\ n <= Len(z \o t)
      BY <1>1, <1>2
    <2>3. QED
      BY <1>1, <2>1, <2>2 DEF Begins
  <1>3. QED
    BY <1>2

\* Without a new frame the frames are the same.
LEMMA SameAlike ==
    ASSUME TypeOK, HistInv, UNCHANGED <<sizes, frames>>
    PROVE  Alike(frames, sizes, frames', sizes', 1, Len(frames))
  BY Sorts DEF Alike

\* The client dies, or the payload is not written whole.
LEMMA CutLay ==
    ASSUME FrameInv, ClientStep, NEW t \in Seq(Byte), pipe' = pipe \o t, clientPc = "payload",
           Len(frames) > 0, cut' = (IF cut # 0 THEN cut ELSE Len(frames))
    PROVE  LayInv'
  <1>1. SUFFICES ASSUME Ready' PROVE LayInv'
    BY DEF LayInv
  <1>2. CASE cut = 0
    BY <1>1, <1>2, LayCut
  <1>3. CASE cut # 0
    <2>1. Ready /\ TypeOK /\ HistInv
      BY <1>1, BlockStays DEF FrameInv
    <2>2. buf = <<>> /\ Arrived \in Seq(Byte) /\ (isPrimeHeadReaded => Current <= Len(frames))
      BY <2>1, AtReady
    <2>3. Arrived' = Arrived \o t
      BY <2>1, <2>2, ArrivedGrows, Zenon DEF ClientStep
    <2>4. Bytestream = Arrived /\ Bytestream' = Arrived \o t /\ LastWhole' = LastWhole /\ cut' = cut
      BY <1>3, <2>3 DEF Bytestream, LastWhole
    <2>5. \A n \in Nat : n <= Len(Bytestream) => Begins(Bytestream', Bytestream, n)
      BY <2>2, <2>4, BeginsConcat
    <2>6. QED
      BY <1>1, <1>3, <2>4, <2>5, LayStays
  <1>4. QED
    BY <1>2, <1>3

\* Nothing, or what is no longer to be written, is added.
LEMMA SameLay ==
    ASSUME FrameInv, ClientStep, NEW t \in Seq(Byte), pipe' = pipe \o t, t = Unwritten,
           clientPc' # "payload", cut' = cut, frames' = frames, cut = 0 \/ t = <<>>
    PROVE  LayInv'
  <1>1. SUFFICES ASSUME Ready' PROVE LayInv'
    BY DEF LayInv
  <1>2. Ready /\ TypeOK /\ HistInv
    BY <1>1, BlockStays DEF FrameInv
  <1>3. /\ buf = <<>> /\ Arrived \in Seq(Byte) /\ (isPrimeHeadReaded => Current <= Len(frames))
        /\ Len(Bytestream) \in Nat
    BY <1>2, AtReady
  <1>4. Arrived' = Arrived \o t
    BY <1>2, <1>3, ArrivedGrows DEF ClientStep
  <1>5. Unwritten' = <<>> /\ Pending = Arrived \o t
    BY DEF Unwritten, Pending
  <1>6. Pending' = Arrived' \o <<>>
    BY <1>5 DEF Pending
  <1>7. Pending' = Pending
    <2>1. Arrived \o t \in Seq(Byte)
      BY <1>3
    <2>2. (Arrived \o t) \o <<>> = Arrived \o t
      BY <2>1
    <2>3. QED
      BY <2>2, <1>4, <1>5, <1>6
  <1>8. cut # 0 => Arrived' = Arrived
    BY <1>3, <1>4
  <1>9. Bytestream' = Bytestream /\ LastWhole' = LastWhole
    BY <1>7, <1>8 DEF Bytestream, LastWhole
  <1>10. \A n \in Nat : n <= Len(Bytestream) => Begins(Bytestream', Bytestream, n)
    BY <1>3, <1>9 DEF Begins
  <1>11. QED
    BY <1>1, <1>9, <1>10, LayStays

\* The second write() of sendToStream(), whole or short.
LEMMA SendPayloadKeeps ==
    ASSUME FrameInv, SendPayload
    PROVE  BlockInv' /\ LayInv' /\ IntactBeforeCut'
  <1> DEFINE m == Len(sizes)
             k == PayloadBytes(sizes[m])
             t == SubSeq(Payload(m), 1, k)
  <1>1. /\ clientPc = "payload" /\ clientPc' = "idle" /\ pipe' = pipe \o t
        /\ cut' = IF k = sizes[m] \/ cut # 0 THEN cut ELSE Len(frames)
        /\ UNCHANGED <<sizes, frames, serverVars>>
    BY DEF SendPayload, EndFrame
  <1>2. TypeOK /\ HistInv
    BY DEF FrameInv
  <1>3. /\ Payload(m) \in Seq(Byte) /\ Len(Payload(m)) = sizes[m] /\ Unwritten = Payload(m)
        /\ Len(frames) > 0 /\ sizes[m] \in Nat /\ Len(frames) \in Nat
    BY <1>1, <1>2, UnwrittenIs, Sorts
  <1>4. k \in Nat /\ k <= sizes[m]
    <2>1. maxSize \in Nat /\ Len(pipe) \in Nat
      BY <1>2, Sorts DEF TypeOK
    <2>2. QED
      BY <2>1, <1>3 DEF PayloadBytes, Space
  <1>5. t \in Seq(Byte)
    BY <1>3, <1>4, Split
  <1>6. k = sizes[m] => t = Payload(m)
    BY <1>3, SubSeqFull
  <1> HIDE DEF t, k
  <1>7. ClientStep
    BY <1>1, <1>2, <1>3, SameAlike DEF ClientStep
  <1>8. LayInv'
    <2>1. CASE k = sizes[m] /\ cut = 0
      BY <2>1, <1>1, <1>3, <1>5, <1>6, <1>7, SameLay
    <2>2. CASE ~(k = sizes[m] /\ cut = 0)
      BY <2>2, <1>1, <1>3, <1>5, <1>7, CutLay, Zenon
    <2>3. QED
      BY <2>1, <2>2
  <1>9. QED
    BY <1>7, <1>8, BlockStays

\* The client dies after the header.
LEMMA ClientCrashKeeps ==
    ASSUME FrameInv, ClientCrash
    PROVE  BlockInv' /\ LayInv' /\ IntactBeforeCut'
  <1>1. /\ clientPc = "payload" /\ clientPc' = "crashed" /\ pipe' = pipe
        /\ cut' = (IF cut # 0 THEN cut ELSE Len(frames))
        /\ UNCHANGED <<sizes, frames, serverVars>>
    BY DEF ClientCrash, EndFrame
  <1>2. TypeOK /\ HistInv /\ pipe \in Seq(Byte)
    BY DEF FrameInv, TypeOK
  <1>3. Len(frames) > 0 /\ Len(frames) \in Nat
    BY <1>1, <1>2, UnwrittenIs, Sorts
  <1>4. pipe' = pipe \o <<>> /\ <<>> \in Seq(Byte)
    BY <1>1, <1>2
  <1>5. ClientStep
    BY <1>1, <1>2, <1>3, SameAlike DEF ClientStep
  <1>6. LayInv'
    BY <1>1, <1>3, <1>4, <1>5, CutLay, Zenon
  <1>7. QED
    BY <1>5, <1>6, BlockStays

\* The next client begins with a header.
LEMMA ClientRestartKeeps ==
    ASSUME FrameInv, ClientRestart
    PROVE  BlockInv' /\ LayInv' /\ IntactBeforeCut'
  <1>1. /\ clientPc = "crashed" /\ clientPc' = "idle" /\ pipe' = pipe /\ cut' = cut
        /\ UNCHANGED <<sizes, frames, serverVars>>
    BY DEF ClientRestart
  <1>2. TypeOK /\ HistInv /\ pipe \in Seq(Byte) /\ Len(frames) \in Nat
    BY Sorts DEF FrameInv, TypeOK
  <1>3. pipe' = pipe \o <<>> /\ <<>> \in Seq(Byte) /\ Unwritten = <<>>
    BY <1>1, <1>2 DEF Unwritten
  <1>4. ClientStep
    BY <1>1, <1>2, SameAlike DEF ClientStep
  <1>5. LayInv'
    BY <1>1, <1>3, <1>4, SameLay, Zenon
  <1>6. QED
    BY <1>4, <1>5, BlockStays

\* A whole frame after z.
LEMMA FrameBytes ==
    ASSUME NEW z \in Seq(Byte), NEW m \in 1..MaxMsgs, NEW n \in Nat
    PROVE  Extends((z \o Head_(m)) \o Bytes(m, HeadLen + 1, HeadLen + n), z, m, n)
  <1> DEFINE p == Bytes(m, HeadLen + 1, HeadLen + n)
             h == Head_(m)
  <1>1. HeadLen \in Nat /\ HeadLen > 0 /\ Len(z) \in Nat
    BY ConstantsAssumption
  <1>2. /\ h \in Seq(Byte) /\ Len(h) = HeadLen
        /\ \A i \in 1..HeadLen : h[i] = <<m, i>>
    BY HeadOf
  <1>3. /\ p \in Seq(Byte) /\ Len(p) = n
        /\ \A i \in 1..n : p[i] = <<m, HeadLen + i>>
    BY RestOf
  <1>4. PICK w : w = z \o h
    BY Zenon
  <1>5. PICK y : y = w \o p
    BY Zenon
  <1>6. /\ w \in Seq(Byte) /\ Len(w) = Len(z) + HeadLen
        /\ \A i \in 1..(Len(z) + HeadLen) : w[i] = IF i <= Len(z) THEN z[i] ELSE h[i - Len(z)]
    BY <1>2, <1>4, ConcatProperties, Zenon
  <1> HIDE DEF p, h
  <1>7. /\ Len(y) = (Len(z) + HeadLen) + n
        /\ \A i \in 1..((Len(z) + HeadLen) + n) :
              y[i] = IF i <= Len(z) + HeadLen THEN w[i] ELSE p[i - (Len(z) + HeadLen)]
    <2>1. w \in Seq(Byte)
      BY <1>6
    <2>2. /\ Len(y) = Len(w) + Len(p)
          /\ \A i \in 1..(Len(w) + Len(p)) : y[i] = IF i <= Len(w) THEN w[i] ELSE p[i - Len(w)]
      BY <2>1, <1>3, <1>5, ConcatProperties, Zenon
    <2>3. QED
      BY <2>2, <1>3, <1>6
  <1>8. Begins(y, z, Len(z))
    <2>1. \A i \in 1..Len(z) : /\ i \in 1..(Len(z) + HeadLen) /\ i <= Len(z)
                               /\ i \in 1..((Len(z) + HeadLen) + n) /\ i <= Len(z) + HeadLen
      BY <1>1
    <2>2. Len(y) \in Nat /\ Len(z) <= Len(y)
      BY <1>1, <1>7
    <2>3. QED
      BY <2>1, <2>2, <1>6, <1>7 DEF Begins
  <1>9. ASSUME NEW j \in 1..(HeadLen + n) PROVE y[Len(z) + j] = <<m, j>>
    <2>1. Len(z) + j \in 1..((Len(z) + HeadLen) + n) /\ j \in Nat
      BY <1>1
    <2>2. CASE j <= HeadLen
      <3>1. /\ Len(z) + j <= Len(z) + HeadLen /\ Len(z) + j \in 1..(Len(z) + HeadLen)
            /\ ~(Len(z) + j <= Len(z)) /\ (Len(z) + j) - Len(z) = j /\ j \in 1..HeadLen
        BY <2>1, <2>2, <1>1
      <3>2. y[Len(z) + j] = w[Len(z) + j]
        BY <3>1, <2>1, <1>7
      <3>3. w[Len(z) + j] = h[(Len(z) + j) - Len(z)]
        BY <3>1, <1>6
      <3>4. QED
        BY <3>1, <3>2, <3>3, <1>2
    <2>3. CASE ~(j <= HeadLen)
      <3>1. PICK i : i = j - HeadLen
        OBVIOUS
      <3>2. /\ i \in 1..n /\ ~(Len(z) + j <= Len(z) + HeadLen)
            /\ (Len(z) + j) - (Len(z) + HeadLen) = i /\ HeadLen + i = j
        BY <2>1, <2>3, <3>1, <1>1
      <3>3. y[Len(z) + j] = p[(Len(z) + j) - (Len(z) + HeadLen)]
        BY <3>2, <2>1, <1>7
      <3>4. QED
        BY <3>2, <3>3, <1>3
    <2>4. QED
      BY <2>2, <2>3
  <1>10. Extends(y, z, m, n)
    BY <1>7, <1>8, <1>9 DEF Extends
  <1>11. QED
    BY <1>4, <1>5, <1>10 DEF p, h

\* The first write(): a header that fits begins a frame at the end of the stream.
LEMMA SendHeadKeeps ==
    ASSUME FrameInv, NEW n \in Sizes, SendHead(n)
    PROVE  BlockInv' /\ LayInv' /\ IntactBeforeCut'
  <1> DEFINE m == Len(sizes) + 1
  <1>1. /\ clientPc = "idle" /\ Len(sizes) < MaxMsgs /\ sizes' = Append(sizes, n)
        /\ UNCHANGED <<cut, serverVars>>
        /\ \/ pipe' = pipe \o Head_(m) /\ frames' = Append(frames, m) /\ clientPc' = "payload"
           \/ UNCHANGED <<pipe, frames, clientPc>>
    <2>1. Len(sizes') = m
      BY DEF SendHead, FrameInv, TypeOK
    <2>2. QED
      BY <2>1 DEF SendHead
  <1>2. TypeOK /\ HistInv /\ sizes \in Seq(Sizes) /\ frames \in Seq(1..MaxMsgs) /\ pipe \in Seq(Byte)
    BY DEF FrameInv, TypeOK
  <1>3. /\ Len(sizes) \in Nat /\ Len(frames) \in Nat /\ m \in 1..MaxMsgs /\ n \in Nat
        /\ HeadLen \in Nat /\ MaxMsgs \in Nat
    BY <1>1, <1>2, Sorts, ConstantsAssumption
  <1>4. /\ sizes'[m] = n
        /\ \A i \in 1..Len(sizes) : sizes'[i] = sizes[i]
    BY <1>1, <1>2, AppendProperties
  <1>5. /\ Len(frames') \in Nat /\ Len(frames) <= Len(frames')
        /\ clientPc' = "payload" => Len(frames') = Len(frames) + 1 /\ frames'[Len(frames) + 1] = m
        /\ \A f \in 1..Len(frames) : frames'[f] = frames[f]
    <2>1. CASE frames' = frames /\ clientPc' = "idle"
      BY <2>1, <1>3
    <2>2. CASE frames' = Append(frames, m)
      <3>1. /\ Len(frames') = Len(frames) + 1 /\ frames'[Len(frames) + 1] = m
            /\ \A f \in 1..Len(frames) : frames'[f] = frames[f]
        BY <2>2, <1>2, <1>3, AppendProperties
      <3>2. QED
        BY <3>1, <1>3
    <2>3. QED
      BY <2>1, <2>2, <1>1
  <1>6. Alike(frames, sizes, frames', sizes', 1, Len(frames))
    BY <1>2, <1>4, <1>5, Sorts, Zenon DEF Alike
  <1>7. ClientStep
    BY <1>1, <1>3, <1>5, <1>6 DEF ClientStep
  <1>8. CASE UNCHANGED <<pipe, frames, clientPc>>
    <2>1. pipe' = pipe \o <<>> /\ <<>> \in Seq(Byte) /\ Unwritten = <<>> /\ clientPc' # "payload"
      BY <1>1, <1>2, <1>8 DEF Unwritten
    <2>2. LayInv'
      BY <2>1, <1>1, <1>7, <1>8, SameLay, Zenon
    <2>3. QED
      BY <2>2, <1>7, BlockStays
  <1>9. CASE pipe' = pipe \o Head_(m) /\ frames' = Append(frames, m) /\ clientPc' = "payload"
    <2>1. SUFFICES ASSUME Ready' PROVE LayInv'
      BY <1>7, BlockStays DEF LayInv
    <2>2. Ready /\ Current' = Current
      BY <1>7, <2>1, BlockStays
    <2>3. /\ buf = <<>> /\ Arrived \in Seq(Byte) /\ (isPrimeHeadReaded => Current <= Len(frames))
          /\ Bytestream = Arrived /\ Len(Arrived) \in Nat /\ Current <= LastWhole + 1
      BY <2>2, <1>1, AtReady
    <2>4. Head_(m) \in Seq(Byte)
      BY <1>3, HeadOf
    <2>5. Arrived' = Arrived \o Head_(m)
      BY <1>2, <1>6, <1>7, <1>9, <2>3, <2>4, ArrivedGrows, Zenon DEF ClientStep
    <2>6. CASE cut # 0
      <3>1. Bytestream' = Arrived \o Head_(m) /\ LastWhole' = LastWhole /\ cut' = cut
        BY <2>5, <2>6, <1>1 DEF Bytestream, LastWhole
      <3>2. \A i \in Nat : i <= Len(Bytestream) => Begins(Bytestream', Bytestream, i)
        BY <2>3, <2>4, <3>1, BeginsConcat
      <3>3. QED
        BY <2>1, <2>6, <3>1, <3>2, <1>7, LayStays
    <2>7. CASE cut = 0
      <3>1. /\ LastWhole = Len(frames) /\ LastWhole' = Len(frames) + 1 /\ cut' = 0
            /\ Bytestream' = Pending'
        BY <2>7, <1>1, <1>5, <1>9 DEF LastWhole, Bytestream
      <3>2. Unwritten' = Bytes(m, HeadLen + 1, HeadLen + n)
        <4>1. Len(sizes') = m
          BY <1>1, <1>2
        <4>2. QED
          BY <4>1, <1>4, <1>9 DEF Unwritten, Payload
      <3>3. Pending' = (Arrived \o Head_(m)) \o Bytes(m, HeadLen + 1, HeadLen + n)
        BY <2>5, <3>2 DEF Pending
      <3>4. Extends(Pending', Arrived, m, n)
        BY <3>3, <2>3, <1>3, FrameBytes
      <3>5. Filled(Arrived, frames, sizes, Current, Len(frames))
        BY <2>2, <2>3, <2>7, <3>1 DEF FrameInv, LayInv, Filled
      <3>6. Alike(frames, sizes, frames', sizes', Current, Len(frames))
        <4>1. \A f \in Current..Len(frames) : f \in 1..Len(frames)
          BY <1>2, Sorts
        <4>2. QED
          BY <4>1, <1>6 DEF Alike
      <3>7. frames'[Len(frames) + 1] = m /\ sizes'[frames'[Len(frames) + 1]] = n
        BY <1>4, <1>5, <1>9
      <3>8. Current \in Nat /\ Current <= Len(frames) + 1
        BY <1>2, <2>3, <3>1, Sorts
      <3>9. Extends(Pending', Arrived, frames'[Len(frames) + 1], n)
        BY <3>4, <3>7
      <3>10. Filled(Pending', frames', sizes', Current, Len(frames) + 1)
        BY <1>3, <2>3, <3>5, <3>6, <3>7, <3>8, <3>9, LaidAppend
      <3>11. QED
        BY <2>2, <3>1, <3>10 DEF LayInv, Filled
    <2>8. QED
      BY <2>6, <2>7
  <1>10. QED
    BY <1>1, <1>8, <1>9

-----------------------------------------------------------------------------
(* Steps of the listener                                                   *)

\* A sequence is its beginning and its rest.
LEMMA Halves ==
    ASSUME NEW s \in Seq(Byte), NEW n \in Nat, n <= Len(s)
    PROVE  s = SubSeq(s, 1, n) \o SubSeq(s, n + 1, Len(s))
  <1> DEFINE a == SubSeq(s, 1, n)
             b == SubSeq(s, n + 1, Len(s))
  <1>1. /\ a \in Seq(Byte) /\ Len(a) = n /\ Len(s) \in Nat
        /\ \A i \in 1..n : a[i] = s[i]
        /\ b \in Seq(Byte) /\ Len(b) = Len(s) - n
        /\ \A i \in 1..(Len(s) - n) : b[i] = s[n + i]
    BY Split
  <1> HIDE DEF a, b
  <1>2. /\ a \o b \in Seq(Byte) /\ Len(a \o b) = Len(a) + Len(b)
        /\ \A i \in 1..(Len(a) + Len(b)) : (a \o b)[i] = IF i <= Len(a) THEN a[i] ELSE b[i - Len(a)]
    BY <1>1, ConcatProperties
  <1>3. Len(a \o b) = Len(s)
    BY <1>1, <1>2
  <1>4. ASSUME NEW i \in 1..Len(s) PROVE (a \o b)[i] = s[i]
    <2>1. i \in 1..(Len(a) + Len(b))
      BY <1>1
    <2>2. CASE i <= n
      <3>1. i \in 1..n
        BY <2>2
      <3>2. QED
        BY <2>1, <2>2, <3>1, <1>1, <1>2
    <2>3. CASE ~(i <= n)
      <3>1. i - n \in 1..(Len(s) - n) /\ n + (i - n) = i
        BY <2>3, <1>1
      <3>2. QED
        BY <2>1, <2>3, <3>1, <1>1, <1>2
    <2>4. QED
      BY <2>2, <2>3, Zenon
  <1>5. a \o b = s
    BY <1>1, <1>2, <1>3, <1>4, SeqEqual, Zenon
  <1>6. QED
    BY <1>5, Zenon DEF a, b

\* The same bytes taken from the front, whatever comes at the end.
LEMMA RemainsConcat ==
    ASSUME NEW z \in Seq(Byte), NEW y \in Seq(Byte), NEW t \in Seq(Byte), NEW d \in Nat,
           Remains(y, z, d)
    PROVE  Remains(y \o t, z \o t, d)
  <1>1. /\ Len(z) \in Nat /\ Len(y) \in Nat /\ Len(t) \in Nat /\ Len(y) = Len(z) - d
        /\ \A i \in 1..Len(y) : y[i] = z[i + d]
    BY DEF Remains
  <1>2. /\ Len(y \o t) = Len(y) + Len(t)
        /\ \A i \in 1..(Len(y) + Len(t)) : (y \o t)[i] = IF i <= Len(y) THEN y[i] ELSE t[i - Len(y)]
    BY ConcatProperties
  <1>3. /\ Len(z \o t) = Len(z) + Len(t)
        /\ \A i \in 1..(Len(z) + Len(t)) : (z \o t)[i] = IF i <= Len(z) THEN z[i] ELSE t[i - Len(z)]
    BY ConcatProperties
  <1>4. ASSUME NEW i \in 1..(Len(y) + Len(t)) PROVE (y \o t)[i] = (z \o t)[i + d]
    <2>1. i + d \in 1..(Len(z) + Len(t)) /\ (i + d <= Len(z) <=> i <= Len(y))
      BY <1>1
    <2>2. CASE i <= Len(y)
      <3>1. i \in 1..Len(y)
        BY <2>2, <1>1
      <3>2. QED
        BY <2>1, <2>2, <3>1, <1>1, <1>2, <1>3
    <2>3. CASE ~(i <= Len(y))
      <3>1. (i + d) - Len(z) = i - Len(y)
        BY <1>1
      <3>2. QED
        BY <2>1, <2>3, <3>1, <1>2, <1>3
    <2>4. QED
      BY <2>2, <2>3, Zenon
  <1>5. Len(y \o t) = Len(z \o t) - d
    BY <1>1, <1>2, <1>3
  <1>6. QED
    BY <1>2, <1>4, <1>5 DEF Remains

\* Once a frame cut short has been reached nothing is claimed of what follows.
LEMMA ListenBeyond ==
    ASSUME FrameInv, Listen, ~Ready
    PROVE  BlockInv' /\ LayInv' /\ IntactBeforeCut'
  <1> DEFINE read == buf \o SubSeq(pipe, 1, ReadLen)
  <1>1. TypeOK /\ HistInv
    BY DEF FrameInv
  <1>2. /\ Len(requests) \in Nat /\ cut \in 0..Len(frames) /\ Len(frames) \in Nat
        /\ cut # 0 /\ cut <= Current /\ requests \in Seq(Seq(Byte))
    BY <1>1, Sorts DEF Ready, TypeOK
  <1>3. /\ UNCHANGED <<sizes, frames, cut>>
        /\ requests' = requests \/ requests' = Append(requests, read)
    BY Zenon DEF Listen, clientVars, Overrun, PartialBlock, HeadBlock, PayloadBlock
  <1>4. read \in Seq(Byte)
    BY <1>1, ReadIs DEF Known
  <1> HIDE DEF read
  <1>5. /\ Len(requests') \in Nat /\ Len(requests) <= Len(requests')
        /\ \A i \in 1..Len(requests) : requests'[i] = requests[i]
    <2>1. CASE requests' = requests
      BY <2>1, <1>2
    <2>2. CASE requests' = Append(requests, read)
      <3>1. /\ Len(requests') = Len(requests) + 1
            /\ \A i \in 1..Len(requests) : requests'[i] = requests[i]
        BY <2>2, <1>2, <1>4, AppendProperties
      <3>2. QED
        BY <3>1, <1>2
    <2>3. QED
      BY <2>1, <2>2, <1>3
  <1>6. ~Ready'
    BY <1>2, <1>3, <1>5 DEF Ready, Current
  <1>7. ASSUME NEW i \in 1..Len(requests'), Whole(i)'
        PROVE  i <= Len(frames') /\ requests'[i] = Payload(frames[i])'
    <2>1. Whole(i) /\ i \in 1..Len(requests)
      BY <1>2, <1>3, <1>5, <1>7 DEF Whole, Current
    <2>2. i <= Len(frames) /\ requests[i] = Payload(frames[i])
      BY <2>1 DEF FrameInv, IntactBeforeCut
    <2>3. QED
      BY <2>1, <2>2, <1>3, <1>5 DEF Payload
  <1>8. IntactBeforeCut'
    BY <1>7 DEF IntactBeforeCut
  <1>9. QED
    BY <1>6, <1>8 DEF BlockInv, LayInv

\* The header of a whole frame.
LEMMA ListenHead ==
    ASSUME FrameInv, Listen, Ready, ~isPrimeHeadReaded
    PROVE  BlockInv' /\ LayInv' /\ IntactBeforeCut'
  <1> DEFINE m == frames[Current]
             read == buf \o SubSeq(pipe, 1, ReadLen)
  <1>1. /\ TypeOK /\ HistInv /\ buf = <<>> /\ serverPc = "reading" /\ needReadBytes = HeadLen
        /\ ReadLen > 0 /\ pipe' = SubSeq(pipe, ReadLen + 1, Len(pipe)) /\ UNCHANGED clientVars
    BY DEF FrameInv, BlockInv, Listen
  <1>2. /\ pipe \in Seq(Byte) /\ Len(pipe) \in Nat /\ ReadLen \in Nat /\ ReadLen <= Len(pipe)
        /\ Len(pipe) > 0 /\ HeadLen \in Nat /\ HeadLen > 0 /\ Taken = 0
        /\ LastWhole \in Nat /\ LastWhole <= Len(frames) /\ Len(frames) \in Nat
        /\ Current \in Nat /\ Current > 0
    <2>1. /\ pipe \in Seq(Byte) /\ Len(pipe) \in Nat /\ ReadLen \in Nat /\ ReadLen <= Len(pipe)
          /\ Taken = 0
      BY <1>1, ReadIs DEF TypeOK, Taken
    <2>2. Len(pipe) > 0
      BY <2>1, <1>1
    <2>3. /\ HeadLen \in Nat /\ HeadLen > 0 /\ LastWhole \in Nat /\ LastWhole <= Len(frames)
          /\ Len(frames) \in Nat /\ Current \in Nat /\ Current > 0
      BY <1>1, Sorts
    <2>4. QED
      BY <2>1, <2>2, <2>3
  <1>3. PICK off : /\ Laid(Bytestream, frames, sizes, Current, LastWhole, off)
                   /\ cut = 0 => off[LastWhole + 1] = Len(Bytestream)
    BY DEF FrameInv, LayInv
  <1>4. /\ Current <= LastWhole
        /\ \/ Len(Arrived) >= HeadLen + sizes[m]
           \/ Len(Arrived) = HeadLen /\ cut = 0 /\ clientPc = "payload"
        /\ \A j \in 1..(HeadLen + sizes[m]) : j <= Len(Arrived) => Arrived[j] = <<m, j>>
    BY <1>2, <1>3, FirstFrame
  <1>5. sizes[m] \in Nat /\ m \in 1..MaxMsgs
    <2>1. Current \in 1..Len(frames)
      BY <1>2, <1>4
    <2>2. m \in 1..Len(sizes)
      BY <1>1, <2>1, Sorts
    <2>3. QED
      BY <1>1, <2>2, Sorts
  <1>6. Arrived = pipe
    BY <1>1, <1>2 DEF Arrived, HeadRead
  <1>7. Len(pipe) >= HeadLen /\ ReadLen = HeadLen
    BY <1>1, <1>2, <1>4, <1>5, <1>6 DEF ReadLen
  <1>8. read = SubSeq(pipe, 1, HeadLen) /\ Len(read) = HeadLen /\ read = Head_(m)
    <2>1. /\ SubSeq(pipe, 1, HeadLen) \in Seq(Byte) /\ Len(SubSeq(pipe, 1, HeadLen)) = HeadLen
          /\ \A i \in 1..HeadLen : SubSeq(pipe, 1, HeadLen)[i] = pipe[i]
      BY <1>2, <1>7, Split
    <2>2. /\ Head_(m) \in Seq(Byte) /\ Len(Head_(m)) = HeadLen
          /\ \A i \in 1..HeadLen : Head_(m)[i] = <<m, i>>
      BY <1>5, HeadOf
    <2>3. \A i \in 1..HeadLen : pipe[i] = <<m, i>>
      <3>1. \A i \in 1..HeadLen : i \in 1..(HeadLen + sizes[m]) /\ i <= Len(pipe)
        BY <1>2, <1>5, <1>7
      <3>2. QED
        BY <3>1, <1>4, <1>6
    <2>4. SubSeq(pipe, 1, HeadLen) = Head_(m)
      BY <2>1, <2>2, <2>3, SeqEqual, Zenon
    <2>5. read = SubSeq(pipe, 1, HeadLen)
      BY <2>1, <1>1, <1>7
    <2>6. QED
      BY <2>2, <2>4, <2>5, Zenon
  <1>9. read[1] = <<m, 1>> /\ HeadBlock(read) /\ UNCHANGED serverPc
    <2>1. read[1] = <<m, 1>>
      <3>1. 1 \in 1..HeadLen
        BY <1>2
      <3>2. QED
        BY <3>1, <1>5, <1>8, HeadOf, Zenon
    <2>2. ~Overrun
      BY <1>1, <1>2, <1>7 DEF Overrun, shift, BufferSize
    <2>3. ~PartialBlock(read) /\ ~PayloadBlock(read)
      BY <1>1, <1>7 DEF PartialBlock, PayloadBlock
    <2>4. QED
      BY <2>1, <2>2, <2>3, Zenon DEF Listen
  <1> HIDE DEF read
  <1>10. /\ buf' = <<>> /\ isPrimeHeadReaded' = TRUE /\ dataSize' = sizes[m]
         /\ needReadBytes' = sizes[m] /\ requests' = requests
    BY <1>9 DEF HeadBlock
  <1>11. UNCHANGED <<sizes, frames, cut, clientPc, serverPc, requests>> /\ Current' = Current
    BY <1>1, <1>9, <1>10 DEF clientVars, Current
  <1>12. Ready' /\ LastWhole' = LastWhole /\ Unwritten' = Unwritten
    BY <1>11 DEF Ready, LastWhole, Unwritten, Payload
  <1>13. Arrived' = Arrived
    <2>1. HeadRead' = Head_(m)
      BY <1>10, <1>11 DEF HeadRead, Head_, Bytes, Current
    <2>2. Arrived' = (Head_(m) \o <<>>) \o pipe'
      BY <2>1, <1>10 DEF Arrived
    <2>3. Head_(m) \in Seq(Byte) /\ Head_(m) \o <<>> = Head_(m)
      BY <1>5, HeadOf
    <2>4. pipe = SubSeq(pipe, 1, HeadLen) \o SubSeq(pipe, HeadLen + 1, Len(pipe))
      BY <1>2, <1>7, Halves, Zenon
    <2>5. QED
      BY <2>2, <2>3, <2>4, <1>1, <1>6, <1>7, <1>8, Zenon
  <1>14. Bytestream' = Bytestream
    BY <1>11, <1>12, <1>13 DEF Bytestream, Pending
  <1>15. BlockInv'
    BY <1>1, <1>4, <1>2, <1>10, <1>11, <1>12 DEF BlockInv
  <1>16. LayInv'
    BY <1>3, <1>11, <1>12, <1>14 DEF LayInv
  <1>17. IntactBeforeCut'
    BY <1>11 DEF FrameInv, IntactBeforeCut, Whole, Payload
  <1>18. QED
    BY <1>15, <1>16, <1>17

\* The payload of a whole frame.
LEMMA ListenPayload ==
    ASSUME FrameInv, Listen, Ready, isPrimeHeadReaded
    PROVE  BlockInv' /\ LayInv' /\ IntactBeforeCut'
  <1>1. PICK m, s : m = frames[Current] /\ s = sizes[m]
    OBVIOUS
  <1> DEFINE read == buf \o SubSeq(pipe, 1, ReadLen)
  <1>2. /\ TypeOK /\ HistInv /\ buf = <<>> /\ serverPc = "reading" /\ needReadBytes = s /\ dataSize = s
        /\ Current <= LastWhole
        /\ ReadLen > 0 /\ pipe' = SubSeq(pipe, ReadLen + 1, Len(pipe)) /\ UNCHANGED clientVars
    BY <1>1 DEF FrameInv, BlockInv, Listen
  <1>3. /\ pipe \in Seq(Byte) /\ Len(pipe) \in Nat /\ ReadLen \in Nat /\ ReadLen <= Len(pipe)
        /\ Len(pipe) > 0 /\ HeadLen \in Nat /\ HeadLen > 0 /\ Taken = HeadLen
        /\ LastWhole \in Nat /\ LastWhole <= Len(frames) /\ Len(frames) \in Nat
        /\ Current \in Nat /\ Current > 0 /\ Len(requests) \in Nat
    <2>1. /\ pipe \in Seq(Byte) /\ Len(pipe) \in Nat /\ ReadLen \in Nat /\ ReadLen <= Len(pipe)
          /\ Taken = HeadLen
      BY <1>2, ReadIs DEF TypeOK, Taken
    <2>2. Len(pipe) > 0
      BY <2>1, <1>2
    <2>3. /\ HeadLen \in Nat /\ HeadLen > 0 /\ LastWhole \in Nat /\ LastWhole <= Len(frames)
          /\ Len(frames) \in Nat /\ Current \in Nat /\ Current > 0 /\ Len(requests) \in Nat
      BY <1>2, Sorts DEF TypeOK
    <2>4. QED
      BY <2>1, <2>2, <2>3
  <1>4. Current \in 1..Len(frames) /\ s \in Nat /\ m \in 1..MaxMsgs
    BY <1>1, <1>2, <1>3, Sorts
  <1>5. PICK off : /\ Laid(Bytestream, frames, sizes, Current, LastWhole, off)
                   /\ cut = 0 => off[LastWhole + 1] = Len(Bytestream)
    BY DEF FrameInv, LayInv
  <1>6. /\ off[Current + 1] = HeadLen + s
        /\ \/ Len(Arrived) >= HeadLen + s
           \/ Len(Arrived) = HeadLen /\ cut = 0 /\ clientPc = "payload"
        /\ \A j \in 1..(HeadLen + s) : j <= Len(Arrived) => Arrived[j] = <<m, j>>
    BY <1>1, <1>3, <1>5, FirstFrame
  <1>7. /\ Arrived \in Seq(Byte) /\ Len(Arrived) = HeadLen + Len(pipe)
        /\ \A i \in 1..Len(pipe) : Arrived[HeadLen + i] = pipe[i]
    <2>1. isPrimeHeadReaded => Current <= Len(frames)
      BY <1>3, <1>4
    <2>2. QED
      BY <2>1, <1>2, <1>3, ArrivedIs
  <1>8. Len(Arrived) >= HeadLen + s /\ Len(pipe) >= s /\ ReadLen = s /\ s > 0
    <2>1. Len(Arrived) >= HeadLen + s
      BY <1>3, <1>6, <1>7
    <2>2. Len(pipe) >= s
      BY <2>1, <1>3, <1>4, <1>7
    <2>3. QED
      BY <2>1, <2>2, <1>2, <1>3, <1>4 DEF ReadLen
  <1>9. read = Payload(m) /\ read \in Seq(Byte) /\ Len(read) = s
    <2>1. /\ SubSeq(pipe, 1, s) \in Seq(Byte) /\ Len(SubSeq(pipe, 1, s)) = s
          /\ \A i \in 1..s : SubSeq(pipe, 1, s)[i] = pipe[i]
      BY <1>3, <1>4, <1>8, Split
    <2>2. /\ Payload(m) \in Seq(Byte) /\ Len(Payload(m)) = s
          /\ \A i \in 1..s : Payload(m)[i] = <<m, HeadLen + i>>
      <3>1. Payload(m) = Bytes(m, HeadLen + 1, HeadLen + s)
        BY <1>1 DEF Payload
      <3>2. QED
        BY <3>1, <1>4, RestOf
    <2>3. \A i \in 1..s : pipe[i] = <<m, HeadLen + i>>
      <3>1. \A i \in 1..s : /\ HeadLen + i \in 1..(HeadLen + s) /\ HeadLen + i <= Len(Arrived)
                            /\ i \in 1..Len(pipe)
        BY <1>3, <1>4, <1>7, <1>8
      <3>2. QED
        BY <3>1, <1>6, <1>7
    <2>4. SubSeq(pipe, 1, s) = Payload(m)
      BY <2>1, <2>2, <2>3, SeqEqual, Zenon
    <2>5. read = SubSeq(pipe, 1, s)
      BY <2>1, <1>2, <1>8
    <2>6. QED
      BY <2>2, <2>4, <2>5, Zenon
  <1>10. PayloadBlock(read) /\ UNCHANGED serverPc
    <2>1. ~Overrun
      <3>1. BufferSize = s /\ shift = 0
        BY <1>2 DEF BufferSize, shift
      <3>2. ~(shift + ReadLen > BufferSize)
        BY <3>1, <1>4, <1>8
      <3>3. QED
        BY <3>2, Zenon DEF Overrun
    <2>2. ~PartialBlock(read) /\ ~HeadBlock(read)
      BY <1>2, <1>8 DEF PartialBlock, HeadBlock
    <2>3. QED
      BY <2>1, <2>2 DEF Listen
  <1> HIDE DEF read
  <1>11. /\ buf' = <<>> /\ isPrimeHeadReaded' = FALSE /\ requests' = Append(requests, read)
         /\ needReadBytes' = HeadLen /\ UNCHANGED <<sizes, frames, cut, clientPc, serverPc>>
    BY <1>2, <1>10 DEF PayloadBlock, clientVars
  <1>12. /\ Len(requests') = Current /\ Current' = Current + 1 /\ requests'[Current] = read
         /\ \A i \in 1..Len(requests) : requests'[i] = requests[i]
    <2>1. requests \in Seq(Seq(Byte))
      BY <1>2 DEF TypeOK
    <2>2. /\ Len(requests') = Len(requests) + 1 /\ requests'[Len(requests) + 1] = read
          /\ \A i \in 1..Len(requests) : requests'[i] = requests[i]
      BY <2>1, <1>9, <1>11, AppendProperties
    <2>3. QED
      BY <2>2 DEF Current
  <1>13. LastWhole' = LastWhole /\ Unwritten' = Unwritten
    BY <1>11 DEF LastWhole, Unwritten, Payload
  <1>14. IntactBeforeCut'
    <2>1. ASSUME NEW i \in 1..Len(requests'), Whole(i)'
          PROVE  i <= Len(frames') /\ requests'[i] = Payload(frames[i])'
      <3>1. Whole(i) /\ Payload(frames[i])' = Payload(frames[i])
        BY <1>11, <2>1 DEF Whole, Payload
      <3>2. CASE i = Current
        BY <3>1, <3>2, <1>1, <1>4, <1>9, <1>11, <1>12
      <3>3. CASE i # Current
        <4>1. i \in 1..Len(requests)
          BY <3>3, <1>3, <1>12 DEF Current
        <4>2. i <= Len(frames) /\ requests[i] = Payload(frames[i])
          BY <4>1, <3>1 DEF FrameInv, IntactBeforeCut
        <4>3. QED
          BY <4>1, <4>2, <3>1, <1>11, <1>12
      <3>4. QED
        BY <3>2, <3>3
    <2>2. QED
      BY <2>1 DEF IntactBeforeCut
  <1>15. BlockInv'
    <2>1. Current' <= LastWhole' + 1
      BY <1>2, <1>3, <1>12, <1>13
    <2>2. cut' = 0 /\ clientPc' = "payload" => Current' <= LastWhole'
      <3>1. SUFFICES ASSUME cut = 0, clientPc = "payload" PROVE Current < LastWhole
        BY <3>1, <1>3, <1>11, <1>12, <1>13
      <3>2. LastWhole = Len(frames) /\ Bytestream = Pending
        BY <3>1 DEF LastWhole, Bytestream
      <3>3. off[LastWhole] \in Nat /\ Len(Arrived) = off[LastWhole] + HeadLen
        BY <3>1, <3>2, <1>5, LastFrame
      <3>4. off[LastWhole] > 0
        BY <3>3, <1>3, <1>4, <1>8
      <3>5. off[Current] = 0
        BY <1>5 DEF Laid
      <3>6. QED
        BY <3>4, <3>5, <1>2, <1>3
    <2>3. QED
      BY <2>1, <2>2, <1>2, <1>11 DEF BlockInv
  <1>16. LayInv'
    <2>1. /\ pipe' \in Seq(Byte) /\ Len(pipe') = Len(pipe) - s
          /\ \A i \in 1..(Len(pipe) - s) : pipe'[i] = pipe[s + i]
      BY <1>2, <1>3, <1>4, <1>8, Split
    <2>2. Arrived' = pipe'
      BY <2>1, <1>11 DEF Arrived, HeadRead
    <2>3. Remains(pipe', Arrived, HeadLen + s)
      <3>1. \A i \in 1..Len(pipe') : i + (HeadLen + s) = HeadLen + (s + i) /\ s + i \in 1..Len(pipe)
        BY <2>1, <1>3, <1>4
      <3>2. Len(pipe') = Len(Arrived) - (HeadLen + s)
        BY <2>1, <1>3, <1>4, <1>7
      <3>3. QED
        BY <3>1, <3>2, <2>1, <1>7 DEF Remains
    <2>4. Unwritten \in Seq(Byte) /\ HeadLen + s \in Nat
      BY <1>2, <1>3, <1>4, UnwrittenIs
    <2>5. Remains(pipe' \o Unwritten, Arrived \o Unwritten, HeadLen + s)
      BY <2>1, <2>3, <2>4, <1>7, RemainsConcat
    <2>6. Remains(Bytestream', Bytestream, HeadLen + sizes[frames[Current]])
      BY <1>1, <2>2, <2>3, <2>5, <1>11, <1>13 DEF Bytestream, Pending
    <2>7. Sized(frames, sizes, Current, LastWhole) /\ Len(Bytestream) \in Nat
      BY AtReady
    <2>8. LaidAgain(Bytestream', Bytestream, frames, sizes, Current + 1, LastWhole, off)
      BY <2>6, <2>7, <1>2, <1>3, <1>5, LaidDrop
    <2>9. PICK o : /\ Laid(Bytestream', frames, sizes, Current + 1, LastWhole, o)
                   /\ cut = 0 => o[LastWhole + 1] = Len(Bytestream')
      BY <2>8, <1>5 DEF LaidAgain
    <2>10. QED
      BY <2>9, <1>11, <1>12, <1>13 DEF LayInv
  <1>17. QED
    BY <1>14, <1>15, <1>16

-----------------------------------------------------------------------------
(* The invariant                                                           *)

\* In frames that lie one after the other, and are all there is, every byte is followed
\* by the next one of its frame or by the first one of the next frame.
LEMMA InStepHolds ==
    ASSUME FrameInv
    PROVE  InStep
  <1>1. SUFFICES ASSUME cut = 0 PROVE InStep
    BY DEF InStep
  <1> DEFINE k == Current
             n == Len(frames)
             P == Pending
  <1>2. /\ Ready /\ TypeOK /\ HistInv /\ LastWhole = n /\ Bytestream = P /\ serverPc = "reading"
    BY <1>1 DEF Ready, FrameInv, LastWhole, Bytestream, BlockInv
  <1>3. /\ n \in Nat /\ k \in Nat /\ k > 0 /\ k <= n + 1 /\ HeadLen \in Nat /\ HeadLen > 0
        /\ P \in Seq(Byte) /\ Len(P) \in Nat /\ Sized(frames, sizes, k, n)
        /\ k = Len(requests) + 1 /\ Len(requests) \in Nat
    BY <1>2, Sorts, AtReady DEF Current
  <1>4. PICK off : Laid(P, frames, sizes, k, n, off) /\ off[n + 1] = Len(P)
    BY <1>1, <1>2 DEF FrameInv, LayInv
  <1> HIDE DEF k, n, P
  <1>5. /\ \A f \in k..(n + 1) : off[f] \in Nat
        /\ \A f, g \in k..(n + 1) : f <= g => off[f] <= off[g]
        /\ off[k] = 0
    BY <1>4 DEF Laid
  <1>6. ASSUME NEW f \in k..n
        PROVE  /\ off[f] \in Nat /\ sizes[frames[f]] \in Nat /\ off[f + 1] \in Nat
               /\ off[f + 1] = off[f] + HeadLen + sizes[frames[f]] /\ off[f + 1] <= Len(P)
               /\ \A j \in 1..(HeadLen + sizes[frames[f]]) : P[off[f] + j] = <<frames[f], j>>
    <2>1. f \in k..(n + 1) /\ f + 1 \in k..(n + 1) /\ n + 1 \in k..(n + 1) /\ f + 1 <= n + 1
      BY <1>3
    <2>2. sizes[frames[f]] \in Nat
      BY <1>3 DEF Sized
    <2>3. off[f] \in Nat /\ off[f + 1] \in Nat /\ off[f + 1] <= off[n + 1]
      BY <2>1, <1>5
    <2>4. /\ off[f + 1] = off[f] + HeadLen + sizes[frames[f]]
          /\ \A j \in 1..(HeadLen + sizes[frames[f]]) : P[off[f] + j] = <<frames[f], j>>
      BY <1>4 DEF Laid
    <2>5. QED
      BY <2>2, <2>3, <2>4, <1>4
  <1>7. k <= n => Len(P) > 0
    <2>1. SUFFICES ASSUME k <= n PROVE Len(P) > 0
      OBVIOUS
    <2>2. k \in k..n
      BY <2>1, <1>3
    <2>3. off[k + 1] = off[k] + HeadLen + sizes[frames[k]] /\ off[k + 1] <= Len(P)
          /\ sizes[frames[k]] \in Nat
      BY <2>2, <1>6
    <2>4. QED
      BY <2>3, <1>3, <1>5
  <1>8. k = n + 1 => Len(P) = 0
    BY <1>4, <1>5
  <1>9. P = <<>> <=> Len(requests) = n
    <2>1. P = <<>> <=> Len(P) = 0
      BY <1>3
    <2>2. Len(requests) = n <=> k = n + 1
      BY <1>3
    <2>3. QED
      BY <2>1, <2>2, <1>3, <1>7, <1>8
  <1>10. ASSUME P # <<>>
         PROVE  P[1] = <<frames[k], 1>> /\ P[Len(P)] = <<frames[n], FrameLen(frames[n])>>
    <2>1. k \in k..n /\ n \in k..n
      BY <1>3, <1>9, <1>10
    <2>2. P[1] = <<frames[k], 1>>
      <3>1. 1 \in 1..(HeadLen + sizes[frames[k]]) /\ off[k] + 1 = 1
        BY <2>1, <1>3, <1>5, <1>6
      <3>2. P[off[k] + 1] = <<frames[k], 1>>
        BY <2>1, <3>1, <1>6
      <3>3. QED
        BY <3>1, <3>2
    <2>3. P[Len(P)] = <<frames[n], FrameLen(frames[n])>>
      <3>1. PICK a \in Nat, s \in Nat : a = off[n] /\ s = sizes[frames[n]] /\ off[n + 1] = a + HeadLen + s
        BY <2>1, <1>6, Zenon
      <3>2. HeadLen + s \in 1..(HeadLen + s) /\ a + (HeadLen + s) = a + HeadLen + s
        BY <1>3
      <3>3. P[a + (HeadLen + s)] = <<frames[n], HeadLen + s>>
        BY <2>1, <3>1, <3>2, <1>6, Zenon
      <3>4. QED
        BY <3>1, <3>2, <3>3, <1>4 DEF FrameLen
    <2>4. QED
      BY <2>2, <2>3
  <1>11. ASSUME NEW i \in 1..(Len(P) - 1)
         PROVE  Follows(P[i], P[i + 1])
    <2>1. i \in 1..off[n + 1]
      BY <1>3, <1>4
    <2>2. PICK f \in k..n : off[f] < i /\ i <= off[f + 1]
      BY <2>1, <1>4 DEF Laid
    <2>3. PICK a \in Nat, s \in Nat : /\ a = off[f] /\ s = sizes[frames[f]] /\ off[f + 1] = a + HeadLen + s
                                     /\ \A j \in 1..(HeadLen + s) : P[a + j] = <<frames[f], j>>
      BY <1>6, Zenon
    <2>4. PICK j : j = i - a
      OBVIOUS
    <2>5. j \in 1..(HeadLen + s) /\ a + j = i /\ i \in Nat
      <3>1. a < i /\ i <= a + HeadLen + s /\ i \in Nat
        BY <2>2, <2>3, <1>3
      <3>2. QED
        BY <3>1, <2>4, <1>3
    <2>6. P[i] = <<frames[f], j>> /\ P[i][1] = frames[f] /\ P[i][2] = j
      BY <2>3, <2>5
    <2>7. FrameLen(frames[f]) = HeadLen + s
      BY <2>3 DEF FrameLen
    <2>8. CASE j < FrameLen(frames[f])
      <3>1. j + 1 \in 1..(HeadLen + s) /\ a + (j + 1) = i + 1
        BY <2>5, <2>7, <2>8, <1>3
      <3>2. P[i + 1] = <<frames[f], j + 1>>
        BY <3>1, <2>3
      <3>3. QED
        BY <3>2, <2>6, <2>8 DEF Follows
    <2>9. CASE ~(j < FrameLen(frames[f]))
      <3>1. j = HeadLen + s
        BY <2>5, <2>7, <2>9, <1>3
      <3>2. i = off[f + 1]
        <4>1. a + (HeadLen + s) = a + HeadLen + s
          BY <1>3
        <4>2. QED
          BY <4>1, <3>1, <2>3, <2>5
      <3>3. f # n
        BY <3>2, <1>3, <1>4
      <3>4. f + 1 \in k..n /\ f \in 1..(n - 1)
        BY <3>3, <1>3
      <3>5. 1 \in 1..(HeadLen + sizes[frames[f + 1]])
        <4>1. PICK s2 \in Nat : s2 = sizes[frames[f + 1]]
          BY <3>4, <1>6
        <4>2. 1 \in 1..(HeadLen + s2)
          BY <1>3
        <4>3. QED
          BY <4>1, <4>2
      <3>6. P[off[f + 1] + 1] = <<frames[f + 1], 1>>
        BY <3>4, <3>5, <1>6
      <3>7. P[i + 1] = <<frames[f + 1], 1>>
        BY <3>2, <3>6
      <3>8. \E g \in 1..(Len(frames) - 1) : frames[g] = P[i][1] /\ P[i + 1] = <<frames[g + 1], 1>>
        BY <3>4, <3>7, <2>6 DEF n
      <3>9. QED
        BY <3>8, <2>6, <2>9 DEF Follows
    <2>10. QED
      BY <2>8, <2>9
  <1>12. QED
    BY <1>2, <1>3, <1>9, <1>10, <1>11 DEF InStep, k, n, P

\* Nothing has been sent.
LEMMA InitFrames == Init => FrameInv
  <1> SUFFICES ASSUME Init PROVE FrameInv
    OBVIOUS
  <1>1. TypeOK
    <2>1. InitPipeSize \in Nat /\ MaxCrashes \in Nat /\ HeadLen \in Nat
      BY ConstantsAssumption
    <2>2. <<>> \in Seq(Sizes) /\ <<>> \in Seq(1..MaxMsgs) /\ <<>> \in Seq(Byte) /\ <<>> \in Seq(Seq(Byte))
      OBVIOUS
    <2>3. /\ Len(<<>>) = 0 /\ 0 \in 0..0 /\ 0 \in 0..MaxCrashes /\ 0 <= InitPipeSize
      BY <2>1
    <2>4. sizes \in Seq(Sizes) /\ frames \in Seq(1..MaxMsgs) /\ cut \in 0..Len(frames)
      BY <2>2, <2>3 DEF Init
    <2>5. pipe \in Seq(Byte) /\ buf \in Seq(Byte) /\ requests \in Seq(Seq(Byte))
      BY <2>2 DEF Init
    <2>6. maxSize \in Nat /\ Len(pipe) <= maxSize /\ crashes \in 0..MaxCrashes
      BY <2>1, <2>3 DEF Init
    <2>7. QED
      BY <2>4, <2>5, <2>6, Zenon DEF Init, TypeOK
  <1>2. HistInv /\ IntactBeforeCut
    BY ConstantsAssumption DEF Init, HistInv, IntactBeforeCut
  <1>3. Current = 1 /\ LastWhole = 0 /\ cut = 0 /\ Len(frames) = 0
    BY DEF Init, Current, LastWhole
  <1>4. BlockInv
    BY <1>3 DEF Init, BlockInv
  <1>5. Pending = <<>> /\ Bytestream = <<>>
    BY DEF Init, Pending, Arrived, Unwritten, HeadRead, Bytestream
  <1>6. LayInv
    <2> DEFINE off == [f \in 1..(0 + 1) |-> 0]
    <2>1. off[1] = 0 /\ off[0 + 1] = 0 /\ off \in [1..(0 + 1) -> Nat]
      OBVIOUS
    <2>2. Len(<<>>) = 0 /\ 1..0 = {}
      OBVIOUS
    <2>3. \A f, g \in 1..(0 + 1) : off[f] <= off[g]
      OBVIOUS
    <2> HIDE DEF off
    <2>4. Laid(<<>>, frames, sizes, 1, 0, off)
      BY <2>1, <2>2, <2>3 DEF Laid
    <2>5. QED
      BY <2>1, <2>2, <2>4, <1>3, <1>5 DEF LayInv
  <1>7. QED
    BY <1>1, <1>2, <1>4, <1>6 DEF FrameInv

\* Every step of the two processes preserves the inductive invariant.
LEMMA StepFrames == FrameInv /\ [Next]_vars => FrameInv'
  <1> SUFFICES ASSUME FrameInv, [Next]_vars PROVE FrameInv'
    OBVIOUS
  <1>1. TypeOK' /\ HistInv'
    BY StepTypes DEF FrameInv
  <1>2. SUFFICES BlockInv' /\ LayInv' /\ IntactBeforeCut'
    BY <1>1 DEF FrameInv
  <1>3. CASE \E n \in Sizes : SendHead(n)
    BY <1>3, SendHeadKeeps
  <1>4. CASE SendPayload
    BY <1>4, SendPayloadKeeps
  <1>5. CASE ClientCrash
    BY <1>5, ClientCrashKeeps
  <1>6. CASE ClientRestart
    BY <1>6, ClientRestartKeeps
  <1>7. CASE Listen
    BY <1>7, ListenBeyond, ListenHead, ListenPayload
  <1>8. CASE UNCHANGED vars
    <2>1. UNCHANGED <<sizes, clientPc, frames, cut, pipe, buf, dataSize, needReadBytes,
                      isPrimeHeadReaded, serverPc, requests>>
      BY <1>8 DEF vars, clientVars, serverVars
    <2>2. UNCHANGED <<Ready, Current, LastWhole, Bytestream>>
      BY <2>1 DEF Ready, Current, LastWhole, Bytestream, Pending, Arrived, HeadRead, Unwritten,
                  Payload, Head_, Bytes
    <2>3. BlockInv' /\ LayInv'
      BY <2>1, <2>2 DEF FrameInv, BlockInv, LayInv
    <2>4. IntactBeforeCut'
      BY <2>1 DEF FrameInv, IntactBeforeCut, Whole, Payload
    <2>5. QED
      BY <2>3, <2>4
  <1>9. QED
    BY <1>3, <1>4, <1>5, <1>6, <1>7, <1>8 DEF Next

\* What sendToStream() wrote comes out of startListen() as it went in: for every
\* frame length, pipe capacity and interleaving, the requests are the payloads of the
\* frames, one by one and unchanged, up to the first frame that a full pipe or a crash
\* of the client cut short, and until then no byte is lost, doubled or out of place.
THEOREM FramesAlwaysHold == Spec => []FramesHold
  <1>1. FrameInv => FramesHold
    BY InStepHolds DEF FrameInv, FramesHold
  <1>2. QED
    BY <1>1, InitFrames, StepFrames, PTL DEF Spec
=============================================================================
